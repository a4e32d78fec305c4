--------------------------- MODULE KeyPathProofs ---------------------------
(***************************************************************************)
(* Theorems about KeyPath and the KeyDriver in it, for any set of digits   *)
(* and any password: reset_index follows the letters exactly, only the     *)
(* four letters in a row open the change of the password, and the loop and *)
(* the driver judge the same presses alike.                                *)
(***************************************************************************)
EXTENDS KeyPath, Integers, SequenceTheorems, TLAPS

(* The last n keys are the first n letters of the sequence. *)
Ends(n) ==
  /\ n <= Len(typed)
  /\ \A i \in 1..n : typed[Len(typed) - n + i] = ResetSequence[i]

(* reset_index without a CHOOSE: since no letter comes twice, the keys end *)
(* with at most one part of the sequence.                                  *)
Follows == \A n \in 1..3 : Ends(n) <=> driver.progress = n

(* The shape of the driver's variables. *)
DriverStates ==
  [password : Seq(Digits), buffer : Seq(Digits), progress : 0..3,
   changing : BOOLEAN, led : BOOLEAN]

(* The types, with those of the history too.                              *)
PathTypes ==
  /\ driver \in DriverStates
  /\ Len(driver.password) = PasswordLength /\ Len(driver.buffer) <= PasswordLength
  /\ buffer \in Seq(Digits) /\ Len(buffer) <= PasswordLength
  /\ opened \in BOOLEAN /\ cleared \in BOOLEAN
  /\ typed \in Seq(Keys) /\ Len(typed) <= 4

(* The inductive invariant. *)
PathInd == PathTypes /\ Follows /\ SameInput

-----------------------------------------------------------------------------
(* The sequence and the password.                                          *)

(* Four letters, each another one. *)
LEMMA Sequence ==
  /\ Len(ResetSequence) = 4 /\ ResetSequence \in Seq(Keys)
  /\ ResetSequence[1] = "A" /\ ResetSequence[2] = "B"
  /\ ResetSequence[3] = "C" /\ ResetSequence[4] = "D"
  /\ \A n, m \in 1..4 : ResetSequence[n] = ResetSequence[m] => n = m
<1>1. /\ Len(ResetSequence) = 4 /\ ResetSequence \in Seq(Keys)
      /\ ResetSequence[1] = "A" /\ ResetSequence[2] = "B"
      /\ ResetSequence[3] = "C" /\ ResetSequence[4] = "D"
  BY DEF ResetSequence, Keys, Letters
<1>2. \A n \in 1..4 : n = 1 \/ n = 2 \/ n = 3 \/ n = 4
  OBVIOUS
<1> QED
  BY <1>1, <1>2

(* A password has a length. *)
LEMMA PasswordHasLength ==
  /\ PasswordLength \in Nat \ {0} /\ FirstPassword \in Seq(Digits)
  /\ PasswordLength = Len(FirstPassword)
BY DriverAssumption DEF PasswordLength

-----------------------------------------------------------------------------
(* What the last keys are.                                                 *)

(* What a sequence is. *)
LEMMA Lengths ==
  ASSUME NEW S, NEW h \in Seq(S)
  PROVE  Len(h) \in Nat /\ DOMAIN h = 1..Len(h) /\ \A i \in 1..Len(h) : h[i] \in S
OBVIOUS

(* What a sequence is with one more at its end. *)
LEMMA Appended ==
  ASSUME NEW S, NEW h \in Seq(S), NEW e \in S
  PROVE  /\ Append(h, e) \in Seq(S) /\ Len(Append(h, e)) = Len(h) + 1
         /\ Append(h, e)[Len(h) + 1] = e /\ \A i \in 1..Len(h) : Append(h, e)[i] = h[i]
OBVIOUS

(* What is left of it without its first element. *)
LEMMA Shortened ==
  ASSUME NEW S, NEW h \in Seq(S), h # <<>>
  PROVE  /\ Tail(h) \in Seq(S) /\ Len(Tail(h)) = Len(h) - 1
         /\ \A i \in 1..Len(h) - 1 : Tail(h)[i] = h[i + 1]
OBVIOUS

(* What its first n elements are. *)
LEMMA Parts ==
  ASSUME NEW S, NEW h \in Seq(S), NEW n \in Nat, n <= Len(h)
  PROVE  /\ SubSeq(h, 1, n) \in Seq(S) /\ Len(SubSeq(h, 1, n)) = n
         /\ \A i \in 1..n : SubSeq(h, 1, n)[i] = h[i]
OBVIOUS

(* Only the last four keys are remembered. *)
LEMMA Remembered ==
  ASSUME typed \in Seq(Keys), Len(typed) <= 4, NEW key \in Keys,
         typed' = Remember(typed, key)
  PROVE  /\ typed' \in Seq(Keys)
         /\ Len(typed') = IF Len(typed) = 4 THEN 4 ELSE Len(typed) + 1
         /\ typed'[Len(typed')] = key
         /\ \A j \in 1..Len(typed') - 1 :
              typed'[Len(typed') - j] = typed[Len(typed) - j + 1]
<1> DEFINE longer == Append(typed, key)
<1>1. /\ longer \in Seq(Keys) /\ Len(longer) = Len(typed) + 1
      /\ longer[Len(typed) + 1] = key /\ \A i \in 1..Len(typed) : longer[i] = typed[i]
      /\ Len(typed) \in Nat
  <2>1. Len(typed) \in Nat
    BY Lengths
  <2> QED
    BY <2>1, Appended
<1> HIDE DEF longer
<1>2. typed' = IF Len(typed) = 4 THEN Tail(longer) ELSE longer
  BY <1>1, Sequence DEF Remember, longer
<1>3. CASE Len(typed) = 4
  <2>1. /\ typed' \in Seq(Keys) /\ Len(typed') = 4
        /\ \A i \in 1..4 : typed'[i] = longer[i + 1]
    <3>1. typed' = Tail(longer) /\ Len(longer) = 5 /\ longer # <<>>
      BY <1>1, <1>2, <1>3
    <3>2. \A i \in 1..4 : i \in 1..Len(longer) - 1
      BY <3>1
    <3> QED
      BY <1>1, <3>1, <3>2, Shortened
  <2> QED
    BY <1>1, <1>3, <2>1
<1>4. CASE Len(typed) # 4
  BY <1>1, <1>2, <1>4
<1> QED
  BY <1>3, <1>4

(* The keys end with n letters of the sequence when the new one is the     *)
(* n-th and they ended with those before it.                               *)
LEMMA EndsNext ==
  ASSUME typed \in Seq(Keys), Len(typed) <= 4, NEW key \in Keys,
         typed' = Remember(typed, key), NEW n \in 1..4
  PROVE  Ends(n)' <=> key = ResetSequence[n] /\ Ends(n - 1)
<1>1. /\ Len(typed') = IF Len(typed) = 4 THEN 4 ELSE Len(typed) + 1
      /\ typed'[Len(typed')] = key /\ Len(typed) \in Nat
      /\ \A j \in 1..Len(typed') - 1 : typed'[Len(typed') - j] = typed[Len(typed) - j + 1]
  BY Remembered
<1>2. n <= Len(typed') <=> n - 1 <= Len(typed)
  BY <1>1
<1>3. ASSUME n <= Len(typed'), NEW i \in 1..n - 1
      PROVE  typed'[Len(typed') - n + i] = typed[Len(typed) - (n - 1) + i]
  <2>1. n - i \in 1..Len(typed') - 1
    BY <1>1, <1>3
  <2>2. /\ Len(typed') - (n - i) = Len(typed') - n + i
        /\ Len(typed) - (n - i) + 1 = Len(typed) - (n - 1) + i
    BY <1>1, <1>3
  <2> QED
    BY <1>1, <2>1, <2>2
<1>4. n <= Len(typed') => typed'[Len(typed') - n + n] = key
  BY <1>1
<1>5. ASSUME Ends(n)' PROVE key = ResetSequence[n] /\ Ends(n - 1)
  <2>1. n <= Len(typed') /\ \A i \in 1..n : typed'[Len(typed') - n + i] = ResetSequence[i]
    BY <1>5 DEF Ends
  <2>2. \A i \in 1..n - 1 : typed[Len(typed) - (n - 1) + i] = ResetSequence[i]
    BY <1>3, <2>1
  <2>3. key = ResetSequence[n]
    BY <1>4, <2>1
  <2> QED
    BY <1>2, <2>1, <2>2, <2>3 DEF Ends
<1>6. ASSUME key = ResetSequence[n], Ends(n - 1) PROVE Ends(n)'
  <2>1. n <= Len(typed') /\ \A i \in 1..n - 1 : typed[Len(typed) - (n - 1) + i] = ResetSequence[i]
    BY <1>2, <1>6 DEF Ends
  <2>2. ASSUME NEW i \in 1..n PROVE typed'[Len(typed') - n + i] = ResetSequence[i]
    <3>1. CASE i = n
      BY <1>4, <1>6, <2>1, <3>1
    <3>2. CASE i # n
      <4>1. i \in 1..n - 1
        BY <3>2
      <4> QED
        BY <1>3, <2>1, <4>1
    <3> QED
      BY <3>1, <3>2
  <2> QED
    BY <2>1, <2>2 DEF Ends
<1> QED
  BY <1>5, <1>6

(* Part of the sequence is a suffix of the keys when they end with it. *)
LEMMA SuffixIsEnds ==
  ASSUME typed \in Seq(Keys), NEW n \in 0..3
  PROVE  IsSuffix(SubSeq(ResetSequence, 1, n), typed) <=> Ends(n)
<1> DEFINE part == SubSeq(ResetSequence, 1, n)
           back == Reverse(part)
           keys == Reverse(typed)
<1>1. Len(part) = n /\ part \in Seq(Keys) /\ \A i \in 1..n : part[i] = ResetSequence[i]
  <2>1. n \in Nat /\ n <= 4
    OBVIOUS
  <2> QED
    BY <2>1, Sequence, Parts
<1> HIDE DEF part
<1>2. /\ back = [i \in 1..n |-> part[n - i + 1]]
      /\ keys = [i \in 1..Len(typed) |-> typed[Len(typed) - i + 1]]
  BY <1>1 DEF Reverse
<1>3. /\ back \in Seq(Keys) /\ Len(back) = n
      /\ keys \in Seq(Keys) /\ Len(keys) = Len(typed) /\ Len(typed) \in Nat
  <2>1. \A i \in 1..n : part[n - i + 1] \in Keys
    BY <1>1
  <2>2. \A i \in 1..Len(typed) : typed[Len(typed) - i + 1] \in Keys
    OBVIOUS
  <2> QED
    BY <1>2, <2>1, <2>2
<1> HIDE DEF back, keys
<1>4. ASSUME n <= Len(typed)
      PROVE  SubSeq(back, 1, n) = SubSeq(keys, 1, n)
               <=> \A i \in 1..n : typed[Len(typed) - n + i] = ResetSequence[i]
  <2>1. /\ SubSeq(back, 1, n) \in Seq(Keys) /\ Len(SubSeq(back, 1, n)) = n
        /\ SubSeq(keys, 1, n) \in Seq(Keys) /\ Len(SubSeq(keys, 1, n)) = n
        /\ \A i \in 1..n : SubSeq(back, 1, n)[i] = back[i] /\ SubSeq(keys, 1, n)[i] = keys[i]
    BY <1>3, <1>4
  <2>2. SubSeq(back, 1, n) = SubSeq(keys, 1, n) <=> \A i \in 1..n : back[i] = keys[i]
    BY <2>1
  <2>3. \A i \in 1..n : back[i] = ResetSequence[n - i + 1] /\ keys[i] = typed[Len(typed) - i + 1]
    BY <1>1, <1>2, <1>3, <1>4
  <2>4. \A i \in 1..n : /\ n - i + 1 \in 1..n /\ n - (n - i + 1) + 1 = i
                        /\ Len(typed) - n + (n - i + 1) = Len(typed) - i + 1
    BY <1>3
  <2>5. ASSUME \A i \in 1..n : back[i] = keys[i], NEW i \in 1..n
        PROVE  typed[Len(typed) - n + i] = ResetSequence[i]
    <3>1. PICK j \in 1..n : j = n - i + 1 /\ n - j + 1 = i
      BY <2>4
    <3>2. Len(typed) - j + 1 = Len(typed) - n + i
      BY <1>3, <3>1
    <3> QED
      BY <2>3, <2>5, <3>1, <3>2
  <2>6. ASSUME \A i \in 1..n : typed[Len(typed) - n + i] = ResetSequence[i], NEW i \in 1..n
        PROVE  back[i] = keys[i]
    BY <2>3, <2>4, <2>6
  <2> QED
    BY <2>2, <2>5, <2>6
<1>5. SubSeq(back, 1, Len(back)) = SubSeq(back, 1, n) /\ SubSeq(keys, 1, Len(back)) = SubSeq(keys, 1, n)
  BY <1>3
<1> QED
  BY <1>3, <1>4, <1>5 DEF IsSuffix, IsPrefix, Ends, part, back, keys

(* Four keys that end with all four letters are the sequence. *)
LEMMA AllFour ==
  ASSUME NEW h \in Seq(Keys), Len(h) <= 4
  PROVE  h = ResetSequence <=> /\ 4 <= Len(h)
                               /\ \A i \in 1..4 : h[Len(h) - 4 + i] = ResetSequence[i]
<1>1. ASSUME 4 <= Len(h), \A i \in 1..4 : h[Len(h) - 4 + i] = ResetSequence[i]
      PROVE  h = ResetSequence
  <2>1. Len(h) \in Nat
    BY Lengths
  <2>2. Len(h) = 4
    <3> DEFINE length == Len(h)
    <3>1. length \in Nat /\ length <= 4 /\ 4 <= length
      BY <1>1, <2>1
    <3> HIDE DEF length
    <3>2. length = 4
      BY <3>1
    <3> QED
      BY <3>2 DEF length
  <2>3. \A i \in 1..4 : Len(h) - 4 + i = i
    BY <2>2
  <2>4. \A i \in 1..4 : h[i] = ResetSequence[i]
    BY <1>1, <2>3
  <2> QED
    BY <2>2, <2>4, Sequence
<1>2. ASSUME h = ResetSequence
      PROVE  4 <= Len(h) /\ \A i \in 1..4 : h[Len(h) - 4 + i] = ResetSequence[i]
  <2>1. \A i \in 1..4 : 4 - 4 + i = i
    OBVIOUS
  <2> QED
    BY <1>2, <2>1, Sequence
<1> QED
  BY <1>1, <1>2

(* The keys never end with two parts of the sequence. *)
LEMMA OnePart ==
  ASSUME typed \in Seq(Keys), NEW n \in 1..4, NEW m \in 1..4, Ends(n), Ends(m)
  PROVE  n = m
<1>1. typed[Len(typed)] = ResetSequence[n] /\ typed[Len(typed)] = ResetSequence[m]
  <2>1. Len(typed) - n + n = Len(typed) /\ Len(typed) - m + m = Len(typed)
    OBVIOUS
  <2> QED
    BY <2>1 DEF Ends
<1> QED
  BY <1>1, Sequence

(* What follows the letters is the longest part they end with. *)
LEMMA FollowsIsExact ==
  ASSUME PathTypes, Follows PROVE ProgressIsExact
<1> DEFINE Longest(n) == /\ IsSuffix(SubSeq(ResetSequence, 1, n), typed)
                         /\ \A m \in n+1..3 : ~IsSuffix(SubSeq(ResetSequence, 1, m), typed)
<1>1. typed \in Seq(Keys) /\ Len(typed) <= 4 /\ driver.progress \in 0..3
  BY DEF PathTypes, DriverStates
<1>2. CASE typed = ResetSequence
  <2>1. \A n \in 1..3 : ~Ends(n)
    <3>1. Ends(4)
      BY <1>1, <1>2, AllFour DEF Ends
    <3> QED
      BY <1>1, <3>1, OnePart
  <2> QED
    BY <1>1, <1>2, <2>1 DEF Follows, ProgressIsExact
<1>3. CASE typed # ResetSequence
  <2>1. \A n \in 0..3 : IsSuffix(SubSeq(ResetSequence, 1, n), typed) <=> Ends(n)
    BY <1>1, SuffixIsEnds
  <2>2. Ends(0)
    BY <1>1 DEF Ends
  <2>3. \A n \in 0..3 : Longest(n) <=> n = driver.progress
    <3> TAKE n \in 0..3
    <3>1. Longest(n) <=> Ends(n) /\ \A m \in n+1..3 : ~Ends(m)
      BY <2>1
    <3> HIDE DEF Longest
    <3>2. CASE n = 0
      BY <1>1, <2>2, <3>1, <3>2 DEF Follows
    <3>3. CASE n # 0
      <4>1. n \in 1..3 /\ (Ends(n) <=> driver.progress = n)
            /\ \A m \in n+1..3 : Ends(m) <=> driver.progress = m
        BY <3>3 DEF Follows
      <4> QED
        BY <3>1, <4>1
    <3> QED
      BY <3>2, <3>3
  <2>4. (CHOOSE n \in 0..3 : Longest(n)) = driver.progress
    <3> HIDE DEF Longest
    <3> QED
      BY <1>1, <2>3
  <2> QED
    BY <1>3, <2>4 DEF ProgressIsExact
<1> QED
  BY <1>2, <1>3

-----------------------------------------------------------------------------
(* What a key does in the driver and in the loop.                          *)

(* The kinds of keys: a letter, "#", "*" or a digit, and only one of them. *)
LEMMA KindsOfKeys ==
  ASSUME NEW key \in Keys
  PROVE  /\ key \in Letters \/ key = "#" \/ key = "*" \/ key \in Digits
         /\ key \in Letters => key # "#" /\ key # "*" /\ key \notin Digits
         /\ key \in {"#", "*"} => key \notin Digits /\ key \notin Letters
         /\ "letter" \notin Digits
BY DriverAssumption, LoopAssumption DEF Keys, Letters

(* A letter is processed as one. *)
LEMMA LetterProcessed ==
  ASSUME NEW key \in Letters
  PROVE  Processed(driver, key) = AfterLetter(driver, key)
<1>1. key \in Keys
  BY DEF Keys
<1>2. key # "#" /\ key # "*"
  BY <1>1, KindsOfKeys
<1> QED
  BY <1>2 DEF Processed

(* A letter that is not the next one only moves the sequence back. *)
LEMMA WrongLetter ==
  ASSUME PathTypes, NEW key \in Letters, key # ResetSequence[driver.progress + 1]
  PROVE  Processed(driver, key) =
           [driver EXCEPT !.progress = IF key = "A" THEN 1 ELSE 0]
<1> DEFINE back == IF key = ResetSequence[1] THEN 1 ELSE 0
<1>1. Processed(driver, key) = AfterLetter(driver, key)
  BY LetterProcessed
<1>2. AfterLetter(driver, key) = [driver EXCEPT !.progress = back]
  BY DEF AfterLetter
<1>3. back = IF key = "A" THEN 1 ELSE 0
  BY Sequence
<1> QED
  BY <1>1, <1>2, <1>3

(* The last letter of the sequence opens the change. *)
LEMMA LastLetter ==
  ASSUME PathTypes, NEW key \in Letters, key = ResetSequence[driver.progress + 1],
         driver.progress = 3
  PROVE  Processed(driver, key) =
           [driver EXCEPT !.changing = TRUE, !.progress = 0, !.led = FALSE,
                          !.buffer = <<>>]
BY Sequence, LetterProcessed DEF AfterLetter, ClearInput

(* Any other letter of the sequence only moves it on. *)
LEMMA NextLetter ==
  ASSUME PathTypes, NEW key \in Letters, key = ResetSequence[driver.progress + 1],
         driver.progress # 3
  PROVE  Processed(driver, key) = [driver EXCEPT !.progress = @ + 1]
<1>1. driver.progress \in 0..3
  BY DEF PathTypes, DriverStates
<1> QED
  BY <1>1, Sequence, LetterProcessed DEF AfterLetter

(* Of a key that is no letter, the sequence does not survive. *)
LEMMA Interrupted ==
  ASSUME PathTypes, NEW key \in Keys \ Letters
  PROVE  Processed(driver, key).progress = 0
<1>1. Processed(driver, key) =
        CASE key = "#" -> AfterConfirm([driver EXCEPT !.progress = 0])
          [] key = "*" -> AfterDelete([driver EXCEPT !.progress = 0])
          [] OTHER     -> AfterDigit([driver EXCEPT !.progress = 0], key)
  BY DEF Processed
<1>2. CASE key = "#"
  BY <1>1, <1>2 DEF PathTypes, DriverStates, AfterConfirm, ClearInput
<1>3. CASE key = "*"
  BY <1>1, <1>3 DEF PathTypes, DriverStates, AfterDelete
<1>4. CASE key # "#" /\ key # "*"
  BY <1>1, <1>4 DEF PathTypes, DriverStates, AfterDigit
<1> QED
  BY <1>2, <1>3, <1>4

(* Where every key leaves the sequence. *)
LEMMA ProgressAfter ==
  ASSUME PathTypes, NEW key \in Keys
  PROVE  Processed(driver, key).progress =
           IF key = "A" THEN 1
           ELSE IF key = "B" /\ driver.progress = 1 THEN 2
           ELSE IF key = "C" /\ driver.progress = 2 THEN 3
           ELSE 0
<1> DEFINE p == driver.progress
           next == Processed(driver, key).progress
<1>1. /\ p = 0 \/ p = 1 \/ p = 2 \/ p = 3
      /\ ResetSequence[0 + 1] = "A" /\ ResetSequence[1 + 1] = "B"
      /\ ResetSequence[2 + 1] = "C" /\ ResetSequence[3 + 1] = "D"
  BY Sequence DEF PathTypes, DriverStates
<1>2. CASE key \notin Letters
  BY <1>2, Interrupted DEF Letters
<1>3. CASE key \in Letters /\ key # ResetSequence[p + 1]
  <2>1. next = IF key = "A" THEN 1 ELSE 0
    BY <1>3, WrongLetter DEF PathTypes, DriverStates
  <2>2. ~(key = "B" /\ p = 1) /\ ~(key = "C" /\ p = 2)
    BY <1>1, <1>3
  <2> QED
    BY <2>1, <2>2
<1>4. CASE key \in Letters /\ key = ResetSequence[p + 1]
  <2>1. next = IF p = 3 THEN 0 ELSE p + 1
    <3>1. CASE p = 3
      BY <1>4, <3>1, LastLetter DEF PathTypes, DriverStates
    <3>2. CASE p # 3
      BY <1>4, <3>2, NextLetter DEF PathTypes, DriverStates
    <3> QED
      BY <3>1, <3>2
  <2> HIDE DEF next, p
  <2>2. CASE p = 0
    BY <1>1, <1>4, <2>1, <2>2 DEF p, next
  <2>3. CASE p = 1
    BY <1>1, <1>4, <2>1, <2>3 DEF p, next
  <2>4. CASE p = 2
    BY <1>1, <1>4, <2>1, <2>4 DEF p, next
  <2>5. CASE p = 3
    BY <1>1, <1>4, <2>1, <2>5 DEF p, next
  <2> QED
    BY <1>1, <2>2, <2>3, <2>4, <2>5 DEF p
<1> QED
  BY <1>2, <1>3, <1>4

(* What else a letter changes: the fourth in a row opens the change and    *)
(* empties the buffer, any other leaves all but the index alone.           *)
LEMMA LetterLeaves ==
  ASSUME PathTypes, NEW key \in Letters
  PROVE  LET next == Processed(driver, key)
         IN  /\ next \in DriverStates /\ next.password = driver.password
             /\ IF key = "D" /\ driver.progress = 3
                THEN next.changing = TRUE /\ next.led = FALSE /\ next.buffer = <<>>
                ELSE /\ next.changing = driver.changing /\ next.led = driver.led
                     /\ next.buffer = driver.buffer
<1> DEFINE p == driver.progress
           next == Processed(driver, key)
<1>1. /\ p = 0 \/ p = 1 \/ p = 2 \/ p = 3
      /\ ResetSequence[0 + 1] = "A" /\ ResetSequence[1 + 1] = "B"
      /\ ResetSequence[2 + 1] = "C" /\ ResetSequence[3 + 1] = "D"
  BY Sequence DEF PathTypes, DriverStates
<1>2. key = "D" /\ p = 3 <=> key = ResetSequence[p + 1] /\ p = 3
  BY <1>1
<1>3. CASE key # ResetSequence[p + 1]
  <2>1. next = [driver EXCEPT !.progress = IF key = "A" THEN 1 ELSE 0]
    BY <1>3, WrongLetter
  <2> HIDE DEF next
  <2>2. /\ next \in DriverStates /\ next.password = driver.password
        /\ next.changing = driver.changing /\ next.led = driver.led
        /\ next.buffer = driver.buffer
    <3> DEFINE back == IF key = "A" THEN 1 ELSE 0
    <3> HIDE DEF back
    <3>1. next = [driver EXCEPT !.progress = back]
      BY <2>1 DEF back
    <3>2. back \in 0..3
      BY DEF back
    <3> QED
      BY <3>1, <3>2 DEF PathTypes, DriverStates
  <2> QED
    BY <1>2, <1>3, <2>2 DEF next
<1>4. CASE key = ResetSequence[p + 1] /\ p = 3
  <2>1. next = [driver EXCEPT !.changing = TRUE, !.progress = 0, !.led = FALSE,
                              !.buffer = <<>>]
    BY <1>4, LastLetter
  <2> HIDE DEF next
  <2>2. /\ next \in DriverStates /\ next.password = driver.password
        /\ next.changing = TRUE /\ next.led = FALSE /\ next.buffer = <<>>
    <3>1. driver \in DriverStates
      BY DEF PathTypes
    <3>2. next.password = driver.password /\ next.changing = TRUE /\ next.led = FALSE
          /\ next.progress = 0 /\ next.buffer = <<>>
      BY <2>1, <3>1 DEF DriverStates
    <3>3. next = [password |-> driver.password, buffer |-> <<>>, progress |-> 0,
                  changing |-> TRUE, led |-> FALSE]
      BY <2>1, <3>1 DEF DriverStates
    <3>4. <<>> \in Seq(Digits) /\ driver.password \in Seq(Digits) /\ 0 \in 0..3
      BY <3>1 DEF DriverStates
    <3>5. next \in DriverStates
      BY <3>3, <3>4 DEF DriverStates
    <3> QED
      BY <3>2, <3>5
  <2> QED
    BY <1>2, <1>4, <2>2 DEF next
<1>5. CASE key = ResetSequence[p + 1] /\ p # 3
  <2>1. next = [driver EXCEPT !.progress = @ + 1]
    BY <1>5, NextLetter
  <2> HIDE DEF next
  <2>2. /\ next \in DriverStates /\ next.password = driver.password
        /\ next.changing = driver.changing /\ next.led = driver.led
        /\ next.buffer = driver.buffer
    <3>1. p + 1 \in 0..3
      BY <1>1, <1>5
    <3> QED
      BY <2>1, <3>1 DEF PathTypes, DriverStates
  <2> QED
    BY <1>2, <1>5, <2>2 DEF next
<1> QED
  BY <1>3, <1>4, <1>5

(* What an interruption of the sequence leaves. *)
LEMMA InterruptedState ==
  ASSUME PathTypes
  PROVE  LET k == [driver EXCEPT !.progress = 0]
         IN  /\ k \in DriverStates /\ k.progress = 0
             /\ k.password = driver.password /\ k.buffer = driver.buffer
             /\ k.changing = driver.changing /\ k.led = driver.led
<1> DEFINE k == [driver EXCEPT !.progress = 0]
<1>1. driver \in DriverStates /\ 0 \in 0..3
  BY DEF PathTypes
<1>2. /\ k.progress = 0 /\ k.password = driver.password /\ k.buffer = driver.buffer
      /\ k.changing = driver.changing /\ k.led = driver.led
  BY <1>1 DEF DriverStates
<1>3. k \in DriverStates
  BY <1>1 DEF DriverStates
<1> QED
  BY <1>2, <1>3

(* What a confirmation does, by the mode and the length of the input. *)
LEMMA Confirmed ==
  ASSUME PathTypes
  PROVE  LET next == Processed(driver, "#")
         IN  /\ next \in DriverStates /\ next.buffer = <<>>
             /\ next.password = IF driver.changing /\ Full(driver)
                                THEN driver.buffer ELSE driver.password
             /\ next.changing = IF driver.changing /\ ~Full(driver) THEN TRUE ELSE FALSE
             /\ next.led = IF ~driver.changing /\ driver.buffer # <<>>
                           THEN (Full(driver) /\ driver.buffer = driver.password)
                           ELSE driver.led
<1> DEFINE k == [driver EXCEPT !.progress = 0]
           next == Processed(driver, "#")
<1>1. /\ k \in DriverStates /\ k.password = driver.password /\ k.buffer = driver.buffer
      /\ k.changing = driver.changing /\ k.led = driver.led
  BY InterruptedState
<1>2. next = AfterConfirm(k)
  BY DEF Processed, Letters
<1> HIDE DEF k, next
<1>3. Full(k) <=> Full(driver)
  BY <1>1 DEF Full
<1>4. <<>> \in Seq(Digits)
  OBVIOUS
<1>5. k.changing \in BOOLEAN /\ k.password \in Seq(Digits) /\ k.buffer \in Seq(Digits)
  BY <1>1 DEF DriverStates
<1>6. CASE k.changing /\ Full(k)
  <2>1. next = [[k EXCEPT !.password = k.buffer, !.changing = FALSE] EXCEPT !.buffer = <<>>]
    BY <1>2, <1>6 DEF AfterConfirm, ClearInput
  <2>2. /\ next.buffer = <<>> /\ next.password = k.buffer /\ next.changing = FALSE
        /\ next.led = k.led
    BY <1>1, <2>1 DEF DriverStates
  <2>3. next \in DriverStates
    BY <1>1, <1>4, <1>5, <2>1 DEF DriverStates
  <2> QED
    BY <1>1, <1>3, <1>6, <2>2, <2>3 DEF next
<1>7. CASE ~k.changing /\ k.buffer # <<>>
  <2> DEFINE lit == IF Full(k) /\ k.buffer = k.password THEN TRUE ELSE FALSE
  <2>1. (Full(k) /\ k.buffer = k.password) = lit /\ lit \in BOOLEAN
    BY DEF Full
  <2>2. next = [[k EXCEPT !.led = (Full(k) /\ k.buffer = k.password)] EXCEPT !.buffer = <<>>]
    BY <1>2, <1>7 DEF AfterConfirm, ClearInput
  <2>3. next = [[k EXCEPT !.led = lit] EXCEPT !.buffer = <<>>]
    BY <2>1, <2>2
  <2> HIDE DEF lit
  <2>4. /\ next.buffer = <<>> /\ next.password = k.password /\ next.changing = k.changing
        /\ next.led = lit
    BY <1>1, <2>3 DEF DriverStates
  <2>5. next \in DriverStates
    BY <1>1, <1>4, <1>5, <2>1, <2>3 DEF DriverStates
  <2>6. next.changing = FALSE
    BY <1>5, <1>7, <2>4
  <2>7. next.led = (Full(driver) /\ driver.buffer = driver.password)
    BY <1>1, <1>3, <2>1, <2>4
  <2> QED
    BY <1>1, <1>3, <1>7, <2>4, <2>5, <2>6, <2>7 DEF next
<1>8. CASE ~(k.changing /\ Full(k)) /\ ~(~k.changing /\ k.buffer # <<>>)
  <2>1. next = [k EXCEPT !.buffer = <<>>]
    BY <1>2, <1>8 DEF AfterConfirm, ClearInput
  <2>2. /\ next.buffer = <<>> /\ next.password = k.password /\ next.changing = k.changing
        /\ next.led = k.led
    BY <1>1, <2>1 DEF DriverStates
  <2>3. next \in DriverStates
    BY <1>1, <1>4, <1>5, <2>1 DEF DriverStates
  <2>4. next.changing = IF driver.changing /\ ~Full(driver) THEN TRUE ELSE FALSE
    BY <1>1, <1>3, <1>5, <1>8, <2>2
  <2> QED
    BY <1>1, <1>3, <1>8, <2>2, <2>3, <2>4 DEF next
<1> QED
  BY <1>6, <1>7, <1>8

(* What the delete key leaves. *)
LEMMA Deleted ==
  ASSUME PathTypes
  PROVE  LET next == Processed(driver, "*")
         IN  /\ next \in DriverStates /\ Len(next.buffer) <= PasswordLength
             /\ next.buffer = IF driver.buffer = <<>> THEN <<>>
                              ELSE SubSeq(driver.buffer, 1, Len(driver.buffer) - 1)
             /\ next.password = driver.password /\ next.changing = driver.changing
             /\ next.led = driver.led
<1> DEFINE k == [driver EXCEPT !.progress = 0]
           next == Processed(driver, "*")
           rest == IF driver.buffer = <<>> THEN driver.buffer ELSE Front(driver.buffer)
<1>1. /\ k \in DriverStates /\ k.password = driver.password /\ k.buffer = driver.buffer
      /\ k.changing = driver.changing /\ k.led = driver.led
  BY InterruptedState
<1>2. next = AfterDelete(k)
  BY DEF Processed, Letters
<1> HIDE DEF k, next
<1>3. rest = IF driver.buffer = <<>> THEN <<>>
             ELSE SubSeq(driver.buffer, 1, Len(driver.buffer) - 1)
  BY DEF Front
<1>4. rest \in Seq(Digits) /\ Len(rest) <= PasswordLength
  <2>1. driver.buffer \in Seq(Digits) /\ Len(driver.buffer) <= PasswordLength
    BY DEF PathTypes, DriverStates
  <2>2. CASE driver.buffer = <<>>
    BY <2>1, <2>2
  <2>3. CASE driver.buffer # <<>>
    <3> DEFINE n == Len(driver.buffer)
    <3>1. n \in Nat /\ n # 0
      BY <2>1, <2>3, EmptySeq
    <3>2. n - 1 \in Nat /\ n - 1 <= n
      BY <3>1
    <3>3. rest \in Seq(Digits) /\ Len(rest) = n - 1
      BY <1>3, <2>1, <2>3, <3>2, Parts
    <3> QED
      BY <2>1, <3>1, <3>3, PasswordHasLength
  <2> QED
    BY <2>2, <2>3
<1>5. next = [k EXCEPT !.buffer = rest]
  BY <1>1, <1>2 DEF AfterDelete
<1> HIDE DEF rest
<1>6. /\ next \in DriverStates /\ next.buffer = rest /\ next.password = k.password
      /\ next.changing = k.changing /\ next.led = k.led
  BY <1>1, <1>4, <1>5 DEF DriverStates
<1> QED
  BY <1>1, <1>3, <1>4, <1>6 DEF next

(* What a digit leaves: a full input takes no more of them. *)
LEMMA DigitAdded ==
  ASSUME PathTypes, NEW key \in Digits
  PROVE  LET next == Processed(driver, key)
         IN  /\ next \in DriverStates /\ Len(next.buffer) <= PasswordLength
             /\ next.buffer = IF Len(driver.buffer) < PasswordLength
                              THEN Append(driver.buffer, key) ELSE driver.buffer
             /\ next.password = driver.password /\ next.changing = driver.changing
             /\ next.led = driver.led
<1> DEFINE k == [driver EXCEPT !.progress = 0]
           next == Processed(driver, key)
           full == Len(driver.buffer) = PasswordLength
           more == IF full THEN driver.buffer ELSE Append(driver.buffer, key)
<1>1. /\ k \in DriverStates /\ k.password = driver.password /\ k.buffer = driver.buffer
      /\ k.changing = driver.changing /\ k.led = driver.led
  BY InterruptedState
<1>2. next = AfterDigit(k, key)
  <2>1. key \in Keys /\ key \notin Letters /\ key # "#" /\ key # "*"
    BY DriverAssumption DEF Keys
  <2> QED
    BY <2>1 DEF Processed
<1> HIDE DEF k, next
<1>3. /\ driver.buffer \in Seq(Digits) /\ Len(driver.buffer) \in Nat
      /\ Len(driver.buffer) <= PasswordLength /\ PasswordLength \in Nat
  BY PasswordHasLength DEF PathTypes, DriverStates
<1>4. more \in Seq(Digits) /\ Len(more) <= PasswordLength
  BY <1>3, Appended
<1>5. more = IF Len(driver.buffer) < PasswordLength
             THEN Append(driver.buffer, key) ELSE driver.buffer
  BY <1>3
<1>6. /\ next \in DriverStates /\ next.buffer = more /\ next.password = k.password
      /\ next.changing = k.changing /\ next.led = k.led
  <2>1. CASE full
    <3>1. next = k
      BY <1>1, <1>2, <2>1 DEF AfterDigit, Full
    <3> QED
      BY <1>1, <2>1, <3>1
  <2>2. CASE ~full
    <3>1. next = [k EXCEPT !.buffer = Append(@, key)]
      BY <1>1, <1>2, <2>2 DEF AfterDigit, Full
    <3>2. next = [k EXCEPT !.buffer = more]
      BY <1>1, <2>2, <3>1
    <3> HIDE DEF more
    <3> QED
      BY <1>1, <1>4, <3>2 DEF DriverStates
  <2> QED
    BY <2>1, <2>2
<1> HIDE DEF more
<1> QED
  BY <1>1, <1>4, <1>5, <1>6 DEF next

-----------------------------------------------------------------------------
(* The loop's own editing of its buffer.                                   *)

(* A letter leaves the loop's buffer alone, and the other keys edit it the *)
(* way the driver edits its own.                                           *)
LEMMA LoopEdits ==
  ASSUME PathTypes
  PROVE  /\ Loop!AfterKey(buffer, "letter") = buffer
         /\ Loop!AfterKey(buffer, "#") = <<>>
         /\ Loop!AfterKey(buffer, "*") =
              IF buffer = <<>> THEN <<>> ELSE SubSeq(buffer, 1, Len(buffer) - 1)
         /\ \A key \in Digits : Loop!AfterKey(buffer, key) =
              IF Len(buffer) < PasswordLength THEN Append(buffer, key) ELSE buffer
         /\ Loop!Confirms(buffer, "#") = (buffer = FirstPassword)
         /\ \A key \in Digits \cup {"letter", "*"} : Loop!Confirms(buffer, key) = FALSE
<1>1. "letter" \notin Digits /\ "#" \notin Digits /\ "*" \notin Digits
  BY DriverAssumption, LoopAssumption
<1>2. Loop!AfterKey(buffer, "letter") = buffer
  BY <1>1 DEF Loop!AfterKey
<1>3. Loop!AfterKey(buffer, "#") = <<>>
  BY <1>1 DEF Loop!AfterKey
<1>4. Loop!AfterKey(buffer, "*") =
        IF buffer = <<>> THEN <<>> ELSE SubSeq(buffer, 1, Len(buffer) - 1)
  <2>1. CASE buffer = <<>>
    BY <1>1, <2>1 DEF Loop!AfterKey
  <2>2. CASE buffer # <<>>
    BY <1>1, <2>2 DEF Loop!AfterKey
  <2> QED
    BY <2>1, <2>2
<1>5. ASSUME NEW key \in Digits
      PROVE  Loop!AfterKey(buffer, key) =
               IF Len(buffer) < PasswordLength THEN Append(buffer, key) ELSE buffer
  <2>1. key # "#" /\ key # "*"
    BY <1>1
  <2>2. CASE Len(buffer) < PasswordLength
    BY <2>1, <2>2 DEF Loop!AfterKey, PasswordLength
  <2>3. CASE ~(Len(buffer) < PasswordLength)
    BY <2>1, <2>3 DEF Loop!AfterKey, PasswordLength
  <2> QED
    BY <2>2, <2>3
<1>6. Loop!Confirms(buffer, "#") = (buffer = FirstPassword)
  BY DEF Loop!Confirms
<1>7. \A key \in Digits \cup {"letter", "*"} : Loop!Confirms(buffer, key) = FALSE
  BY <1>1 DEF Loop!Confirms
<1> QED
  BY <1>2, <1>3, <1>4, <1>5, <1>6, <1>7

-----------------------------------------------------------------------------
(* The invariant.                                                          *)

(* It holds at the start. *)
LEMMA InitInd == PathInit => PathInd
<1> SUFFICES ASSUME PathInit PROVE PathInd
  OBVIOUS
<1>1. /\ buffer = <<>> /\ opened = FALSE /\ cleared = FALSE /\ typed = <<>>
      /\ driver = [password |-> FirstPassword, buffer |-> <<>>, progress |-> 0,
                   changing |-> FALSE, led |-> FALSE]
  BY DEF PathInit, Init, Fresh
<1>2. <<>> \in Seq(Digits) /\ <<>> \in Seq(Keys) /\ Len(<<>>) = 0
  OBVIOUS
<1>3. PathTypes
  <2>1. driver \in DriverStates
    BY <1>1, <1>2, PasswordHasLength DEF DriverStates
  <2>2. Len(driver.password) = PasswordLength /\ Len(driver.buffer) <= PasswordLength
    BY <1>1, <1>2, PasswordHasLength
  <2>3. Len(buffer) <= PasswordLength /\ Len(typed) <= 4
    BY <1>1, <1>2, PasswordHasLength
  <2> QED
    BY <1>1, <1>2, <2>1, <2>2, <2>3 DEF PathTypes
<1>4. Follows
  <2>1. ASSUME NEW n \in 1..3 PROVE ~Ends(n) /\ driver.progress # n
    BY <1>1, <1>2 DEF Ends
  <2> QED
    BY <2>1 DEF Follows
<1>5. SameInput
  BY <1>1 DEF SameInput
<1> QED
  BY <1>3, <1>4, <1>5 DEF PathInd

(* A key leaves the index at the part of the sequence the keys end with.   *)
LEMMA ProgressFollows ==
  ASSUME PathTypes, Follows, NEW key \in Keys, Scan(key)
  PROVE  Follows'
<1>1. /\ typed \in Seq(Keys) /\ Len(typed) <= 4 /\ typed' = Remember(typed, key)
      /\ driver.progress \in 0..3
  BY DEF PathTypes, DriverStates, Scan
<1>2. driver'.progress =
        IF key = "A" THEN 1
        ELSE IF key = "B" /\ driver.progress = 1 THEN 2
        ELSE IF key = "C" /\ driver.progress = 2 THEN 3
        ELSE 0
  BY ProgressAfter DEF Scan
<1>3. Ends(0)
  <2>1. Len(typed) \in Nat
    BY <1>1, Lengths
  <2> QED
    BY <2>1 DEF Ends
<1>4. Ends(1)' <=> key = "A"
  <2>1. Ends(1)' <=> key = ResetSequence[1] /\ Ends(1 - 1)
    BY <1>1, EndsNext
  <2> QED
    BY <1>3, <2>1, Sequence
<1>5. Ends(2)' <=> key = "B" /\ driver.progress = 1
  <2>1. Ends(2)' <=> key = ResetSequence[2] /\ Ends(2 - 1)
    BY <1>1, EndsNext
  <2>2. 2 - 1 = 1 /\ (Ends(1) <=> driver.progress = 1)
    BY DEF Follows
  <2> QED
    BY <2>1, <2>2, Sequence
<1>6. Ends(3)' <=> key = "C" /\ driver.progress = 2
  <2>1. Ends(3)' <=> key = ResetSequence[3] /\ Ends(3 - 1)
    BY <1>1, EndsNext
  <2>2. 3 - 1 = 2 /\ (Ends(2) <=> driver.progress = 2)
    BY DEF Follows
  <2> QED
    BY <2>1, <2>2, Sequence
<1>7. /\ Ends(1)' <=> driver'.progress = 1
      /\ Ends(2)' <=> driver'.progress = 2
      /\ Ends(3)' <=> driver'.progress = 3
  BY <1>2, <1>4, <1>5, <1>6
<1>8. \A n \in 1..3 : n = 1 \/ n = 2 \/ n = 3
  OBVIOUS
<1>9. ASSUME NEW n \in 1..3 PROVE Ends(n)' <=> driver'.progress = n
  BY <1>7, <1>8
<1> QED
  BY <1>9 DEF Follows

(* The history keeps its type. *)
LEMMA HistoryTyped ==
  ASSUME PathTypes, NEW key \in Keys, Scan(key)
  PROVE  typed' \in Seq(Keys) /\ Len(typed') <= 4
<1>1. /\ typed \in Seq(Keys) /\ Len(typed) <= 4 /\ typed' = Remember(typed, key)
  BY DEF PathTypes, Scan
<1>2. Len(typed) \in Nat
  BY <1>1, Lengths
<1>3. typed' \in Seq(Keys) /\ Len(typed') = IF Len(typed) = 4 THEN 4 ELSE Len(typed) + 1
  BY <1>1, Remembered
<1>4. \A n \in Nat : n <= 4 => (IF n = 4 THEN 4 ELSE n + 1) <= 4
  OBVIOUS
<1>5. Len(typed') <= 4
  BY <1>1, <1>2, <1>3, <1>4
<1> QED
  BY <1>3, <1>5

(* A key keeps the types, and the two inputs the same. *)
LEMMA PressKeepsInput ==
  ASSUME PathInd, NEW key \in Keys, Press(key)
  PROVE  PathTypes' /\ SameInput'
<1>1. /\ PathTypes /\ driver' = Processed(driver, key)
      /\ cleared' = (cleared /\ key # "#")
  BY DEF PathInd, Press, Scan
<1>2. typed' \in Seq(Keys) /\ Len(typed') <= 4
  BY <1>1, HistoryTyped DEF Press
<1>3. /\ driver \in DriverStates /\ Len(driver.password) = PasswordLength
      /\ Len(driver.buffer) <= PasswordLength /\ buffer \in Seq(Digits)
      /\ Len(buffer) <= PasswordLength /\ opened \in BOOLEAN /\ cleared \in BOOLEAN
      /\ Len(buffer) \in Nat /\ PasswordLength \in Nat
  BY <1>1, PasswordHasLength DEF PathTypes
<1>4. <<>> \in Seq(Digits) /\ Len(<<>>) <= PasswordLength
  BY <1>3
<1>5. ~driver.changing /\ ~cleared => buffer = driver.buffer
  BY DEF PathInd, SameInput
<1>6. SUFFICES /\ driver' \in DriverStates /\ Len(driver'.password) = PasswordLength
               /\ Len(driver'.buffer) <= PasswordLength /\ buffer' \in Seq(Digits)
               /\ Len(buffer') <= PasswordLength
               /\ opened' \in BOOLEAN /\ cleared' \in BOOLEAN
               /\ ~driver'.changing /\ ~cleared' => buffer' = driver'.buffer
  BY <1>2 DEF PathTypes, SameInput
<1>7. cleared' \in BOOLEAN
  BY <1>1
<1>8. CASE key \in Letters
  <2>1. buffer' = buffer /\ opened' = FALSE
    BY <1>1, <1>8, LoopEdits DEF Press
  <2>2. key # "#"
    BY <1>8, KindsOfKeys
  <2>3. cleared' = cleared
    BY <1>1, <1>3, <2>2
  <2>4. /\ driver' \in DriverStates /\ driver'.password = driver.password
        /\ IF key = "D" /\ driver.progress = 3
           THEN driver'.changing = TRUE /\ driver'.led = FALSE /\ driver'.buffer = <<>>
           ELSE /\ driver'.changing = driver.changing /\ driver'.led = driver.led
                /\ driver'.buffer = driver.buffer
    BY <1>1, <1>8, LetterLeaves
  <2> QED
    BY <1>3, <1>4, <1>5, <1>7, <2>1, <2>3, <2>4
<1>9. CASE key = "#"
  <2>1. buffer' = <<>> /\ opened' \in BOOLEAN
    BY <1>1, <1>9, LoopEdits, KindsOfKeys DEF Press
  <2>2. /\ driver' \in DriverStates /\ driver'.buffer = <<>>
        /\ driver'.password = IF driver.changing /\ Full(driver)
                              THEN driver.buffer ELSE driver.password
    BY <1>1, <1>9, Confirmed
  <2>3. Len(driver'.password) = PasswordLength
    BY <1>3, <2>2 DEF Full
  <2> QED
    BY <1>4, <1>7, <2>1, <2>2, <2>3
<1>10. CASE key = "*"
  <2>1. /\ buffer' = IF buffer = <<>> THEN <<>> ELSE SubSeq(buffer, 1, Len(buffer) - 1)
        /\ opened' = FALSE
    BY <1>1, <1>10, LoopEdits, KindsOfKeys DEF Press
  <2>2. buffer' \in Seq(Digits) /\ Len(buffer') <= PasswordLength
    <3>1. CASE buffer = <<>>
      BY <1>4, <2>1, <3>1
    <3>2. CASE buffer # <<>>
      <4> DEFINE n == Len(buffer)
      <4>1. n \in Nat /\ n # 0
        BY <1>3, <3>2, EmptySeq
      <4>2. n - 1 \in Nat /\ n - 1 <= n
        BY <4>1
      <4>3. buffer' \in Seq(Digits) /\ Len(buffer') = n - 1
        BY <1>3, <2>1, <3>2, <4>2, Parts
      <4> QED
        BY <1>3, <4>1, <4>3
    <3> QED
      BY <3>1, <3>2
  <2>3. /\ driver' \in DriverStates /\ Len(driver'.buffer) <= PasswordLength
        /\ driver'.buffer = IF driver.buffer = <<>> THEN <<>>
                            ELSE SubSeq(driver.buffer, 1, Len(driver.buffer) - 1)
        /\ driver'.password = driver.password /\ driver'.changing = driver.changing
    BY <1>1, <1>10, Deleted
  <2>4. ~driver'.changing /\ ~cleared' => buffer' = driver'.buffer
    BY <1>1, <1>5, <1>10, <2>1, <2>3
  <2> QED
    BY <1>3, <1>7, <2>1, <2>2, <2>3, <2>4
<1>11. CASE key \in Digits
  <2>1. key # "#" /\ key # "*" /\ key \notin Letters
    BY <1>11, DriverAssumption
  <2>2. /\ buffer' = IF Len(buffer) < PasswordLength THEN Append(buffer, key) ELSE buffer
        /\ opened' = FALSE
    BY <1>1, <1>11, <2>1, LoopEdits DEF Press
  <2>3. buffer' \in Seq(Digits) /\ Len(buffer') <= PasswordLength
    BY <1>3, <1>11, <2>2, Appended
  <2>4. /\ driver' \in DriverStates /\ Len(driver'.buffer) <= PasswordLength
        /\ driver'.buffer = IF Len(driver.buffer) < PasswordLength
                            THEN Append(driver.buffer, key) ELSE driver.buffer
        /\ driver'.password = driver.password /\ driver'.changing = driver.changing
    BY <1>1, <1>11, DigitAdded
  <2>5. ~driver'.changing /\ ~cleared' => buffer' = driver'.buffer
    BY <1>1, <1>5, <2>1, <2>2, <2>4
  <2> QED
    BY <1>3, <1>7, <2>2, <2>3, <2>4, <2>5
<1> QED
  BY <1>8, <1>9, <1>10, <1>11, KindsOfKeys

(* Emptying the driver's buffer keeps the invariant. *)
LEMMA ClearKeeps ==
  ASSUME PathInd, DriverClears
  PROVE  PathInd'
<1>1. /\ cleared' = TRUE /\ opened' = FALSE /\ buffer' = buffer /\ typed' = typed
      /\ driver' = [driver EXCEPT !.buffer = <<>>]
  BY DEF DriverClears, Clear, ClearInput
<1>2. driver \in DriverStates
  BY DEF PathInd, PathTypes
<1>3. /\ driver'.password = driver.password /\ driver'.progress = driver.progress
      /\ driver'.changing = driver.changing /\ driver'.buffer = <<>>
  BY <1>1, <1>2 DEF DriverStates
<1>4. driver' \in DriverStates
  <2>1. <<>> \in Seq(Digits)
    OBVIOUS
  <2> QED
    BY <1>1, <1>2, <2>1 DEF DriverStates
<1>5. PathTypes'
  <2>1. Len(driver'.buffer) <= PasswordLength
    BY <1>3, PasswordHasLength
  <2> QED
    BY <1>1, <1>3, <1>4, <2>1 DEF PathInd, PathTypes
<1>6. Follows'
  BY <1>1, <1>3 DEF PathInd, Follows, Ends
<1>7. SameInput'
  BY <1>1 DEF SameInput
<1> QED
  BY <1>5, <1>6, <1>7 DEF PathInd

(* Every step keeps it. *)
LEMMA StepInd == PathInd /\ [PathNext]_pathVars => PathInd'
<1> SUFFICES ASSUME PathInd, [PathNext]_pathVars PROVE PathInd'
  OBVIOUS
<1>1. ASSUME NEW key \in Keys, Press(key) PROVE PathInd'
  <2>1. PathTypes' /\ SameInput'
    BY <1>1, PressKeepsInput
  <2>2. Follows'
    BY <1>1, ProgressFollows DEF PathInd, Press
  <2> QED
    BY <2>1, <2>2 DEF PathInd
<1>2. CASE DriverClears
  BY <1>2, ClearKeeps
<1>3. CASE UNCHANGED pathVars
  <2>1. UNCHANGED <<buffer, opened, cleared, driver, typed>>
    BY <1>3 DEF pathVars, vars
  <2> QED
    BY <2>1 DEF PathInd, PathTypes, Follows, Ends, SameInput
<1> QED
  BY <1>1, <1>2, <1>3 DEF PathNext

(* The inductive invariant holds: the types, reset_index, the same input.  *)
THEOREM PathSafe == PathSpec => []PathInd
<1>1. PathInit => PathInd
  BY InitInd
<1>2. PathInd /\ [PathNext]_pathVars => PathInd'
  BY StepInd
<1> QED
  BY <1>1, <1>2, PTL DEF PathSpec

-----------------------------------------------------------------------------
(* The properties.                                                         *)

(* reset_index, the buffer and the password of key.c never leave their     *)
(* arrays, the index is exactly the part of A B C D the keys typed last,   *)
(* and the loop and the driver keep the same input.                        *)
THEOREM PathInvHolds == PathSpec => []PathInv
<1>1. PathInd => PathInv
  <2> SUFFICES ASSUME PathInd PROVE PathInv
    OBVIOUS
  <2>1. PathTypes /\ Follows /\ SameInput
    BY DEF PathInd
  <2>2. ProgressIsExact
    BY <2>1, FollowsIsExact
  <2>3. TypeOK
    <3>1. /\ driver.password \in Seq(Digits) /\ Len(driver.password) = PasswordLength
          /\ driver.buffer \in Seq(Digits) /\ Len(driver.buffer) <= PasswordLength
          /\ driver.progress \in 0..3 /\ driver.changing \in BOOLEAN /\ driver.led \in BOOLEAN
      BY <2>1 DEF PathTypes, DriverStates
    <3>2. Full([buffer |-> driver.password])
      BY <3>1 DEF Full
    <3>3. Len(ResetSequence) - 1 = 3
      BY Sequence
    <3> QED
      BY <3>1, <3>2, <3>3 DEF TypeOK
  <2>4. buffer \in Loop!Buffers
    BY <2>1 DEF PathTypes, Loop!Buffers, PasswordLength
  <2>5. PathTypeOK
    BY <2>1, <2>3, <2>4 DEF PathTypeOK, PathTypes
  <2> QED
    BY <2>1, <2>2, <2>5 DEF PathInv
<1> QED
  BY <1>1, PathSafe, PTL

(* What one step may change of the password, and what opens its change.    *)
LEMMA StepOpensChange ==
  PathInd /\ [PathNext]_pathVars =>
    [/\ driver'.password # driver.password => driver.changing
     /\ driver'.changing # driver.changing =>
          IF driver'.changing THEN typed' = ResetSequence
                              ELSE driver'.password = driver.buffer
     /\ typed' # typed /\ typed' = ResetSequence => driver'.changing]_vars
<1> DEFINE Goal ==
      /\ driver'.password # driver.password => driver.changing
      /\ driver'.changing # driver.changing =>
           IF driver'.changing THEN typed' = ResetSequence
                               ELSE driver'.password = driver.buffer
      /\ typed' # typed /\ typed' = ResetSequence => driver'.changing
<1> SUFFICES ASSUME PathInd, PathNext PROVE Goal
  BY DEF pathVars
<1> HIDE DEF Goal
<1>1. PathTypes /\ Follows /\ driver.changing \in BOOLEAN /\ driver \in DriverStates
  BY DEF PathInd, PathTypes, DriverStates
<1>2. ASSUME NEW key \in Keys, Scan(key) PROVE Goal
  <2>1. driver' = Processed(driver, key)
    BY <1>2 DEF Scan
  <2>2. typed' = ResetSequence <=> key = "D" /\ driver.progress = 3
    <3>1. /\ typed \in Seq(Keys) /\ Len(typed) <= 4 /\ typed' = Remember(typed, key)
      BY <1>1, <1>2 DEF PathTypes, Scan
    <3>2. typed' \in Seq(Keys) /\ Len(typed') <= 4
      BY <1>1, <1>2, HistoryTyped
    <3>3. typed' = ResetSequence <=> Ends(4)'
      BY <3>2, AllFour DEF Ends
    <3>4. Ends(4)' <=> key = ResetSequence[4] /\ Ends(4 - 1)
      BY <3>1, EndsNext
    <3>5. 4 - 1 = 3 /\ (Ends(3) <=> driver.progress = 3)
      BY <1>1 DEF Follows
    <3> QED
      BY <3>3, <3>4, <3>5, Sequence
  <2>3. CASE key \in Letters
    <3>1. /\ driver'.password = driver.password
          /\ IF key = "D" /\ driver.progress = 3
             THEN driver'.changing = TRUE /\ driver'.led = FALSE /\ driver'.buffer = <<>>
             ELSE /\ driver'.changing = driver.changing /\ driver'.led = driver.led
                  /\ driver'.buffer = driver.buffer
      BY <1>1, <2>1, <2>3, LetterLeaves
    <3> QED
      BY <2>2, <3>1 DEF Goal
  <2>4. CASE key = "#"
    <3>1. /\ driver'.password = IF driver.changing /\ Full(driver)
                                THEN driver.buffer ELSE driver.password
          /\ driver'.changing = IF driver.changing /\ ~Full(driver) THEN TRUE ELSE FALSE
      BY <1>1, <2>1, <2>4, Confirmed
    <3> QED
      BY <1>1, <2>2, <2>4, <3>1 DEF Goal
  <2>5. CASE key = "*"
    <3>1. driver'.password = driver.password /\ driver'.changing = driver.changing
      BY <1>1, <2>1, <2>5, Deleted
    <3> QED
      BY <2>2, <2>5, <3>1 DEF Goal
  <2>6. CASE key \in Digits
    <3>1. driver'.password = driver.password /\ driver'.changing = driver.changing
      BY <1>1, <2>1, <2>6, DigitAdded
    <3>2. key # "D"
      BY <2>6, DriverAssumption DEF Letters
    <3> QED
      BY <2>2, <3>1, <3>2 DEF Goal
  <2> QED
    BY <2>3, <2>4, <2>5, <2>6, KindsOfKeys
<1>3. ASSUME DriverClears PROVE Goal
  <2>1. typed' = typed /\ driver' = [driver EXCEPT !.buffer = <<>>]
    BY <1>3 DEF DriverClears, Clear, ClearInput
  <2>2. driver'.password = driver.password /\ driver'.changing = driver.changing
    BY <1>1, <2>1 DEF DriverStates
  <2> QED
    BY <2>1, <2>2 DEF Goal
<1> QED
  BY <1>2, <1>3 DEF PathNext, Press

(* The driver's password changes only when a full new one is confirmed and *)
(* only after the four letters in a row, and those four always open the    *)
(* change.                                                                 *)
THEOREM ChangeNeedsSequence == PathSpec => SequenceOpensChange
<1>1. PathInd /\ [PathNext]_pathVars =>
        [/\ driver'.password # driver.password => driver.changing
         /\ driver'.changing # driver.changing =>
              IF driver'.changing THEN typed' = ResetSequence
                                  ELSE driver'.password = driver.buffer
         /\ typed' # typed /\ typed' = ResetSequence => driver'.changing]_vars
  BY StepOpensChange
<1> QED
  BY <1>1, PathSafe, PTL DEF PathSpec, SequenceOpensChange

(* What one press makes of the same input and the same password.           *)
LEMMA StepJudgesAlike ==
  PathInd /\ [PathNext]_pathVars =>
    [~driver.changing /\ ~cleared /\ driver.password = FirstPassword
     => /\ opened' => driver'.led
        /\ driver'.led /\ ~driver.led => opened']_pathVars
<1> SUFFICES ASSUME PathInd, PathNext, ~driver.changing, ~cleared,
                    driver.password = FirstPassword
             PROVE  (opened' => driver'.led) /\ (driver'.led /\ ~driver.led => opened')
  BY DEF pathVars
<1>1. /\ PathTypes /\ driver \in DriverStates /\ driver.led \in BOOLEAN
      /\ buffer = driver.buffer
  BY DEF PathInd, PathTypes, DriverStates, SameInput
<1>2. ASSUME NEW key \in Keys, Press(key)
      PROVE  (opened' => driver'.led) /\ (driver'.led /\ ~driver.led => opened')
  <2>1. driver' = Processed(driver, key)
    BY <1>2 DEF Press, Scan
  <2>2. CASE key \in Letters
    <3>1. opened' = FALSE
      BY <1>1, <1>2, <2>2, LoopEdits DEF Press
    <3>2. driver'.led = FALSE \/ driver'.led = driver.led
      BY <1>1, <2>1, <2>2, LetterLeaves
    <3> QED
      BY <3>1, <3>2
  <2>3. CASE key = "#"
    <3>1. opened' = (buffer = FirstPassword)
      BY <1>1, <1>2, <2>3, LoopEdits, KindsOfKeys DEF Press
    <3>2. driver'.led = IF ~driver.changing /\ driver.buffer # <<>>
                        THEN (Full(driver) /\ driver.buffer = driver.password)
                        ELSE driver.led
      BY <1>1, <2>1, <2>3, Confirmed
    <3>3. CASE driver.buffer = <<>>
      BY <1>1, <3>1, <3>2, <3>3, DriverAssumption
    <3>4. CASE driver.buffer # <<>>
      <4>1. driver'.led = (Full(driver) /\ driver.buffer = FirstPassword)
        BY <3>2, <3>4
      <4>2. driver.buffer = FirstPassword => Full(driver)
        BY DEF Full, PasswordLength
      <4> QED
        BY <1>1, <3>1, <4>1, <4>2
    <3> QED
      BY <3>3, <3>4
  <2>4. CASE key = "*"
    <3>1. opened' = FALSE
      BY <1>1, <1>2, <2>4, LoopEdits, KindsOfKeys DEF Press
    <3>2. driver'.led = driver.led
      BY <1>1, <2>1, <2>4, Deleted
    <3> QED
      BY <3>1, <3>2
  <2>5. CASE key \in Digits
    <3>1. opened' = FALSE
      BY <1>1, <1>2, <2>5, LoopEdits, DriverAssumption DEF Press
    <3>2. driver'.led = driver.led
      BY <1>1, <2>1, <2>5, DigitAdded
    <3> QED
      BY <3>1, <3>2
  <2> QED
    BY <2>2, <2>3, <2>4, <2>5, KindsOfKeys
<1>3. ASSUME DriverClears
      PROVE  (opened' => driver'.led) /\ (driver'.led /\ ~driver.led => opened')
  <2>1. opened' = FALSE /\ driver' = [driver EXCEPT !.buffer = <<>>]
    BY <1>3 DEF DriverClears, Clear, ClearInput
  <2>2. driver'.led = driver.led
    BY <1>1, <2>1 DEF DriverStates
  <2> QED
    BY <2>1, <2>2
<1> QED
  BY <1>2, <1>3 DEF PathNext

(* As long as both know the same password and no change of it is under     *)
(* way, the loop opens for exactly the presses key.c lights the LED for.   *)
THEOREM JudgedAlike == PathSpec => SameUntilChanged
<1>1. PathInd /\ [PathNext]_pathVars =>
        [~driver.changing /\ ~cleared /\ driver.password = FirstPassword
         => /\ opened' => driver'.led
            /\ driver'.led /\ ~driver.led => opened']_pathVars
  BY StepJudgesAlike
<1> QED
  BY <1>1, PathSafe, PTL DEF PathSpec, SameUntilChanged
=============================================================================
