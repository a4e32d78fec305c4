------------------------------- MODULE FaceDb -------------------------------
(***************************************************************************)
(* The enrolled people: the persons table in the database file, the        *)
(* FaceDatabase that holds it in memory (face_database.cpp), and the       *)
(* FaceRecognizer with its own copy (face_recognizer.cpp).  A feature is   *)
(* its length, its direction (0 is the null vector) and whether it is      *)
(* normalised.  SQLite may refuse any call; a process may be restarted,    *)
(* and then only the file is left.                                         *)
(***************************************************************************)
EXTENDS Integers, SequencesExt

CONSTANTS
  People,         \* the names
  Lengths,        \* the lengths a feature may have
  Directions,     \* the directions of features, without 0
  Cosine(_, _),   \* the cosine of two directions, in percent
  FirstFiles,     \* the files a process may find: sequences of rows
  MaxRows,        \* at most so many people are enrolled
  KnownAt         \* the recogniser's threshold

VARIABLES
  table,        \* the file has a persons table
  rows,         \* its rows, in the order of their ids
  hasPath,      \* db_path_ is set
  records,      \* records_
  featureSize,  \* feature_size_
  known,        \* the recogniser's records_
  answer,       \* what recognize last returned
  view,         \* what the memory shows of the file: "none", "part", "whole"
  mixed         \* a feature of another length was stored since the last load

dbVars == <<table, rows, hasPath, records, featureSize, known, answer, view,
            mixed>>

Raw(length, direction) ==
  [length |-> length, direction |-> direction, unit |-> FALSE]

RawFeatures == {Raw(l, d) : l \in Lengths, d \in Directions \cup {0}}

(* normalize_feature, which refuses the null vector *)
Normalizable(f) == f.direction # 0
Normalized(f)   == [f EXCEPT !.unit = TRUE]

Features == [length : Lengths, direction : Directions, unit : BOOLEAN]
Unreadable == [unreadable |-> TRUE]

(* What the file may hold.  A name has one row at most. *)
Rows == [name : People, feature : RawFeatures \cup Features \cup {Unreadable}]
OnceEach(some) == \A i, j \in DOMAIN some : some[i].name = some[j].name => i = j

ASSUME DbAssumption ==
  /\ Lengths \subseteq Nat \ {0} /\ 0 \notin Directions
  /\ \A d, e \in Directions : Cosine(d, e) \in -100..100
  /\ \A file \in FirstFiles : file \in Seq(Rows) /\ OnceEach(file)
  /\ MaxRows \in Nat /\ KnownAt \in Int

Unknown == [name |-> "unknown", best |-> "unknown", similarity |-> 0]

(* The type invariant. *)
DbTypeOK ==
  /\ table \in BOOLEAN /\ hasPath \in BOOLEAN /\ mixed \in BOOLEAN
  /\ rows \in Seq(Rows)
  /\ records \in Seq([name : People, feature : Features])
  /\ known \in Seq([name : People, feature : Features])
  /\ featureSize \in {0} \cup Lengths
  /\ answer.name \in People \cup {"unknown"}
  /\ view \in {"none", "part", "whole"}

NoMemory ==
  /\ hasPath = FALSE /\ records = <<>> /\ featureSize = 0
  /\ known = <<>> /\ answer = Unknown /\ view = "none" /\ mixed = FALSE

DbInit ==
  /\ table \in BOOLEAN
  /\ rows \in IF table THEN FirstFiles ELSE {<<>>}
  /\ NoMemory

(* The process ends; the next one finds the file. *)
Restart ==
  /\ hasPath' = FALSE /\ records' = <<>> /\ featureSize' = 0
  /\ known' = <<>> /\ answer' = Unknown /\ view' = "none" /\ mixed' = FALSE
  /\ UNCHANGED <<table, rows>>

-----------------------------------------------------------------------------
(* load *)

Readable(row) == row.feature # Unreadable /\ Normalizable(row.feature)

Loadable(some) ==
  /\ some # <<>>
  /\ \A i \in DOMAIN some :
       Readable(some[i]) /\ some[i].feature.length = some[1].feature.length

AsRecords(some) ==
  [i \in DOMAIN some |-> [some[i] EXCEPT !.feature = Normalized(@)]]

(* The query ends with the last row or, unnoticed, with an error: then the *)
(* rows so far are all there are.                                          *)
Load(count) ==
  LET some == SubSeq(rows, 1, count)
  IN  /\ table /\ Loadable(some)
      /\ hasPath' = TRUE
      /\ records' = AsRecords(some)
      /\ featureSize' = some[1].feature.length
      /\ view' = IF some = rows THEN "whole" ELSE "part"
      /\ mixed' = FALSE
      /\ UNCHANGED <<table, rows, known, answer>>

(* The file does not open, has no such table, or holds a row that cannot   *)
(* be used; the path is remembered all the same.                           *)
LoadFails ==
  /\ hasPath' = TRUE
  /\ records' = <<>> /\ featureSize' = 0
  /\ view' = "part" /\ mixed' = FALSE
  /\ UNCHANGED <<table, rows, known, answer>>

-----------------------------------------------------------------------------
(* initialize makes the table if need be and does not read it. *)
Initialise ==
  /\ table' = TRUE
  /\ hasPath' = TRUE
  /\ records' = <<>> /\ featureSize' = 0
  /\ view' = IF rows = <<>> THEN "whole" ELSE "part"
  /\ mixed' = FALSE
  /\ UNCHANGED <<rows, known, answer>>

(* Mutant: the rows are left in the file. *)
ClearMemory ==
  /\ hasPath /\ table
  /\ records' = <<>> /\ featureSize' = 0
  /\ view' = "whole" /\ mixed' = FALSE
  /\ UNCHANGED <<table, rows, hasPath, known, answer>>

Clear ==
  /\ hasPath /\ table
  /\ rows' = <<>>
  /\ records' = <<>> /\ featureSize' = 0
  /\ view' = "whole" /\ mixed' = FALSE
  /\ UNCHANGED <<table, hasPath, known, answer>>

(* The first entry of that name is replaced, or one is added at the end. *)
Placed(some, name, feature) ==
  LET entry == [name |-> name, feature |-> feature]
      i == SelectInSeq(some, LAMBDA e : e.name = name)
  IN  IF i = 0 THEN Append(some, entry) ELSE [some EXCEPT ![i] = entry]

(* upsert_record: first the file, as text of six digits a number, then the *)
(* memory.  The length is not compared with that of the others.            *)
Upsert(name, feature) ==
  /\ hasPath /\ Normalizable(feature)
  /\ Len(rows) < MaxRows \/ \E i \in DOMAIN rows : rows[i].name = name
  /\ table' = TRUE
  /\ rows' = Placed(rows, name, Normalized(feature))
  /\ records' = Placed(records, name, Normalized(feature))
  /\ featureSize' = IF featureSize = 0 THEN feature.length ELSE featureSize
  /\ mixed' = (mixed \/ featureSize \notin {0, feature.length})
  /\ UNCHANGED <<hasPath, known, answer, view>>

(* The update or the insertion fails when the table may have been made. *)
UpsertFails ==
  /\ hasPath
  /\ table' = TRUE
  /\ UNCHANGED <<rows, hasPath, records, featureSize, known, answer, view,
                 mixed>>

-----------------------------------------------------------------------------
(* FaceRecognizer::reset *)
Reset ==
  /\ known' = records
  /\ UNCHANGED <<table, rows, hasPath, records, featureSize, answer, view,
                 mixed>>

(* No record: the scan begins at the cosine of the opposite direction. *)
NoRecord == [at |-> 0, similarity |-> -100]

Like(feature, i) == Cosine(feature.direction, known[i].feature.direction)

(* Mutant: a record as similar as the best one replaces it. *)
NearerOrSame(best, feature, i) ==
  IF known[i].feature.length = feature.length /\ Like(feature, i) >= best.similarity
  THEN [at |-> i, similarity |-> Like(feature, i)] ELSE best

Nearer(best, feature, i) ==
  IF known[i].feature.length = feature.length /\ Like(feature, i) > best.similarity
  THEN [at |-> i, similarity |-> Like(feature, i)] ELSE best

(* The scan for the most similar record, and what it has after the first n. *)
NearestOfFirst(feature) ==
  LET found[n \in 0..Len(known)] ==
        IF n = 0 THEN NoRecord ELSE Nearer(found[n - 1], feature, n)
  IN  found

Nearest(feature) == NearestOfFirst(feature)[Len(known)]

Recognised(feature) ==
  IF ~Normalizable(feature) \/ Nearest(feature).at = 0 THEN Unknown
  ELSE LET best == Nearest(feature)
           name == known[best.at].name
       IN  [name |-> IF best.similarity >= KnownAt THEN name ELSE "unknown",
            best |-> name, similarity |-> best.similarity]

Recognise(feature) ==
  /\ answer' = Recognised(feature)
  /\ UNCHANGED <<table, rows, hasPath, records, featureSize, known, view,
                 mixed>>

-----------------------------------------------------------------------------
Enrol ==
  \/ Restart
  \/ \E count \in 1..Len(rows) : Load(count)
  \/ LoadFails \/ Initialise \/ Clear
  \/ \E name \in People, feature \in RawFeatures : Upsert(name, feature)
  \/ UpsertFails \/ Reset

DbNext == Enrol \/ \E feature \in RawFeatures : Recognise(feature)

DbSpec == DbInit /\ [][DbNext]_dbVars

-----------------------------------------------------------------------------
(* Whatever fails in between, the memory never holds a person the file     *)
(* does not hold in the same form, so a restart forgets nobody by itself.  *)
(* A database that was loaded to its end, or made here, is in memory as it *)
(* is in the file, in the same order, through every later change; and it   *)
(* loads again, unless a feature of another length was let in or nobody is *)
(* left.  "The same form" is that of percents: the six digits that the     *)
(* text of a feature keeps are finer.                                      *)
MemoryMatchesFile ==
  /\ \A i \in DOMAIN records :
       \E j \in DOMAIN rows :
         /\ rows[j].name = records[i].name /\ rows[j].feature # Unreadable
         /\ Normalized(rows[j].feature) = records[i].feature
  /\ view = "whole" => /\ records = AsRecords(rows)
                       /\ ~mixed /\ rows # <<>> => Loadable(rows)

(* Whatever feature is asked for, the recogniser answers with the first of *)
(* the most similar records of its length, names nobody below the          *)
(* threshold, and finds nobody only when there is nobody but opposites.    *)
AnswersBest ==
  \A feature \in {f \in RawFeatures : Normalizable(f)} :
    LET found   == Recognised(feature)
        same    == {i \in DOMAIN known : known[i].feature.length = feature.length}
        alike(i) == Like(feature, i)
    IN  IF \A i \in same : alike(i) = -100 THEN found = Unknown
        ELSE \E i \in same :
               /\ \A j \in same \ {i} : IF j < i THEN alike(j) < alike(i)
                                               ELSE alike(j) <= alike(i)
               /\ found.best = known[i].name /\ found.similarity = alike(i)
               /\ found.name = IF alike(i) >= KnownAt THEN known[i].name
                                                      ELSE "unknown"
=============================================================================
