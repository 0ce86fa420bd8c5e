----------------------------- MODULE Record_proofs -----------------------------
(***************************************************************************)
(* What the runs of Record check on one file and one text, proved for any   *)
(* schema version and migrations, any subjects and any number of crashes.   *)
(***************************************************************************)
EXTENDS MCRecord, Lemmas

Steps == {"none", "indexed", "excluded", "pending", "blocking", "complete"}

CallType ==
  [doc : Docs, by : {"handler", "maintenance"}, at : {"check", "mark", "retire"}]

RequestType ==
  [step : {"none", "register", "drain", "rebuild", "settle"}, left : SUBSET (Docs \cup Rows),
   item : Rows \cup {NoRow}]

WorkType == [Rows -> {"none", "pending", "done", "failed"}]

\* How many versions a subject may have.
Room(s) == 0 .. (IF s \in Files THEN MaxVersion ELSE MaxConfirms + 1)

TableTypes ==
  /\ documents \in [Subjects -> Nat] /\ \A s \in Subjects : documents[s] \in Room(s)
  /\ chunks \subseteq Docs /\ projection \subseteq Docs /\ exclusions \subseteq Docs
  /\ tombstones \subseteq Subjects /\ checked \subseteq Texts
  /\ work \in WorkType /\ calls \subseteq CallType /\ request \in RequestType

CoverageTypes ==
  /\ coverage \in [step : Steps, missing : Int, quiet : BOOLEAN, right : BOOLEAN]
  /\ coverage.missing <= Cardinality(Subjects)
  /\ coverage.step = "blocking" => coverage.missing = 0

Untouched == file = [version |-> origin, objects |-> Of(origin), journal |-> <<>>]

\* The journal has one row for each step the file went through, in order; a file
\* that could not be opened was never touched; an opening goes by what it found.
Opening ==
  /\ origin \in 0 .. SchemaVersion + 1
  /\ file = [version |-> file.version, objects |-> file.objects, journal |-> file.journal]
  /\ file.version \in Nat /\ file.journal \in Seq(Nat)
  /\ process \in [step : {"down", "opening", "refused", "serving"}, found : Nat]
  /\ origin = 0 => file.journal = <<>> /\ file.version \in {0, SchemaVersion}
  /\ origin > 0 => /\ file.version = origin + Len(file.journal)
                   /\ \A i \in 1 .. Len(file.journal) : file.journal[i] = origin + i
  /\ \A i \in 1 .. Len(file.journal) : file.journal[i] \in Migrations
  /\ Untouched \/ Understood(file.version)
  /\ process.step = "refused" => Untouched
  /\ process.step = "opening" =>
       /\ Understood(process.found) /\ process.found <= file.version
       /\ file.version <= SchemaVersion
       /\ process.found = 0 => file.version = 0
  /\ Serving => file.version = SchemaVersion /\ Missing = {}

\* What a count has yet to find before it can come to nothing missing: as long as
\* it is quiet, it never counts too little.
Counting ==
  /\ coverage.step # "none" /\ Whole => coverage.right
  /\ coverage.quiet =>
       /\ coverage.step = "indexed" => Cardinality(LatestLive) <= coverage.missing
       /\ coverage.step = "excluded" => Cardinality(LatestLive \ Indexed) <= coverage.missing
       /\ coverage.step \in {"pending", "blocking"} =>
            Cardinality(Counted \ Indexed) <= coverage.missing
       /\ Answered => coverage.right

IInv == TableTypes /\ CoverageTypes /\ Opening /\ Counting

-----------------------------------------------------------------------------
(***************************************************************************)
(* Opening.                                                                *)
(***************************************************************************)

LEMMA OpeningFrame ==
  ASSUME Opening, UNCHANGED <<file, origin, process>>
  PROVE  Opening'
  BY DEF Opening, Untouched, Serving, Missing, Of, Understood

\* Opening a file, or losing it, touches neither the tables nor a count.
LEMMA RestFrame ==
  ASSUME TableTypes, CoverageTypes, Counting, UNCHANGED <<tables, callers, request, coverage>>
  PROVE  TableTypes' /\ CoverageTypes' /\ Counting'
<1>1. UNCHANGED <<documents, chunks, projection, tombstones, exclusions, work, calls, checked>>
  BY DEF tables, callers
<1>2. LatestLive' = LatestLive /\ Indexed' = Indexed /\ Counted' = Counted /\ Blocking' = Blocking
  BY <1>1 DEF LatestLive, Indexed, Counted, Blocking
<1>3. TableTypes' /\ CoverageTypes'
  BY <1>1 DEF TableTypes, CoverageTypes
<1>4. Counting'
  BY <1>2 DEF Counting, Whole, Answered
<1> QED
  BY <1>3, <1>4

LEMMA OpenStep ==
  ASSUME IInv, Open
  PROVE  IInv'
<1>1. /\ process' = [step |-> IF Understood(file.version) THEN "opening" ELSE "refused",
                     found |-> file.version]
      /\ UNCHANGED <<file, origin, tables, callers, request, coverage>> /\ process.step = "down"
  BY DEF Open
<1>2. process'.found = file.version /\ file.version \in Nat
      /\ process'.step = IF Understood(file.version) THEN "opening" ELSE "refused"
  BY <1>1 DEF IInv, Opening
<1>3. process' \in [step : {"down", "opening", "refused", "serving"}, found : Nat]
  BY <1>1, <1>2
<1>4. Untouched' = Untouched
  BY <1>1 DEF Untouched, Of
<1>5. process'.step = "refused" => Untouched'
  BY <1>2, <1>4 DEF IInv, Opening
<1>6. process'.step = "opening" => Understood(file.version) /\ file.version <= SchemaVersion
  BY <1>2 DEF Understood
<1>7. ~Serving'
  BY <1>2 DEF Serving
<1>8. Opening'
  BY <1>1, <1>2, <1>3, <1>4, <1>5, <1>6, <1>7 DEF IInv, Opening, Understood
<1> QED
  BY <1>1, <1>8, RestFrame DEF IInv

LEMMA CreateStep ==
  ASSUME IInv, Create
  PROVE  IInv'
<1> DEFINE more == Script[CHOOSE i \in Missing : \A j \in Missing : i <= j]
<1>1. /\ file' = [file EXCEPT !.objects = @ \cup {more}] /\ process.step = "opening"
      /\ UNCHANGED <<origin, process, tables, callers, request, coverage>>
  BY DEF Create
<1> HIDE DEF more
<1>2. /\ file'.version = file.version /\ file'.journal = file.journal
      /\ file' = [version |-> file'.version, objects |-> file'.objects, journal |-> file'.journal]
  BY <1>1 DEF IInv, Opening
<1>3. Understood(file.version) /\ ~Serving /\ ~Serving'
  BY <1>1, SchemaAssumption DEF IInv, Opening, Understood, Serving
<1>4. Opening'
  BY <1>1, <1>2, <1>3 DEF IInv, Opening, Understood
<1> QED
  BY <1>1, <1>4, RestFrame DEF IInv

LEMMA StampStep ==
  ASSUME IInv, Stamp
  PROVE  IInv'
<1>1. /\ file' = [file EXCEPT !.version = SchemaVersion] /\ process.step = "opening"
      /\ process' = [process EXCEPT !.step = "serving"] /\ process.found = 0 /\ Missing = {}
      /\ UNCHANGED <<origin, tables, callers, request, coverage>>
  BY DEF Stamp
<1>2. /\ file'.version = SchemaVersion /\ file'.journal = file.journal /\ file'.objects = file.objects
      /\ file' = [version |-> file'.version, objects |-> file'.objects, journal |-> file'.journal]
  BY <1>1 DEF IInv, Opening
<1>3. process' \in [step : {"down", "opening", "refused", "serving"}, found : Nat] /\ process'.step = "serving"
  BY <1>1 DEF IInv, Opening
<1>4. Missing' = {}
  BY <1>1, <1>2 DEF Missing
<1>5. SchemaVersion \in Nat /\ Understood(SchemaVersion)
  BY SchemaAssumption DEF Understood
<1>6. file.version = 0 /\ origin = 0
  <2>1. file.version = 0 /\ origin \in Nat /\ Len(file.journal) \in Nat
    BY <1>1 DEF IInv, Opening
  <2> QED
    BY <2>1 DEF IInv, Opening
<1>7. Opening'
  BY <1>1, <1>2, <1>3, <1>4, <1>5, <1>6 DEF IInv, Opening, Understood
<1> QED
  BY <1>1, <1>7, RestFrame DEF IInv

\* A step is one the opening found it could take, and is journalled as it is taken.
LEMMA MigrateStep ==
  ASSUME IInv, Migrate
  PROVE  IInv'
<1> DEFINE next == file.version + 1
<1>1. /\ file' = [file EXCEPT !.version = next, !.journal = Append(@, next)]
      /\ process.step = "opening" /\ process.found > 0 /\ file.version < SchemaVersion
      /\ UNCHANGED <<origin, process, tables, callers, request, coverage>>
  BY DEF Migrate
<1>2. file.journal \in Seq(Nat) /\ file.version \in Nat /\ next \in Nat /\ SchemaVersion \in Nat
      /\ process.found \in Nat /\ process.found <= file.version /\ Understood(process.found)
      /\ origin \in Nat
  BY <1>1, SchemaAssumption DEF IInv, Opening
<1>3. next \in Migrations /\ Understood(next)
  BY <1>1, <1>2 DEF Understood
<1> HIDE DEF next
<1>4. /\ file'.version = next /\ file'.journal = Append(file.journal, next)
      /\ file' = [version |-> file'.version, objects |-> file'.objects, journal |-> file'.journal]
  BY <1>1 DEF IInv, Opening
<1>5. /\ file'.journal \in Seq(Nat) /\ Len(file'.journal) = Len(file.journal) + 1
      /\ file'.journal[Len(file.journal) + 1] = next
      /\ \A i \in 1 .. Len(file.journal) : file'.journal[i] = file.journal[i]
      /\ Len(file.journal) \in Nat
  BY <1>2, <1>4
<1>6. origin > 0 /\ file.version = origin + Len(file.journal)
      /\ \A i \in 1 .. Len(file.journal) : file.journal[i] = origin + i
  BY <1>1, <1>2 DEF IInv, Opening
<1>7. \A i \in 1 .. Len(file'.journal) : file'.journal[i] = origin + i /\ file'.journal[i] \in Migrations
  <2>1. \A i \in 1 .. Len(file'.journal) : i \in 1 .. Len(file.journal) \/ i = Len(file.journal) + 1
    BY <1>5
  <2>2. next = origin + (Len(file.journal) + 1)
    BY <1>2, <1>5, <1>6 DEF next
  <2> QED
    BY <1>3, <1>5, <1>6, <2>1, <2>2 DEF IInv, Opening
<1>8. file'.version = origin + Len(file'.journal) /\ next <= SchemaVersion /\ process.found <= next
  <2>1. next = file.version + 1
    BY DEF next
  <2>2. next <= SchemaVersion /\ process.found <= next
    BY <1>1, <1>2, <2>1
  <2>3. next = origin + (Len(file.journal) + 1)
    BY <1>2, <1>5, <1>6, <2>1
  <2> QED
    BY <1>4, <1>5, <2>2, <2>3
<1>9. Opening'
  BY <1>1, <1>2, <1>3, <1>4, <1>5, <1>6, <1>7, <1>8 DEF IInv, Opening, Understood, Serving
<1> QED
  BY <1>1, <1>9, RestFrame DEF IInv

LEMMA OpenedStep ==
  ASSUME IInv, Opened
  PROVE  IInv'
<1>1. /\ process' = [process EXCEPT !.step = "serving"] /\ Missing = {}
      /\ file.version = SchemaVersion /\ process.step = "opening"
      /\ UNCHANGED <<file, origin, tables, callers, request, coverage>>
  BY DEF Opened
<1>2. process' \in [step : {"down", "opening", "refused", "serving"}, found : Nat] /\ process'.step = "serving"
  BY <1>1 DEF IInv, Opening
<1>3. Missing' = {} /\ Untouched' = Untouched
  BY <1>1 DEF Missing, Untouched, Of
<1>4. Opening'
  BY <1>1, <1>2, <1>3 DEF IInv, Opening, Understood
<1> QED
  BY <1>1, <1>4, RestFrame DEF IInv

LEMMA CrashStep ==
  ASSUME IInv, Crash
  PROVE  IInv'
<1>1. /\ process' = [step |-> "down", found |-> 0] /\ calls' = {} /\ request' = NoRequest
      /\ checked' \subseteq Texts
      /\ coverage' = NoCoverage /\ UNCHANGED <<file, origin, documents, chunks, projection, tombstones, exclusions, work>>
  BY DEF Crash, tables
<1>2. Opening'
  BY <1>1 DEF IInv, Opening, Untouched, Of, Serving, Understood
<1>3. TableTypes'
  BY <1>1 DEF IInv, TableTypes, RequestType, NoRequest
<1>4. Cardinality(Subjects) \in Nat
  BY SubjectsAssumption, FS_CardinalityType DEF Subjects
<1>5. CoverageTypes' /\ Counting'
  BY <1>1, <1>4 DEF CoverageTypes, Counting, NoCoverage, Steps, Answered
<1> QED
  BY <1>2, <1>3, <1>5 DEF IInv

-----------------------------------------------------------------------------
(***************************************************************************)
(* Counting.                                                               *)
(***************************************************************************)

\* There are at most as many latest live versions as subjects.
LEMMA LatestLiveFinite ==
  IsFiniteSet(LatestLive) /\ Cardinality(LatestLive) <= Cardinality(Subjects)
  /\ Cardinality(Subjects) \in Nat /\ Cardinality(LatestLive) \in Nat
<1> DEFINE live == {s \in Subjects : documents[s] > 0} \ tombstones
<1> DEFINE latest == [s \in live |-> <<s, documents[s]>>]
<1>1. IsFiniteSet(Subjects) /\ live \in SUBSET Subjects
  BY SubjectsAssumption DEF Subjects
<1>2. IsFiniteSet(live) /\ Cardinality(live) <= Cardinality(Subjects)
  BY <1>1, FS_Subset
<1>3. latest \in Surjection(live, LatestLive)
  <2>1. LatestLive = {latest[s] : s \in live}
    BY DEF LatestLive
  <2> QED
    BY <2>1 DEF Surjection
<1>4. IsFiniteSet(LatestLive) /\ Cardinality(LatestLive) <= Cardinality(live)
  <2> HIDE DEF latest, live
  <2> QED
    BY <1>2, <1>3, FS_Surjection
<1> QED
  BY <1>1, <1>2, <1>4, FS_CardinalityType

LEMMA Sets ==
  /\ Indexed \subseteq Counted /\ Counted \subseteq LatestLive
  /\ Excluded \subseteq LatestLive \ Indexed
  /\ (LatestLive \ Indexed) \ Excluded = Counted \ Indexed
  BY DEF Indexed, Counted, Excluded

\* What a request does while a count is quiet: no version becomes the latest, a
\* document with chunks is not excluded, and what is searchable and still the
\* latest stays so.
Steady ==
  /\ LatestLive' \subseteq LatestLive
  /\ exclusions \subseteq exclusions' /\ exclusions' \cap chunks \subseteq exclusions
  /\ LatestLive' \cap chunks \cap projection \subseteq chunks' \cap projection'

LEMMA GapsShrink ==
  ASSUME Steady
  PROVE  /\ LatestLive' \ Indexed' \subseteq LatestLive \ Indexed
         /\ Counted' \ Indexed' \subseteq Counted \ Indexed
  BY DEF Steady, Indexed, Counted

LEMMA Smaller ==
  ASSUME NEW S, NEW T, IsFiniteSet(S), T \subseteq S
  PROVE  Cardinality(T) \in Nat /\ Cardinality(S) \in Nat /\ Cardinality(T) <= Cardinality(S)
  BY FS_Subset, FS_CardinalityType

\* Whatever writes either disturbs the count, and is seen to, or is steady.
LEMMA WritingStep ==
  ASSUME IInv, UNCHANGED <<file, origin, process>>, TableTypes',
         Seen(TRUE) \/ (Seen(FALSE) /\ Steady)
  PROVE  IInv'
<1>1. Opening'
  BY OpeningFrame DEF IInv
<1>2. PICK disturbing \in BOOLEAN : Seen(disturbing) /\ (~disturbing => Steady)
  OBVIOUS
<1>3. CASE coverage.step = "none"
  <2>1. coverage' = coverage
    BY <1>2, <1>3 DEF Seen
  <2> QED
    BY <1>1, <1>3, <2>1 DEF IInv, CoverageTypes, Counting, Answered
<1>4. CASE coverage.step # "none"
  <2>1. coverage' = [coverage EXCEPT !.right = @ \/ Whole', !.quiet = @ /\ ~disturbing]
    BY <1>2, <1>4 DEF Seen
  <2> DEFINE right == coverage.right \/ Whole'
  <2> DEFINE quiet == coverage.quiet /\ ~disturbing
  <2>2. right \in BOOLEAN /\ quiet \in BOOLEAN
    OBVIOUS
  <2>3. right = (coverage.right \/ Whole') /\ quiet = (coverage.quiet /\ ~disturbing)
    OBVIOUS
  <2>4. coverage' = [coverage EXCEPT !.right = right, !.quiet = quiet]
    BY <2>1
  <2> HIDE DEF right, quiet
  <2>5. /\ coverage'.step = coverage.step /\ coverage'.missing = coverage.missing
        /\ coverage'.right = right /\ coverage'.quiet = quiet
        /\ coverage' \in [step : Steps, missing : Int, quiet : BOOLEAN, right : BOOLEAN]
    BY <2>2, <2>4 DEF IInv, CoverageTypes
  <2>6. CoverageTypes'
    BY <2>5 DEF IInv, CoverageTypes
  <2>7. (coverage.step # "none" /\ Whole => coverage.right)'
    BY <2>3, <2>5
  <2>8. ASSUME quiet
        PROVE  /\ coverage.step = "indexed" => Cardinality(LatestLive') <= coverage.missing
               /\ coverage.step = "excluded" => Cardinality(LatestLive' \ Indexed') <= coverage.missing
               /\ coverage.step \in {"pending", "blocking"} =>
                    Cardinality(Counted' \ Indexed') <= coverage.missing
               /\ Answered => right
    <3>1. coverage.quiet /\ Steady /\ coverage.missing \in Int
      BY <1>2, <2>3, <2>8 DEF IInv, CoverageTypes
    <3>2. /\ coverage.step = "indexed" => Cardinality(LatestLive) <= coverage.missing
          /\ coverage.step = "excluded" => Cardinality(LatestLive \ Indexed) <= coverage.missing
          /\ coverage.step \in {"pending", "blocking"} =>
               Cardinality(Counted \ Indexed) <= coverage.missing
          /\ Answered => coverage.right
      BY <3>1 DEF IInv, Counting
    <3>3. IsFiniteSet(LatestLive) /\ IsFiniteSet(LatestLive \ Indexed) /\ IsFiniteSet(Counted \ Indexed)
      BY LatestLiveFinite, Sets, FS_Subset
    <3>4. Cardinality(LatestLive') \in Int /\ Cardinality(LatestLive) \in Int
          /\ Cardinality(LatestLive') <= Cardinality(LatestLive)
      BY <3>1, <3>3, Smaller DEF Steady
    <3>5. Cardinality(LatestLive' \ Indexed') \in Int /\ Cardinality(LatestLive \ Indexed) \in Int
          /\ Cardinality(LatestLive' \ Indexed') <= Cardinality(LatestLive \ Indexed)
      BY <3>1, <3>3, Smaller, GapsShrink
    <3>6. Cardinality(Counted' \ Indexed') \in Int /\ Cardinality(Counted \ Indexed) \in Int
          /\ Cardinality(Counted' \ Indexed') <= Cardinality(Counted \ Indexed)
      BY <3>1, <3>3, Smaller, GapsShrink
    <3>7. coverage.step = "indexed" => Cardinality(LatestLive') <= coverage.missing
      BY <3>1, <3>2, <3>4
    <3>8. coverage.step = "excluded" => Cardinality(LatestLive' \ Indexed') <= coverage.missing
      BY <3>1, <3>2, <3>5
    <3>9. coverage.step \in {"pending", "blocking"} => Cardinality(Counted' \ Indexed') <= coverage.missing
      BY <3>1, <3>2, <3>6
    <3>10. Answered => right
      BY <2>3, <3>2
    <3> QED
      BY <3>7, <3>8, <3>9, <3>10
  <2>9. Answered' = Answered
    BY <2>5 DEF Answered
  <2>10. Counting'
    BY <2>5, <2>7, <2>8, <2>9 DEF Counting
  <2> QED
    BY <1>1, <2>6, <2>10 DEF IInv
<1> QED
  BY <1>3, <1>4

\* A statement of coverage reads the tables and leaves them.
LEMMA ReadingFrame ==
  ASSUME IInv, NEW fields, Read(fields)
  PROVE  /\ coverage' = fields /\ TableTypes' /\ Opening'
         /\ LatestLive' = LatestLive /\ Indexed' = Indexed /\ Counted' = Counted
         /\ Blocking' = Blocking /\ Whole' = Whole
<1>1. UNCHANGED <<file, origin, process, documents, chunks, projection, tombstones, exclusions,
                  work, calls, checked, request>> /\ coverage' = fields
  BY DEF Read, tables, callers
<1>2. LatestLive' = LatestLive /\ Indexed' = Indexed /\ Counted' = Counted /\ Blocking' = Blocking
  BY <1>1 DEF LatestLive, Indexed, Counted, Blocking
<1>3. TableTypes'
  BY <1>1 DEF IInv, TableTypes
<1> QED
  BY <1>1, <1>2, <1>3, OpeningFrame DEF IInv, Whole

LEMMA CountDocumentsStep ==
  ASSUME IInv, CountDocuments
  PROVE  IInv'
<1> DEFINE n == Cardinality(LatestLive)
<1> DEFINE fields == [NoCoverage EXCEPT !.step = "indexed", !.missing = n, !.right = Whole]
<1>1. Read(fields)
  BY DEF CountDocuments
<1>2. n \in Nat /\ n <= Cardinality(Subjects) /\ Whole \in BOOLEAN
  BY LatestLiveFinite DEF Whole
<1>3. /\ coverage' = fields /\ TableTypes' /\ Opening' /\ LatestLive' = LatestLive /\ Whole' = Whole
  <2> HIDE DEF fields
  <2> QED
    BY <1>1, ReadingFrame
<1>4. coverage' = [step |-> "indexed", missing |-> n, quiet |-> TRUE, right |-> Whole]
  BY <1>3 DEF NoCoverage
<1>5. n = Cardinality(LatestLive')
  BY <1>3
<1> HIDE DEF n
<1>6. /\ coverage'.step = "indexed" /\ coverage'.missing = n /\ coverage'.right = Whole
      /\ coverage' \in [step : Steps, missing : Int, quiet : BOOLEAN, right : BOOLEAN]
  BY <1>2, <1>4 DEF Steps
<1>7. CoverageTypes'
  BY <1>2, <1>6 DEF CoverageTypes
<1>8. Counting'
  BY <1>2, <1>3, <1>5, <1>6 DEF Counting, Answered
<1> QED
  BY <1>3, <1>7, <1>8 DEF IInv

\* What is indexed, or excluded, is taken off what is missing.
LEMMA CountMoreStep ==
  ASSUME IInv, CountIndexed \/ CountExcluded
  PROVE  IInv'
<1>1. PICK S \in {Indexed, Excluded}, next \in {"excluded", "pending"} :
        /\ Read([coverage EXCEPT !.step = next, !.missing = @ - Cardinality(S)])
        /\ \/ coverage.step = "indexed" /\ next = "excluded" /\ S = Indexed
           \/ coverage.step = "excluded" /\ next = "pending" /\ S = Excluded
  BY DEF CountIndexed, CountExcluded, Reading
<1>2. S \subseteq LatestLive /\ IsFiniteSet(S) /\ Cardinality(S) \in Nat
  BY <1>1, Sets, LatestLiveFinite, FS_Subset, FS_CardinalityType
<1> DEFINE n == coverage.missing - Cardinality(S)
<1>3. n \in Int /\ n <= coverage.missing /\ coverage.missing \in Int
  BY <1>2 DEF IInv, CoverageTypes
<1>4. /\ coverage' = [coverage EXCEPT !.step = next, !.missing = n]
      /\ TableTypes' /\ Opening' /\ LatestLive' = LatestLive /\ Indexed' = Indexed
      /\ Counted' = Counted /\ Whole' = Whole
  BY <1>1, ReadingFrame
<1>5. coverage.quiet /\ next = "excluded" => Cardinality(LatestLive \ Indexed) <= n
  <2>1. Cardinality(LatestLive \ Indexed) = Cardinality(LatestLive) - Cardinality(Indexed)
    <3>1. LatestLive \cap Indexed = Indexed
      BY Sets
    <3> QED
      BY <3>1, LatestLiveFinite, FS_Difference
  <2> QED
    BY <1>1, <1>2, <1>3, <2>1, LatestLiveFinite DEF IInv, Counting
<1>6. coverage.quiet /\ next = "pending" => Cardinality(Counted \ Indexed) <= n
  <2>1. IsFiniteSet(LatestLive \ Indexed)
    BY LatestLiveFinite, FS_Difference
  <2>2. (LatestLive \ Indexed) \cap Excluded = Excluded
    BY Sets
  <2>3. Cardinality(Counted \ Indexed) = Cardinality(LatestLive \ Indexed) - Cardinality(Excluded)
    BY <2>1, <2>2, Sets, FS_Difference
  <2>4. Cardinality(LatestLive \ Indexed) \in Nat
    BY <2>1, FS_CardinalityType
  <2> QED
    BY <1>1, <1>2, <1>3, <2>3, <2>4 DEF IInv, Counting
<1> HIDE DEF n
<1>7. /\ coverage'.step = next /\ coverage'.missing = n /\ coverage'.right = coverage.right
      /\ coverage'.quiet = coverage.quiet /\ coverage.step # "none"
      /\ coverage' \in [step : Steps, missing : Int, quiet : BOOLEAN, right : BOOLEAN]
  BY <1>1, <1>3, <1>4 DEF IInv, CoverageTypes, Steps
<1>8. CoverageTypes'
  <2>1. Cardinality(Subjects) \in Nat
    BY LatestLiveFinite
  <2> QED
    BY <1>3, <1>7, <2>1 DEF IInv, CoverageTypes
<1>9. Counting'
  BY <1>1, <1>4, <1>5, <1>6, <1>7 DEF IInv, Counting, Answered
<1> QED
  BY <1>4, <1>8, <1>9 DEF IInv

\* A count that ends leaves nothing behind.
LEMMA NothingCounted ==
  ASSUME IInv, Read(NoCoverage)
  PROVE  IInv'
<1>1. coverage' = NoCoverage /\ TableTypes' /\ Opening'
  BY ReadingFrame
<1>2. CoverageTypes' /\ Counting'
  BY <1>1, LatestLiveFinite DEF CoverageTypes, Counting, NoCoverage, Steps, Answered
<1> QED
  BY <1>1, <1>2 DEF IInv

LEMMA CountWorkStep ==
  ASSUME IInv, CountWork
  PROVE  IInv'
<1>1. CASE Read(NoCoverage)
  BY <1>1, NothingCounted
<1>2. CASE Read([coverage EXCEPT !.step = "blocking"]) /\ coverage.missing = 0
  <2>1. coverage.step = "pending"
    BY DEF CountWork, Reading
  <2>2. /\ coverage' = [coverage EXCEPT !.step = "blocking"]
        /\ TableTypes' /\ Opening' /\ LatestLive' = LatestLive /\ Indexed' = Indexed
        /\ Counted' = Counted /\ Whole' = Whole
    BY <1>2, ReadingFrame
  <2>3. CoverageTypes' /\ coverage'.step = "blocking" /\ coverage'.missing = coverage.missing
        /\ coverage'.right = coverage.right /\ coverage'.quiet = coverage.quiet
    BY <1>2, <2>2 DEF IInv, CoverageTypes, Steps
  <2>4. Counting'
    BY <2>1, <2>2, <2>3 DEF IInv, Counting, Answered
  <2> QED
    BY <2>2, <2>3, <2>4 DEF IInv
<1> QED
  BY <1>1, <1>2 DEF CountWork

\* If nothing is missing by the count, nothing is: the record is whole right now.
LEMMA JudgeStep ==
  ASSUME IInv, Judge
  PROVE  IInv'
<1>1. CASE Read(NoCoverage)
  BY <1>1, NothingCounted
<1>2. CASE Read([coverage EXCEPT !.step = "complete"]) /\ Blocking = {}
  <2>1. coverage.step = "blocking"
    BY DEF Judge, Reading
  <2>2. /\ coverage' = [coverage EXCEPT !.step = "complete"]
        /\ TableTypes' /\ Opening' /\ LatestLive' = LatestLive /\ Indexed' = Indexed
        /\ Counted' = Counted /\ Whole' = Whole
    BY <1>2, ReadingFrame
  <2>3. CoverageTypes' /\ coverage'.step = "complete"
        /\ coverage'.right = coverage.right /\ coverage'.quiet = coverage.quiet
    BY <2>2 DEF IInv, CoverageTypes, Steps
  <2>4. coverage.quiet => coverage.right
    <3> SUFFICES ASSUME coverage.quiet PROVE coverage.right
      OBVIOUS
    <3>1. Cardinality(Counted \ Indexed) <= 0
      BY <2>1 DEF IInv, Counting, CoverageTypes
    <3>2. IsFiniteSet(Counted \ Indexed)
      BY LatestLiveFinite, Sets, FS_Subset
    <3>3. Counted \ Indexed = {}
      BY <3>1, <3>2, FS_CardinalityType, FS_EmptySet
    <3>4. Whole
      BY <1>2, <3>3, Sets DEF Whole
    <3> QED
      BY <2>1, <3>4 DEF IInv, Counting
  <2>5. Counting'
    BY <2>1, <2>2, <2>3, <2>4 DEF IInv, Counting, Answered
  <2> QED
    BY <2>2, <2>3, <2>5 DEF IInv
<1> QED
  BY <1>1, <1>2 DEF Judge

LEMMA AnswerStep ==
  ASSUME IInv, AnswerCoverage
  PROVE  IInv'
  BY NothingCounted DEF AnswerCoverage

-----------------------------------------------------------------------------
(***************************************************************************)
(* Requests.                                                               *)
(***************************************************************************)

\* Whatever writes to the tables: types are kept, and the count is disturbed or
\* the step is steady.
LEMMA NewVersionStep ==
  ASSUME IInv, NEW s \in Subjects, NEW n \in Room(s), UNCHANGED <<file, origin, process>>, Seen(TRUE),
         documents' = [documents EXCEPT ![s] = n],
         UNCHANGED <<projection, tombstones, exclusions, request>>,
         chunks' \subseteq Docs, checked' \subseteq Texts, work' \in WorkType, calls' \subseteq CallType
  PROVE  IInv'
<1>1. documents' \in [Subjects -> Nat] /\ \A t \in Subjects : documents'[t] \in Room(t)
  BY BoundsAssumption DEF IInv, TableTypes, Room
<1>2. TableTypes'
  BY <1>1 DEF IInv, TableTypes, Room
<1> QED
  BY <1>2, WritingStep

LEMMA CallTyped ==
  ASSUME NEW d \in Docs, NEW by \in {"handler", "maintenance"}
  PROVE  Index(d, by) \in CallType
  BY DEF Index, CallType

LEMMA SubmitStep ==
  ASSUME IInv, NEW s \in Subjects, Submit(s)
  PROVE  IInv'
<1>1. s \in Texts /\ s \notin Files /\ 1 \in Room(s) /\ <<s, 1>> \in Docs
  BY BoundsAssumption, SubjectsAssumption DEF Submit, Room, Docs
<1>2. chunks' \subseteq Docs /\ calls' \subseteq CallType /\ checked' \subseteq Texts /\ work' \in WorkType
  BY <1>1, CallTyped DEF Submit, IInv, TableTypes
<1> QED
  BY <1>1, <1>2, NewVersionStep DEF Submit, Same

LEMMA ConfirmStep ==
  ASSUME IInv, NEW s \in Subjects, Confirm(s)
  PROVE  IInv'
<1> DEFINE n == documents[s] + 1
<1>1. s \in Texts /\ s \notin Files /\ documents[s] \in Nat /\ documents[s] <= MaxConfirms
  BY SubjectsAssumption DEF Confirm, IInv, TableTypes
<1>2. n \in Room(s) /\ <<s, n>> \in Docs
  BY <1>1, BoundsAssumption DEF Room, Docs
<1>3. documents' = [documents EXCEPT ![s] = n]
  BY DEF Confirm
<1>4. /\ chunks' = chunks \cup {<<s, n>>} /\ calls' = calls \cup {Index(<<s, n>>, "handler")}
      /\ Same /\ Seen(TRUE)
      /\ UNCHANGED <<projection, tombstones, exclusions, work, checked, request>>
  BY DEF Confirm
<1> HIDE DEF n
<1>5. chunks' \subseteq Docs /\ calls' \subseteq CallType /\ checked' \subseteq Texts /\ work' \in WorkType
  BY <1>2, <1>4, CallTyped DEF IInv, TableTypes
<1> QED
  BY <1>2, <1>3, <1>4, <1>5, NewVersionStep DEF Same

LEMMA RegisterStep ==
  ASSUME IInv, NEW s \in Subjects, Register(s)
  PROVE  IInv'
<1> DEFINE n == documents[s] + 1
           r == <<"extract", <<s, documents[s] + 1>>>>
<1>1. s \in Files /\ documents[s] \in Nat /\ documents[s] < MaxVersion
  BY DEF Register, IInv, TableTypes
<1>2. n \in Room(s)
  BY <1>1, BoundsAssumption DEF Room
<1>3. /\ documents' = [documents EXCEPT ![s] = n] /\ work' = [work EXCEPT ![r] = "pending"]
      /\ Same /\ Seen(TRUE)
      /\ UNCHANGED <<chunks, projection, tombstones, exclusions, calls, checked, request>>
  BY DEF Register, callers
<1> HIDE DEF n, r
<1>4. work' \in WorkType
  BY <1>3 DEF IInv, TableTypes, WorkType
<1>5. chunks' \subseteq Docs /\ calls' \subseteq CallType /\ checked' \subseteq Texts
  BY <1>3 DEF IInv, TableTypes
<1> QED
  BY <1>2, <1>3, <1>4, <1>5, NewVersionStep DEF Same

LEMMA Went ==
  ASSUME NEW step \in {"none", "register", "drain", "rebuild", "settle"},
         NEW left \in SUBSET (Docs \cup Rows), Goto(step, left)
  PROVE  request' \in RequestType
  BY DEF Goto, RequestType

LEMMA LatestAreDocs ==
  ASSUME IInv
  PROVE  {<<s, documents[s]>> : s \in {t \in Subjects : documents[t] > 0}} \subseteq Docs
<1>1. ASSUME NEW s \in Subjects, documents[s] > 0
      PROVE  <<s, documents[s]>> \in Docs
  <2>1. documents[s] \in Room(s) /\ documents[s] \in Nat
    BY DEF IInv, TableTypes
  <2> QED
    BY <1>1, <2>1, BoundsAssumption DEF Room, Docs, Subjects
<1> QED
  BY <1>1

LEMMA StartRebuildStep ==
  ASSUME IInv, StartRebuild
  PROVE  IInv'
<1> DEFINE all == {<<s, documents[s]>> : s \in {t \in Subjects : documents[t] > 0}}
<1>1. projection' = {} /\ Goto("rebuild", all) /\ Same /\ Seen(TRUE)
      /\ UNCHANGED <<documents, chunks, tombstones, exclusions, work, calls, checked>>
  BY DEF StartRebuild, callers
<1>2. all \in SUBSET (Docs \cup Rows)
  BY LatestAreDocs
<1> HIDE DEF all
<1>3. request' \in RequestType
  BY <1>1, <1>2, Went
<1>4. TableTypes'
  BY <1>1, <1>3 DEF IInv, TableTypes, Room
<1> QED
  BY <1>1, <1>4, WritingStep DEF Same

\* Documents, tombstones and exclusions are left alone, and the projection loses
\* no latest version.
LEMMA WorkingStep ==
  ASSUME IInv, UNCHANGED <<file, origin, process>>, Seen(FALSE),
         UNCHANGED <<documents, tombstones, exclusions, checked>>,
         chunks \subseteq chunks', chunks' \subseteq Docs,
         LatestLive \cap projection \subseteq projection', projection' \subseteq Docs,
         work' \in WorkType, calls' \subseteq CallType, request' \in RequestType
  PROVE  IInv'
<1>1. LatestLive' = LatestLive
  BY DEF LatestLive
<1>2. Steady
  BY <1>1 DEF Steady
<1>3. TableTypes'
  BY DEF IInv, TableTypes, Room
<1> QED
  BY <1>2, <1>3, WritingStep

\* The tables and the calls are of their types before a step.
LEMMA TypedBefore ==
  ASSUME IInv
  PROVE  /\ chunks \subseteq Docs /\ projection \subseteq Docs /\ work \in WorkType
         /\ calls \subseteq CallType /\ request \in RequestType
         /\ \A c \in calls : c.doc \in Docs /\ \A at \in {"check", "mark", "retire"} :
              [c EXCEPT !.at = at] \in CallType
<1>1. calls \subseteq CallType
  BY DEF IInv, TableTypes
<1>2. \A c \in calls : c.doc \in Docs /\ \A at \in {"check", "mark", "retire"} :
              [c EXCEPT !.at = at] \in CallType
  BY <1>1 DEF CallType
<1> QED
  BY <1>1, <1>2 DEF IInv, TableTypes

\* A call takes a latest version out of the projection only where the count sees it.
LEMMA CallSteps ==
  ASSUME IInv, NEW c \in calls, Check(c) \/ Mark(c) \/ Retire(c)
  PROVE  IInv'
<1>1. /\ chunks \subseteq Docs /\ projection \subseteq Docs /\ work \in WorkType
      /\ calls \subseteq CallType /\ request \in RequestType
      /\ c.doc \in Docs /\ \A at \in {"check", "mark", "retire"} : [c EXCEPT !.at = at] \in CallType
  BY TypedBefore
<1>2. UNCHANGED <<file, origin, process, documents, chunks, tombstones, exclusions, work, checked, request>>
  BY DEF Check, Mark, Retire, Calling, Same
<1>3. calls' \subseteq CallType
  BY <1>1 DEF Check, Mark, Retire, Becomes
<1>4. CASE Check(c) \/ Mark(c)
  <2>1. Seen(FALSE) /\ LatestLive \cap projection \subseteq projection' /\ projection' \subseteq Docs
    BY <1>1, <1>4 DEF Check, Mark
  <2> QED
    BY <1>1, <1>2, <1>3, <2>1, WorkingStep
<1>5. CASE Retire(c)
  <2> DEFINE lost == LatestLive \cap projection \cap Others(c.doc)
  <2>1. projection' = projection \ Others(c.doc) /\ Seen(lost # {})
    BY <1>5 DEF Retire
  <2>2. projection' \subseteq Docs
    BY <1>1, <2>1
  <2>3. CASE lost = {}
    <3>1. LatestLive \cap projection \subseteq projection'
      BY <2>1, <2>3
    <3>2. Seen(FALSE)
      <4>1. (lost # {}) = FALSE
        BY <2>3
      <4> HIDE DEF lost
      <4> QED
        BY <2>1, <4>1
    <3> QED
      BY <1>1, <1>2, <1>3, <2>2, <3>1, <3>2, WorkingStep
  <2>4. CASE lost # {}
    <3>1. Seen(TRUE)
      <4>1. (lost # {}) = TRUE
        BY <2>4
      <4> HIDE DEF lost
      <4> QED
        BY <2>1, <4>1
    <3>2. TableTypes'
      BY <1>1, <1>2, <1>3, <2>2 DEF IInv, TableTypes, Room
    <3> QED
      BY <1>2, <3>1, <3>2, WritingStep
  <2> QED
    BY <2>3, <2>4
<1> QED
  BY <1>4, <1>5

LEMMA RaiseStep ==
  ASSUME IInv, NEW c \in calls, Raise(c)
  PROVE  IInv'
<1>1. /\ chunks \subseteq Docs /\ projection \subseteq Docs /\ work \in WorkType
      /\ calls \subseteq CallType /\ request \in RequestType
  BY TypedBefore
<1>2. /\ UNCHANGED <<file, origin, process, documents, chunks, projection, tombstones, exclusions, checked>>
      /\ Seen(FALSE) /\ calls' = calls \ {c}
  BY DEF Raise
<1>3. work' \in WorkType /\ request' \in RequestType
  <2>1. CASE request.item = NoRow
    BY <1>1, <2>1 DEF Raise, NoRequest, RequestType
  <2>2. CASE request.item # NoRow
    BY <1>1, <2>2 DEF Raise, RequestType, WorkType
  <2> QED
    BY <2>1, <2>2
<1> QED
  BY <1>1, <1>2, <1>3, WorkingStep

LEMMA DrainSteps ==
  ASSUME IInv, NEW r \in Rows, Process(r) \/ Fail(r)
  PROVE  IInv'
<1>1. /\ chunks \subseteq Docs /\ projection \subseteq Docs /\ work \in WorkType
      /\ calls \subseteq CallType /\ request \in RequestType /\ r[2] \in Docs
  BY TypedBefore DEF Rows
<1>2. /\ UNCHANGED <<file, origin, process, documents, projection, tombstones, exclusions, checked>>
      /\ Seen(FALSE)
  BY DEF Process, Fail, Same, callers
<1>3. request' \in RequestType
  BY <1>1 DEF Process, Fail, RequestType
<1>4. work' \in WorkType
  BY <1>1 DEF Process, Fail, WorkType
<1>5. chunks \subseteq chunks' /\ chunks' \subseteq Docs
  BY <1>1 DEF Process, Fail
<1>6. calls' = calls \cup {Index(r[2], "maintenance")} \/ calls' = calls
  BY DEF Process, Fail, callers
<1>7. Index(r[2], "maintenance") \in CallType
  BY <1>1, CallTyped
<1>8. calls' \subseteq CallType
  BY <1>1, <1>6, <1>7
<1> QED
  BY <1>1, <1>2, <1>3, <1>4, <1>5, <1>8, WorkingStep

LEMMA RebuildStep ==
  ASSUME IInv, NEW d \in Docs, Rebuild(d)
  PROVE  IInv'
<1>1. /\ chunks \subseteq Docs /\ projection \subseteq Docs /\ work \in WorkType
      /\ calls \subseteq CallType /\ request \in RequestType
  BY TypedBefore
<1>2. /\ UNCHANGED <<file, origin, process, documents, chunks, projection, tombstones, exclusions, work, checked>>
      /\ Seen(FALSE)
  BY DEF Rebuild, Same, tables
<1>3. request' \in RequestType
  BY <1>1 DEF Rebuild, RequestType
<1>4. calls' \subseteq CallType
  BY <1>1, CallTyped DEF Rebuild
<1> QED
  BY <1>1, <1>2, <1>3, <1>4, WorkingStep

\* Scans and rebuilds begin, sweep, take the next row and end.
LEMMA MaintenanceSteps ==
  ASSUME IInv, StartScan \/ Sweep \/ Complete \/ EndScan \/ EndRebuild \/ Settle
  PROVE  IInv'
<1>1. /\ chunks \subseteq Docs /\ projection \subseteq Docs /\ work \in WorkType
      /\ calls \subseteq CallType /\ request \in RequestType
  BY TypedBefore
<1>2. /\ UNCHANGED <<file, origin, process, documents, chunks, projection, tombstones, exclusions, calls, checked>>
      /\ Seen(FALSE)
  BY DEF StartScan, Sweep, Complete, EndScan, EndRebuild, Settle, Same, tables, callers
<1>3. request' \in RequestType
  <2>1. CASE Complete
    BY <1>1, <2>1 DEF Complete, RequestType
  <2>2. CASE \E step \in {"none", "register"} : Goto(step, {})
    BY <2>2, Went
  <2>3. CASE Goto("drain", {r \in Rows : work'[r] = "pending"})
    BY <2>3, Went
  <2>4. CASE EndRebuild
    <3> DEFINE good == {d \in LatestLive \ NeedingIndex : work[<<"index", d>>] = "failed"}
    <3>1. good \in SUBSET (Docs \cup Rows)
      BY LatestAreDocs DEF LatestLive
    <3>2. Goto(IF good = {} THEN "none" ELSE "settle", good)
      BY <2>4 DEF EndRebuild
    <3> HIDE DEF good
    <3> QED
      BY <3>1, <3>2, Went
  <2> QED
    BY <2>1, <2>2, <2>3, <2>4 DEF StartScan, Sweep, EndScan, Settle
<1>4. work' \in WorkType
  <2>1. CASE Sweep
    BY <1>1, <2>1 DEF Sweep, Requeued, WorkType
  <2>2. CASE Settle
    BY <1>1, <2>2 DEF Settle, WorkType
  <2>3. CASE Complete
    BY <1>1, <2>3 DEF Complete, WorkType
  <2> QED
    BY <1>1, <2>1, <2>2, <2>3 DEF StartScan, EndScan, EndRebuild, tables
<1> QED
  BY <1>1, <1>2, <1>3, <1>4, WorkingStep

\* The version goes with its tombstone, before the projection lets go of it.
LEMMA ForgetStep ==
  ASSUME IInv, NEW s \in Subjects, Forget(s)
  PROVE  IInv'
<1>1. tombstones' = tombstones \cup {s} /\ projection' = {d \in projection : d[1] # s} /\ Same /\ Seen(FALSE)
      /\ UNCHANGED <<documents, chunks, exclusions, work, calls, checked, request>>
  BY DEF Forget, callers
<1>2. TableTypes'
  BY <1>1 DEF IInv, TableTypes, Room
<1>3. \A d \in LatestLive' : d \in LatestLive /\ d[1] # s
  BY <1>1 DEF LatestLive
<1>4. Steady
  BY <1>1, <1>3 DEF Steady
<1> QED
  BY <1>1, <1>2, <1>4, WritingStep DEF Same

LEMMA ExcludeStep ==
  ASSUME IInv, NEW d \in Docs, Exclude(d)
  PROVE  IInv'
<1>1. exclusions' = exclusions \cup {d} /\ d \notin chunks /\ Same /\ Seen(FALSE)
      /\ UNCHANGED <<documents, chunks, projection, tombstones, work, calls, checked, request>>
  BY DEF Exclude, callers
<1>2. TableTypes'
  BY <1>1 DEF IInv, TableTypes, Room
<1>3. Steady
  BY <1>1 DEF Steady, LatestLive
<1> QED
  BY <1>1, <1>2, <1>3, WritingStep DEF Same

-----------------------------------------------------------------------------
(***************************************************************************)
(* The results.                                                            *)
(***************************************************************************)

LEMMA Initially == Init => IInv
<1> SUFFICES ASSUME Init PROVE IInv
  OBVIOUS
<1>1. TableTypes
  <2>1. documents \in [Subjects -> Nat] /\ \A s \in Subjects : documents[s] \in Room(s)
    BY BoundsAssumption DEF Init, Room
  <2>2. work \in WorkType
    BY DEF Init, WorkType
  <2>3. request \in RequestType
    BY DEF Init, NoRequest, RequestType
  <2> QED
    BY <2>1, <2>2, <2>3 DEF Init, TableTypes
<1>2. CoverageTypes /\ Counting
  BY LatestLiveFinite DEF Init, CoverageTypes, Counting, NoCoverage, Steps, Answered
<1>3. Opening
  <2>1. /\ file.version = origin /\ file.journal = <<>> /\ file.objects = Of(origin)
        /\ process.step = "down" /\ process.found = 0
        /\ origin \in 0 .. SchemaVersion + 1 /\ Untouched /\ SchemaVersion \in Nat
    BY SchemaAssumption DEF Init, Untouched
  <2> QED
    BY <2>1 DEF Init, Opening, Serving
<1> QED
  BY <1>1, <1>2, <1>3 DEF IInv

LEMMA StutterStep ==
  ASSUME IInv, UNCHANGED vars
  PROVE  IInv'
  BY OpeningFrame, RestFrame DEF IInv, vars

LEMMA Inductive ==
  ASSUME IInv, [Next]_vars
  PROVE  IInv'
<1>1. CASE Open \/ Create \/ Stamp \/ Migrate \/ Opened \/ Crash
  BY <1>1, OpenStep, CreateStep, StampStep, MigrateStep, OpenedStep, CrashStep
<1>2. CASE Count
  BY <1>2, CountDocumentsStep, CountMoreStep, CountWorkStep, JudgeStep, AnswerStep DEF Count
<1>3. ASSUME NEW s \in Subjects, Submit(s) \/ Confirm(s) \/ Forget(s) \/ Register(s)
      PROVE  IInv'
  BY <1>3, SubmitStep, ConfirmStep, ForgetStep, RegisterStep
<1>4. ASSUME NEW d \in Docs, Exclude(d) \/ Rebuild(d)
      PROVE  IInv'
  BY <1>4, RebuildStep, ExcludeStep
<1>5. ASSUME NEW r \in Rows, Process(r) \/ Fail(r)
      PROVE  IInv'
  BY <1>5, DrainSteps
<1>8. ASSUME NEW c \in calls, CallStep(c)
      PROVE  IInv'
  BY <1>8, CallSteps, RaiseStep DEF CallStep
<1>6. CASE StartScan \/ Sweep \/ Complete \/ EndScan \/ StartRebuild \/ EndRebuild \/ Settle
  BY <1>6, MaintenanceSteps, StartRebuildStep
<1>7. CASE UNCHANGED vars
  BY <1>7, StutterStep
<1> QED
  BY <1>1, <1>2, <1>3, <1>4, <1>5, <1>6, <1>7, <1>8 DEF Next

LEMMA Invariance == Spec => []IInv
<1>1. IInv /\ [Next]_vars => IInv'
  BY Inductive
<1> QED
  BY <1>1, Initially, PTL DEF Spec

\* The record's tables, the file's version and journal and a count under way are
\* of their types in every state: no migration is journalled that this build does
\* not have, and a count never misses more documents than there are subjects
\* (record/__init__.py:88-136, service.py:187-202).
THEOREM RecordTypeCorrect == Spec => []TypeOK
<1>1. IInv => TypeOK
  <2> SUFFICES ASSUME IInv PROVE TypeOK
    OBVIOUS
  <2>1. file.version \in 0 .. SchemaVersion + 1
    <3>1. origin \in 0 .. SchemaVersion + 1 /\ SchemaVersion \in Nat /\ file.version \in Nat
      BY SchemaAssumption DEF IInv, Opening
    <3>2. CASE Untouched
      BY <3>1, <3>2 DEF Untouched
    <3>3. CASE Understood(file.version)
      BY <3>1, <3>3 DEF Understood
    <3> QED
      BY <3>2, <3>3 DEF IInv, Opening
  <2>2. ToSet(file.journal) \subseteq Migrations
    <3>1. file.journal \in Seq(Nat) /\ \A i \in 1 .. Len(file.journal) : file.journal[i] \in Migrations
      BY DEF IInv, Opening
    <3> QED
      BY <3>1 DEF ToSet
  <2>3. process.step \in {"down", "opening", "refused", "serving"}
    BY DEF IInv, Opening
  <2>4. /\ chunks \cup projection \cup exclusions \subseteq Docs
        /\ request.left \subseteq Docs \cup Rows /\ request.item \in Rows \cup {NoRow}
        /\ \A s \in Files : documents[s] \in 0 .. MaxVersion
        /\ \A s \in Texts : documents[s] \in 0 .. MaxConfirms + 1
    BY SubjectsAssumption DEF IInv, TableTypes, RequestType, Room, Subjects
  <2> QED
    BY <2>1, <2>2, <2>3, <2>4 DEF IInv, TableTypes, CoverageTypes, TypeOK, CallType, WorkType
<1> QED
  BY <1>1, Invariance, PTL

\* Whatever version a file comes with, whatever migrations this build has and
\* however often opening was cut short, a record that is served is whole and its
\* journal tells every step taken, and one that is refused is as it was
\* (record/__init__.py:113-136, record/schema.py:86-88).
THEOREM AlwaysOpensWhole == Spec => []OpensWhole
<1>1. IInv => OpensWhole
  <2> SUFFICES ASSUME IInv PROVE OpensWhole
    OBVIOUS
  <2>1. process.step = "refused" =>
          file = [version |-> origin, objects |-> Of(origin), journal |-> <<>>]
    BY DEF IInv, Opening, Untouched
  <2>2. Serving => file.version = SchemaVersion /\ Missing = {}
    BY DEF IInv, Opening
  <2>3. ASSUME Serving
        PROVE  file.journal = IF origin = 0 THEN <<>>
                              ELSE [i \in 1 .. SchemaVersion - origin |-> origin + i]
    <3>1. CASE origin = 0
      BY <3>1 DEF IInv, Opening
    <3>2. CASE origin # 0
      <4>1. origin > 0 /\ file.version = SchemaVersion /\ origin \in Nat /\ SchemaVersion \in Nat
        BY <2>2, <2>3, <3>2, SchemaAssumption DEF IInv, Opening
      <4>2. /\ file.journal \in Seq(Nat) /\ SchemaVersion = origin + Len(file.journal)
            /\ \A i \in 1 .. Len(file.journal) : file.journal[i] = origin + i
        BY <4>1 DEF IInv, Opening
      <4>3. Len(file.journal) = SchemaVersion - origin
        BY <4>1, <4>2
      <4>4. file.journal = [i \in 1 .. Len(file.journal) |-> file.journal[i]]
        BY <4>2
      <4> QED
        BY <3>2, <4>2, <4>3, <4>4
    <3> QED
      BY <3>1, <3>2
  <2> QED
    BY <2>1, <2>2, <2>3 DEF OpensWhole
<1> QED
  BY <1>1, Invariance, PTL

\* For any number of subjects and any interleaving of requests with coverage's
\* statements, "complete" was true at some moment of the count if meanwhile no
\* document was stored, no rebuild begun, and no latest version retired by an
\* overtaken index call (service.py:187-202, projection.py:91-96).
THEOREM CompleteIsTrue == Spec => []CompleteWasTrue
<1>1. IInv => CompleteWasTrue
  BY DEF IInv, Counting, CompleteWasTrue
<1> QED
  BY <1>1, Invariance, PTL

-----------------------------------------------------------------------------
(***************************************************************************)
(* Chunks of any text.  Each stage of chunking keeps what Tiles says; the    *)
(* recursions move right, which gives both their functions and an induction.  *)
(***************************************************************************)

Span == Nat \X Nat

\* Spans in order from lo to hi, apart and not empty, that miss no letter.
Tiles(text, spans, lo, hi) ==
  /\ spans \in Seq(Span)
  /\ \A i \in DOMAIN spans : lo <= spans[i][1] /\ spans[i][1] < spans[i][2] /\ spans[i][2] <= hi
  /\ \A i, j \in DOMAIN spans : i < j => spans[i][2] <= spans[j][1]
  /\ \A k \in lo .. hi - 1 : text[k] = "letter" =>
       \E i \in DOMAIN spans : spans[i][1] <= k /\ k < spans[i][2]

\* Nothing a reader would look for from lo up to hi.
NoLetter(text, lo, hi) == \A k \in lo .. hi - 1 : text[k] # "letter"

\* Spans over two stretches, with no letter in between.
LEMMA TilesJoin ==
  ASSUME NEW text, NEW s, NEW t, NEW lo \in Nat, NEW mid \in Nat, NEW mid2 \in Nat, NEW hi \in Nat,
         lo <= mid, mid <= mid2, mid2 <= hi,
         Tiles(text, s, lo, mid), NoLetter(text, mid, mid2), Tiles(text, t, mid2, hi)
  PROVE  Tiles(text, s \o t, lo, hi)
<1> DEFINE c == s \o t
           n == Len(s)
           m == Len(t)
<1>1. /\ c \in Seq(Span) /\ n \in Nat /\ m \in Nat
      /\ DOMAIN s = 1 .. n /\ DOMAIN t = 1 .. m /\ DOMAIN c = 1 .. n + m
      /\ \A i \in 1 .. n : c[i] = s[i]
      /\ \A i \in n + 1 .. n + m : c[i] = t[i - n]
      /\ \A i \in 1 .. m : c[n + i] = t[i]
  <2>1. s \in Seq(Span) /\ t \in Seq(Span)
    BY DEF Tiles
  <2> QED
    BY <2>1, Joined
<1> HIDE DEF c, n, m
<1>2. \A i \in DOMAIN s : s[i] \in Span /\ s[i][1] \in Nat /\ s[i][2] \in Nat /\ lo <= s[i][1] /\ s[i][1] < s[i][2] /\ s[i][2] <= mid
  BY DEF Tiles, Span
<1>3. \A i \in DOMAIN t : t[i] \in Span /\ t[i][1] \in Nat /\ t[i][2] \in Nat
                            /\ mid2 <= t[i][1] /\ t[i][1] < t[i][2] /\ t[i][2] <= hi
  BY DEF Tiles, Span
<1>4. \A i \in DOMAIN c : \/ i \in 1 .. n /\ c[i] = s[i]
                          \/ i > n /\ i - n \in 1 .. m /\ c[i] = t[i - n]
  BY <1>1
<1>5. \A i \in DOMAIN c : lo <= c[i][1] /\ c[i][1] < c[i][2] /\ c[i][2] <= hi
  <2> TAKE i \in DOMAIN c
  <2>1. CASE i \in 1 .. n /\ c[i] = s[i]
    BY <1>1, <1>2, <2>1 DEF Span
  <2>2. CASE i - n \in 1 .. m /\ c[i] = t[i - n]
    <3>1. i - n \in DOMAIN t
      BY <1>1, <2>2
    <3>2. /\ t[i - n][1] \in Nat /\ t[i - n][2] \in Nat
          /\ mid2 <= t[i - n][1] /\ t[i - n][1] < t[i - n][2] /\ t[i - n][2] <= hi
      BY <1>3, <3>1
    <3> QED
      BY <2>2, <3>2
  <2> QED
    BY <1>4, <2>1, <2>2
<1>6. ASSUME NEW i \in DOMAIN c, NEW j \in DOMAIN c, i < j
      PROVE  c[i][2] <= c[j][1]
  <2>1. CASE j \in 1 .. n
    <3>1. i \in 1 .. n /\ c[i] = s[i] /\ c[j] = s[j]
      BY <1>1, <1>6, <2>1
    <3> QED
      BY <1>1, <1>6, <2>1, <3>1 DEF Tiles
  <2>2. CASE j - n \in 1 .. m /\ c[j] = t[j - n] /\ i \in 1 .. n
    <3>1. c[i] = s[i] /\ s[i][2] <= mid /\ mid2 <= t[j - n][1] /\ s[i] \in Span /\ t[j - n] \in Span
      BY <1>1, <1>2, <1>3, <2>2
    <3> QED
      BY <2>2, <3>1 DEF Span
  <2>3. CASE j - n \in 1 .. m /\ c[j] = t[j - n] /\ i - n \in 1 .. m /\ c[i] = t[i - n]
    <3>1. i - n < j - n
      BY <1>1, <1>6
    <3> QED
      BY <1>1, <2>3, <3>1 DEF Tiles
  <2> QED
    BY <1>4, <2>1, <2>2, <2>3
<1>7. ASSUME NEW k \in lo .. hi - 1, text[k] = "letter"
      PROVE  \E i \in DOMAIN c : c[i][1] <= k /\ k < c[i][2]
  <2>1. CASE k < mid
    <3>1. k \in lo .. mid - 1
      BY <2>1
    <3>2. PICK i \in DOMAIN s : s[i][1] <= k /\ k < s[i][2]
      BY <1>7, <3>1 DEF Tiles
    <3>3. i \in DOMAIN c /\ c[i] = s[i]
      BY <1>1
    <3> QED
      BY <3>2, <3>3
  <2>2. CASE mid <= k /\ k < mid2
    <3>1. k \in mid .. mid2 - 1
      BY <2>2
    <3> QED
      BY <1>7, <3>1 DEF NoLetter
  <2>3. CASE mid2 <= k
    <3>1. k \in mid2 .. hi - 1
      BY <2>3
    <3>2. PICK i \in DOMAIN t : t[i][1] <= k /\ k < t[i][2]
      BY <1>7, <3>1 DEF Tiles
    <3>3. n + i \in DOMAIN c /\ c[n + i] = t[i]
      BY <1>1
    <3> QED
      BY <3>2, <3>3
  <2> QED
    BY <2>1, <2>2, <2>3
<1> QED
  BY <1>1, <1>5, <1>6, <1>7 DEF Tiles, c

\* A stretch with no letter needs no span.
LEMMA TilesNone ==
  ASSUME NEW text, NEW lo \in Nat, NEW hi \in Nat, NoLetter(text, lo, hi)
  PROVE  Tiles(text, <<>>, lo, hi)
BY DEF Tiles, NoLetter

\* One span around all the letters of a stretch.
LEMMA TilesOne ==
  ASSUME NEW text, NEW lo \in Nat, NEW hi \in Nat, NEW a \in Nat, NEW b \in Nat,
         lo <= a, a < b, b <= hi, NoLetter(text, lo, a), NoLetter(text, b, hi)
  PROVE  Tiles(text, << <<a, b>> >>, lo, hi)
<1> DEFINE s == << <<a, b>> >>
<1>1. s \in Seq(Span) /\ DOMAIN s = {1} /\ s[1][1] = a /\ s[1][2] = b
  BY DEF Span
<1> HIDE DEF s
<1>2. \A k \in lo .. hi - 1 : text[k] = "letter" => a <= k /\ k < b
  BY DEF NoLetter
<1>3. Tiles(text, s, lo, hi)
  BY <1>1, <1>2 DEF Tiles
<1> QED
  BY <1>3 DEF s

\* Between two spans there is no letter.
LEMMA GapsAreBlank ==
  ASSUME NEW text, NEW s, NEW lo \in Nat, NEW hi \in Nat, Tiles(text, s, lo, hi)
  PROVE  /\ \A i \in DOMAIN s : i + 1 \in DOMAIN s => NoLetter(text, s[i][2], s[i + 1][1])
         /\ s # <<>> => NoLetter(text, lo, s[1][1]) /\ NoLetter(text, s[Len(s)][2], hi)
         /\ s = <<>> => NoLetter(text, lo, hi)
<1>1. /\ Len(s) \in Nat /\ DOMAIN s = 1 .. Len(s)
      /\ \A i \in DOMAIN s : /\ s[i] \in Span /\ s[i][1] \in Nat /\ s[i][2] \in Nat
                             /\ lo <= s[i][1] /\ s[i][1] < s[i][2] /\ s[i][2] <= hi
      /\ (s # <<>> => Len(s) >= 1)
  BY DEF Tiles, Span
<1>2. \A i, j \in DOMAIN s : i < j => s[i][2] <= s[j][1]
  BY DEF Tiles
<1>3. ASSUME NEW k \in lo .. hi - 1, text[k] = "letter"
      PROVE  \E i \in DOMAIN s : s[i][1] <= k /\ k < s[i][2]
  BY <1>3 DEF Tiles
<1>4. ASSUME NEW i \in DOMAIN s, i + 1 \in DOMAIN s, NEW k \in s[i][2] .. s[i + 1][1] - 1,
             text[k] = "letter"
      PROVE  FALSE
  <2>1. k \in lo .. hi - 1
    BY <1>1, <1>4
  <2>2. PICK j \in DOMAIN s : s[j][1] <= k /\ k < s[j][2]
    BY <1>3, <1>4, <2>1
  <2>3. ~(j < i) /\ j # i
    BY <1>1, <1>2, <1>4, <2>2
  <2>4. ~(j > i + 1) /\ j # i + 1
    <3>1. PICK n \in DOMAIN s : n = i + 1
      BY <1>4
    <3>2. k < s[n][1] /\ s[n][1] < s[n][2] /\ s[n][1] \in Nat /\ s[n][2] \in Nat /\ k \in Nat
      BY <1>1, <1>4, <2>1, <3>1
    <3>3. ~(n < j)
      BY <1>1, <1>2, <2>2, <3>2
    <3>4. n # j
      BY <2>2, <3>2
    <3> QED
      BY <1>1, <3>1, <3>3, <3>4
  <2> QED
    BY <1>1, <1>4, <2>3, <2>4
<1>5. ASSUME s # <<>>, NEW k \in lo .. s[1][1] - 1, text[k] = "letter"
      PROVE  FALSE
  <2>1. 1 \in DOMAIN s /\ k \in lo .. hi - 1
    BY <1>1, <1>5
  <2>2. PICK j \in DOMAIN s : s[j][1] <= k /\ k < s[j][2]
    BY <1>3, <1>5, <2>1
  <2>3. j = 1 \/ 1 < j
    BY <1>1
  <2> QED
    BY <1>1, <1>2, <1>5, <2>1, <2>2, <2>3
<1>6. ASSUME s # <<>>, NEW k \in s[Len(s)][2] .. hi - 1, text[k] = "letter"
      PROVE  FALSE
  <2>1. Len(s) \in DOMAIN s /\ k \in lo .. hi - 1
    BY <1>1, <1>6
  <2>2. PICK j \in DOMAIN s : s[j][1] <= k /\ k < s[j][2]
    BY <1>3, <1>6, <2>1
  <2>3. j = Len(s) \/ j < Len(s)
    BY <1>1
  <2> QED
    BY <1>1, <1>2, <1>6, <2>1, <2>2, <2>3
<1>7. ASSUME s = <<>>
      PROVE  NoLetter(text, lo, hi)
  BY <1>3, <1>7 DEF NoLetter
<1> QED
  BY <1>4, <1>5, <1>6, <1>7 DEF NoLetter

\* Where a search for the next other character ends.
LEMMA PastMeans ==
  ASSUME NEW text, NEW i \in Nat, NEW e \in Nat, i <= e, NEW cs
  PROVE  /\ Past(text, i, e, cs) \in i .. e
         /\ \A k \in i .. Past(text, i, e, cs) - 1 : text[k] \in cs
<1> DEFINE S == {k \in i .. e : k = e \/ text[k] \notin cs}
<1>1. S \in SUBSET Nat /\ e \in S /\ S \subseteq i .. e
  OBVIOUS
<1>2. \A k \in i .. e : k \notin S => text[k] \in cs
  OBVIOUS
<1>3. Past(text, i, e, cs) = Min(S)
  BY DEF Past
<1> HIDE DEF S
<1>4. Min(S) \in S /\ \A y \in S : Min(S) <= y
  BY <1>1, MinProperties
<1> DEFINE m == Min(S)
<1> HIDE DEF m
<1>5. m \in i .. e /\ \A k \in i .. m - 1 : k \in i .. e /\ k \notin S
  <2>1. m \in S /\ \A y \in S : m <= y
    BY <1>4 DEF m
  <2>2. m \in i .. e /\ m \in Nat
    BY <1>1, <2>1
  <2> QED
    BY <2>1, <2>2
<1>6. \A k \in i .. m - 1 : text[k] \in cs
  BY <1>2, <1>5
<1> QED
  BY <1>3, <1>5, <1>6 DEF m

\* Stripping loses no letter.
LEMMA StrippedTiles ==
  ASSUME NEW text, NEW lo \in Nat, NEW hi \in Nat, lo <= hi
  PROVE  Tiles(text, Stripped(text, <<lo, hi>>), lo, hi)
<1> DEFINE solid == {k \in lo .. hi - 1 : text[k] \notin Blank}
<1>1. Stripped(text, <<lo, hi>>) = IF solid = {} THEN <<>> ELSE << <<Min(solid), Max(solid) + 1>> >>
  BY DEF Stripped
<1>2. \A k \in lo .. hi - 1 : text[k] = "letter" => k \in solid
  BY DEF Blank
<1>3. solid \in SUBSET Nat /\ \A k \in solid : k <= hi /\ lo <= k /\ k < hi
  OBVIOUS
<1> HIDE DEF solid
<1>4. CASE solid = {}
  BY <1>1, <1>2, <1>4, TilesNone DEF NoLetter
<1>5. CASE solid # {}
  <2> DEFINE a == Min(solid)
             z == Max(solid)
             b == z + 1
  <2>1. a \in solid /\ \A k \in solid : a <= k
    BY <1>3, <1>5, MinProperties
  <2>2. z \in solid /\ \A k \in solid : k <= z
    BY <1>3, <1>5, MaxProperties
  <2> HIDE DEF a, z
  <2>3. a \in Nat /\ b \in Nat /\ lo <= a /\ a < b /\ b <= hi
    BY <1>3, <2>1, <2>2
  <2>4. \A k \in solid : a <= k /\ k < b
    BY <1>3, <2>1, <2>2
  <2> HIDE DEF a, b
  <2>5. NoLetter(text, lo, a)
    <3> SUFFICES ASSUME NEW k \in lo .. a - 1
                 PROVE  text[k] # "letter"
      BY DEF NoLetter
    <3>1. k \in lo .. hi - 1 /\ ~(a <= k)
      BY <2>3
    <3> QED
      BY <1>2, <2>4, <3>1
  <2>6. NoLetter(text, b, hi)
    <3> SUFFICES ASSUME NEW k \in b .. hi - 1
                 PROVE  text[k] # "letter"
      BY DEF NoLetter
    <3>1. k \in lo .. hi - 1 /\ ~(k < b)
      BY <2>3
    <3> QED
      BY <1>2, <2>4, <3>1
  <2>7. Tiles(text, << <<a, b>> >>, lo, hi)
    BY <2>3, <2>5, <2>6, TilesOne
  <2> QED
    BY <1>1, <1>5, <2>7 DEF a, b, z
<1> QED
  BY <1>4, <1>5

\* A separator is blank.
LEMMA SeparatorMeans ==
  ASSUME NEW text \in Seq(Characters), NEW i \in 1 .. Len(text)
  PROVE  /\ SeparatorEnd(text, i) \in i .. Len(text) + 1
         /\ NoLetter(text, i, SeparatorEnd(text, i))
<1> DEFINE end == Len(text) + 1
           next == Past(text, i + 1, end, {"space", "tab"})
           last == Past(text, next, end, {"newline"})
<1>1. Len(text) \in Nat /\ end \in Nat /\ i \in Nat /\ i + 1 <= end
  OBVIOUS
<1>2. next \in i + 1 .. end /\ \A k \in i + 1 .. next - 1 : text[k] \in {"space", "tab"}
  BY <1>1, PastMeans
<1>3. SeparatorEnd(text, i) = IF text[i] = "newline" /\ next < end /\ text[next] = "newline" THEN last ELSE i
  BY DEF SeparatorEnd
<1> HIDE DEF next
<1>4. last \in next .. end /\ \A k \in next .. last - 1 : text[k] \in {"newline"}
  BY <1>1, <1>2, PastMeans
<1> HIDE DEF last, end
<1>5. CASE text[i] = "newline" /\ next < end /\ text[next] = "newline"
  <2>1. SeparatorEnd(text, i) = last /\ last \in i .. end
    BY <1>1, <1>2, <1>3, <1>4, <1>5
  <2>2. \A k \in i .. last - 1 : text[k] # "letter"
    <3> TAKE k \in i .. last - 1
    <3>1. k = i \/ k \in i + 1 .. next - 1 \/ k \in next .. last - 1
      BY <1>1, <1>2, <1>4
    <3> QED
      BY <1>2, <1>4, <1>5, <3>1
  <2> QED
    BY <2>1, <2>2 DEF NoLetter, end
<1>6. CASE ~(text[i] = "newline" /\ next < end /\ text[next] = "newline")
  <2>1. SeparatorEnd(text, i) = i
    BY <1>3, <1>6
  <2> QED
    BY <1>1, <2>1 DEF NoLetter
<1> QED
  BY <1>5, <1>6

\* The paragraphs hold every letter: the recursion goes on after each separator.
LEMMA ParagraphsTile ==
  ASSUME NEW text \in Seq(Characters)
  PROVE  Tiles(text, ParagraphSpans(text), 1, Len(text) + 1)
<1> DEFINE n == Len(text) + 1
           Separators(i) == {k \in i .. Len(text) : SeparatorEnd(text, k) > k}
           Rest(f, i) == IF Separators(i) = {} THEN Stripped(text, <<i, n>>)
                         ELSE Stripped(text, <<i, Min(Separators(i))>>)
                                \o f[SeparatorEnd(text, Min(Separators(i)))]
           Made(f) == f = [i \in 1 .. n |-> Rest(f, i)]
           next == [i \in 1 .. n |-> SeparatorEnd(text, Min(Separators(i)))]
           head == [i \in 1 .. n |-> Stripped(text, <<i, Min(Separators(i))>>)]
           end == [i \in 1 .. n |-> Stripped(text, <<i, n>>)]
           stop == {i \in 1 .. n : Separators(i) = {}}
<1>1. n \in Nat /\ Len(text) \in Nat /\ n = Len(text) + 1 /\ 1 \in 1 .. n
  OBVIOUS
<1>2. ASSUME NEW i \in 1 .. n, Separators(i) # {}
      PROVE  LET s == Min(Separators(i)) IN
               /\ s \in Nat /\ i <= s /\ s <= Len(text)
               /\ SeparatorEnd(text, s) \in s + 1 .. n
               /\ NoLetter(text, s, SeparatorEnd(text, s))
  <2> DEFINE S == Separators(i)
  <2>1. S \in SUBSET Nat /\ \A k \in S : i <= k /\ k <= Len(text) /\ k \in Nat /\ SeparatorEnd(text, k) > k
    BY <1>1
  <2> HIDE DEF S
  <2> DEFINE s == Min(S)
  <2>2. s \in S
    BY <1>2, <2>1, MinProperties DEF S
  <2> HIDE DEF s
  <2>3. s \in Nat /\ i <= s /\ s <= Len(text) /\ SeparatorEnd(text, s) > s /\ s \in 1 .. Len(text)
    BY <1>1, <2>1, <2>2
  <2>4. SeparatorEnd(text, s) \in s .. Len(text) + 1 /\ NoLetter(text, s, SeparatorEnd(text, s))
    BY <2>3, SeparatorMeans
  <2>5. SeparatorEnd(text, s) \in s + 1 .. n
    BY <1>1, <2>3, <2>4
  <2> QED
    BY <2>3, <2>4, <2>5 DEF s, S
<1>3. \E f : Made(f)
  <2>1. \A i \in (1 .. n) \ stop : next[i] \in i + 1 .. n
    <3> TAKE i \in (1 .. n) \ stop
    <3>1. i \in 1 .. n /\ Separators(i) # {}
      OBVIOUS
    <3> DEFINE s == Min(Separators(i))
    <3>2. s \in Nat /\ i <= s /\ SeparatorEnd(text, s) \in s + 1 .. n
      BY <1>2, <3>1
    <3>3. next[i] = SeparatorEnd(text, s)
      BY <3>1
    <3> HIDE DEF s, next
    <3> QED
      BY <1>1, <3>1, <3>2, <3>3
  <2> HIDE DEF stop, next, head, end
  <2>2. PICK f : Rightward(f, 1, n, stop, end, head, next)
    BY <1>1, <2>1, RightwardExists
  <2>3. \A i \in 1 .. n : (IF i \in stop THEN end[i] ELSE head[i] \o f[next[i]]) = Rest(f, i)
    BY DEF stop, next, head, end
  <2> HIDE DEF Rest
  <2>4. Made(f)
    BY <2>2, <2>3 DEF Rightward
  <2> QED
    BY <2>4
<1> DEFINE g == CHOOSE f : Made(f)
<1>4. Made(g)
  BY <1>3, Zenon
<1>5. ParagraphSpans(text) = g[1]
  BY DEF ParagraphSpans
<1> HIDE DEF g
<1>6. \A i \in 1 .. n : g[i] = Rest(g, i)
  BY <1>4
<1> DEFINE S == {i \in 1 .. n : Tiles(text, g[i], i, n)}
<1> HIDE DEF n
<1>7. ASSUME NEW i \in 1 .. n, Separators(i) = {}
      PROVE  Tiles(text, g[i], i, n)
  <2>1. g[i] = Stripped(text, <<i, n>>)
    BY <1>6, <1>7
  <2> QED
    BY <1>1, <2>1, StrippedTiles
<1>8. ASSUME NEW i \in 1 .. n, Separators(i) # {},
             \A j \in i + 1 .. n : Tiles(text, g[j], j, n)
      PROVE  Tiles(text, g[i], i, n)
  <2> DEFINE s == Min(Separators(i))
             e == SeparatorEnd(text, s)
  <2>1. g[i] = Stripped(text, <<i, s>>) \o g[e]
    BY <1>6, <1>8
  <2>2. s \in Nat /\ i <= s /\ e \in s + 1 .. n /\ NoLetter(text, s, e)
    BY <1>2, <1>8
  <2> HIDE DEF s, e, Separators
  <2>3. e \in i + 1 .. n /\ e \in Nat /\ s <= e /\ e <= n /\ i \in Nat
    BY <1>1, <2>2
  <2>4. Tiles(text, g[e], e, n)
    BY <1>8, <2>3
  <2>5. Tiles(text, Stripped(text, <<i, s>>), i, s)
    BY <2>2, <2>3, StrippedTiles
  <2> QED
    BY <1>1, <2>1, <2>2, <2>3, <2>4, <2>5, TilesJoin
<1>9. ASSUME NEW i \in 1 .. n, \A j \in i + 1 .. n : j \in S
      PROVE  i \in S
  BY <1>7, <1>8, <1>9
<1> HIDE DEF S
<1>10. \A i \in 1 .. n : i \in S
  <2>1. 1 \in Nat
    OBVIOUS
  <2> QED
    BY <1>1, <1>9, <2>1, RightwardInduction
<1>11. Tiles(text, g[1], 1, n)
  BY <1>1, <1>10 DEF S
<1> QED
  BY <1>5, <1>11 DEF n

\* No span is longer than the limit.
Within(spans, limit) == \A i \in DOMAIN spans : spans[i][2] - spans[i][1] <= limit

\* The limit holds of spans joined.
LEMMA WithinJoin ==
  ASSUME NEW s \in Seq(Span), NEW t \in Seq(Span), NEW limit, Within(s, limit), Within(t, limit)
  PROVE  Within(s \o t, limit)
<1> DEFINE c == s \o t
<1>1. \A i \in DOMAIN c : \/ i \in DOMAIN s /\ c[i] = s[i]
                          \/ i - Len(s) \in DOMAIN t /\ c[i] = t[i - Len(s)]
  <2> TAKE i \in DOMAIN c
  <2>1. i \in 1 .. Len(s) + Len(t) /\ Len(s) \in Nat /\ Len(t) \in Nat
    BY Joined
  <2>2. CASE i \in 1 .. Len(s)
    BY <2>2, Joined
  <2>3. CASE i \notin 1 .. Len(s)
    <3>1. i \in Len(s) + 1 .. Len(s) + Len(t) /\ i - Len(s) \in 1 .. Len(t)
      BY <2>1, <2>3
    <3> QED
      BY <3>1, Joined
  <2> QED
    BY <2>2, <2>3
<1> HIDE DEF c
<1> QED
  BY <1>1 DEF Within, c

\* Where a long paragraph is cut: after its start, within the limit, and only spaces
\* are left out.
LEMMA CutMeans ==
  ASSUME NEW text, NEW i \in Nat, NEW hi \in Nat, i < hi, NEW limit \in Nat \ {0}
  PROVE  LET full == Min({i + limit, hi})
             spaces == {k \in i + limit \div 2 .. full - 1 : text[k] = "space" /\ k > i}
             cut == IF full < hi /\ spaces # {} THEN Max(spaces) ELSE full
         IN  /\ cut \in i + 1 .. hi /\ cut <= i + limit
             /\ Past(text, cut, hi, {"space"}) \in cut .. hi
             /\ NoLetter(text, cut, Past(text, cut, hi, {"space"}))
<1> DEFINE full == Min({i + limit, hi})
           spaces == {k \in i + limit \div 2 .. full - 1 : text[k] = "space" /\ k > i}
           cut == IF full < hi /\ spaces # {} THEN Max(spaces) ELSE full
           next == Past(text, cut, hi, {"space"})
<1>1. full \in i + 1 .. hi /\ full <= i + limit /\ full \in Nat
  <2> DEFINE T == {i + limit, hi}
  <2>1. T \in SUBSET Nat /\ T # {} /\ (\A x \in T : x = i + limit \/ x = hi) /\ i + limit \in T /\ hi \in T
    OBVIOUS
  <2> HIDE DEF T
  <2>2. Min(T) \in T /\ \A x \in T : Min(T) <= x
    BY <2>1, MinProperties
  <2> QED
    BY <2>1, <2>2 DEF T
<1> HIDE DEF full
<1>2. \A k \in spaces : k > i /\ k < full /\ k \in Int
  BY <1>1
<1>3. spaces \in SUBSET Nat /\ \A k \in spaces : k <= full
  BY <1>1, <1>2
<1> HIDE DEF spaces
<1>4. cut \in i + 1 .. hi /\ cut <= i + limit
  <2>1. CASE full < hi /\ spaces # {}
    <3> DEFINE m == Max(spaces)
    <3>1. m \in spaces
      BY <1>1, <1>3, <2>1, MaxProperties
    <3>2. cut = m
      BY <2>1
    <3> HIDE DEF m, cut
    <3>3. m > i /\ m < full /\ m \in Nat
      BY <1>2, <1>3, <3>1
    <3> QED
      BY <1>1, <3>2, <3>3
  <2>2. CASE ~(full < hi /\ spaces # {})
    BY <1>1, <2>2
  <2> QED
    BY <2>1, <2>2
<1> HIDE DEF cut
<1>5. next \in cut .. hi /\ \A k \in cut .. next - 1 : text[k] \in {"space"}
  <2>1. cut \in Nat /\ cut <= hi
    BY <1>4
  <2> QED
    BY <2>1, PastMeans
<1>6. NoLetter(text, cut, next)
  BY <1>5 DEF NoLetter
<1> QED
  BY <1>4, <1>5, <1>6 DEF cut, spaces, full

\* A long paragraph is cut into pieces within the limit that hold all its letters.
LEMMA SplitTiles ==
  ASSUME NEW text, NEW lo \in Nat, NEW hi \in Nat, lo <= hi, NEW limit \in Nat \ {0}
  PROVE  /\ Tiles(text, SplitLong(text, <<lo, hi>>, limit), lo, hi)
         /\ Within(SplitLong(text, <<lo, hi>>, limit), limit)
<1> DEFINE full(i) == Min({i + limit, hi})
           spaces(i) == {k \in i + limit \div 2 .. full(i) - 1 : text[k] = "space" /\ k > i}
           cut(i) == IF full(i) < hi /\ spaces(i) # {} THEN Max(spaces(i)) ELSE full(i)
           past(i) == Past(text, cut(i), hi, {"space"})
           Rest(f, i) == IF i = hi THEN <<>> ELSE << <<i, cut(i)>> >> \o f[past(i)]
           Made(f) == f = [i \in lo .. hi |-> Rest(f, i)]
<1>1. ASSUME NEW i \in lo .. hi, i # hi
      PROVE  /\ cut(i) \in i + 1 .. hi /\ cut(i) <= i + limit
             /\ past(i) \in cut(i) .. hi /\ NoLetter(text, cut(i), past(i))
  <2>1. i \in Nat /\ i < hi
    BY <1>1
  <2> QED
    BY <2>1, CutMeans
<1> DEFINE g == CHOOSE f : Made(f)
<1>2. SplitLong(text, <<lo, hi>>, limit) = g[lo]
  BY DEF SplitLong
<1> HIDE DEF cut, past, g
<1>3. \E f : Made(f)
  <2> DEFINE stop == {hi}
             end == [i \in {hi} |-> <<>>]
             head == [i \in lo .. hi |-> << <<i, cut(i)>> >>]
             next == [i \in lo .. hi |-> past(i)]
  <2>1. \A i \in (lo .. hi) \ stop : next[i] \in i + 1 .. hi
    <3> TAKE i \in (lo .. hi) \ stop
    <3> DEFINE c == cut(i)
               p == past(i)
    <3>1. c \in i + 1 .. hi /\ p \in c .. hi /\ next[i] = p /\ i \in Nat
      BY <1>1
    <3> HIDE DEF c, p, next
    <3> QED
      BY <3>1
  <2> HIDE DEF stop, end, head, next
  <2>2. PICK f : Rightward(f, lo, hi, stop, end, head, next)
    BY <2>1, RightwardExists
  <2>3. \A i \in lo .. hi : (IF i \in stop THEN end[i] ELSE head[i] \o f[next[i]]) = Rest(f, i)
    BY DEF stop, end, head, next
  <2> HIDE DEF Rest
  <2>4. Made(f)
    BY <2>2, <2>3 DEF Rightward
  <2> QED
    BY <2>4
<1>4. Made(g)
  BY <1>3, Zenon DEF g
<1>5. \A i \in lo .. hi : g[i] = Rest(g, i)
  BY <1>4
<1> DEFINE S == {i \in lo .. hi : Tiles(text, g[i], i, hi) /\ Within(g[i], limit)}
<1>6. ASSUME NEW i \in lo .. hi, \A j \in i + 1 .. hi : j \in S
      PROVE  i \in S
  <2>1. CASE i = hi
    <3>1. g[i] = <<>>
      BY <1>5, <2>1
    <3>2. NoLetter(text, i, hi)
      BY <2>1 DEF NoLetter
    <3> QED
      BY <3>1, <3>2, TilesNone DEF Within
  <2>2. CASE i # hi
    <3> DEFINE c == cut(i)
               p == past(i)
               one == << <<i, c>> >>
    <3>1. g[i] = one \o g[p]
      BY <1>5, <2>2
    <3>2. c \in i + 1 .. hi /\ c <= i + limit /\ p \in c .. hi /\ NoLetter(text, c, p)
      BY <1>1, <2>2
    <3> HIDE DEF c, p
    <3>3. i \in Nat /\ c \in Nat /\ p \in Nat /\ i < c /\ c <= p /\ p <= hi /\ p \in i + 1 .. hi
      BY <3>2
    <3>4. Tiles(text, g[p], p, hi) /\ Within(g[p], limit)
      BY <1>6, <3>3
    <3>5. NoLetter(text, i, i) /\ NoLetter(text, c, c)
      BY <3>3 DEF NoLetter
    <3>6. Tiles(text, one, i, c)
      BY <3>3, <3>5, TilesOne
    <3>7. Within(one, limit)
      BY <3>2, <3>3 DEF Within
    <3> HIDE DEF one
    <3>8. Tiles(text, g[i], i, hi)
      BY <3>1, <3>2, <3>3, <3>4, <3>6, TilesJoin
    <3>9. Within(g[i], limit)
      <4>1. one \in Seq(Span) /\ g[p] \in Seq(Span)
        BY <3>4, <3>6 DEF Tiles
      <4> QED
        BY <3>1, <3>4, <3>7, <4>1, WithinJoin
    <3> QED
      BY <3>8, <3>9
  <2> QED
    BY <2>1, <2>2
<1> HIDE DEF S
<1>7. \A i \in lo .. hi : i \in S
  BY <1>6, RightwardInduction
<1> QED
  BY <1>2, <1>7 DEF S

\* Where the i-th span starts, or what follows the last one ends.
Start(spans, i, hi) == IF i > Len(spans) THEN hi ELSE spans[i][1]

\* A place that is not the last has one after it.
LEMMA NextIsWithin ==
  ASSUME NEW n \in Nat, NEW i \in 1 .. n, i # n
  PROVE  i + 1 \in 1 .. n /\ i < i + 1
OBVIOUS

\* The spans one by one, each with what follows it.
LEMMA Stepping ==
  ASSUME NEW text, NEW s, NEW lo \in Nat, NEW hi \in Nat, lo <= hi, Tiles(text, s, lo, hi)
  PROVE  /\ s \in Seq(Span) /\ Len(s) \in Nat /\ DOMAIN s = 1 .. Len(s)
         /\ \A i \in 1 .. Len(s) :
              /\ s[i][1] \in Nat /\ s[i][2] \in Nat /\ s[i] = <<s[i][1], s[i][2]>>
              /\ Start(s, i, hi) = s[i][1] /\ s[i][1] < s[i][2]
              /\ s[i][2] <= Start(s, i + 1, hi) /\ NoLetter(text, s[i][2], Start(s, i + 1, hi))
         /\ \A i \in 1 .. Len(s) + 1 : Start(s, i, hi) \in Nat /\ Start(s, i, hi) <= hi
         /\ lo <= Start(s, 1, hi) /\ NoLetter(text, lo, Start(s, 1, hi))
<1>1. s \in Seq(Span) /\ Len(s) \in Nat /\ DOMAIN s = 1 .. Len(s)
  BY DEF Tiles
<1>2. \A i \in 1 .. Len(s) :
        /\ s[i][1] \in Nat /\ s[i][2] \in Nat /\ s[i] = <<s[i][1], s[i][2]>>
        /\ lo <= s[i][1] /\ s[i][1] < s[i][2] /\ s[i][2] <= hi
  BY <1>1 DEF Tiles, Span
<1>3. \A i \in 1 .. Len(s) : Start(s, i, hi) = s[i][1]
  BY <1>1 DEF Start
<1>4. Start(s, Len(s) + 1, hi) = hi
  BY <1>1 DEF Start
<1>5. \A i \in 1 .. Len(s) + 1 : Start(s, i, hi) \in Nat /\ Start(s, i, hi) <= hi
  <2> TAKE i \in 1 .. Len(s) + 1
  <2>1. CASE i = Len(s) + 1
    BY <1>4, <2>1
  <2>2. CASE i # Len(s) + 1
    <3>1. i \in 1 .. Len(s)
      BY <1>1, <2>2
    <3>2. Start(s, i, hi) = s[i][1]
      BY <1>3, <3>1
    <3>3. s[i][1] \in Nat /\ s[i][2] \in Nat /\ s[i][1] < s[i][2] /\ s[i][2] <= hi
      BY <1>2, <3>1
    <3> QED
      BY <3>2, <3>3
  <2> QED
    BY <2>1, <2>2
<1>6. ASSUME NEW i \in 1 .. Len(s)
      PROVE  s[i][2] <= Start(s, i + 1, hi) /\ NoLetter(text, s[i][2], Start(s, i + 1, hi))
  <2>1. CASE i = Len(s)
    <3>1. s # <<>>
      BY <1>1
    <3>2. Start(s, i + 1, hi) = hi
      BY <1>4, <2>1
    <3>3. NoLetter(text, s[Len(s)][2], hi)
      BY <3>1, GapsAreBlank
    <3> QED
      BY <1>2, <2>1, <3>2, <3>3
  <2>2. CASE i # Len(s)
    <3>1. PICK j \in 1 .. Len(s) : j = i + 1 /\ i < j
      <4>1. Len(s) \in Nat
        BY <1>1
      <4>2. i + 1 \in 1 .. Len(s) /\ i < i + 1
        BY <2>2, <4>1, NextIsWithin
      <4> QED
        BY <4>2
    <3>2. s[i][2] <= s[j][1]
      BY <1>1, <3>1 DEF Tiles
    <3>3. NoLetter(text, s[i][2], s[j][1])
      BY <1>1, <3>1, GapsAreBlank
    <3>4. Start(s, i + 1, hi) = s[j][1]
      BY <1>3, <3>1
    <3> QED
      BY <3>2, <3>3, <3>4
  <2> QED
    BY <2>1, <2>2
<1>7. lo <= Start(s, 1, hi) /\ NoLetter(text, lo, Start(s, 1, hi))
  <2>1. CASE s = <<>>
    <3>1. Start(s, 1, hi) = hi
      BY <2>1 DEF Start
    <3> QED
      BY <2>1, <3>1, GapsAreBlank
  <2>2. CASE s # <<>>
    <3>1. 1 \in 1 .. Len(s)
      BY <1>1, <2>2
    <3>2. NoLetter(text, lo, s[1][1])
      BY <2>2, GapsAreBlank
    <3> QED
      BY <1>2, <1>3, <3>1, <3>2
  <2> QED
    BY <2>1, <2>2
<1> QED
  BY <1>1, <1>2, <1>3, <1>5, <1>6, <1>7

\* Blank before the first span changes nothing.
LEMMA TilesWiden ==
  ASSUME NEW text, NEW s, NEW lo \in Nat, NEW mid \in Nat, NEW hi \in Nat, lo <= mid,
         NoLetter(text, lo, mid), Tiles(text, s, mid, hi)
  PROVE  Tiles(text, s, lo, hi)
<1>1. \A i \in DOMAIN s : s[i][1] \in Nat
  BY DEF Tiles, Span
<1>2. \A i \in DOMAIN s : lo <= s[i][1] /\ s[i][1] < s[i][2] /\ s[i][2] <= hi
  BY <1>1 DEF Tiles
<1>3. \A k \in lo .. hi - 1 : text[k] = "letter" => k \in mid .. hi - 1
  BY DEF NoLetter
<1> QED
  BY <1>2, <1>3 DEF Tiles

\* The pieces hold every letter, each within the limit.
LEMMA PiecesTile ==
  ASSUME NEW text \in Seq(Characters), NEW limit \in Nat \ {0}
  PROVE  Tiles(text, Pieces(text, limit), 1, Len(text) + 1) /\ Within(Pieces(text, limit), limit)
<1> DEFINE n == Len(text) + 1
           spans == ParagraphSpans(text)
           m == Len(spans)
           Cut(span) == IF span[2] - span[1] <= limit THEN <<span>> ELSE SplitLong(text, span, limit)
           Rest(f, i) == IF i > m THEN <<>> ELSE Cut(spans[i]) \o f[i + 1]
           Made(f) == f = [i \in 1 .. m + 1 |-> Rest(f, i)]
           g == CHOOSE f : Made(f)
<1>1. Pieces(text, limit) = g[1]
  BY DEF Pieces
<1>2. Tiles(text, spans, 1, n) /\ n \in Nat /\ 1 <= n
  BY ParagraphsTile
<1> HIDE DEF spans, n, g
<1>3. /\ m \in Nat
      /\ \A i \in 1 .. m :
           /\ spans[i][1] \in Nat /\ spans[i][2] \in Nat /\ spans[i] = <<spans[i][1], spans[i][2]>>
           /\ Start(spans, i, n) = spans[i][1] /\ spans[i][1] < spans[i][2]
           /\ spans[i][2] <= Start(spans, i + 1, n)
           /\ NoLetter(text, spans[i][2], Start(spans, i + 1, n))
      /\ \A i \in 1 .. m + 1 : Start(spans, i, n) \in Nat /\ Start(spans, i, n) <= n
      /\ 1 <= Start(spans, 1, n) /\ NoLetter(text, 1, Start(spans, 1, n))
  BY <1>2, Stepping
<1>4. Start(spans, m + 1, n) = n
  BY <1>3 DEF Start
<1> HIDE DEF m
<1>5. ASSUME NEW i \in 1 .. m
      PROVE  Tiles(text, Cut(spans[i]), spans[i][1], spans[i][2]) /\ Within(Cut(spans[i]), limit)
  <2> DEFINE a == spans[i][1]
             b == spans[i][2]
  <2>1. a \in Nat /\ b \in Nat /\ a < b /\ spans[i] = <<a, b>>
    BY <1>3
  <2>2. Cut(spans[i]) = IF b - a <= limit THEN << <<a, b>> >> ELSE SplitLong(text, <<a, b>>, limit)
    BY <2>1
  <2> HIDE DEF a, b, Cut
  <2>3. CASE b - a <= limit
    <3>1. NoLetter(text, a, a) /\ NoLetter(text, b, b)
      BY <2>1 DEF NoLetter
    <3>2. Tiles(text, << <<a, b>> >>, a, b)
      BY <2>1, <3>1, TilesOne
    <3>3. Within(<< <<a, b>> >>, limit)
      BY <2>1, <2>3 DEF Within
    <3> QED
      BY <2>2, <2>3, <3>2, <3>3 DEF a, b
  <2>4. CASE ~(b - a <= limit)
    <3>1. Cut(spans[i]) = SplitLong(text, <<a, b>>, limit) /\ a <= b
      BY <2>1, <2>2, <2>4
    <3>2. Tiles(text, Cut(spans[i]), a, b) /\ Within(Cut(spans[i]), limit)
      BY <2>1, <3>1, SplitTiles
    <3> QED
      BY <3>2 DEF a, b
  <2> QED
    BY <2>3, <2>4
<1> HIDE DEF Cut
<1>6. \E f : Made(f)
  <2> DEFINE stop == {m + 1}
             end == [i \in {m + 1} |-> <<>>]
             head == [i \in 1 .. m |-> Cut(spans[i])]
             next == [i \in 1 .. m |-> i + 1]
  <2>1. m + 1 \in Nat /\ \A i \in (1 .. m + 1) \ stop : next[i] \in i + 1 .. m + 1
    BY <1>3
  <2>2. \A i \in 1 .. m + 1 : i \in stop <=> i > m
    BY <1>3
  <2>3. \A i \in 1 .. m + 1 : IF i > m THEN end[i] = <<>>
                              ELSE head[i] = Cut(spans[i]) /\ next[i] = i + 1
    BY <1>3
  <2> HIDE DEF stop, end, head, next
  <2>4. PICK f : Rightward(f, 1, m + 1, stop, end, head, next)
    <3>1. 1 \in Nat
      OBVIOUS
    <3> QED
      BY <2>1, <3>1, RightwardExists
  <2>5. \A i \in 1 .. m + 1 : (IF i \in stop THEN end[i] ELSE head[i] \o f[next[i]]) = Rest(f, i)
    BY <2>2, <2>3
  <2> HIDE DEF Rest
  <2>6. Made(f)
    BY <2>4, <2>5 DEF Rightward
  <2> QED
    BY <2>6
<1>7. Made(g)
  BY <1>6, Zenon DEF g
<1>8. \A i \in 1 .. m + 1 : g[i] = Rest(g, i)
  BY <1>7
<1> DEFINE S == {i \in 1 .. m + 1 : Tiles(text, g[i], Start(spans, i, n), n) /\ Within(g[i], limit)}
<1>9. ASSUME NEW i \in 1 .. m + 1, \A j \in i + 1 .. m + 1 : j \in S
      PROVE  i \in S
  <2>1. CASE i = m + 1
    <3>1. g[i] = <<>>
      BY <1>3, <1>8, <2>1
    <3>2. NoLetter(text, n, n)
      BY <1>2 DEF NoLetter
    <3> QED
      BY <1>2, <1>4, <2>1, <3>1, <3>2, TilesNone DEF Within
  <2>2. CASE i # m + 1
    <3>1. i \in 1 .. m /\ ~(i > m) /\ i + 1 \in 1 .. m + 1 /\ i + 1 \in i + 1 .. m + 1
      BY <1>3, <2>2
    <3>2. g[i] = Cut(spans[i]) \o g[i + 1]
      BY <1>8, <3>1
    <3> DEFINE a == spans[i][1]
               b == spans[i][2]
               c == Start(spans, i + 1, n)
    <3>3. /\ a \in Nat /\ b \in Nat /\ c \in Nat /\ a < b /\ b <= c /\ c <= n
          /\ NoLetter(text, b, c) /\ Start(spans, i, n) = a
      BY <1>3, <3>1
    <3>4. Tiles(text, Cut(spans[i]), a, b) /\ Within(Cut(spans[i]), limit)
      BY <1>5, <3>1
    <3>5. Tiles(text, g[i + 1], c, n) /\ Within(g[i + 1], limit)
      BY <1>9, <3>1
    <3> HIDE DEF a, b, c
    <3>6. a <= b
      BY <3>3
    <3>7. Tiles(text, g[i], a, n)
      BY <1>2, <3>2, <3>3, <3>4, <3>5, <3>6, TilesJoin
    <3>8. Within(g[i], limit)
      <4>1. Cut(spans[i]) \in Seq(Span) /\ g[i + 1] \in Seq(Span)
        BY <3>4, <3>5 DEF Tiles
      <4> QED
        BY <3>2, <3>4, <3>5, <4>1, WithinJoin
    <3> QED
      BY <3>3, <3>7, <3>8
  <2> QED
    BY <2>1, <2>2
<1> HIDE DEF S
<1>10. \A i \in 1 .. m + 1 : i \in S
  <2>1. 1 \in Nat /\ m + 1 \in Nat
    BY <1>3
  <2> QED
    BY <1>9, <2>1, RightwardInduction
<1>11. Tiles(text, g[1], Start(spans, 1, n), n) /\ Within(g[1], limit) /\ Start(spans, 1, n) \in Nat
  <2>1. 1 \in 1 .. m + 1
    BY <1>3
  <2> QED
    BY <1>3, <1>10, <2>1 DEF S
<1>12. Tiles(text, g[1], 1, n)
  BY <1>2, <1>3, <1>11, TilesWiden
<1> QED
  BY <1>1, <1>11, <1>12 DEF n

\* No span has room for the next.
Full(spans, limit) ==
  \A i \in DOMAIN spans : i + 1 \in DOMAIN spans => spans[i + 1][2] - spans[i][1] > limit

\* A span in front that has no room for the next.
LEMMA FullJoin ==
  ASSUME NEW x \in Span, NEW t \in Seq(Span), NEW limit, Full(t, limit),
         t # <<>> => t[1][2] - x[1] > limit
  PROVE  Full(<<x>> \o t, limit)
<1> DEFINE c == <<x>> \o t
           m == Len(t)
<1>1. /\ m \in Nat /\ DOMAIN t = 1 .. m /\ DOMAIN c = 1 .. 1 + m
      /\ c[1] = x /\ \A i \in 1 .. m : c[1 + i] = t[i]
  <2>1. <<x>> \in Seq(Span) /\ Len(<<x>>) = 1 /\ <<x>>[1] = x
    OBVIOUS
  <2> QED
    BY <2>1, Joined
<1> HIDE DEF c, m
<1>2. ASSUME NEW i \in DOMAIN c, i + 1 \in DOMAIN c
      PROVE  c[i + 1][2] - c[i][1] > limit
  <2>1. CASE i = 1
    <3>1. 1 \in 1 .. m
      BY <1>1, <1>2, <2>1
    <3>2. c[1 + 1] = t[1] /\ t # <<>>
      BY <1>1, <3>1
    <3> QED
      BY <1>1, <2>1, <3>2
  <2>2. CASE i # 1
    <3>1. PICK j \in 1 .. m : i = 1 + j /\ j + 1 \in 1 .. m
      <4>1. i - 1 \in 1 .. m /\ i = 1 + (i - 1) /\ (i - 1) + 1 \in 1 .. m
        BY <1>1, <1>2, <2>2
      <4> QED
        BY <4>1
    <3>2. c[i] = t[j] /\ i + 1 = 1 + (j + 1)
      BY <1>1, <3>1
    <3>3. c[i + 1] = t[j + 1]
      BY <1>1, <3>1, <3>2
    <3> QED
      BY <1>1, <3>1, <3>2, <3>3 DEF Full
  <2> QED
    BY <2>1, <2>2
<1> QED
  BY <1>2 DEF Full, c

\* The last of the pieces a chunk takes.
LEMMA TakenMeans ==
  ASSUME NEW p, NEW m \in Nat, NEW i \in 1 .. m, NEW limit \in Nat,
         \A k \in 1 .. m : p[k][1] \in Nat /\ p[k][2] \in Nat,
         p[i][2] - p[i][1] <= limit
  PROVE  LET last == Max({i} \cup {k \in i .. m : p[k][2] - p[i][1] <= limit})
         IN  /\ last \in i .. m /\ p[last][2] - p[i][1] <= limit
             /\ \A k \in last + 1 .. m : p[k][2] - p[i][1] > limit
<1> DEFINE S == {i} \cup {k \in i .. m : p[k][2] - p[i][1] <= limit}
           last == Max(S)
<1>1. S \in SUBSET Nat /\ i \in S /\ \A k \in S : k <= m /\ k \in i .. m /\ p[k][2] - p[i][1] <= limit
  OBVIOUS
<1>2. \A k \in i .. m : k \notin S => p[k][2] - p[i][1] > limit
  OBVIOUS
<1> HIDE DEF S, last
<1>3. last \in S /\ \A k \in S : k <= last
  <2>1. S # {}
    BY <1>1
  <2> QED
    BY <1>1, <2>1, MaxProperties DEF last
<1>4. \A k \in last + 1 .. m : k \in i .. m /\ k \notin S
  BY <1>1, <1>3
<1>5. /\ last \in i .. m /\ p[last][2] - p[i][1] <= limit
      /\ \A k \in last + 1 .. m : p[k][2] - p[i][1] > limit
  BY <1>1, <1>2, <1>3, <1>4
<1> QED
  BY <1>5 DEF last, S

\* Merging keeps every letter, within the limit, and leaves no chunk room for the next.
LEMMA MergedTiles ==
  ASSUME NEW text, NEW p, NEW n \in Nat, 1 <= n, NEW limit \in Nat,
         Tiles(text, p, 1, n), Within(p, limit)
  PROVE  /\ Tiles(text, Merged(p, limit), 1, n)
         /\ Within(Merged(p, limit), limit) /\ Full(Merged(p, limit), limit)
<1> DEFINE m == Len(p)
           last(i) == Max({i} \cup {k \in i .. m : p[k][2] - p[i][1] <= limit})
           Rest(f, i) == IF i > m THEN <<>> ELSE << <<p[i][1], p[last(i)][2]>> >> \o f[last(i) + 1]
           Made(f) == f = [i \in 1 .. m + 1 |-> Rest(f, i)]
           g == CHOOSE f : Made(f)
<1>1. Merged(p, limit) = g[1]
  BY DEF Merged
<1> HIDE DEF g
<1>2. /\ m \in Nat /\ DOMAIN p = 1 .. m
      /\ \A i \in 1 .. m :
           /\ p[i][1] \in Nat /\ p[i][2] \in Nat
           /\ Start(p, i, n) = p[i][1] /\ p[i][1] < p[i][2]
           /\ p[i][2] <= Start(p, i + 1, n) /\ NoLetter(text, p[i][2], Start(p, i + 1, n))
      /\ \A i \in 1 .. m + 1 : Start(p, i, n) \in Nat /\ Start(p, i, n) <= n
      /\ 1 <= Start(p, 1, n) /\ NoLetter(text, 1, Start(p, 1, n))
  <2>1. 1 \in Nat /\ n \in Nat /\ 1 <= n /\ Tiles(text, p, 1, n)
    OBVIOUS
  <2>2. /\ p \in Seq(Span) /\ Len(p) \in Nat /\ DOMAIN p = 1 .. Len(p)
        /\ \A i \in 1 .. Len(p) :
             /\ p[i][1] \in Nat /\ p[i][2] \in Nat /\ p[i] = <<p[i][1], p[i][2]>>
             /\ Start(p, i, n) = p[i][1] /\ p[i][1] < p[i][2]
             /\ p[i][2] <= Start(p, i + 1, n) /\ NoLetter(text, p[i][2], Start(p, i + 1, n))
        /\ \A i \in 1 .. Len(p) + 1 : Start(p, i, n) \in Nat /\ Start(p, i, n) <= n
        /\ 1 <= Start(p, 1, n) /\ NoLetter(text, 1, Start(p, 1, n))
    BY <2>1, Stepping
  <2> QED
    BY <2>2
<1>3. Start(p, m + 1, n) = n
  BY <1>2 DEF Start
<1>4. \A i, j \in 1 .. m : i < j => p[i][2] <= p[j][1]
  BY <1>2 DEF Tiles
<1>5. \A i \in 1 .. m : p[i][2] - p[i][1] <= limit
  BY <1>2 DEF Within
<1>6. \A k \in 1 .. n - 1 : text[k] = "letter" => \E i \in 1 .. m : p[i][1] <= k /\ k < p[i][2]
  BY <1>2 DEF Tiles
<1> HIDE DEF m
<1>7. ASSUME NEW i \in 1 .. m
      PROVE  /\ last(i) \in i .. m /\ p[last(i)][2] - p[i][1] <= limit
             /\ \A k \in last(i) + 1 .. m : p[k][2] - p[i][1] > limit
  BY <1>2, <1>5, TakenMeans
<1> HIDE DEF last
<1>8. \E f : Made(f)
  <2> DEFINE stop == {m + 1}
             end == [i \in {m + 1} |-> <<>>]
             head == [i \in 1 .. m |-> << <<p[i][1], p[last(i)][2]>> >>]
             next == [i \in 1 .. m |-> last(i) + 1]
  <2>0. m + 1 \in Nat
    BY <1>2
  <2>1. \A i \in (1 .. m + 1) \ stop : next[i] \in i + 1 .. m + 1
    <3> TAKE i \in (1 .. m + 1) \ stop
    <3>1. i \in 1 .. m
      BY <1>2
    <3>2. last(i) \in i .. m /\ next[i] = last(i) + 1
      BY <1>7, <3>1
    <3> HIDE DEF next
    <3> QED
      BY <1>2, <3>1, <3>2
  <2>2. \A i \in 1 .. m + 1 : i \in stop <=> i > m
    BY <1>2
  <2>3. \A i \in 1 .. m + 1 :
          IF i > m THEN end[i] = <<>>
          ELSE head[i] = << <<p[i][1], p[last(i)][2]>> >> /\ next[i] = last(i) + 1
    BY <1>2
  <2> HIDE DEF stop, end, head, next
  <2>4. PICK f : Rightward(f, 1, m + 1, stop, end, head, next)
    <3>1. 1 \in Nat
      OBVIOUS
    <3> QED
      BY <2>0, <2>1, <3>1, RightwardExists
  <2>5. \A i \in 1 .. m + 1 : (IF i \in stop THEN end[i] ELSE head[i] \o f[next[i]]) = Rest(f, i)
    BY <2>2, <2>3
  <2> HIDE DEF Rest
  <2>6. Made(f)
    BY <2>4, <2>5 DEF Rightward
  <2> QED
    BY <2>6
<1>9. Made(g)
  BY <1>8, Zenon DEF g
<1>10. \A i \in 1 .. m + 1 : g[i] = Rest(g, i)
  BY <1>9
<1> DEFINE Starts(c, i) == c # <<>> /\ c[1][1] = p[i][1] /\ c[1][2] \in Nat /\ p[i][2] <= c[1][2]
           S == {i \in 1 .. m + 1 : /\ Tiles(text, g[i], Start(p, i, n), n)
                                    /\ Within(g[i], limit) /\ Full(g[i], limit)
                                    /\ IF i > m THEN g[i] = <<>> ELSE Starts(g[i], i)}
<1>11. ASSUME NEW i \in 1 .. m + 1, \A j \in i + 1 .. m + 1 : j \in S
       PROVE  i \in S
  <2>1. CASE i = m + 1
    <3>1. g[i] = <<>>
      <4>1. i > m
        BY <1>2, <2>1
      <4> QED
        BY <1>10, <4>1
    <3>2. NoLetter(text, n, n)
      BY DEF NoLetter
    <3>3. Tiles(text, g[i], Start(p, i, n), n)
      BY <1>3, <2>1, <3>1, <3>2, TilesNone
    <3> QED
      BY <1>2, <2>1, <3>1, <3>3 DEF Within, Full
  <2>2. CASE i # m + 1
    <3> DEFINE k == last(i)
               a == p[i][1]
               b == p[k][2]
               c == Start(p, k + 1, n)
               t == g[k + 1]
               one == << <<a, b>> >>
    <3>1. i \in 1 .. m /\ ~(i > m)
      BY <1>2, <2>2
    <3>2. k \in i .. m /\ b - a <= limit /\ \A j \in k + 1 .. m : p[j][2] - a > limit
      BY <1>7, <3>1
    <3>3. g[i] = one \o t
      BY <1>10, <3>1
    <3> HIDE DEF k
    <3>4. k \in 1 .. m /\ k + 1 \in i + 1 .. m + 1 /\ k + 1 \in 1 .. m + 1
      BY <1>2, <3>1, <3>2
    <3>5. /\ a \in Nat /\ b \in Nat /\ c \in Nat /\ b <= c /\ c <= n /\ NoLetter(text, b, c)
          /\ Start(p, i, n) = a
      BY <1>2, <3>1, <3>4
    <3>6. p[i][2] <= b /\ a < b
      <4>1. CASE i = k
        BY <1>2, <3>1, <4>1
      <4>2. CASE i # k
        <5>1. i < k /\ p[i][2] <= p[k][1]
          BY <1>2, <1>4, <3>1, <3>2, <3>4, <4>2
        <5>2. /\ p[i][1] \in Nat /\ p[i][2] \in Nat /\ p[k][1] \in Nat /\ p[k][2] \in Nat
              /\ p[i][1] < p[i][2] /\ p[k][1] < p[k][2]
          BY <1>2, <3>1, <3>4
        <5> QED
          BY <5>1, <5>2
      <4> QED
        BY <4>1, <4>2
    <3>7. /\ Tiles(text, t, c, n) /\ Within(t, limit) /\ Full(t, limit)
          /\ IF k + 1 > m THEN t = <<>> ELSE Starts(t, k + 1)
      BY <1>11, <3>4
    <3>8. Tiles(text, one, a, b)
      <4>1. \A x \in a .. b - 1 : text[x] = "letter" => a <= x /\ x < b
        BY <3>5
      <4>2. NoLetter(text, a, a) /\ NoLetter(text, b, b)
        BY <3>5 DEF NoLetter
      <4> HIDE DEF a, b
      <4> QED
        BY <3>5, <3>6, <4>2, TilesOne
    <3>9. t # <<>> => t[1][2] - a > limit
      <4> SUFFICES ASSUME t # <<>>
                   PROVE  t[1][2] - a > limit
        OBVIOUS
      <4>1. k + 1 \in k + 1 .. m /\ Starts(t, k + 1)
        BY <1>2, <3>4, <3>7
      <4>2. p[k + 1][2] - a > limit /\ p[k + 1][2] <= t[1][2] /\ t[1][2] \in Nat
        BY <3>2, <4>1
      <4>3. p[k + 1][2] \in Nat
        BY <1>2, <3>4, <4>1
      <4> HIDE DEF a, t
      <4> QED
        BY <3>5, <4>2, <4>3
    <3> HIDE DEF a, b, c, t
    <3>10. Tiles(text, g[i], a, n)
      <4>1. a <= b
        BY <3>5, <3>6
      <4> HIDE DEF one
      <4> QED
        BY <3>3, <3>5, <3>7, <3>8, <4>1, TilesJoin
    <3>11. <<a, b>> \in Span /\ t \in Seq(Span) /\ one \in Seq(Span)
      BY <3>5, <3>7 DEF Tiles, Span
    <3>12. Within(g[i], limit)
      <4>1. Within(one, limit)
        BY <3>2, <3>5 DEF Within, a, b
      <4> HIDE DEF one
      <4> QED
        BY <3>3, <3>7, <3>11, <4>1, WithinJoin
    <3>13. Full(g[i], limit)
      <4> DEFINE x == <<a, b>>
      <4>1. x[1] = a
        OBVIOUS
      <4>2. x \in Span /\ g[i] = <<x>> \o t
        BY <3>3, <3>11
      <4> HIDE DEF x
      <4> QED
        BY <3>7, <3>9, <3>11, <4>1, <4>2, FullJoin
    <3>14. Starts(g[i], i)
      <4>1. g[i][1] = <<a, b>> /\ g[i] # <<>>
        BY <3>3, <3>11, Headed
      <4> QED
        BY <3>5, <3>6, <4>1 DEF a
    <3> QED
      BY <3>1, <3>5, <3>10, <3>12, <3>13, <3>14
  <2> QED
    BY <2>1, <2>2
<1> HIDE DEF S
<1>12. \A i \in 1 .. m + 1 : i \in S
  <2>1. 1 \in Nat /\ m + 1 \in Nat
    BY <1>2
  <2> QED
    BY <1>11, <2>1, RightwardInduction
<1>13. /\ Tiles(text, g[1], Start(p, 1, n), n) /\ Within(g[1], limit) /\ Full(g[1], limit)
       /\ Start(p, 1, n) \in Nat
  <2>1. 1 \in 1 .. m + 1
    BY <1>2
  <2> QED
    BY <1>2, <1>12, <2>1 DEF S
<1>14. Tiles(text, g[1], 1, n)
  BY <1>2, <1>13, TilesWiden
<1> QED
  BY <1>1, <1>13, <1>14

\* Covered, said of the spans it is about.
LEMMA TiledIsCovered ==
  ASSUME NEW text \in Seq(Characters), NEW limit \in Nat,
         Tiles(text, ChunkText(text, limit), 1, Len(text) + 1),
         Within(ChunkText(text, limit), limit), Full(ChunkText(text, limit), limit)
  PROVE  Covered(text, limit)
<1> DEFINE s == ChunkText(text, limit)
           n == Len(text) + 1
<1>1. Len(s) \in Nat /\ DOMAIN s = 1 .. Len(s)
  BY DEF Tiles
<1>2. n \in Nat /\ DOMAIN text = 1 .. n - 1
  OBVIOUS
<1>3. Tiles(text, s, 1, n) /\ Within(s, limit) /\ Full(s, limit)
  OBVIOUS
<1> HIDE DEF s, n
<1>4. \A i \in DOMAIN s : s[i][1] \in Nat /\ s[i][2] \in Nat /\ s[i][1] < s[i][2]
  BY <1>3 DEF Tiles, Span
<1>5. ASSUME NEW i \in DOMAIN s, i < Len(s)
      PROVE  s[i][2] <= s[i + 1][1] /\ s[i + 1][2] - s[i][1] > limit
  <2>1. i + 1 \in DOMAIN s /\ i < i + 1
    BY <1>1, <1>5, NextIsWithin
  <2> QED
    BY <1>3, <2>1 DEF Tiles, Full
<1>6. ASSUME NEW k \in DOMAIN text, text[k] = "letter"
      PROVE  \E i \in DOMAIN s : k \in s[i][1] .. s[i][2] - 1
  <2>1. k \in 1 .. n - 1 /\ k \in Nat
    BY <1>2
  <2>2. PICK i \in DOMAIN s : s[i][1] <= k /\ k < s[i][2]
    BY <1>3, <1>6, <2>1 DEF Tiles
  <2>3. k \in s[i][1] .. s[i][2] - 1
    BY <1>4, <2>1, <2>2
  <2> QED
    BY <2>3
<1>7. \A i \in DOMAIN s : s[i][2] - s[i][1] <= limit
  BY <1>3 DEF Within
<1> QED
  BY <1>4, <1>5, <1>6, <1>7 DEF Covered, s

\* The chunks of any text, under any limit: in order, apart, not empty, within the
\* limit, each as full as it can be, and no letter is left out
\* (chunking.py:43-49, 62-67).
THEOREM ChunksCover ==
  ASSUME NEW text \in Seq(Characters), NEW limit \in Nat \ {0}
  PROVE  Covered(text, limit)
<1> DEFINE n == Len(text) + 1
           p == Pieces(text, limit)
<1>1. n \in Nat /\ 1 <= n /\ limit \in Nat
  OBVIOUS
<1>2. Tiles(text, p, 1, n) /\ Within(p, limit)
  BY PiecesTile
<1> HIDE DEF n, p
<1>3. /\ Tiles(text, Merged(p, limit), 1, n)
      /\ Within(Merged(p, limit), limit) /\ Full(Merged(p, limit), limit)
  BY <1>1, <1>2, MergedTiles
<1> QED
  BY <1>1, <1>3, TiledIsCovered DEF ChunkText, n, p

\* What is searchable is the whole text, whatever the text and its length: the
\* run's ChunksSound, for any MaxLength and any Limits.
THEOREM ChunksAlwaysSound == MCSpec => []ChunksSound
<1> DEFINE Given == written \in Seq(Characters)
<1>1. MCInit => Given
  BY ChunkingAssumption DEF MCInit, BoundedSeq, SeqOf
<1>2. Given /\ [MCNext]_<<vars, written>> => Given'
  BY DEF MCNext
<1>3. Given => ChunksSound
  BY ChunkingAssumption, ChunksCover DEF ChunksSound
<1> QED
  BY <1>1, <1>2, <1>3, PTL DEF MCSpec

=============================================================================
