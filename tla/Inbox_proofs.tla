----------------------------- MODULE Inbox_proofs -----------------------------
(***************************************************************************)
(* What Inbox's run checks with three drops of two names, proved for any   *)
(* names and contents and any numbers of drops, removals, faults and       *)
(* crashes.                                                                *)
(***************************************************************************)
EXTENDS Inbox, Lemmas

Steps == {"idle", "files", "recover", "commit", "move", "index", "explain", "set aside"}

\* The steps with a file in hand that is still to be looked at or moved.
HandSteps == {"recover", "commit", "move", "explain", "set aside"}

\* TypeOK, with what the records, the request and the counts may be.
Typed ==
  /\ pending \in [ToSet(Names) -> Contents \cup {Absent}]
  /\ processed \in [Places \cup {Elsewhere} -> Contents \cup {Absent}]
  /\ failed \in [Places -> Contents \cup {Absent}]
  /\ errors \in [Places -> Contents \cup {Absent, Vanished}]
  /\ records \in Seq([root : {"corpus", "inbox"}, place : Places \cup {Elsewhere},
                      content : Contents])
  /\ \A i \in DOMAIN records : records[i].root = "inbox" => records[i].place \in Places
  /\ indexed \subseteq DOMAIN records
  /\ job \in [step : Steps, left : SUBSET ToSet(Names), name : ToSet(Names) \cup {<<>>},
              to : Places \cup {<<>>}]
  /\ drops \in [Contents -> Nat] /\ takenBack \in [Contents -> Nat]
  /\ emptied \in [Contents -> Nat]
  /\ bounds \in [drops : 0 .. MaxDrops, removals : 0 .. MaxRemovals,
                 faults : 0 .. MaxFaults, crashes : 0 .. MaxCrashes]

\* A record of these bytes, on its way to this place.
Bound(place, content) ==
  \E i \in DOMAIN records :
    records[i] = [root |-> "inbox", place |-> place, content |-> content]

\* Where the file in hand stands, and that its destination is free.
Hand ==
  /\ job.step \in HandSteps => job.name \in ToSet(Names) /\ job.name \notin job.left
  /\ job.step \in {"idle"} => job.left = {}
  /\ job.step \in {"recover", "move"} =>
       /\ job.to \in Places /\ processed[job.to] = Absent
       /\ InHand # Absent => Bound(job.to, InHand)
  /\ job.step \in {"move", "index"} => records # <<>>
  /\ job.step = "set aside" =>
       /\ job.to \in Places /\ failed[job.to] = Absent
       /\ InHand # Absent => errors[job.to] = InHand

Held(folder) == {p \in DOMAIN folder : folder[p] # Absent}

\* Names the scan has yet to fail on, their files being gone.
Lost ==
  {n \in ToSet(Names) : pending[n] = Absent
     /\ (n \in job.left \/ (job.step \in HandSteps \ {"set aside"} /\ n = job.name))}

\* A reason is written, its file is about to follow.
Following == IF job.step = "set aside" /\ InHand # Absent THEN 1 ELSE 0

\* There are no more files than drops.
FilesFit ==
  Cardinality(Held(pending)) + Cardinality(Held(processed)) + Cardinality(Held(failed))
    <= bounds.drops

Spare == bounds.removals + bounds.faults + bounds.crashes

\* There are no more reasons without a file than there were removals, faults and
\* crashes; a name whose file is gone makes for one more.
ReasonsFit ==
  Cardinality(Held(errors)) + Cardinality(Lost)
    <= Cardinality(Held(failed)) + Spare + Following

Room == FilesFit /\ ReasonsFit

\* What lies in processed/ is on record there.
Recorded == \A p \in DOMAIN processed : processed[p] # Absent => Bound(p, processed[p])

\* No name is another's with a number.
Unrelated ==
  \A m, n \in ToSet(Names) : m # n => Numbered(m) \cap Numbered(n) = {}

\* As long as nothing disturbs: a file whose move was interrupted is still
\* pending, and it is the only one of its bytes.
Waiting ==
  Undisturbed =>
    \A c \in Contents, i \in DOMAIN records : i \in Interrupted(c) =>
      /\ \A n \in ToSet(Names) : records[i].place \in Numbered(n) => pending[n] = c
      /\ \A j \in DOMAIN records : j \in Interrupted(c) => j = i

\* Then, too, what the scan has listed is there, and it commits a file only if no
\* other of its bytes waits for its move.
Ready ==
  Undisturbed =>
    /\ \A n \in job.left : pending[n] # Absent
    /\ job.step \in HandSteps => InHand # Absent
    /\ job.step = "commit" => Interrupted(InHand) = {}

\* As many of these bytes are on record as have arrived, or one more on its way.
Arrived ==
  Undisturbed =>
    \A c \in Contents :
      OnRecord(c) <= Where(c, processed) + (IF Interrupted(c) = {} THEN 0 ELSE 1)

IInv == Typed /\ Hand /\ Room /\ Recorded /\ ReasonBeside /\ NothingOverwritten

-----------------------------------------------------------------------------
(***************************************************************************)
(* Names, numbers and places.                                              *)
(***************************************************************************)

Largest == MaxDrops + MaxRemovals + MaxFaults + MaxCrashes

LEMMA NumbersFinite ==
  /\ Largest \in Nat /\ Numbers = 1 .. Largest
  /\ IsFiniteSet(Numbers) /\ Cardinality(Numbers) = Largest
<1>1. Largest \in Nat /\ Numbers = 1 .. Largest
  BY BoundsAssumption DEF Largest, Numbers
<1> QED
  BY <1>1, FS_Interval

LEMMA NamesAreSequences == \A n \in ToSet(Names) : n \in Seq(Nat)
BY NamesAssumption DEF ToSet

LEMMA NumberedFinite ==
  ASSUME NEW n
  PROVE  IsFiniteSet(Numbered(n))
<1> DEFINE f == [k \in Numbers |-> Append(n, k)]
<1>1. IsFiniteSet({f[k] : k \in Numbers})
  BY NumbersFinite, ImageFinite
<1>2. {f[k] : k \in Numbers} = {Append(n, k) : k \in Numbers}
  OBVIOUS
<1>3. IsFiniteSet({Append(n, k) : k \in Numbers} \cup {n})
  BY <1>1, <1>2, FS_AddElement
<1>4. {Append(n, k) : k \in Numbers} \cup {n} = Numbered(n)
  BY DEF Numbered
<1> QED
  BY <1>3, <1>4

LEMMA PlacesFinite ==
  /\ IsFiniteSet(ToSet(Names)) /\ IsFiniteSet(Places)
  /\ IsFiniteSet(Places \cup {Elsewhere})
  /\ \A n \in ToSet(Names) : Numbered(n) \subseteq Places /\ n \in Numbered(n)
<1>1. Len(Names) \in Nat /\ DOMAIN Names = 1 .. Len(Names)
  BY NamesAssumption
<1>2. IsFiniteSet(ToSet(Names))
  <2>1. IsFiniteSet(DOMAIN Names)
    BY <1>1, FS_Interval
  <2> DEFINE D == DOMAIN Names
  <2>2. IsFiniteSet({Names[i] : i \in D})
    <3>1. D = DOMAIN Names
      OBVIOUS
    <3>2. IsFiniteSet(D)
      BY <2>1
    <3> HIDE DEF D
    <3> QED
      BY <3>1, <3>2, ImageFinite
  <2> QED
    BY <2>2 DEF ToSet
<1> DEFINE f == [n \in ToSet(Names) |-> Numbered(n)]
<1>3. IsFiniteSet({f[n] : n \in ToSet(Names)})
  BY <1>2, ImageFinite
<1>4. {f[n] : n \in ToSet(Names)} = {Numbered(n) : n \in ToSet(Names)}
  OBVIOUS
<1>5. IsFiniteSet(Places)
  BY <1>3, <1>4, FS_UNION, NumberedFinite DEF Places
<1>6. \A n \in ToSet(Names) : Numbered(n) \subseteq Places /\ n \in Numbered(n)
  BY DEF Places, Numbered
<1> QED
  BY <1>2, <1>5, <1>6, FS_AddElement

\* Unless more places are taken than there are numbers, the name or one with a
\* number is free, and _unique finds it (inbox.py:29-37).
LEMMA UniqueIsFree ==
  ASSUME NEW n \in ToSet(Names), NEW taken \in SUBSET Places,
         Cardinality(taken) <= Largest
  PROVE  Unique(n, taken) \in Numbered(n) /\ Unique(n, taken) \notin taken
<1>1. CASE n \notin taken
  BY <1>1 DEF Unique, Numbered
<1>2. CASE n \in taken
  <2> DEFINE free == {k \in Numbers : Append(n, k) \notin taken}
  <2>1. IsFiniteSet(taken)
    BY PlacesFinite, FS_Subset
  <2>2. n \in Seq(Nat)
    BY NamesAreSequences
  <2>3. \A k \in Numbers : k \in Nat /\ k # 0
    BY NumbersFinite
  <2>4. free # {}
    <3> SUFFICES ASSUME \A k \in Numbers : Append(n, k) \in taken
                 PROVE  FALSE
      OBVIOUS
    <3> DEFINE f == [k \in 0 .. Largest |-> IF k = 0 THEN n ELSE Append(n, k)]
    <3>1. f \in [0 .. Largest -> taken]
      BY <1>2, NumbersFinite
    <3>2. \A k, l \in 0 .. Largest : f[k] = f[l] => k = l
      <4> SUFFICES ASSUME NEW k \in 0 .. Largest, NEW l \in 0 .. Largest, f[k] = f[l]
                   PROVE  k = l
        OBVIOUS
      <4>1. \A i \in 0 .. Largest : Append(n, i)[Len(n) + 1] = i /\ Len(Append(n, i)) = Len(n) + 1
        BY <2>2, NumbersFinite
      <4>2. CASE k = 0 /\ l # 0
        BY <2>2, <4>1, <4>2
      <4>3. CASE k # 0 /\ l = 0
        BY <2>2, <4>1, <4>3
      <4>4. CASE k # 0 /\ l # 0
        <5>1. Append(n, k) = Append(n, l)
          BY <4>4
        <5> QED
          BY <4>1, <5>1
      <4> QED
        BY <4>2, <4>3, <4>4
    <3>3. Cardinality(0 .. Largest) <= Cardinality(taken)
      BY <2>1, <3>1, <3>2, NoLarger
    <3>4. Cardinality(0 .. Largest) = Largest + 1
      BY NumbersFinite, FS_Interval
    <3>5. Cardinality(taken) \in Nat
      BY <2>1, FS_CardinalityType
    <3> QED
      BY <3>3, <3>4, <3>5, NumbersFinite
  <2>5. free \in SUBSET Nat
    BY <2>3
  <2>6. PICK k \in free : \A j \in free : k <= j
    BY <2>4, <2>5, LeastNatural
  <2>7. \A j \in 1 .. (k - 1) : j \in Numbers
    BY <2>6, NumbersFinite
  <2>8. \A j \in 1 .. (k - 1) : j \notin free
    BY <2>5, <2>6
  <2>9. \E m \in Numbers : /\ Append(n, m) \notin taken
                           /\ \A j \in 1 .. (m - 1) : Append(n, j) \in taken
    BY <2>6, <2>7, <2>8
  <2> DEFINE m == CHOOSE m \in Numbers : /\ Append(n, m) \notin taken
                                          /\ \A j \in 1 .. (m - 1) : Append(n, j) \in taken
  <2>10. m \in Numbers /\ Append(n, m) \notin taken
    BY <2>9
  <2>11. Unique(n, taken) = Append(n, m)
    BY <1>2 DEF Unique
  <2> QED
    BY <2>10, <2>11 DEF Numbered
<1> QED
  BY <1>1, <1>2


LEMMA ContentsArePresent ==
  \A c \in Contents : c # Absent /\ c # Vanished
BY ContentsAssumption

-----------------------------------------------------------------------------
(***************************************************************************)
(* The initial states.                                                     *)
(***************************************************************************)

LEMMA InitTyped == Init => Typed /\ \A i \in DOMAIN records : records[i].root = "corpus"
<1> SUFFICES ASSUME Init
             PROVE  Typed /\ \A i \in DOMAIN records : records[i].root = "corpus"
  OBVIOUS
<1> DEFINE Elsewheres == {[root |-> "corpus", place |-> Elsewhere, content |-> c]
                          : c \in InCorpus}
           Record == [root : {"corpus", "inbox"}, place : Places \cup {Elsewhere},
                      content : Contents]
<1>1. IsFiniteSet(Elsewheres)
  <2> DEFINE f == [c \in InCorpus |-> [root |-> "corpus", place |-> Elsewhere, content |-> c]]
  <2>1. IsFiniteSet({f[c] : c \in InCorpus})
    BY ContentsAssumption, ImageFinite
  <2>2. {f[c] : c \in InCorpus} = Elsewheres
    OBVIOUS
  <2> QED
    BY <2>1, <2>2
<1>2. records \in Seq(Elsewheres)
  BY <1>1, ListedSet DEF Init
<1>3. Elsewheres \subseteq Record
  BY ContentsAssumption
<1>4. records \in Seq(Record) /\ \A i \in DOMAIN records : records[i].root = "corpus"
  <2> HIDE DEF Record
  <2>1. \A r \in Elsewheres : r.root = "corpus"
    OBVIOUS
  <2> HIDE DEF Elsewheres
  <2>2. \A i \in DOMAIN records : records[i] \in Elsewheres
    BY <1>2
  <2>3. records \in Seq(Record)
    BY <1>2, <1>3, <2>2
  <2> QED
    BY <2>1, <2>2, <2>3
<1>5. bounds \in [drops : 0 .. MaxDrops, removals : 0 .. MaxRemovals,
                  faults : 0 .. MaxFaults, crashes : 0 .. MaxCrashes]
  BY BoundsAssumption DEF Init
<1>6. job \in [step : Steps, left : SUBSET ToSet(Names), name : ToSet(Names) \cup {<<>>},
               to : Places \cup {<<>>}]
  BY DEF Init, NoJob, Steps
<1>7. /\ pending \in [ToSet(Names) -> Contents \cup {Absent}]
      /\ processed \in [Places \cup {Elsewhere} -> Contents \cup {Absent}]
      /\ failed \in [Places -> Contents \cup {Absent}]
      /\ errors \in [Places -> Contents \cup {Absent, Vanished}]
      /\ indexed \subseteq DOMAIN records
      /\ drops \in [Contents -> Nat] /\ takenBack \in [Contents -> Nat]
      /\ emptied \in [Contents -> Nat]
  BY DEF Init
<1> QED
  BY <1>4, <1>5, <1>6, <1>7 DEF Typed

LEMMA InitHolds == Init => IInv
<1> SUFFICES ASSUME Init
             PROVE  IInv
  OBVIOUS
<1>1. Typed
  BY InitTyped
<1>2. Hand
  BY DEF Init, NoJob, Hand, HandSteps
<1>3. Room
  <2>1. /\ Held(pending) = {} /\ Held(processed) = {} /\ Held(failed) = {}
        /\ Held(errors) = {}
    BY DEF Init, Held
  <2>2. Lost = {} /\ Following = 0
    BY DEF Init, NoJob, Lost, HandSteps, Following
  <2>3. bounds = [drops |-> 0, removals |-> 0, faults |-> 0, crashes |-> 0]
    BY DEF Init
  <2> QED
    BY <2>1, <2>2, <2>3, FS_EmptySet DEF Room, FilesFit, ReasonsFit, Spare
<1>4. Recorded
  BY DEF Init, Recorded
<1>5. ReasonBeside
  BY DEF Init, ReasonBeside
<1>6. NothingOverwritten
  <2> SUFFICES ASSUME NEW c \in Contents
               PROVE  drops[c] = takenBack[c] + emptied[c]
                        + Where(c, pending) + Where(c, processed) + Where(c, failed)
    BY DEF NothingOverwritten
  <2>1. drops[c] = 0 /\ takenBack[c] = 0 /\ emptied[c] = 0
    BY DEF Init
  <2>2. /\ {p \in DOMAIN pending : pending[p] = c} = {}
        /\ {p \in DOMAIN processed : processed[p] = c} = {}
        /\ {p \in DOMAIN failed : failed[p] = c} = {}
    BY ContentsArePresent DEF Init
  <2> QED
    BY <2>1, <2>2, FS_EmptySet DEF Where
<1> QED
  BY <1>1, <1>2, <1>3, <1>4, <1>5, <1>6 DEF IInv

-----------------------------------------------------------------------------
(***************************************************************************)
(* Room: a move and a reason always find a place of their own.             *)
(***************************************************************************)

\* The sets counted by Room are finite.
LEMMA CountsAreNumbers ==
  ASSUME Typed
  PROVE  /\ IsFiniteSet(Held(pending)) /\ IsFiniteSet(Held(processed))
         /\ IsFiniteSet(Held(failed)) /\ IsFiniteSet(Held(errors)) /\ IsFiniteSet(Lost)
         /\ Cardinality(Held(pending)) \in Nat /\ Cardinality(Held(processed)) \in Nat
         /\ Cardinality(Held(failed)) \in Nat /\ Cardinality(Held(errors)) \in Nat
         /\ Cardinality(Lost) \in Nat
<1>1. /\ Held(pending) \subseteq ToSet(Names) /\ Lost \subseteq ToSet(Names)
      /\ Held(processed) \subseteq Places \cup {Elsewhere}
      /\ Held(failed) \subseteq Places /\ Held(errors) \subseteq Places
  BY DEF Typed, Held, Lost
<1>2. /\ IsFiniteSet(Held(pending)) /\ IsFiniteSet(Held(processed))
      /\ IsFiniteSet(Held(failed)) /\ IsFiniteSet(Held(errors)) /\ IsFiniteSet(Lost)
  BY <1>1, PlacesFinite, FS_Subset
<1> QED
  BY <1>2, FS_CardinalityType

LEMMA CommitFindsRoom ==
  ASSUME Typed, Hand, Room, Step("commit"),
         NEW to, to = Unique(job.name, Taken(processed))
  PROVE  to \in Places /\ to \in Numbered(job.name) /\ processed[to] = Absent
<1>1. job.name \in ToSet(Names)
  BY DEF Hand, HandSteps, Step
<1>2. Taken(processed) \subseteq Held(processed) /\ Taken(processed) \subseteq Places
  BY DEF Typed, Taken, Held
<1>3. Cardinality(Taken(processed)) <= Cardinality(Held(processed))
  BY <1>2, CountsAreNumbers, FS_Subset
<1>4. Cardinality(Taken(processed)) \in Nat
  BY <1>2, PlacesFinite, FS_Subset, FS_CardinalityType
<1>5. Cardinality(Taken(processed)) <= Largest
  <2>1. /\ bounds.drops \in 0 .. MaxDrops
        /\ MaxDrops \in Nat /\ MaxRemovals \in Nat /\ MaxFaults \in Nat /\ MaxCrashes \in Nat
    BY BoundsAssumption DEF Typed
  <2>2. Cardinality(Held(processed)) <= bounds.drops
    BY <2>1, CountsAreNumbers DEF Room, FilesFit, ReasonsFit, Spare
  <2> QED
    BY <1>3, <1>4, <2>1, <2>2, CountsAreNumbers DEF Largest
<1>6. to \in Numbered(job.name) /\ to \notin Taken(processed)
  BY <1>1, <1>2, <1>5, UniqueIsFree
<1>7. to \in Places
  BY <1>1, <1>6, PlacesFinite
<1> QED
  BY <1>6, <1>7 DEF Taken

LEMMA ExplainFindsRoom ==
  ASSUME Typed, Hand, Room, ReasonBeside, Step("explain"),
         NEW to, to = Unique(job.name, Taken(failed) \cup {p \in Taken(errors) : p # job.name})
  PROVE  to \in Places /\ failed[to] = Absent /\ (errors[to] # Absent => to = job.name)
<1> DEFINE taken == Taken(failed) \cup {p \in Taken(errors) : p # job.name}
<1>1. job.name \in ToSet(Names)
  BY DEF Hand, HandSteps, Step
<1>2. taken \subseteq Held(errors) /\ taken \subseteq Places
  BY ContentsArePresent DEF Typed, Taken, Held, ReasonBeside
<1>3. Cardinality(taken) <= Cardinality(Held(errors)) /\ Cardinality(taken) \in Nat
  BY <1>2, CountsAreNumbers, FS_Subset, FS_CardinalityType
<1>4. Cardinality(taken) <= Largest
  <2>1. /\ bounds.drops \in 0 .. MaxDrops /\ bounds.removals \in 0 .. MaxRemovals
        /\ bounds.faults \in 0 .. MaxFaults /\ bounds.crashes \in 0 .. MaxCrashes
        /\ MaxDrops \in Nat /\ MaxRemovals \in Nat /\ MaxFaults \in Nat /\ MaxCrashes \in Nat
    BY BoundsAssumption DEF Typed
  <2>2. Following = 0
    BY DEF Following, Step
  <2>3. Cardinality(Held(failed)) <= bounds.drops
    BY <2>1, CountsAreNumbers DEF Room, FilesFit, ReasonsFit, Spare
  <2>4. Cardinality(Held(errors))
          <= Cardinality(Held(failed)) + bounds.removals + bounds.faults + bounds.crashes
    BY <2>1, <2>2, CountsAreNumbers DEF Room, FilesFit, ReasonsFit, Spare
  <2> QED
    BY <1>3, <2>1, <2>3, <2>4, CountsAreNumbers DEF Largest
<1>5. to \in Numbered(job.name) /\ to \notin taken
  BY <1>1, <1>2, <1>4, UniqueIsFree
<1>6. to \in Places
  BY <1>1, <1>5, PlacesFinite
<1> QED
  BY <1>5, <1>6 DEF Taken

-----------------------------------------------------------------------------
(***************************************************************************)
(* Every step keeps the types.                                             *)
(***************************************************************************)

LEMMA FirstInterrupted ==
  ASSUME Typed, NEW c, Interrupted(c) # {}
  PROVE  /\ Min(Interrupted(c)) \in Interrupted(c)
         /\ records[Min(Interrupted(c))].place \in Places
<1>1. Interrupted(c) \subseteq Nat
  BY DEF Typed, Interrupted
<1>2. Min(Interrupted(c)) \in Interrupted(c)
  BY <1>1, MinProperties
<1> QED
  BY <1>2 DEF Typed, Interrupted

Bounds == [drops : 0 .. MaxDrops, removals : 0 .. MaxRemovals,
           faults : 0 .. MaxFaults, crashes : 0 .. MaxCrashes]

\* Each bound is kept by the operations that count towards it.
LEMMA BoundsTyped ==
  ASSUME bounds \in Bounds
  PROVE  /\ Fault => bounds' \in Bounds
         /\ bounds.drops < MaxDrops => [bounds EXCEPT !.drops = @ + 1] \in Bounds
         /\ bounds.removals < MaxRemovals => [bounds EXCEPT !.removals = @ + 1] \in Bounds
         /\ bounds.crashes < MaxCrashes => [bounds EXCEPT !.crashes = @ + 1] \in Bounds
BY BoundsAssumption DEF Bounds, Fault

LEMMA TypedStep == Typed /\ Hand /\ Room /\ ReasonBeside /\ [Next]_vars => Typed'
<1> SUFFICES ASSUME Typed, Hand, Room, ReasonBeside, [Next]_vars
             PROVE  Typed'
  OBVIOUS
<1>0. bounds \in Bounds
  BY DEF Typed, Bounds
<1> USE DEF Typed, folders, history, Goto, Step, Gone, Replace, InHand
<1>1. CASE StartScan
  BY <1>1 DEF StartScan, NoJob, Steps
<1>2. ASSUME NEW n \in ToSet(Names), Take(n)
      PROVE  Typed'
  <2>1. job'.to \in Places \cup {<<>>}
    BY <1>2, FirstInterrupted DEF Take
  <2>2. job'.step \in Steps /\ job'.left \in SUBSET ToSet(Names) /\ job'.name = n
    BY <1>2 DEF Take, Steps
  <2>3. job' = [step |-> job'.step, left |-> job'.left, name |-> job'.name, to |-> job'.to]
    BY <1>2 DEF Take
  <2>4. job' \in [step : Steps, left : SUBSET ToSet(Names), name : ToSet(Names) \cup {<<>>},
                  to : Places \cup {<<>>}]
    BY <2>1, <2>2, <2>3
  <2> QED
    BY <1>2, <2>4 DEF Take
<1>3. CASE Recover
  BY <1>3 DEF Recover, Steps, Hand, HandSteps
<1>4. CASE RecoverFails
  <2>1. bounds' \in Bounds
    BY <1>0, <1>4, BoundsTyped DEF RecoverFails
  <2> QED
    BY <1>4, <2>1 DEF RecoverFails, Steps, Bounds
<1>5. CASE Commit
  <2> DEFINE to == Unique(job.name, Taken(processed))
             record == [root |-> "inbox", place |-> to, content |-> InHand]
  <2>1. to \in Places
    BY <1>5, CommitFindsRoom DEF Commit
  <2>2. InHand \in Contents
    BY <1>5 DEF Commit, Hand, HandSteps
  <2>3. record \in [root : {"corpus", "inbox"}, place : Places \cup {Elsewhere},
                    content : Contents] /\ record.root = "inbox" /\ record.place \in Places
    BY <2>1, <2>2
  <2>4. records' = Append(records, record) /\ job' = [job EXCEPT !.step = "move", !.to = to]
    BY <1>5 DEF Commit
  <2> HIDE DEF record, to
  <2>5. records' \in Seq([root : {"corpus", "inbox"}, place : Places \cup {Elsewhere},
                          content : Contents])
    BY <2>3, <2>4
  <2>6. /\ \A i \in (DOMAIN records)' : records'[i].root = "inbox" => records'[i].place \in Places
        /\ indexed \subseteq (DOMAIN records)'
    <3> DEFINE Kind == [root : {"corpus", "inbox"}, place : Places \cup {Elsewhere},
                        content : Contents]
    <3>1. records \in Seq(Kind) /\ record \in Kind
      BY <2>3
    <3> HIDE DEF Kind
    <3>2. /\ DOMAIN Append(records, record) = DOMAIN records \cup {Len(records) + 1}
          /\ \A i \in DOMAIN records : Append(records, record)[i] = records[i]
          /\ Append(records, record)[Len(records) + 1] = record
      BY <3>1, Appended
    <3> QED
      BY <2>3, <2>4, <3>2
  <2>7. job' \in [step : Steps, left : SUBSET ToSet(Names), name : ToSet(Names) \cup {<<>>},
                  to : Places \cup {<<>>}]
    BY <2>1, <2>4 DEF Steps
  <2> QED
    BY <1>5, <2>5, <2>6, <2>7 DEF Commit
<1>6. CASE CommitFails
  <2>1. bounds' \in Bounds
    BY <1>0, <1>6, BoundsTyped DEF CommitFails
  <2> QED
    BY <1>6, <2>1 DEF CommitFails, Steps, Bounds
<1>7. CASE CommitRaises
  BY <1>7 DEF CommitRaises, NoJob, Steps
<1>8. CASE Move
  BY <1>8 DEF Move, Steps, Hand, HandSteps
<1>9. CASE MoveFails
  <2>1. bounds' \in Bounds
    BY <1>0, <1>9, BoundsTyped DEF MoveFails
  <2> QED
    BY <1>9, <2>1 DEF MoveFails, Steps, Bounds
<1>10. CASE Index
  <2>1. Len(records) \in DOMAIN records
    BY <1>10 DEF Index, Hand
  <2> QED
    BY <1>10, <2>1 DEF Index, Steps
<1>11. CASE Explain
  <2> DEFINE to == Unique(job.name, Taken(failed) \cup {p \in Taken(errors) : p # job.name})
  <2>1. to \in Places
    BY <1>11, ExplainFindsRoom DEF Explain
  <2>2. /\ errors' = [errors EXCEPT ![to] = IF InHand = Absent THEN Vanished ELSE InHand]
        /\ job' = [job EXCEPT !.step = "set aside", !.to = to]
    BY <1>11 DEF Explain
  <2>3. job.name \in ToSet(Names)
    BY <1>11 DEF Explain, Hand, HandSteps
  <2> HIDE DEF to
  <2>4. errors' \in [Places -> Contents \cup {Absent, Vanished}]
    BY <2>1, <2>2, <2>3
  <2>5. job' \in [step : Steps, left : SUBSET ToSet(Names), name : ToSet(Names) \cup {<<>>},
                  to : Places \cup {<<>>}]
    BY <2>1, <2>2 DEF Steps
  <2> QED
    BY <1>11, <2>4, <2>5 DEF Explain
<1>12. CASE SetAside
  BY <1>12 DEF SetAside, Steps, Hand, HandSteps
<1>13. CASE SetAsideRaises
  <2>1. bounds' \in Bounds
    BY <1>0, <1>13, BoundsTyped DEF SetAsideRaises
  <2> QED
    BY <1>13, <2>1 DEF SetAsideRaises, NoJob, Steps, Bounds
<1>14. CASE Sweep
  BY <1>14 DEF Sweep, NoJob, Steps
<1>15. CASE Crash
  <2>1. bounds' \in Bounds
    BY <1>0, <1>15, BoundsTyped DEF Crash
  <2> QED
    BY <1>15, <2>1 DEF Crash, NoJob, Steps, Bounds
<1>16. ASSUME NEW n \in ToSet(Names), NEW c \in Contents, Drop(n, c)
       PROVE  Typed'
  <2>1. bounds' \in Bounds
    BY <1>0, <1>16, BoundsTyped DEF Drop
  <2>2. pending' \in [ToSet(Names) -> Contents \cup {Absent}]
    BY <1>16 DEF Drop
  <2>3. drops' \in [Contents -> Nat]
    BY <1>16 DEF Drop
  <2> QED
    BY <1>16, <2>1, <2>2, <2>3 DEF Drop, Bounds
<1>17. ASSUME NEW n \in ToSet(Names), TakeBack(n)
       PROVE  Typed'
  <2>1. bounds' \in Bounds
    BY <1>0, <1>17, BoundsTyped DEF TakeBack
  <2>2. pending' \in [ToSet(Names) -> Contents \cup {Absent}]
    BY <1>17 DEF TakeBack
  <2>3. takenBack' \in [Contents -> Nat]
    BY <1>17 DEF TakeBack
  <2> QED
    BY <1>17, <2>1, <2>2, <2>3 DEF TakeBack, Bounds
<1>18. CASE EmptyProcessed
  <2>1. \A c \in Contents : Where(c, processed) \in Nat
    <3> TAKE c \in Contents
    <3>1. {p \in DOMAIN processed : processed[p] = c} \subseteq Places \cup {Elsewhere}
      OBVIOUS
    <3> QED
      BY <3>1, PlacesFinite, FS_Subset, FS_CardinalityType DEF Where
  <2>2. emptied' \in [Contents -> Nat]
    BY <1>18, <2>1 DEF EmptyProcessed
  <2> QED
    BY <1>18, <2>2 DEF EmptyProcessed
<1>19. CASE UNCHANGED vars
  BY <1>19 DEF vars
<1> QED
  BY <1>1, <1>2, <1>3, <1>4, <1>5, <1>6, <1>7, <1>8, <1>9, <1>10, <1>11, <1>12, <1>13, <1>14,
     <1>15, <1>16, <1>17, <1>18, <1>19 DEF Next, Process, User

-----------------------------------------------------------------------------
(***************************************************************************)
(* The file in hand, what is on record of processed/, and the reasons.     *)
(***************************************************************************)

\* Nothing goes off the record (append-only).
LEMMA RecordsStay ==
  ASSUME Typed, Typed', [Next]_vars
  PROVE  /\ \/ records' = records
            \/ Commit /\ \E r \in [root : {"corpus", "inbox"}, place : Places \cup {Elsewhere},
                                   content : Contents] : records' = Append(records, r)
         /\ \A i \in DOMAIN records : i \in DOMAIN records' /\ records'[i] = records[i]
         /\ records # <<>> => records' # <<>>
         /\ \A p, c : Bound(p, c) => Bound(p, c)'
<1> DEFINE Record == [root : {"corpus", "inbox"}, place : Places \cup {Elsewhere},
                      content : Contents]
<1>1. records' = records \/ (Commit /\ \E r : records' = Append(records, r))
  BY DEF Next, Process, User, vars, StartScan, Take, Recover, RecoverFails, Commit, CommitFails,
         CommitRaises, Move, MoveFails, Index, Explain, SetAside, SetAsideRaises, Sweep, Crash,
         Drop, TakeBack, EmptyProcessed
<1>2. records \in Seq(Record) /\ records' \in Seq(Record)
  BY DEF Typed
<1>3. CASE records' = records
  BY <1>3 DEF Bound
<1>4. ASSUME Commit, NEW r, records' = Append(records, r)
      PROVE  /\ r \in Record
             /\ \A i \in DOMAIN records : i \in DOMAIN records' /\ records'[i] = records[i]
             /\ records # <<>> => records' # <<>>
  <2> HIDE DEF Record
  <2>1. /\ Len(records) + 1 \in DOMAIN records' /\ records'[Len(records) + 1] = r
        /\ \A i \in DOMAIN records : i \in DOMAIN records' /\ records'[i] = records[i]
        /\ records' # <<>>
    BY <1>2, <1>4
  <2> QED
    BY <1>2, <2>1
<1>5. ASSUME Commit, NEW r, records' = Append(records, r), NEW p, NEW c, Bound(p, c)
      PROVE  Bound(p, c)'
  BY <1>4, <1>5 DEF Bound
<1> QED
  BY <1>1, <1>3, <1>4, <1>5

LEMMA RecordsAreRecords ==
  ASSUME Typed, NEW i \in DOMAIN records
  PROVE  records[i] \in [root : {"corpus", "inbox"}, place : Places \cup {Elsewhere},
                         content : Contents]
<1> DEFINE Record == [root : {"corpus", "inbox"}, place : Places \cup {Elsewhere},
                      content : Contents]
<1>1. records \in Seq(Record)
  BY DEF Typed
<1> HIDE DEF Record
<1>2. records[i] \in Record
  BY <1>1
<1> QED
  BY <1>2 DEF Record

LEMMA HandStep ==
  Typed /\ Typed' /\ Hand /\ Room /\ Recorded /\ ReasonBeside /\ [Next]_vars => Hand'
<1> SUFFICES ASSUME Typed, Typed', Hand, Room, ReasonBeside, [Next]_vars
             PROVE  Hand'
  OBVIOUS
<1>0. /\ \A p, c : Bound(p, c) => Bound(p, c)'
      /\ records # <<>> => records' # <<>>
  BY RecordsStay
<1> USE DEF folders, history, Goto, Step, Gone, Replace, InHand, HandSteps
<1>1. CASE StartScan
  BY <1>1 DEF StartScan, NoJob, Hand
<1>2. ASSUME NEW n \in ToSet(Names), Take(n)
      PROVE  Hand'
  <2> DEFINE c == pending[n]
             i == Min(Interrupted(c))
  <2>1. /\ job'.name = n /\ n \notin job'.left
        /\ job'.step \in {"recover", "commit", "explain"}
    BY <1>2 DEF Take, Typed
  <2>2. ASSUME job'.step = "recover"
        PROVE  /\ job'.to \in Places /\ processed[job'.to] = Absent
               /\ Bound(job'.to, c)
    <3>1. Interrupted(c) # {} /\ job'.to = records[i].place
      BY <1>2, <2>2 DEF Take, Typed
    <3>2. i \in Interrupted(c) /\ records[i].place \in Places
      BY <3>1, FirstInterrupted
    <3> HIDE DEF i
    <3>4. i \in DOMAIN records /\ records[i].content = c /\ records[i].root = "inbox"
      BY <3>2 DEF Interrupted
    <3>5. records[i] \in [root : {"corpus", "inbox"}, place : Places \cup {Elsewhere},
                          content : Contents]
      BY <3>4, RecordsAreRecords
    <3>3. records[i] = [root |-> "inbox", place |-> records[i].place, content |-> c]
      BY <3>4, <3>5
    <3> QED
      BY <3>1, <3>2, <3>3 DEF Interrupted, Bound
  <2>3. processed' = processed /\ pending' = pending
    BY <1>2 DEF Take
  <2>4. ASSUME job'.step = "recover"
        PROVE  /\ job'.to \in Places /\ processed'[job'.to] = Absent
               /\ Bound(job.to, InHand)'
    <3>1. Bound(job'.to, c) /\ records' = records /\ InHand' = c
      BY <1>2, <2>1, <2>2, <2>3, <2>4 DEF Take
    <3> QED
      BY <2>2, <2>3, <2>4, <3>1 DEF Bound
  <2> QED
    BY <2>1, <2>4 DEF Hand
<1>3. CASE Recover
  BY <1>3 DEF Recover, Hand, Typed
<1>4. CASE RecoverFails
  BY <1>4 DEF RecoverFails, Hand, Typed
<1>5. CASE Commit
  <2> DEFINE to == Unique(job.name, Taken(processed))
             record == [root |-> "inbox", place |-> to, content |-> InHand]
  <2>1. to \in Places /\ processed[to] = Absent
    BY <1>5, CommitFindsRoom DEF Commit
  <2>2. /\ records' = Append(records, record) /\ job' = [job EXCEPT !.step = "move", !.to = to]
        /\ UNCHANGED <<pending, processed>>
    BY <1>5 DEF Commit
  <2>3. job'.step = "move" /\ job'.to = to /\ job'.name = job.name /\ job'.left = job.left
    BY <2>2 DEF Typed
  <2>4. records' # <<>> /\ Bound(job.to, InHand)'
    <3>1. Len(records) + 1 \in DOMAIN records' /\ records'[Len(records) + 1] = record
      BY <2>2 DEF Typed
    <3>2. records' # <<>>
      BY <3>1
    <3>3. InHand' = InHand
      BY <2>2, <2>3
    <3> QED
      BY <2>3, <3>1, <3>2, <3>3 DEF Bound
  <2>5. job.name \in ToSet(Names) /\ job.name \notin job.left
    BY <1>5 DEF Commit, Hand
  <2> HIDE DEF to, record
  <2> QED
    BY <2>1, <2>2, <2>3, <2>4, <2>5 DEF Hand
<1>6. CASE CommitFails
  BY <1>6 DEF CommitFails, Hand, Typed
<1>7. CASE CommitRaises
  BY <1>7 DEF CommitRaises, NoJob, Hand
<1>8. CASE Move
  BY <1>8 DEF Move, Hand, Typed
<1>9. CASE MoveFails
  BY <1>9 DEF MoveFails, Hand, Typed
<1>10. CASE Index
  BY <1>10 DEF Index, Hand, Typed
<1>11. CASE Explain
  <2> DEFINE to == Unique(job.name, Taken(failed) \cup {p \in Taken(errors) : p # job.name})
  <2>1. to \in Places /\ failed[to] = Absent
    BY <1>11, ExplainFindsRoom DEF Explain
  <2>2. /\ errors' = [errors EXCEPT ![to] = IF InHand = Absent THEN Vanished ELSE InHand]
        /\ job' = [job EXCEPT !.step = "set aside", !.to = to]
        /\ UNCHANGED <<pending, failed>>
    BY <1>11 DEF Explain
  <2>3. /\ job'.step = "set aside" /\ job'.to = to /\ job'.name = job.name
        /\ job'.left = job.left
    BY <2>2 DEF Typed
  <2>4. InHand # Absent => errors'[to] = InHand
    BY <2>1, <2>2 DEF Typed
  <2>5. job.name \in ToSet(Names) /\ job.name \notin job.left
    BY <1>11 DEF Explain, Hand
  <2> HIDE DEF to
  <2> QED
    BY <2>1, <2>2, <2>3, <2>4, <2>5 DEF Hand
<1>12. CASE SetAside
  BY <1>12 DEF SetAside, Hand, Typed
<1>13. CASE SetAsideRaises
  BY <1>13 DEF SetAsideRaises, NoJob, Hand
<1>14. CASE Sweep
  BY <1>14 DEF Sweep, NoJob, Hand
<1>15. CASE Crash
  BY <1>15 DEF Crash, NoJob, Hand
<1>16. ASSUME NEW n \in ToSet(Names), NEW c \in Contents, Drop(n, c)
       PROVE  Hand'
  <2>1. UNCHANGED <<processed, failed, errors, records, job>>
    BY <1>16 DEF Drop
  <2>2. job.step \in HandSteps => pending'[job.name] = pending[job.name]
    BY <1>16 DEF Drop, Typed, Hand
  <2> QED
    BY <1>0, <2>1, <2>2 DEF Hand
<1>17. ASSUME NEW n \in ToSet(Names), TakeBack(n)
       PROVE  Hand'
  <2>1. UNCHANGED <<processed, failed, errors, records, job>>
    BY <1>17 DEF TakeBack
  <2>2. job.step \in HandSteps => pending'[job.name] \in {pending[job.name], Absent}
    BY <1>17 DEF TakeBack, Typed, Hand
  <2> QED
    BY <1>0, <2>1, <2>2 DEF Hand
<1>18. CASE EmptyProcessed
  <2>1. UNCHANGED <<pending, failed, errors, records, job>>
    BY <1>18 DEF EmptyProcessed
  <2>2. \A p \in Places : processed'[p] = Absent
    BY <1>18 DEF EmptyProcessed, Typed
  <2> QED
    BY <1>0, <2>1, <2>2 DEF Hand
<1>19. CASE UNCHANGED vars
  BY <1>0, <1>19 DEF vars, Hand
<1> QED
  BY <1>1, <1>2, <1>3, <1>4, <1>5, <1>6, <1>7, <1>8, <1>9, <1>10, <1>11, <1>12, <1>13, <1>14,
     <1>15, <1>16, <1>17, <1>18, <1>19 DEF Next, Process, User

LEMMA RecordedStep ==
  Typed /\ Typed' /\ Hand /\ Recorded /\ [Next]_vars => Recorded'
<1> SUFFICES ASSUME Typed, Typed', Hand, Recorded, [Next]_vars,
                    NEW p \in DOMAIN processed', processed'[p] # Absent
             PROVE  Bound(p, processed[p])'
  BY DEF Recorded
<1>1. CASE processed' = processed
  <2>1. Bound(p, processed[p])
    BY <1>1 DEF Recorded
  <2> QED
    BY <1>1, <2>1, RecordsStay DEF Bound
<1>2. CASE Recover \/ Move
  <2>1. /\ processed' = [processed EXCEPT ![job.to] = InHand] /\ InHand # Absent
        /\ records' = records
    BY <1>2 DEF Recover, Move, Replace
  <2>2. job.to \in Places /\ Bound(job.to, InHand)
    BY <1>2, <2>1 DEF Recover, Move, Hand, Step
  <2>3. p \in DOMAIN processed /\ processed'[p] = IF p = job.to THEN InHand ELSE processed[p]
    BY <2>1 DEF Typed
  <2>4. Bound(p, processed'[p])
    BY <2>2, <2>3 DEF Recorded
  <2> QED
    BY <2>1, <2>4 DEF Bound
<1>3. CASE EmptyProcessed
  BY <1>3 DEF EmptyProcessed
<1>4. processed' = processed \/ Recover \/ Move \/ EmptyProcessed
  BY DEF Next, Process, User, vars, folders, StartScan, Take, RecoverFails, Commit, CommitFails,
         CommitRaises, MoveFails, Index, Explain, SetAside, SetAsideRaises, Sweep, Crash,
         Drop, TakeBack
<1> QED
  BY <1>1, <1>2, <1>3, <1>4

LEMMA ReasonBesideStep ==
  Typed /\ Typed' /\ Hand /\ Room /\ ReasonBeside /\ [Next]_vars => ReasonBeside'
<1> SUFFICES ASSUME Typed, Typed', Hand, Room, ReasonBeside, [Next]_vars
             PROVE  ReasonBeside'
  OBVIOUS
<1>1. CASE UNCHANGED <<failed, errors>>
  BY <1>1 DEF ReasonBeside
<1>2. CASE Explain
  <2> DEFINE to == Unique(job.name, Taken(failed) \cup {p \in Taken(errors) : p # job.name})
  <2>1. to \in Places /\ failed[to] = Absent
    BY <1>2, ExplainFindsRoom DEF Explain
  <2>2. /\ errors' = [errors EXCEPT ![to] = IF InHand = Absent THEN Vanished ELSE InHand]
        /\ failed' = failed
    BY <1>2 DEF Explain
  <2> HIDE DEF to
  <2> QED
    BY <2>1, <2>2 DEF ReasonBeside, Typed
<1>3. CASE SetAside
  BY <1>3 DEF SetAside, Hand, Step, Replace, ReasonBeside, Typed
<1>4. UNCHANGED <<failed, errors>> \/ Explain \/ SetAside
  BY DEF Next, Process, User, vars, folders, StartScan, Take, Recover, RecoverFails, Commit,
         CommitFails, CommitRaises, Move, MoveFails, Index, SetAsideRaises, Sweep, Crash,
         Drop, TakeBack, EmptyProcessed
<1> QED
  BY <1>1, <1>2, <1>3, <1>4

-----------------------------------------------------------------------------
(***************************************************************************)
(* Counting the files.                                                     *)
(***************************************************************************)

\* What a folder's place p holds changes.
Put(folder, p, f) ==
  /\ IsFiniteSet(DOMAIN folder) /\ p \in DOMAIN folder /\ DOMAIN f = DOMAIN folder
  /\ \A q \in DOMAIN folder : q # p => f[q] = folder[q]

LEMMA FolderPut ==
  ASSUME NEW folder, NEW p, NEW f, Put(folder, p, f)
  PROVE  /\ Cardinality(Held(folder)) \in Nat /\ Cardinality(Held(f)) \in Nat
         /\ (folder[p] = Absent <=> f[p] = Absent)
              => Cardinality(Held(f)) = Cardinality(Held(folder))
         /\ folder[p] = Absent /\ f[p] # Absent
              => Cardinality(Held(f)) = Cardinality(Held(folder)) + 1
         /\ folder[p] # Absent /\ f[p] = Absent
              => Cardinality(Held(f)) = Cardinality(Held(folder)) - 1
         /\ \A c : /\ Where(c, folder) \in Nat /\ Where(c, f) \in Nat
                   /\ (folder[p] = c <=> f[p] = c) => Where(c, f) = Where(c, folder)
                   /\ folder[p] # c /\ f[p] = c => Where(c, f) = Where(c, folder) + 1
                   /\ folder[p] = c /\ f[p] # c => Where(c, f) = Where(c, folder) - 1
<1> DEFINE D == DOMAIN folder
<1>1. IsFiniteSet(D) /\ p \in D
  BY DEF Put
<1>2. ASSUME NEW c
      PROVE  /\ Where(c, folder) \in Nat /\ Where(c, f) \in Nat
             /\ (folder[p] = c <=> f[p] = c) => Where(c, f) = Where(c, folder)
             /\ folder[p] # c /\ f[p] = c => Where(c, f) = Where(c, folder) + 1
             /\ folder[p] = c /\ f[p] # c => Where(c, f) = Where(c, folder) - 1
  <2> DEFINE S == {q \in DOMAIN folder : folder[q] = c}
             T == {q \in DOMAIN f : f[q] = c}
  <2>1. /\ S \in SUBSET D /\ T \in SUBSET D /\ (p \in S <=> folder[p] = c)
        /\ (p \in T <=> f[p] = c) /\ \A q \in D : q # p => (q \in S <=> q \in T)
    BY DEF Put
  <2>2. Where(c, folder) = Cardinality(S) /\ Where(c, f) = Cardinality(T)
    BY DEF Where
  <2> HIDE DEF S, T, D
  <2> QED
    BY <1>1, <2>1, <2>2, CountPut
<1>3. /\ Cardinality(Held(folder)) \in Nat /\ Cardinality(Held(f)) \in Nat
      /\ (folder[p] = Absent <=> f[p] = Absent)
           => Cardinality(Held(f)) = Cardinality(Held(folder))
      /\ folder[p] = Absent /\ f[p] # Absent
           => Cardinality(Held(f)) = Cardinality(Held(folder)) + 1
      /\ folder[p] # Absent /\ f[p] = Absent
           => Cardinality(Held(f)) = Cardinality(Held(folder)) - 1
  <2> DEFINE S == Held(folder)
             T == Held(f)
  <2>1. /\ S \in SUBSET D /\ T \in SUBSET D /\ (p \in S <=> folder[p] # Absent)
        /\ (p \in T <=> f[p] # Absent) /\ \A q \in D : q # p => (q \in S <=> q \in T)
    BY DEF Put, Held
  <2> HIDE DEF S, T, D
  <2>2. /\ Cardinality(S) \in Nat /\ Cardinality(T) \in Nat
        /\ (folder[p] = Absent <=> f[p] = Absent) => Cardinality(T) = Cardinality(S)
        /\ folder[p] = Absent /\ f[p] # Absent => Cardinality(T) = Cardinality(S) + 1
        /\ folder[p] # Absent /\ f[p] = Absent => Cardinality(T) = Cardinality(S) - 1
    BY <1>1, <2>1, CountPut
  <2> QED
    BY <2>2 DEF S, T
<1> QED
  BY <1>2, <1>3

\* The steps that move a file, and the others.
LEMMA FilesMove ==
  ASSUME Typed, [Next]_vars
  PROVE  \/ UNCHANGED <<pending, processed, failed, history, bounds.drops>>
         \/ Recover \/ Move \/ SetAside
         \/ \E n \in ToSet(Names), c \in Contents : Drop(n, c)
         \/ \E n \in ToSet(Names) : TakeBack(n)
         \/ EmptyProcessed
<1>1. /\ [bounds EXCEPT !.faults = @ + 1].drops = bounds.drops
      /\ [bounds EXCEPT !.crashes = @ + 1].drops = bounds.drops
  BY DEF Typed
<1> QED
  BY <1>1 DEF Next, Process, User, vars, folders, history, StartScan, Take, RecoverFails, Commit,
       CommitFails, CommitRaises, MoveFails, Index, Explain, SetAsideRaises, Sweep, Crash, Fault

\* What a file's move from the top of the inbox does to the counts.
LEMMA MoveCounts ==
  ASSUME Typed, Hand, job.step \in HandSteps, InHand # Absent, Gone
  PROVE  /\ Cardinality(Held(pending')) = Cardinality(Held(pending)) - 1
         /\ Cardinality(Held(pending)) \in Nat /\ Cardinality(Held(pending')) \in Nat
         /\ \A c \in Contents :
              /\ Where(c, pending) \in Nat /\ Where(c, pending') \in Nat
              /\ Where(c, pending') = Where(c, pending) - (IF InHand = c THEN 1 ELSE 0)
<1>1. /\ job.name \in ToSet(Names) /\ pending \in [ToSet(Names) -> Contents \cup {Absent}]
      /\ pending' = [pending EXCEPT ![job.name] = Absent]
  BY DEF Typed, Hand, Gone
<1>2. /\ Put(pending, job.name, pending')
      /\ pending[job.name] = InHand /\ pending'[job.name] = Absent
  BY <1>1, PlacesFinite DEF InHand, Put
<1>3. /\ Cardinality(Held(pending')) = Cardinality(Held(pending)) - 1
      /\ Cardinality(Held(pending)) \in Nat /\ Cardinality(Held(pending')) \in Nat
  BY <1>2, FolderPut
<1>4. \A c \in Contents :
        /\ Where(c, pending) \in Nat /\ Where(c, pending') \in Nat
        /\ Where(c, pending') = Where(c, pending) - (IF InHand = c THEN 1 ELSE 0)
  BY <1>2, FolderPut, ContentsArePresent
<1> QED
  BY <1>3, <1>4

LEMMA ArrivalCounts ==
  ASSUME Typed, InHand # Absent, InHand \in Contents,
         NEW D, IsFiniteSet(D), NEW folder \in [D -> Contents \cup {Absent}],
         job.to \in D, folder[job.to] = Absent
  PROVE  LET f == Replace(folder, job.to)
         IN  /\ Cardinality(Held(f)) = Cardinality(Held(folder)) + 1
             /\ Cardinality(Held(folder)) \in Nat /\ Cardinality(Held(f)) \in Nat
             /\ \A c \in Contents :
                  /\ Where(c, folder) \in Nat /\ Where(c, f) \in Nat
                  /\ Where(c, f) = Where(c, folder) + (IF InHand = c THEN 1 ELSE 0)
<1> DEFINE f == Replace(folder, job.to)
<1>1. Put(folder, job.to, f) /\ f[job.to] = InHand
  BY DEF Replace, Put
<1> HIDE DEF f
<1>2. /\ Cardinality(Held(f)) = Cardinality(Held(folder)) + 1
      /\ Cardinality(Held(folder)) \in Nat /\ Cardinality(Held(f)) \in Nat
  BY <1>1, FolderPut
<1>3. \A c \in Contents :
        /\ Where(c, folder) \in Nat /\ Where(c, f) \in Nat
        /\ Where(c, f) = Where(c, folder) + (IF InHand = c THEN 1 ELSE 0)
  BY <1>1, FolderPut, ContentsArePresent
<1> QED
  BY <1>2, <1>3 DEF f

\* The destination of the file in hand is free, whatever the step.
LEMMA InHandMoves ==
  ASSUME Typed, Hand
  PROVE  /\ Recover \/ Move =>
              /\ job.step \in HandSteps /\ InHand # Absent /\ InHand \in Contents
              /\ job.to \in Places \cup {Elsewhere} /\ processed[job.to] = Absent
              /\ Gone /\ processed' = Replace(processed, job.to)
              /\ UNCHANGED <<failed, errors, history, bounds>>
         /\ SetAside =>
              /\ job.step \in HandSteps /\ InHand # Absent /\ InHand \in Contents
              /\ job.to \in Places /\ failed[job.to] = Absent
              /\ Gone /\ failed' = Replace(failed, job.to)
              /\ UNCHANGED <<processed, errors, history, bounds>>
BY DEF Typed, Hand, HandSteps, Step, InHand, Recover, Move, SetAside

LEMMA WhereAreNumbers ==
  ASSUME Typed, NEW c
  PROVE  /\ Where(c, pending) \in Nat /\ Where(c, processed) \in Nat
         /\ Where(c, failed) \in Nat
<1>1. /\ {p \in DOMAIN pending : pending[p] = c} \subseteq ToSet(Names)
      /\ {p \in DOMAIN processed : processed[p] = c} \subseteq Places \cup {Elsewhere}
      /\ {p \in DOMAIN failed : failed[p] = c} \subseteq Places
  BY DEF Typed
<1> QED
  BY <1>1, PlacesFinite, FS_Subset, FS_CardinalityType DEF Where

LEMMA NothingOverwrittenStep ==
  Typed /\ Hand /\ NothingOverwritten /\ [Next]_vars => NothingOverwritten'
<1> SUFFICES ASSUME Typed, Hand, NothingOverwritten, [Next]_vars, NEW c \in Contents
             PROVE  drops'[c] = takenBack'[c] + emptied'[c]
                      + Where(c, pending') + Where(c, processed') + Where(c, failed')
  BY DEF NothingOverwritten, Where
<1>1. /\ drops[c] = takenBack[c] + emptied[c]
           + Where(c, pending) + Where(c, processed) + Where(c, failed)
      /\ drops[c] \in Nat /\ takenBack[c] \in Nat /\ emptied[c] \in Nat
      /\ Where(c, pending) \in Nat /\ Where(c, processed) \in Nat /\ Where(c, failed) \in Nat
  BY WhereAreNumbers DEF NothingOverwritten, Typed
<1>2. CASE UNCHANGED <<pending, processed, failed, history, bounds.drops>>
  BY <1>1, <1>2 DEF history
<1>3. CASE Recover \/ Move
  <2>1. Where(c, pending') = Where(c, pending) - (IF InHand = c THEN 1 ELSE 0)
    BY <1>3, InHandMoves, MoveCounts
  <2>2. Where(c, processed') = Where(c, processed) + (IF InHand = c THEN 1 ELSE 0)
    BY <1>3, InHandMoves, ArrivalCounts, PlacesFinite DEF Typed
  <2>3. UNCHANGED <<failed, history>>
    BY <1>3, InHandMoves
  <2> QED
    BY <1>1, <2>1, <2>2, <2>3 DEF history
<1>4. CASE SetAside
  <2>1. Where(c, pending') = Where(c, pending) - (IF InHand = c THEN 1 ELSE 0)
    BY <1>4, InHandMoves, MoveCounts
  <2>2. Where(c, failed') = Where(c, failed) + (IF InHand = c THEN 1 ELSE 0)
    BY <1>4, InHandMoves, ArrivalCounts, PlacesFinite DEF Typed
  <2>3. UNCHANGED <<processed, history>>
    BY <1>4, InHandMoves
  <2> QED
    BY <1>1, <2>1, <2>2, <2>3 DEF history
<1>5. ASSUME NEW n \in ToSet(Names), NEW d \in Contents, Drop(n, d)
      PROVE  drops'[c] = takenBack'[c] + emptied'[c]
               + Where(c, pending') + Where(c, processed') + Where(c, failed')
  <2>1. /\ pending[n] = Absent /\ pending' = [pending EXCEPT ![n] = d]
        /\ pending \in [ToSet(Names) -> Contents \cup {Absent}]
        /\ drops' = [drops EXCEPT ![d] = @ + 1]
        /\ UNCHANGED <<processed, failed, takenBack, emptied>>
    BY <1>5 DEF Drop, Typed
  <2>2. Where(c, pending') = Where(c, pending) + (IF d = c THEN 1 ELSE 0)
    <3>1. Put(pending, n, pending') /\ pending'[n] = d
      BY <2>1, PlacesFinite DEF Put
    <3>2. /\ (pending[n] = c <=> pending'[n] = c) => Where(c, pending') = Where(c, pending)
          /\ pending[n] # c /\ pending'[n] = c => Where(c, pending') = Where(c, pending) + 1
          /\ pending[n] = c /\ pending'[n] # c => Where(c, pending') = Where(c, pending) - 1
      BY <3>1, FolderPut
    <3> QED
      BY <1>1, <2>1, <3>1, <3>2, ContentsArePresent
  <2>3. drops'[c] = drops[c] + (IF d = c THEN 1 ELSE 0)
    BY <1>1, <2>1 DEF Typed
  <2> QED
    BY <1>1, <2>1, <2>2, <2>3
<1>6. ASSUME NEW n \in ToSet(Names), TakeBack(n)
      PROVE  drops'[c] = takenBack'[c] + emptied'[c]
               + Where(c, pending') + Where(c, processed') + Where(c, failed')
  <2>1. /\ pending[n] \in Contents /\ pending' = [pending EXCEPT ![n] = Absent]
        /\ pending \in [ToSet(Names) -> Contents \cup {Absent}]
        /\ takenBack' = [takenBack EXCEPT ![pending[n]] = @ + 1]
        /\ UNCHANGED <<processed, failed, drops, emptied>>
    BY <1>6 DEF TakeBack, Typed
  <2>2. Where(c, pending') = Where(c, pending) - (IF pending[n] = c THEN 1 ELSE 0)
    <3>1. Put(pending, n, pending') /\ pending'[n] = Absent
      BY <2>1, PlacesFinite DEF Put
    <3>2. /\ (pending[n] = c <=> pending'[n] = c) => Where(c, pending') = Where(c, pending)
          /\ pending[n] # c /\ pending'[n] = c => Where(c, pending') = Where(c, pending) + 1
          /\ pending[n] = c /\ pending'[n] # c => Where(c, pending') = Where(c, pending) - 1
      BY <3>1, FolderPut
    <3> QED
      BY <1>1, <2>1, <3>1, <3>2, ContentsArePresent
  <2>3. takenBack'[c] = takenBack[c] + (IF pending[n] = c THEN 1 ELSE 0)
    BY <1>1, <2>1 DEF Typed
  <2> QED
    BY <1>1, <2>1, <2>2, <2>3
<1>7. CASE EmptyProcessed
  <2>1. /\ processed' = [p \in DOMAIN processed |-> Absent]
        /\ emptied'[c] = emptied[c] + Where(c, processed)
        /\ UNCHANGED <<pending, failed, drops, takenBack>>
    BY <1>7 DEF EmptyProcessed
  <2>2. {p \in DOMAIN processed' : processed'[p] = c} = {}
    BY <2>1, ContentsArePresent
  <2>3. Where(c, processed') = 0
    BY <2>2, FS_EmptySet DEF Where
  <2> QED
    BY <1>1, <2>1, <2>3
<1> QED
  BY <1>2, <1>3, <1>4, <1>5, <1>6, <1>7, FilesMove

LEMMA FilesFitStep ==
  Typed /\ Hand /\ FilesFit /\ [Next]_vars => FilesFit'
<1> SUFFICES ASSUME Typed, Hand, FilesFit, [Next]_vars
             PROVE  Cardinality(Held(pending')) + Cardinality(Held(processed'))
                      + Cardinality(Held(failed')) <= bounds'.drops
  BY DEF FilesFit, Held
<1>1. /\ Cardinality(Held(pending)) + Cardinality(Held(processed)) + Cardinality(Held(failed))
           <= bounds.drops
      /\ Cardinality(Held(pending)) \in Nat /\ Cardinality(Held(processed)) \in Nat
      /\ Cardinality(Held(failed)) \in Nat /\ bounds.drops \in Nat
  BY CountsAreNumbers, BoundsAssumption DEF FilesFit, Typed
<1>2. CASE UNCHANGED <<pending, processed, failed, history, bounds.drops>>
  BY <1>1, <1>2
<1>3. CASE Recover \/ Move
  <2>1. Cardinality(Held(pending')) = Cardinality(Held(pending)) - 1
    BY <1>3, InHandMoves, MoveCounts
  <2>2. Cardinality(Held(processed')) = Cardinality(Held(processed)) + 1
    BY <1>3, InHandMoves, ArrivalCounts, PlacesFinite DEF Typed
  <2> QED
    BY <1>1, <1>3, <2>1, <2>2, InHandMoves
<1>4. CASE SetAside
  <2>1. Cardinality(Held(pending')) = Cardinality(Held(pending)) - 1
    BY <1>4, InHandMoves, MoveCounts
  <2>2. Cardinality(Held(failed')) = Cardinality(Held(failed)) + 1
    BY <1>4, InHandMoves, ArrivalCounts, PlacesFinite DEF Typed
  <2> QED
    BY <1>1, <1>4, <2>1, <2>2, InHandMoves
<1>5. ASSUME NEW n \in ToSet(Names), NEW d \in Contents, Drop(n, d)
      PROVE  Cardinality(Held(pending')) + Cardinality(Held(processed'))
               + Cardinality(Held(failed')) <= bounds'.drops
  <2>1. /\ pending[n] = Absent /\ pending' = [pending EXCEPT ![n] = d]
        /\ pending \in [ToSet(Names) -> Contents \cup {Absent}]
        /\ bounds'.drops = bounds.drops + 1
        /\ UNCHANGED <<processed, failed>>
    BY <1>5 DEF Drop, Typed
  <2>2. Cardinality(Held(pending')) = Cardinality(Held(pending)) + 1
    <3>1. Put(pending, n, pending') /\ pending'[n] = d
      BY <2>1, PlacesFinite DEF Put
    <3> QED
      BY <2>1, <3>1, FolderPut, ContentsArePresent
  <2> QED
    BY <1>1, <2>1, <2>2
<1>6. ASSUME NEW n \in ToSet(Names), TakeBack(n)
      PROVE  Cardinality(Held(pending')) + Cardinality(Held(processed'))
               + Cardinality(Held(failed')) <= bounds'.drops
  <2>1. /\ pending[n] # Absent /\ pending' = [pending EXCEPT ![n] = Absent]
        /\ pending \in [ToSet(Names) -> Contents \cup {Absent}]
        /\ bounds'.drops = bounds.drops
        /\ UNCHANGED <<processed, failed>>
    BY <1>6 DEF TakeBack, Typed
  <2>2. Cardinality(Held(pending')) = Cardinality(Held(pending)) - 1
    <3>1. Put(pending, n, pending') /\ pending'[n] = Absent
      BY <2>1, PlacesFinite DEF Put
    <3> QED
      BY <2>1, <3>1, FolderPut
  <2> QED
    BY <1>1, <2>1, <2>2
<1>7. CASE EmptyProcessed
  <2>1. Held(processed') = {} /\ UNCHANGED <<pending, failed, bounds>>
    BY <1>7 DEF EmptyProcessed, Held
  <2> QED
    BY <1>1, <2>1, FS_EmptySet
<1> QED
  BY <1>2, <1>3, <1>4, <1>5, <1>6, <1>7, FilesMove

LEMMA SpareCounts ==
  ASSUME Typed
  PROVE  /\ Spare \in Nat
         /\ bounds' = bounds => Spare' = Spare
         /\ Fault => Spare' = Spare + 1
         /\ \A n : TakeBack(n) => Spare' = Spare + 1
         /\ \A n, c : Drop(n, c) => Spare' = Spare
         /\ Crash => Spare' = Spare + 1
<1>1. /\ bounds.removals \in Nat /\ bounds.faults \in Nat /\ bounds.crashes \in Nat
  BY BoundsAssumption DEF Typed
<1>2. /\ "removals" \in DOMAIN bounds /\ "faults" \in DOMAIN bounds
      /\ "crashes" \in DOMAIN bounds
  BY DEF Typed
<1>3. Fault => Spare' = Spare + 1
  BY <1>1, <1>2 DEF Fault, Spare
<1>4. \A n : TakeBack(n) => Spare' = Spare + 1
  BY <1>1, <1>2 DEF TakeBack, Spare
<1>5. Crash => Spare' = Spare + 1
  BY <1>1, <1>2 DEF Crash, Spare
<1>6. \A n, c : Drop(n, c) => Spare' = Spare
  BY <1>1, <1>2 DEF Drop, Spare
<1> QED
  BY <1>1, <1>3, <1>4, <1>5, <1>6 DEF Spare

\* Most steps lose nothing and explain nothing.
LEMMA QuietSteps ==
  ASSUME Typed, Hand, [Next]_vars
  PROVE  \/ /\ Lost' \subseteq Lost /\ Following' = Following
            /\ UNCHANGED <<failed, errors>> /\ Spare' >= Spare
         \/ Explain \/ SetAside \/ SetAsideRaises \/ Crash
         \/ \E n \in ToSet(Names) : TakeBack(n)
<1> DEFINE Quiet == /\ Lost' \subseteq Lost /\ Following' = Following
                    /\ UNCHANGED <<failed, errors>> /\ Spare' >= Spare
<1>0. (bounds' = bounds => Spare' >= Spare) /\ (Fault => Spare' >= Spare)
  BY SpareCounts
<1> USE <1>0 DEF folders, history, Goto, Step, Gone, Replace, InHand, HandSteps, Lost, Following
<1>1. CASE StartScan
  BY <1>1 DEF StartScan, NoJob, Typed
<1>2. ASSUME NEW n \in ToSet(Names), Take(n)
      PROVE  Quiet
  <2>1. /\ job'.step \in {"recover", "commit", "explain"} /\ job'.name = n
        /\ job'.left = job.left \ {n} /\ n \in job.left /\ job.step = "files"
        /\ UNCHANGED <<pending, failed, errors, bounds>>
    BY <1>2 DEF Take, Typed
  <2> QED
    BY <2>1
<1>3. CASE Recover
  BY <1>3 DEF Recover, Hand, Typed
<1>4. CASE RecoverFails
  BY <1>4 DEF RecoverFails, Hand, Typed
<1>5. CASE Commit
  <2>1. /\ job'.step = "move" /\ job'.name = job.name /\ job'.left = job.left
        /\ UNCHANGED <<pending, failed, errors, bounds>> /\ job.step = "commit"
    BY <1>5 DEF Commit, Typed
  <2> QED
    BY <2>1
<1>6. CASE CommitFails
  BY <1>6 DEF CommitFails, Hand, Typed
<1>7. CASE CommitRaises
  BY <1>7 DEF CommitRaises, NoJob
<1>8. CASE Move
  BY <1>8 DEF Move, Hand, Typed
<1>9. CASE MoveFails
  BY <1>9 DEF MoveFails, Hand, Typed
<1>10. CASE Index
  BY <1>10 DEF Index, Hand, Typed
<1>11. CASE Sweep
  BY <1>11 DEF Sweep, NoJob
<1>12. ASSUME NEW n \in ToSet(Names), NEW c \in Contents, Drop(n, c)
       PROVE  Quiet
  <2>1. /\ UNCHANGED <<failed, errors, job>> /\ pending' = [pending EXCEPT ![n] = c]
        /\ job.step \in HandSteps => n # job.name
    BY <1>12 DEF Drop
  <2>2. Spare' = Spare
    BY <1>12, SpareCounts
  <2>3. c # Absent /\ \A m \in ToSet(Names) : pending'[m] = IF m = n THEN c ELSE pending[m]
    BY <2>1, ContentsArePresent DEF Typed
  <2>4. Lost' \subseteq Lost
    BY <2>1, <2>3
  <2>5. job.step \in HandSteps => pending'[job.name] = pending[job.name]
    BY <2>1, <2>3 DEF Hand
  <2>6. Following' = Following
    BY <2>1, <2>5
  <2>7. Spare' >= Spare
    BY <2>2, SpareCounts
  <2> QED
    BY <2>1, <2>4, <2>6, <2>7
<1>13. CASE EmptyProcessed
  BY <1>13 DEF EmptyProcessed
<1>14. CASE UNCHANGED vars
  BY <1>14 DEF vars
<1> QED
  BY <1>1, <1>2, <1>3, <1>4, <1>5, <1>6, <1>7, <1>8, <1>9, <1>10, <1>11, <1>12, <1>13, <1>14
     DEF Next, Process, User

LEMMA ReasonsFitStep ==
  Typed /\ Typed' /\ Hand /\ Room /\ ReasonBeside /\ [Next]_vars => ReasonsFit'
<1> SUFFICES ASSUME Typed, Typed', Hand, Room, ReasonBeside, [Next]_vars
             PROVE  Cardinality(Held(errors')) + Cardinality(Lost')
                      <= Cardinality(Held(failed')) + Spare' + Following'
  BY DEF ReasonsFit, Held
<1>1. /\ Cardinality(Held(errors)) + Cardinality(Lost)
           <= Cardinality(Held(failed)) + Spare + Following
      /\ Cardinality(Held(errors)) \in Nat /\ Cardinality(Lost) \in Nat
      /\ Cardinality(Held(failed)) \in Nat /\ Spare \in Nat /\ Following \in {0, 1}
  BY SpareCounts, CountsAreNumbers DEF Room, ReasonsFit, Following
<1>2. IsFiniteSet(Lost) /\ Cardinality(Lost') \in Nat /\ Spare' \in Nat
  <2>1. Lost' \subseteq ToSet(Names)
    BY DEF Lost
  <2>2. Cardinality(Lost') \in Nat
    BY <2>1, PlacesFinite, FS_Subset, FS_CardinalityType
  <2>3. Spare' \in Nat
    BY BoundsAssumption DEF Typed, Spare
  <2> QED
    BY <2>2, <2>3, CountsAreNumbers
<1>3. Lost' \subseteq Lost => Cardinality(Lost') <= Cardinality(Lost)
  BY <1>2, FS_Subset
<1>4. Lost' = {} => Cardinality(Lost') = 0
  BY FS_EmptySet
<1>5. CASE /\ Lost' \subseteq Lost /\ Following' = Following
           /\ UNCHANGED <<failed, errors>> /\ Spare' >= Spare
  BY <1>1, <1>2, <1>3, <1>5
<1>6. CASE Explain
  <2> DEFINE to == Unique(job.name, Taken(failed) \cup {p \in Taken(errors) : p # job.name})
             reason == IF InHand = Absent THEN Vanished ELSE InHand
  <2>1. to \in Places
    BY <1>6, ExplainFindsRoom DEF Explain
  <2>2. /\ errors' = [errors EXCEPT ![to] = reason]
        /\ UNCHANGED <<pending, failed, bounds>>
        /\ job' = [job EXCEPT !.step = "set aside", !.to = to]
    BY <1>6 DEF Explain
  <2>3. job.step = "explain" /\ job.name \in ToSet(Names) /\ job.name \notin job.left
    BY <1>6 DEF Explain, Step, Hand, HandSteps
  <2>4. reason # Absent
    BY DEF Absent, Vanished
  <2> HIDE DEF to, reason
  <2>5. Put(errors, to, errors') /\ errors'[to] # Absent
    BY <2>1, <2>2, <2>4, PlacesFinite DEF Put, Typed
  <2>6. Cardinality(Held(errors')) <= Cardinality(Held(errors)) + 1
    BY <2>5, FolderPut
  <2>7. /\ job'.step = "set aside" /\ job'.name = job.name /\ job'.left = job.left
    BY <2>2 DEF Typed
  <2>8. Spare' = Spare
    BY <2>2 DEF Spare
  <2>9. Cardinality(Held(errors')) \in Nat
    BY <2>5, FolderPut
  <2>10. CASE InHand = Absent
    <3>1. job.name \in Lost /\ Lost' = Lost \ {job.name}
      BY <2>2, <2>3, <2>7, <2>10 DEF Lost, HandSteps, InHand
    <3>2. Cardinality(Lost') = Cardinality(Lost) - 1
      BY <1>2, <3>1, FS_RemoveElement
    <3>3. Following = 0 /\ Following' = 0
      BY <2>2, <2>3, <2>7, <2>10 DEF Following, InHand
    <3> QED
      BY <1>1, <1>2, <2>2, <2>6, <2>8, <2>9, <3>2, <3>3
  <2>11. CASE InHand # Absent
    <3>1. Lost' \subseteq Lost
      BY <2>2, <2>3, <2>7 DEF Lost, HandSteps, InHand
    <3>2. Following = 0 /\ Following' = 1
      BY <2>2, <2>3, <2>7, <2>11 DEF Following, InHand
    <3> QED
      BY <1>1, <1>2, <1>3, <2>2, <2>6, <2>8, <2>9, <3>1, <3>2
  <2> QED
    BY <2>10, <2>11
<1>7. CASE SetAside
  <2>1. Cardinality(Held(failed')) = Cardinality(Held(failed)) + 1 /\ UNCHANGED <<errors, bounds>>
    BY <1>7, InHandMoves, ArrivalCounts, PlacesFinite DEF Typed
  <2>2. /\ job.name \notin job.left /\ job'.step = "files" /\ job'.left = job.left
        /\ \A m \in ToSet(Names) : m # job.name => pending'[m] = pending[m]
    BY <1>7 DEF SetAside, Step, Goto, Gone, Hand, HandSteps, Typed
  <2>3. Lost' \subseteq Lost
    BY <2>2 DEF Lost, HandSteps
  <2>4. Following' = 0 /\ Spare' = Spare
    BY <2>1, <2>2 DEF Following, Spare
  <2> QED
    BY <1>1, <1>2, <1>3, <2>1, <2>3, <2>4
<1>8. CASE SetAsideRaises
  <2>1. UNCHANGED <<failed, errors>> /\ job' = NoJob
    BY <1>8 DEF SetAsideRaises, folders
  <2>2. Lost' = {} /\ Following' = 0
    BY <2>1 DEF NoJob, Lost, Following, HandSteps
  <2>3. CASE InHand = Absent
    <3>1. Following = 0 /\ Spare' = Spare
      BY <1>8, <2>3 DEF SetAsideRaises, Following, Spare
    <3> QED
      BY <1>1, <1>4, <2>1, <2>2, <3>1
  <2>4. CASE InHand # Absent
    <3>1. Fault
      BY <1>8, <2>4 DEF SetAsideRaises
    <3>2. Spare' = Spare + 1
      BY <3>1, SpareCounts
    <3> QED
      BY <1>1, <1>4, <2>1, <2>2, <3>2
  <2> QED
    BY <2>3, <2>4
<1>9. CASE Crash
  <2>1. UNCHANGED <<failed, errors>> /\ job' = NoJob
    BY <1>9 DEF Crash, folders
  <2>2. Lost' = {} /\ Following' = 0
    BY <2>1 DEF NoJob, Lost, Following, HandSteps
  <2>3. Spare' = Spare + 1
    BY <1>9, SpareCounts
  <2> QED
    BY <1>1, <1>4, <2>1, <2>2, <2>3
<1>10. ASSUME NEW n \in ToSet(Names), TakeBack(n)
       PROVE  Cardinality(Held(errors')) + Cardinality(Lost')
                <= Cardinality(Held(failed')) + Spare' + Following'
  <2>1. /\ UNCHANGED <<failed, errors, job>> /\ pending[n] # Absent
        /\ \A m \in ToSet(Names) : pending'[m] = IF m = n THEN Absent ELSE pending[m]
    BY <1>10 DEF TakeBack, Typed
  <2>2. Spare' = Spare + 1
    BY <1>10, SpareCounts
  <2>3. CASE job.step = "set aside" /\ n = job.name
    <3>1. Lost' \subseteq Lost
      BY <2>1, <2>3 DEF Lost, Hand, HandSteps
    <3>2. Following' \in {0, 1}
      BY DEF Following
    <3> QED
      BY <1>1, <1>2, <1>3, <2>1, <2>2, <3>1, <3>2
  <2>4. CASE ~(job.step = "set aside" /\ n = job.name)
    <3>1. Lost' \subseteq Lost \cup {n}
      BY <2>1 DEF Lost
    <3>2. Cardinality(Lost') <= Cardinality(Lost \cup {n}) /\ Cardinality(Lost \cup {n}) \in Nat
          /\ Cardinality(Lost \cup {n}) <= Cardinality(Lost) + 1
      BY <1>1, <1>2, <3>1, FS_AddElement, FS_Subset, FS_CardinalityType
    <3>3. Following' = Following
      BY <2>1, <2>4 DEF Following, InHand, Hand, HandSteps
    <3> QED
      BY <1>1, <1>2, <2>1, <2>2, <3>2, <3>3
  <2> QED
    BY <2>3, <2>4
<1> QED
  BY <1>5, <1>6, <1>7, <1>8, <1>9, <1>10, QuietSteps

-----------------------------------------------------------------------------
(***************************************************************************)
(* The theorems that hold whatever is done to the folders.                 *)
(***************************************************************************)

LEMMA InvStep == IInv /\ [Next]_vars => IInv'
<1> SUFFICES ASSUME IInv, [Next]_vars
             PROVE  IInv'
  OBVIOUS
<1>1. Typed /\ Hand /\ Room /\ Recorded /\ ReasonBeside /\ NothingOverwritten
  BY DEF IInv
<1>2. Typed'
  BY <1>1, TypedStep
<1>3. FilesFit' /\ ReasonsFit'
  BY <1>1, <1>2, FilesFitStep, ReasonsFitStep DEF Room
<1>4. Room'
  BY <1>3 DEF Room
<1> QED
  BY <1>1, <1>2, <1>4, HandStep, RecordedStep, ReasonBesideStep, NothingOverwrittenStep DEF IInv

THEOREM Invariance == Spec => []IInv
<1>1. Init => IInv
  BY InitHolds
<1>2. IInv /\ [Next]_vars => IInv'
  BY InvStep
<1> QED
  BY <1>1, <1>2, PTL DEF Spec

\* Every component keeps its type: the places a file is recorded under are places
\* of processed/ (inbox.py:29-37, 93-96), what is in hand was listed, what is
\* indexed is on record.
THEOREM InboxTypeCorrect == Spec => []TypeOK
<1>1. IInv => TypeOK
  <2> SUFFICES ASSUME IInv
               PROVE  TypeOK
    OBVIOUS
  <2>1. \A i \in DOMAIN records : records[i].place \in Places \cup {Elsewhere}
    BY RecordsAreRecords DEF IInv
  <2> QED
    BY <2>1 DEF IInv, Typed, TypeOK
<1> QED
  BY <1>1, Invariance, PTL

\* No move lands on another file, in a scan, a crash or a fault (inbox.py:29-37).
THEOREM NothingIsOverwritten == Spec => []NothingOverwritten
<1>1. IInv => NothingOverwritten
  BY DEF IInv
<1> QED
  BY <1>1, Invariance, PTL

\* The reason beside a failed file is that file's (inbox.py:40-52).
THEOREM ReasonIsBeside == Spec => []ReasonBeside
<1>1. IInv => ReasonBeside
  BY DEF IInv
<1> QED
  BY <1>1, Invariance, PTL

\* Each file in processed/ has a record of its own.
LEMMA ProcessedOnRecord ==
  ASSUME Typed, Recorded, NEW c \in Contents
  PROVE  Where(c, processed) <= OnRecord(c) /\ OnRecord(c) \in Nat
<1> DEFINE S == {p \in DOMAIN processed : processed[p] = c}
           T == {i \in DOMAIN records : records[i].content = c /\ records[i].root = "inbox"}
           f == [p \in S |-> CHOOSE i \in DOMAIN records :
                   records[i] = [root |-> "inbox", place |-> p, content |-> c]]
<1>1. IsFiniteSet(T)
  <2>1. IsFiniteSet(DOMAIN records)
    <3>1. DOMAIN records = 1 .. Len(records) /\ Len(records) \in Nat
      BY DEF Typed
    <3> QED
      BY <3>1, FS_Interval
  <2> QED
    BY <2>1, FS_Subset
<1>2. \A p \in S : /\ f[p] \in DOMAIN records /\ records[f[p]].root = "inbox"
                   /\ records[f[p]].place = p /\ records[f[p]].content = c
  <2> TAKE p \in S
  <2>1. \E i \in DOMAIN records : records[i] = [root |-> "inbox", place |-> p, content |-> c]
    BY ContentsArePresent DEF Recorded, Bound
  <2>2. /\ f[p] \in DOMAIN records
        /\ records[f[p]] = [root |-> "inbox", place |-> p, content |-> c]
    BY <2>1
  <2> HIDE DEF f
  <2> QED
    BY <2>2
<1> HIDE DEF f
<1>3. \A p \in S : f[p] \in T
  BY <1>2
<1>4. f \in [S -> T]
  BY <1>3 DEF f
<1>5. \A p, q \in S : f[p] = f[q] => p = q
  BY <1>2
<1>6. Where(c, processed) = Cardinality(S) /\ OnRecord(c) = Cardinality(T)
  BY DEF Where, OnRecord
<1> HIDE DEF S, T
<1> QED
  BY <1>1, <1>4, <1>5, <1>6, NoLarger, FS_CardinalityType

\* What is neither pending nor in failed/ nor taken back is on record, drop by
\* drop: the commit comes before the move (inbox.py:93-103).
THEOREM EveryDropIsAccounted == Spec => []EveryDropAccounted
<1>1. IInv => EveryDropAccounted
  <2> SUFFICES ASSUME IInv, \A c \in Contents : emptied[c] = 0, NEW c \in Contents
               PROVE  drops[c] <= OnRecord(c) + Where(c, failed) + Where(c, pending) + takenBack[c]
    BY DEF EveryDropAccounted
  <2>1. drops[c] = takenBack[c] + emptied[c]
          + Where(c, pending) + Where(c, processed) + Where(c, failed)
    BY DEF IInv, NothingOverwritten
  <2>2. Where(c, processed) <= OnRecord(c) /\ OnRecord(c) \in Nat
    BY ProcessedOnRecord DEF IInv
  <2>3. /\ Where(c, pending) \in Nat /\ Where(c, processed) \in Nat /\ Where(c, failed) \in Nat
        /\ takenBack[c] \in Nat /\ emptied[c] = 0
    BY WhereAreNumbers DEF IInv, Typed
  <2> QED
    BY <2>1, <2>2, <2>3
<1> QED
  BY <1>1, Invariance, PTL

-----------------------------------------------------------------------------
(***************************************************************************)
(* One record for a drop, however often its scan is interrupted.           *)
(***************************************************************************)

\* Whoever disturbed, has disturbed.
LEMMA DisturbanceStays ==
  ASSUME Typed, Typed', Hand, [Next]_vars, Undisturbed'
  PROVE  /\ Undisturbed /\ ~EmptyProcessed /\ \A n \in ToSet(Names) : ~TakeBack(n)
         /\ SetAside => \A i \in DOMAIN records :
                          records[i].root = "inbox" => records[i].content # InHand
<1>1. /\ \A i \in DOMAIN records : i \in DOMAIN records' /\ records'[i] = records[i]
      /\ \A c \in Contents : takenBack'[c] = 0 /\ emptied'[c] = 0
      /\ \A i \in DOMAIN records', p \in Places :
           records'[i].root = "inbox" => failed'[p] # records'[i].content
  BY RecordsStay DEF Undisturbed
<1>2. \A n \in ToSet(Names) : ~TakeBack(n)
  <2> SUFFICES ASSUME NEW n \in ToSet(Names), TakeBack(n)
               PROVE  FALSE
    OBVIOUS
  <2>1. pending[n] \in Contents /\ takenBack'[pending[n]] = takenBack[pending[n]] + 1
    BY DEF TakeBack, Typed
  <2>2. takenBack[pending[n]] \in Nat
    BY <2>1 DEF Typed
  <2> QED
    BY <1>1, <2>1, <2>2
<1>3. ~EmptyProcessed
  <2> SUFFICES ASSUME EmptyProcessed
               PROVE  FALSE
    OBVIOUS
  <2>1. PICK p \in Places : processed[p] # Absent
    BY DEF EmptyProcessed
  <2> DEFINE c == processed[p]
             S == {q \in DOMAIN processed : processed[q] = c}
  <2>2. c \in Contents /\ p \in S
    BY <2>1 DEF Typed
  <2>3. Where(c, processed) = Cardinality(S) /\ S \subseteq Places \cup {Elsewhere}
    BY DEF Where, Typed
  <2>4. IsFiniteSet(S)
    BY <2>3, PlacesFinite, FS_Subset
  <2>5. Cardinality(S) # 0 /\ Cardinality(S) \in Nat
    BY <2>2, <2>4, FS_EmptySet, FS_CardinalityType
  <2>6. emptied'[c] = emptied[c] + Cardinality(S) /\ emptied[c] \in Nat
    BY <2>2, <2>3 DEF EmptyProcessed, Typed
  <2> QED
    BY <1>1, <2>2, <2>5, <2>6
<1>4. \A c \in Contents : takenBack[c] = 0 /\ emptied[c] = 0
  <2>1. UNCHANGED <<takenBack, emptied>>
    BY <1>2, <1>3, FilesMove, InHandMoves DEF history, Drop
  <2> QED
    BY <1>1, <2>1
<1>5. \A p \in Places : failed[p] # Absent => failed'[p] = failed[p]
  <2>1. CASE SetAside
    BY <2>1, InHandMoves DEF Replace, Typed
  <2>2. CASE UNCHANGED failed
    BY <2>2
  <2> QED
    BY <2>1, <2>2, FilesMove, InHandMoves DEF Drop, TakeBack, EmptyProcessed
<1>6. Undisturbed
  BY <1>1, <1>4, <1>5, RecordsAreRecords, ContentsArePresent DEF Undisturbed
<1>7. SetAside => \A i \in DOMAIN records :
                    records[i].root = "inbox" => records[i].content # InHand
  <2> SUFFICES ASSUME SetAside
               PROVE  \A i \in DOMAIN records :
                        records[i].root = "inbox" => records[i].content # InHand
    OBVIOUS
  <2>1. job.to \in Places /\ failed'[job.to] = InHand
    BY InHandMoves DEF Replace, Typed
  <2> QED
    BY <1>1, <2>1
<1> QED
  BY <1>2, <1>3, <1>6, <1>7

\* The steps by what they do to the disk and the record.
LEMMA DiskSteps ==
  ASSUME Typed, Typed', Hand, [Next]_vars, Undisturbed'
  PROVE  \/ UNCHANGED <<pending, processed, failed, records, history>>
         \/ Commit \/ Recover \/ Move \/ SetAside
         \/ \E n \in ToSet(Names), c \in Contents : Drop(n, c)
<1>1. UNCHANGED <<pending, processed, failed, history>> \/ Recover \/ Move \/ SetAside
      \/ \E n \in ToSet(Names), c \in Contents : Drop(n, c)
  BY FilesMove, DisturbanceStays
<1>2. records' = records \/ Commit
  BY RecordsStay
<1> QED
  BY <1>1, <1>2

\* An interrupted move's record, field by field.
LEMMA InterruptedMeans ==
  ASSUME Typed, NEW c, NEW i \in Interrupted(c)
  PROVE  /\ i \in DOMAIN records /\ records[i].content = c /\ records[i].root = "inbox"
         /\ c \in Contents /\ records[i].place \in Places /\ processed[records[i].place] = Absent
         /\ \E n \in ToSet(Names) : records[i].place \in Numbered(n)
<1>1. /\ i \in DOMAIN records /\ records[i].content = c /\ records[i].root = "inbox"
      /\ processed[records[i].place] = Absent
  BY DEF Interrupted
<1>2. c \in Contents
  BY <1>1, RecordsAreRecords
<1>3. records[i].place \in Places
  BY <1>1 DEF Typed
<1>4. \E n \in ToSet(Names) : records[i].place \in Numbered(n)
  BY <1>3 DEF Places
<1> QED
  BY <1>1, <1>2, <1>3, <1>4

\* A file that arrives where its record says ends the wait of its bytes, and of
\* no others.
LEMMA Arrival ==
  ASSUME Typed, Typed', Hand, Waiting, Undisturbed, Recover \/ Move
  PROVE  /\ InHand \in Contents /\ Interrupted(InHand) # {}
         /\ records' = records
         /\ \A c \in Contents :
              {i \in DOMAIN records : /\ records[i].content = c /\ records[i].root = "inbox"
                                      /\ processed'[records[i].place] = Absent}
                = IF c = InHand THEN {} ELSE Interrupted(c)
<1>1. /\ job.to \in Places /\ processed[job.to] = Absent /\ InHand # Absent
      /\ InHand \in Contents /\ Bound(job.to, InHand) /\ records' = records
      /\ processed' = [processed EXCEPT ![job.to] = InHand]
  <2>1. records' = records /\ InHand # Absent
    BY DEF Recover, Move
  <2>2. job.to \in Places /\ Bound(job.to, InHand)
    BY <2>1 DEF Recover, Move, Hand, Step
  <2> QED
    BY <2>1, <2>2, InHandMoves DEF Replace
<1>2. PICK k \in DOMAIN records :
        records[k] = [root |-> "inbox", place |-> job.to, content |-> InHand]
  BY <1>1 DEF Bound
<1>3. k \in Interrupted(InHand) /\ records[k].place = job.to
  BY <1>1, <1>2 DEF Interrupted
<1>4. PICK n \in ToSet(Names) : job.to \in Numbered(n)
  BY <1>1 DEF Places
<1>5. pending[n] = InHand
  BY <1>1, <1>3, <1>4 DEF Waiting, Interrupted
<1>6. \A c \in Contents, i \in DOMAIN records :
        i \in Interrupted(c) /\ records[i].place = job.to => c = InHand
  BY <1>4, <1>5 DEF Waiting
<1>7. \A i \in DOMAIN records : records[i].place \in Places \cup {Elsewhere}
  BY RecordsAreRecords
<1>8. \A p \in Places \cup {Elsewhere} : processed'[p] = IF p = job.to THEN InHand ELSE processed[p]
  BY <1>1 DEF Typed
<1>9. ASSUME NEW c \in Contents, NEW i \in DOMAIN records
      PROVE  (/\ records[i].content = c /\ records[i].root = "inbox"
              /\ processed'[records[i].place] = Absent)
               <=> c # InHand /\ i \in Interrupted(c)
  <2>1. CASE i \in Interrupted(c) /\ c = InHand
    <3>1. i = k
      BY <1>1, <1>3, <2>1 DEF Waiting
    <3> QED
      BY <1>1, <1>3, <1>7, <1>8, <2>1, <3>1
  <2>2. CASE i \in Interrupted(c) /\ c # InHand
    BY <1>6, <1>7, <1>8, <2>2 DEF Interrupted
  <2>3. CASE i \notin Interrupted(c)
    BY <1>1, <1>7, <1>8, <2>3 DEF Interrupted
  <2> QED
    BY <2>1, <2>2, <2>3
<1> QED
  BY <1>1, <1>3, <1>9 DEF Interrupted

\* What a commit adds to the record.
LEMMA Committed ==
  ASSUME Typed, Hand, Room, Commit
  PROVE  \E k, to :
           /\ k \notin DOMAIN records /\ DOMAIN records' = DOMAIN records \cup {k}
           /\ \A i \in DOMAIN records : records'[i] = records[i]
           /\ records'[k] = [root |-> "inbox", place |-> to, content |-> InHand]
           /\ to \in Places /\ to \in Numbered(job.name) /\ processed[to] = Absent
           /\ InHand \in Contents /\ job.name \in ToSet(Names) /\ job.step = "commit"
           /\ job'.step = "move"
           /\ UNCHANGED <<folders, history>>
<1> DEFINE to == Unique(job.name, Taken(processed))
           record == [root |-> "inbox", place |-> to, content |-> InHand]
           Record == [root : {"corpus", "inbox"}, place : Places \cup {Elsewhere},
                      content : Contents]
<1>1. to \in Places /\ to \in Numbered(job.name) /\ processed[to] = Absent
  BY CommitFindsRoom DEF Commit
<1>2. /\ InHand \in Contents /\ job.name \in ToSet(Names) /\ job.step = "commit"
      /\ job'.step = "move" /\ UNCHANGED <<folders, history>>
      /\ records' = Append(records, record)
  BY DEF Commit, Step, Typed, Hand, HandSteps, InHand
<1>3. records \in Seq(Record) /\ record \in Record
  BY <1>1, <1>2 DEF Typed
<1> HIDE DEF to, Record, record
<1>4. /\ Len(records) + 1 \notin DOMAIN records
      /\ DOMAIN records' = DOMAIN records \cup {Len(records) + 1}
      /\ \A i \in DOMAIN records : records'[i] = records[i]
      /\ records'[Len(records) + 1] = record
  BY <1>2, <1>3, Appended
<1> QED
  BY <1>1, <1>2, <1>4 DEF record

\* The records that wait for their move are as before, but for a commit and an
\* arrival.
LEMMA WaitingStep ==
  /\ Unrelated
  /\ Typed /\ Typed' /\ Hand /\ Room /\ Ready /\ Waiting /\ [Next]_vars
  => Waiting'
<1> SUFFICES ASSUME Unrelated, Typed, Typed', Hand, Room, Ready, Waiting, [Next]_vars, Undisturbed',
                    NEW c \in Contents, NEW i \in DOMAIN records', i \in Interrupted(c)'
             PROVE  /\ \A n \in ToSet(Names) : records'[i].place \in Numbered(n) => pending'[n] = c
                    /\ \A j \in DOMAIN records' : j \in Interrupted(c)' => j = i
  BY DEF Waiting
<1>1. Undisturbed
  BY DisturbanceStays
<1>2. CASE UNCHANGED <<pending, processed, failed, records, history>>
  BY <1>1, <1>2 DEF Waiting, Interrupted
<1>3. CASE Commit
  <2>1. PICK k, to :
           /\ k \notin DOMAIN records /\ DOMAIN records' = DOMAIN records \cup {k}
           /\ \A m \in DOMAIN records : records'[m] = records[m]
           /\ records'[k] = [root |-> "inbox", place |-> to, content |-> InHand]
           /\ to \in Places /\ to \in Numbered(job.name) /\ processed[to] = Absent
           /\ InHand \in Contents /\ job.name \in ToSet(Names) /\ job.step = "commit"
           /\ job'.step = "move"
           /\ UNCHANGED <<folders, history>>
    BY <1>3, Committed, Zenon
  <2>2. UNCHANGED <<pending, processed>>
    BY <2>1 DEF folders
  <2>3. \A m \in DOMAIN records' : m \in Interrupted(c)' <=>
          (m \in Interrupted(c) \/ (m = k /\ c = InHand))
    BY <2>1, <2>2 DEF Interrupted
  <2>4. Interrupted(InHand) = {}
    BY <1>1, <2>1 DEF Ready
  <2>5. CASE c = InHand
    <3>1. i = k /\ \A j \in DOMAIN records' : j \in Interrupted(c)' => j = i
      BY <2>3, <2>4, <2>5
    <3>2. \A n \in ToSet(Names) : to \in Numbered(n) => n = job.name
      BY <2>1 DEF Unrelated
    <3> QED
      BY <2>1, <2>2, <2>5, <3>1, <3>2 DEF InHand
  <2>6. CASE c # InHand
    <3>1. i \in DOMAIN records /\ i \in Interrupted(c)
      BY <2>3, <2>6 DEF Interrupted
    <3>2. records'[i].place = records[i].place
      BY <2>1, <3>1
    <3>3. \A j \in DOMAIN records' : j \in Interrupted(c)' => j = i
      <4>1. \A j \in DOMAIN records' :
              j \in Interrupted(c)' => j \in Interrupted(c) /\ j \in DOMAIN records
        BY <2>3, <2>6 DEF Interrupted
      <4>2. \A j \in DOMAIN records : j \in Interrupted(c) => j = i
        BY <1>1, <3>1 DEF Waiting
      <4> QED
        BY <4>1, <4>2
    <3> QED
      BY <1>1, <2>2, <3>1, <3>2, <3>3 DEF Waiting
  <2> QED
    BY <2>5, <2>6
<1>4. CASE Recover \/ Move
  <2>1. /\ records' = records /\ Interrupted(c)' = IF c = InHand THEN {} ELSE Interrupted(c)
    BY <1>1, <1>4, Arrival DEF Interrupted
  <2>2. c # InHand /\ i \in Interrupted(c)
    BY <2>1
  <2>3. \A n \in ToSet(Names) : pending[n] = c => pending'[n] = c
    BY <1>4, <2>2, InHandMoves DEF Gone, InHand, Typed
  <2> QED
    BY <1>1, <2>1, <2>2, <2>3 DEF Waiting
<1>5. CASE SetAside
  <2>1. UNCHANGED <<records, processed>>
    BY <1>5 DEF SetAside
  <2>2. i \in DOMAIN records /\ i \in Interrupted(c) /\ Interrupted(c)' = Interrupted(c)
    BY <2>1 DEF Interrupted
  <2>3. c # InHand
    BY <1>5, <2>2, DisturbanceStays DEF Interrupted
  <2>4. \A n \in ToSet(Names) : pending[n] = c => pending'[n] = c
    BY <1>5, <2>3, InHandMoves DEF Gone, InHand, Typed
  <2> QED
    BY <1>1, <2>1, <2>2, <2>4 DEF Waiting
<1>6. ASSUME NEW n \in ToSet(Names), NEW d \in Contents, Drop(n, d)
      PROVE  /\ \A m \in ToSet(Names) : records'[i].place \in Numbered(m) => pending'[m] = c
             /\ \A j \in DOMAIN records' : j \in Interrupted(c)' => j = i
  <2>1. UNCHANGED <<records, processed>> /\ pending[n] = Absent
        /\ pending' = [pending EXCEPT ![n] = d]
    BY <1>6 DEF Drop
  <2>2. i \in DOMAIN records /\ i \in Interrupted(c) /\ Interrupted(c)' = Interrupted(c)
    BY <2>1 DEF Interrupted
  <2>3. \A m \in ToSet(Names) : pending[m] = c => pending'[m] = c
    BY <2>1, ContentsArePresent DEF Typed
  <2> QED
    BY <1>1, <2>1, <2>2, <2>3 DEF Waiting
<1> QED
  BY <1>2, <1>3, <1>4, <1>5, <1>6, DiskSteps

LEMMA ReadyStep ==
  Typed /\ Typed' /\ Hand /\ Ready /\ [Next]_vars => Ready'
<1> SUFFICES ASSUME Typed, Typed', Hand, Ready, [Next]_vars, Undisturbed'
             PROVE  /\ \A n \in job'.left : pending'[n] # Absent
                    /\ job'.step \in HandSteps => InHand' # Absent
                    /\ job'.step = "commit" => Interrupted(InHand)' = {}
  BY DEF Ready
<1>0. /\ \A n \in job.left : pending[n] # Absent
      /\ job.step \in HandSteps => InHand # Absent
      /\ job.step = "commit" => Interrupted(InHand) = {}
      /\ ~EmptyProcessed /\ \A n \in ToSet(Names) : ~TakeBack(n)
  BY DisturbanceStays DEF Ready
<1> USE <1>0 DEF folders, history, Goto, Step, Gone, Replace, InHand, HandSteps
<1>1. CASE StartScan
  BY <1>1 DEF StartScan, NoJob
<1>2. ASSUME NEW n \in ToSet(Names), Take(n)
      PROVE  /\ \A m \in job'.left : pending'[m] # Absent
             /\ job'.step \in HandSteps => InHand' # Absent
             /\ job'.step = "commit" => Interrupted(InHand)' = {}
  <2>1. /\ job'.left \subseteq job.left /\ job'.name = n /\ n \in job.left
        /\ job'.step = "commit" => Interrupted(pending[n]) = {}
        /\ UNCHANGED <<pending, processed, records>>
    BY <1>2 DEF Take, Typed
  <2> QED
    BY <2>1 DEF Interrupted
<1>3. CASE Recover
  BY <1>3 DEF Recover, Hand, Typed
<1>4. CASE RecoverFails
  BY <1>4 DEF RecoverFails, Typed
<1>5. CASE Commit
  BY <1>5 DEF Commit, Typed
<1>6. CASE CommitFails
  BY <1>6 DEF CommitFails, Typed
<1>7. CASE CommitRaises
  BY <1>7 DEF CommitRaises, NoJob
<1>8. CASE Move
  BY <1>8 DEF Move, Hand, Typed
<1>9. CASE MoveFails
  BY <1>9 DEF MoveFails, Typed
<1>10. CASE Index
  BY <1>10 DEF Index, Typed
<1>11. CASE Explain
  <2>1. /\ job'.left = job.left /\ job'.name = job.name /\ job'.step = "set aside"
        /\ pending' = pending /\ job.step = "explain"
    BY <1>11 DEF Explain, Typed
  <2> QED
    BY <2>1
<1>12. CASE SetAside
  BY <1>12 DEF SetAside, Hand, Typed
<1>13. CASE SetAsideRaises
  BY <1>13 DEF SetAsideRaises, NoJob
<1>14. CASE Sweep
  BY <1>14 DEF Sweep, NoJob
<1>15. CASE Crash
  BY <1>15 DEF Crash, NoJob
<1>16. ASSUME NEW n \in ToSet(Names), NEW c \in Contents, Drop(n, c)
       PROVE  /\ \A m \in job'.left : pending'[m] # Absent
              /\ job'.step \in HandSteps => InHand' # Absent
              /\ job'.step = "commit" => Interrupted(InHand)' = {}
  <2>1. UNCHANGED <<processed, records, job>> /\ pending' = [pending EXCEPT ![n] = c]
    BY <1>16 DEF Drop
  <2>2. \A m \in ToSet(Names) : pending[m] # Absent => pending'[m] = pending[m] \/ pending'[m] = c
    BY <2>1 DEF Typed
  <2>3. job.step \in HandSteps => pending'[job.name] = pending[job.name]
    BY <1>16, <2>1 DEF Drop, Typed, Hand
  <2>4. job.left \subseteq ToSet(Names)
    BY DEF Typed
  <2> QED
    BY <2>1, <2>2, <2>3, <2>4, ContentsArePresent DEF Interrupted
<1>17. CASE UNCHANGED vars
  BY <1>17 DEF vars, Interrupted
<1> QED
  BY <1>1, <1>2, <1>3, <1>4, <1>5, <1>6, <1>7, <1>8, <1>9, <1>10, <1>11, <1>12, <1>13, <1>14,
     <1>15, <1>16, <1>17 DEF Next, Process, User

\* The records of each content are counted against the files that arrived.
LEMMA ArrivedStep ==
  /\ Typed /\ Typed' /\ Hand /\ Room /\ Ready /\ Waiting /\ Arrived /\ [Next]_vars
  => Arrived'
<1> SUFFICES ASSUME Typed, Typed', Hand, Room, Ready, Waiting, Arrived, [Next]_vars, Undisturbed',
                    NEW c \in Contents
             PROVE  OnRecord(c)' <= Where(c, processed')
                                     + (IF Interrupted(c)' = {} THEN 0 ELSE 1)
  BY DEF Arrived, Where
<1> DEFINE S == {i \in DOMAIN records : records[i].content = c /\ records[i].root = "inbox"}
           T == {i \in DOMAIN records' : records'[i].content = c /\ records'[i].root = "inbox"}
<1>1. Undisturbed
  BY DisturbanceStays
<1>2. /\ OnRecord(c) <= Where(c, processed) + (IF Interrupted(c) = {} THEN 0 ELSE 1)
      /\ Where(c, processed) \in Nat
  BY <1>1, WhereAreNumbers DEF Arrived
<1>3. OnRecord(c) = Cardinality(S) /\ OnRecord(c)' = Cardinality(T)
  BY DEF OnRecord
<1>4. IsFiniteSet(S) /\ Cardinality(S) \in Nat
  <2>1. DOMAIN records = 1 .. Len(records) /\ Len(records) \in Nat
    BY DEF Typed
  <2>2. IsFiniteSet(DOMAIN records)
    BY <2>1, FS_Interval
  <2> QED
    BY <2>2, FS_Subset, FS_CardinalityType
<1>5. CASE UNCHANGED <<processed, records>>
  <2>1. Interrupted(c)' = Interrupted(c) /\ T = S
    BY <1>5 DEF Interrupted
  <2> QED
    BY <1>2, <1>3, <1>5, <2>1
<1>6. CASE Commit
  <2>1. PICK k, to :
           /\ k \notin DOMAIN records /\ DOMAIN records' = DOMAIN records \cup {k}
           /\ \A m \in DOMAIN records : records'[m] = records[m]
           /\ records'[k] = [root |-> "inbox", place |-> to, content |-> InHand]
           /\ to \in Places /\ to \in Numbered(job.name) /\ processed[to] = Absent
           /\ InHand \in Contents /\ job.name \in ToSet(Names) /\ job.step = "commit"
           /\ job'.step = "move"
           /\ UNCHANGED <<folders, history>>
    BY <1>6, Committed, Zenon
  <2>2. processed' = processed
    BY <2>1 DEF folders
  <2>3. CASE c = InHand
    <3>1. T = S \cup {k} /\ k \notin S
      BY <2>1, <2>3
    <3>2. Cardinality(T) = Cardinality(S) + 1
      BY <1>4, <3>1, FS_AddElement
    <3>3. Interrupted(c) = {}
      BY <1>1, <2>1, <2>3 DEF Ready
    <3>4. k \in Interrupted(c)'
      BY <2>1, <2>2, <2>3 DEF Interrupted
    <3> QED
      BY <1>2, <1>3, <1>4, <2>2, <3>2, <3>3, <3>4
  <2>4. CASE c # InHand
    <3>1. T = S
      BY <2>1, <2>4
    <3>2. Interrupted(c) \subseteq Interrupted(c)'
      BY <2>1, <2>2 DEF Interrupted
    <3>3. Interrupted(c) # {} => Interrupted(c)' # {}
      BY <3>2
    <3>4. OnRecord(c)' = OnRecord(c) /\ OnRecord(c) \in Nat
      BY <1>3, <1>4, <3>1
    <3> QED
      BY <1>2, <2>2, <3>3, <3>4
  <2> QED
    BY <2>3, <2>4
<1>7. CASE Recover \/ Move
  <2>1. /\ Interrupted(c)' = IF c = InHand THEN {} ELSE Interrupted(c)
        /\ records' = records /\ Interrupted(InHand) # {}
    BY <1>1, <1>7, Arrival DEF Interrupted
  <2>2. Where(c, processed') = Where(c, processed) + (IF InHand = c THEN 1 ELSE 0)
    <3>1. /\ InHand # Absent /\ InHand \in Contents
          /\ job.to \in Places \cup {Elsewhere} /\ processed[job.to] = Absent
          /\ processed' = Replace(processed, job.to)
          /\ processed \in [Places \cup {Elsewhere} -> Contents \cup {Absent}]
          /\ IsFiniteSet(Places \cup {Elsewhere})
      BY <1>7, InHandMoves, PlacesFinite DEF Typed
    <3> QED
      BY <3>1, ArrivalCounts
  <2>3. T = S
    BY <2>1
  <2> QED
    BY <1>2, <1>3, <1>4, <2>1, <2>2, <2>3
<1> QED
  BY <1>5, <1>6, <1>7, DiskSteps DEF SetAside, Drop

OnceInv == IInv /\ Ready /\ Waiting /\ Arrived

\* A file whose move was interrupted is recorded once, however often (inbox.py:68-69,
\* 87-92), as long as nobody takes files away: if no name is another's with a number.
THEOREM DropsAreRecordedOnce == Unrelated => (Spec => []RecordedOnce)
<1> SUFFICES ASSUME Unrelated
             PROVE  Spec => []RecordedOnce
  OBVIOUS
<1>1. Init => OnceInv
  <2> SUFFICES ASSUME Init
               PROVE  OnceInv
    OBVIOUS
  <2>1. IInv
    BY InitHolds
  <2>2. \A i \in DOMAIN records : records[i].root = "corpus"
    BY InitTyped DEF Init
  <2>3. \A c : Interrupted(c) = {}
    BY <2>2 DEF Interrupted
  <2>4. Ready
    BY <2>3 DEF Init, NoJob, Ready, HandSteps
  <2>5. Waiting
    BY <2>3 DEF Waiting
  <2>6. Arrived
    <3> SUFFICES ASSUME NEW c \in Contents
                 PROVE  OnRecord(c) <= Where(c, processed)
                                        + (IF Interrupted(c) = {} THEN 0 ELSE 1)
      BY DEF Arrived
    <3>1. {i \in DOMAIN records : records[i].content = c /\ records[i].root = "inbox"} = {}
      BY <2>2
    <3>2. OnRecord(c) = 0 /\ Where(c, processed) \in Nat
      BY <2>1, <3>1, FS_EmptySet, WhereAreNumbers DEF OnRecord, IInv
    <3> QED
      BY <2>3, <3>2
  <2> QED
    BY <2>1, <2>4, <2>5, <2>6 DEF OnceInv
<1>2. OnceInv /\ [Next]_vars => OnceInv'
  <2> SUFFICES ASSUME OnceInv, [Next]_vars
               PROVE  OnceInv'
    OBVIOUS
  <2>1. IInv'
    BY InvStep DEF OnceInv
  <2>2. Typed /\ Typed' /\ Hand /\ Room /\ Ready /\ Waiting /\ Arrived
    BY <2>1 DEF OnceInv, IInv
  <2> QED
    BY <2>1, <2>2, ReadyStep, WaitingStep, ArrivedStep DEF OnceInv
<1>3. OnceInv => RecordedOnce
  <2> SUFFICES ASSUME OnceInv, Undisturbed, NEW c \in Contents
               PROVE  OnRecord(c) <= drops[c]
    BY DEF RecordedOnce
  <2>1. /\ OnRecord(c) <= Where(c, processed) + (IF Interrupted(c) = {} THEN 0 ELSE 1)
        /\ Where(c, pending) \in Nat /\ Where(c, processed) \in Nat /\ Where(c, failed) \in Nat
        /\ OnRecord(c) \in Nat
    BY WhereAreNumbers, ProcessedOnRecord DEF Arrived, OnceInv, IInv
  <2>2. drops[c] = Where(c, pending) + Where(c, processed) + Where(c, failed)
    <3>1. /\ drops[c] = takenBack[c] + emptied[c]
               + Where(c, pending) + Where(c, processed) + Where(c, failed)
          /\ takenBack[c] = 0 /\ emptied[c] = 0
      BY DEF OnceInv, IInv, NothingOverwritten, Undisturbed
    <3> QED
      BY <2>1, <3>1
  <2>3. ASSUME Interrupted(c) # {}
        PROVE  Where(c, pending) # 0
    <3>1. PICK i : i \in Interrupted(c)
      BY <2>3
    <3>2. PICK n \in ToSet(Names) : records[i].place \in Numbered(n)
      BY <3>1, InterruptedMeans DEF OnceInv, IInv
    <3>3. pending[n] = c
      BY <3>1, <3>2 DEF OnceInv, Waiting, Interrupted
    <3> DEFINE S == {p \in DOMAIN pending : pending[p] = c}
    <3>4. n \in S /\ S \subseteq ToSet(Names)
      BY <3>3 DEF OnceInv, IInv, Typed
    <3>5. IsFiniteSet(S)
      BY <3>4, PlacesFinite, FS_Subset
    <3> QED
      BY <3>4, <3>5, FS_EmptySet DEF Where
  <2> QED
    BY <2>1, <2>2, <2>3
<1> QED
  BY <1>1, <1>2, <1>3, PTL DEF Spec
=============================================================================
