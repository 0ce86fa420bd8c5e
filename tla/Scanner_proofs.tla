---------------------------- MODULE Scanner_proofs ----------------------------
(***************************************************************************)
(* What Scanner's run checks with four places and two changes of the disk, *)
(* proved for any roots, places and contents and any number of changes.    *)
(***************************************************************************)
EXTENDS Scanner, Lemmas

Sighting == [file : Files, content : Contents]
Location == [place : Places, content : Contents]

\* TypeOK, with what the sightings, versions and the scan may be.
Typed ==
  /\ disk \in [Places -> Contents \cup {Absent}]
  /\ mounted \subseteq Roots
  /\ lastAt \in [Places -> Sighting \cup {NoSighting}]
  /\ \A p \in Places : Known(p) => lastAt[p].file \in Minted
  /\ DOMAIN lastOf = Files
  /\ \A f \in Minted : lastOf[f] \in Location
  /\ docs \in [Files -> Seq(Contents)]
  /\ extracted \subseteq AllDocs
  /\ scan \in [step : {"idle", "roots", "files", "drain"}, roots : SUBSET Roots,
               left : SUBSET Places, found : SUBSET Places, todo : SUBSET AllDocs]
  /\ scan.left \subseteq scan.found
  /\ settled \in {"no", "same", "renamed"} /\ calm \in BOOLEAN
  /\ overlooked \subseteq Minted

\* The recency lists the files on record.
Listed ==
  /\ recency \in Seq(Files)
  /\ ToSet(recency) = Minted /\ IsInjective(recency)

\* The latest sighting of a file is also the latest at its place, and saw the
\* file's latest version unless the file was overlooked.
Agree ==
  /\ \A f \in Minted :
       /\ lastAt[lastOf[f].place] = [file |-> f, content |-> lastOf[f].content]
       /\ f \notin overlooked => lastOf[f].content = docs[f][Len(docs[f])]
  /\ \A p \in Places : Known(p) => lastAt[p].content \in ToSet(docs[lastAt[p].file])

\* A place that is known and not empty is the latest of its file, unless the file
\* was overlooked.
Settles ==
  \A p \in Places : Known(p) /\ disk[p] # Absent /\ lastAt[p].file \notin overlooked
    => lastOf[lastAt[p].file].place = p

\* What the scan did not find in the root it is in, and has been on record there,
\* is not there, unless it was overlooked.
FoundAll ==
  /\ scan.step # "files" => scan.left = {} /\ scan.found = {}
  /\ scan.step = "idle" => scan.roots = {} /\ scan.todo = {}
  /\ scan.step = "drain" => scan.roots = {}
  /\ \A p \in scan.found, q \in Places :
       /\ p[1] = q[1] /\ Known(q) /\ q \notin scan.found
       /\ lastAt[q].file \notin overlooked
       => disk[q] = Absent

Seen(p) == Known(p) /\ lastAt[p].content = disk[p]

\* As long as nothing changes, what is on disk is seen or still to be scanned.
Covered ==
  calm /\ scan.step # "idle" =>
    /\ \A p \in scan.left : p[1] \in mounted
    /\ \A p \in Places :
         disk[p] # Absent => Seen(p) \/ p[1] \in scan.roots \/ p \in scan.left

IInv == Typed /\ Listed /\ Agree /\ Settles /\ FoundAll /\ Covered

-----------------------------------------------------------------------------
(***************************************************************************)
(* The list of the files by their latest sighting.                         *)
(***************************************************************************)

\* One element fewer.
LEMMA RemovedAt ==
  ASSUME NEW T, NEW s \in Seq(T), NEW i \in DOMAIN s, IsInjective(s)
  PROVE  /\ RemoveAt(s, i) \in Seq(T) /\ IsInjective(RemoveAt(s, i))
         /\ ToSet(RemoveAt(s, i)) = ToSet(s) \ {s[i]}
<1> DEFINE r == RemoveAt(s, i)
<1>1. Len(s) \in Nat /\ i \in 1 .. Len(s) /\ DOMAIN s = 1 .. Len(s)
  OBVIOUS
<1>2. SubSeq(s, 1, i - 1) \in Seq(T) /\ SubSeq(s, i + 1, Len(s)) \in Seq(T)
  BY <1>1
<1>3. Len(SubSeq(s, 1, i - 1)) = i - 1 /\ Len(SubSeq(s, i + 1, Len(s))) = Len(s) - i
  BY <1>1
<1>4. r \in Seq(T) /\ Len(r) = Len(s) - 1
  BY <1>1, <1>2, <1>3 DEF RemoveAt
<1>5. \A k \in 1 .. (Len(s) - 1) : r[k] = IF k < i THEN s[k] ELSE s[k + 1]
  <2> DEFINE a == SubSeq(s, 1, i - 1)
             b == SubSeq(s, i + 1, Len(s))
  <2>1. \A k \in 1 .. (i - 1) : a[k] = s[k]
    BY <1>1
  <2>2. \A k \in 1 .. (Len(s) - i) : b[k] = s[i + k]
    BY <1>1
  <2>3. a \in Seq(T) /\ b \in Seq(T) /\ Len(a) = i - 1 /\ Len(b) = Len(s) - i /\ r = a \o b
    BY <1>2, <1>3 DEF RemoveAt
  <2> HIDE DEF a, b, r
  <2>4. \A k \in 1 .. (Len(s) - 1) : r[k] = IF k < i THEN a[k] ELSE b[k - i + 1]
    BY <1>1, <2>3
  <2> TAKE k \in 1 .. (Len(s) - 1)
  <2>5. CASE k < i
    BY <1>1, <2>1, <2>4, <2>5
  <2>6. CASE ~(k < i)
    <3>1. k - i + 1 \in 1 .. (Len(s) - i) /\ i + (k - i + 1) = k + 1
      BY <1>1, <2>6
    <3> QED
      BY <2>2, <2>4, <2>6, <3>1
  <2> QED
    BY <2>5, <2>6
<1> HIDE DEF r
<1>6. \A k, l \in DOMAIN s : s[k] = s[l] => k = l
  BY DEF IsInjective
<1>7. IsInjective(r)
  BY <1>1, <1>4, <1>5, <1>6 DEF IsInjective
<1>8. \A k \in 1 .. Len(s) : k # i => \E l \in 1 .. (Len(s) - 1) : r[l] = s[k]
  <2> TAKE k \in 1 .. Len(s)
  <2>1. CASE k < i
    BY <1>1, <1>5, <2>1
  <2>2. CASE k > i
    <3>1. k - 1 \in 1 .. (Len(s) - 1) /\ ~(k - 1 < i) /\ (k - 1) + 1 = k
      BY <1>1, <2>2
    <3> QED
      BY <1>5, <3>1
  <2> QED
    BY <1>1, <2>1, <2>2
<1>9. \A l \in 1 .. (Len(s) - 1) : r[l] \in ToSet(s) \ {s[i]}
  BY <1>1, <1>5, <1>6 DEF ToSet
<1>10. ToSet(r) = ToSet(s) \ {s[i]}
  <2>1. ToSet(r) = {r[l] : l \in 1 .. (Len(s) - 1)}
    BY <1>1, <1>4 DEF ToSet
  <2>2. ToSet(s) = {s[k] : k \in 1 .. Len(s)}
    BY <1>1 DEF ToSet
  <2>3. \A x \in ToSet(s) \ {s[i]} : x \in ToSet(r)
    <3> TAKE x \in ToSet(s) \ {s[i]}
    <3>1. PICK k \in 1 .. Len(s) : s[k] = x /\ k # i
      BY <2>2
    <3> QED
      BY <1>8, <2>1, <3>1
  <2> QED
    BY <1>9, <2>1, <2>3
<1> QED
  BY <1>4, <1>7, <1>10 DEF r

\* The sighted file becomes the last of the list, and is in it once.
LEMMA SightedLast ==
  ASSUME NEW f \in Files, recency \in Seq(Files), IsInjective(recency)
  PROVE  /\ Append(Without(f), f) \in Seq(Files) /\ IsInjective(Append(Without(f), f))
         /\ ToSet(Append(Without(f), f)) = ToSet(recency) \cup {f}
<1> DEFINE w == Without(f)
<1>1. w \in Seq(Files) /\ IsInjective(w) /\ ToSet(w) = ToSet(recency) \ {f}
  <2>1. CASE f \in ToSet(recency)
    <3> DEFINE i == CHOOSE i \in DOMAIN recency : recency[i] = f
    <3>1. i \in DOMAIN recency /\ recency[i] = f
      BY <2>1 DEF ToSet
    <3>2. w = RemoveAt(recency, i)
      BY <2>1 DEF Without
    <3> HIDE DEF i, w
    <3> QED
      BY <3>1, <3>2, RemovedAt
  <2>2. CASE f \notin ToSet(recency)
    BY <2>2 DEF Without
  <2> QED
    BY <2>1, <2>2
<1> HIDE DEF w
<1>2. /\ Append(w, f) \in Seq(Files) /\ DOMAIN w = 1 .. Len(w) /\ Len(w) \in Nat
      /\ DOMAIN Append(w, f) = DOMAIN w \cup {Len(w) + 1} /\ Len(w) + 1 \notin DOMAIN w
      /\ \A i \in DOMAIN w : Append(w, f)[i] = w[i]
      /\ Append(w, f)[Len(w) + 1] = f
  BY <1>1, Appended
<1>3. ToSet(Append(w, f)) = ToSet(w) \cup {f}
  BY <1>2 DEF ToSet
<1>4. \A i \in DOMAIN w : w[i] # f
  BY <1>1 DEF ToSet
<1>5. IsInjective(Append(w, f))
  BY <1>1, <1>2, <1>4 DEF IsInjective
<1> QED
  BY <1>1, <1>2, <1>3, <1>5 DEF w

-----------------------------------------------------------------------------
(***************************************************************************)
(* What a step that sights a file does.                                    *)
(***************************************************************************)

\* Known(p) with the sighting spelled out.
LEMMA KnownMeans ==
  ASSUME Typed
  PROVE  /\ \A p \in Places : Known(p) => lastAt[p] \in Sighting /\ lastAt[p].file \in Minted
         /\ \A p \in Places : ~Known(p) => lastAt[p] = NoSighting
         /\ Minted \subseteq Files /\ \A c \in Contents : c # Absent
<1>1. \A p \in Places : Known(p) => lastAt[p] \in Sighting /\ lastAt[p].file \in Minted
  BY DEF Typed, Known
<1>2. \A c \in Contents : c # Absent
  BY ContentsAssumption
<1> QED
  BY <1>1, <1>2 DEF Known, Minted

\* The four outcomes of a file that can be read: which file it is, and why.
Same(f, p) == Known(p) /\ f = lastAt[p].file /\ lastAt[p].content = disk[p] /\ docs' = docs
Edited(f, p) == Known(p) /\ f = lastAt[p].file /\ lastAt[p].content # disk[p] /\ AddDocument(f, p)
Taken(f, p) ==
  /\ ~Known(p) /\ f \in Minted
  /\ lastOf[f].content = disk[p]
  /\ lastOf[f].place[1] = p[1] /\ lastOf[f].place \notin scan.found
  /\ docs' = docs
Fresh(f, p) == ~Known(p) /\ Movers(p) = {} /\ f \notin Minted /\ AddDocument(f, p)

Sights(f, p) ==
  /\ f \in Files /\ p \in Places
  /\ scan.step = "files" /\ p \in scan.left /\ disk[p] \in Contents
  /\ AddSighting(f, p)
  /\ Same(f, p) \/ Edited(f, p) \/ Taken(f, p) \/ Fresh(f, p)
  /\ Pass(p)
  /\ UNCHANGED <<world, extracted, history>>

LEMMA MoverTaken ==
  ASSUME Typed, Listed, NEW p, Movers(p) # {}
  PROVE  LET f == recency[Min(Movers(p))]
         IN  /\ f \in Minted
             /\ lastOf[f].content = disk[p]
             /\ lastOf[f].place[1] = p[1] /\ lastOf[f].place \notin scan.found
<1>1. Movers(p) \subseteq Nat
  BY DEF Listed, Movers, WithHash
<1>2. Min(Movers(p)) \in Movers(p)
  BY <1>1, MinProperties
<1> QED
  BY <1>2 DEF Movers, WithHash, Listed, ToSet

\* A file on record that could have moved here is among the movers.
LEMMA MoversMeans ==
  ASSUME Typed, Listed, NEW p, Movers(p) = {}, NEW f \in Minted,
         lastOf[f].content = disk[p], lastOf[f].place[1] = p[1]
  PROVE  lastOf[f].place \in scan.found
<1>1. PICK i \in DOMAIN recency : recency[i] = f
  BY DEF Listed, ToSet
<1> QED
  BY <1>1 DEF Movers, WithHash

LEMMA OutcomeSights ==
  ASSUME Typed, Listed, NEW p \in Places, Unchanged(p) \/ Changed(p) \/ Moved(p) \/ New(p)
  PROVE  \E f : Sights(f, p)
<1>0. disk[p] \in Contents /\ scan.step = "files" /\ p \in scan.left
  BY DEF Unchanged, Changed, Moved, New, Readable, NextPlace, Typed
<1>1. CASE Unchanged(p)
  <2>1. Sights(lastAt[p].file, p)
    BY <1>0, <1>1, KnownMeans DEF Unchanged, Sights, Same
  <2> QED
    BY <2>1
<1>2. CASE Changed(p)
  <2>1. Sights(lastAt[p].file, p)
    BY <1>0, <1>2, KnownMeans DEF Changed, Sights, Edited
  <2> QED
    BY <2>1
<1>3. CASE Moved(p)
  <2> DEFINE f == recency[Min(Movers(p))]
  <2>1. /\ f \in Minted /\ lastOf[f].content = disk[p]
        /\ lastOf[f].place[1] = p[1] /\ lastOf[f].place \notin scan.found
    BY <1>3, MoverTaken DEF Moved
  <2>2. /\ ~Known(p) /\ AddSighting(f, p) /\ Pass(p) /\ docs' = docs
        /\ UNCHANGED <<world, extracted, history>>
    BY <1>3 DEF Moved
  <2> HIDE DEF f
  <2>3. Sights(f, p)
    BY <1>0, <2>1, <2>2, KnownMeans DEF Sights, Taken
  <2> QED
    BY <2>3
<1>4. CASE New(p)
  <2>1. PICK f \in Files : f \notin Minted /\ AddSighting(f, p) /\ AddDocument(f, p)
    BY <1>4 DEF New
  <2>2. Sights(f, p)
    BY <1>0, <1>4, <2>1 DEF New, Sights, Fresh
  <2> QED
    BY <2>2
<1> QED
  BY <1>1, <1>2, <1>3, <1>4

\* Nothing else adds to the record.
LEMMA SightingSteps ==
  ASSUME Typed, Listed, [Next]_vars
  PROVE  UNCHANGED <<sightings, docs>> \/ \E f, p : Sights(f, p)
<1>1. \A p \in Places : Unchanged(p) \/ Changed(p) \/ Moved(p) \/ New(p) => \E f : Sights(f, p)
  BY OutcomeSights
<1> QED
  BY <1>1 DEF Next, Scan, World, vars, sightings, StartScan, SkipRoot, Discover, PassOver, EndRoot,
     EndRoots, Extract, PutOff, ContentChanged, EndScan, Abort, Write, Delete, Rename,
     MountOrUnmount

Effect(f, p) ==
  /\ f \in Files /\ p \in Places /\ disk[p] \in Contents
  /\ lastAt' = [lastAt EXCEPT ![p] = [file |-> f, content |-> disk[p]]]
  /\ lastOf' = [lastOf EXCEPT ![f] = [place |-> p, content |-> disk[p]]]
  /\ \A q \in Places : lastAt'[q] = IF q = p THEN [file |-> f, content |-> disk[p]]
                                    ELSE lastAt[q]
  /\ \A q \in Places : Known(q)' <=> Known(q) \/ q = p
  /\ \A g \in Files : lastOf'[g] = IF g = f THEN [place |-> p, content |-> disk[p]]
                                   ELSE lastOf[g]
  /\ docs' \in [Files -> Seq(Contents)]
  /\ \A g \in Files : g # f => docs'[g] = docs[g]
  /\ docs'[f] # <<>>
  /\ Len(docs[f]) <= Len(docs'[f])
  /\ ToSet(docs[f]) \subseteq ToSet(docs'[f])
  /\ Minted' = Minted \cup {f}

LEMMA SightingEffect ==
  ASSUME Typed, NEW f, NEW p, Sights(f, p)
  PROVE  Effect(f, p)
<1> USE DEF Effect
<1>1. /\ lastAt' = [lastAt EXCEPT ![p] = [file |-> f, content |-> disk[p]]]
      /\ lastOf' = [lastOf EXCEPT ![f] = [place |-> p, content |-> disk[p]]]
      /\ f \in Files /\ p \in Places /\ disk[p] \in Contents
  BY DEF Sights, AddSighting
<1>2. \A q \in Places : lastAt'[q] = IF q = p THEN [file |-> f, content |-> disk[p]] ELSE lastAt[q]
  BY <1>1 DEF Typed
<1>3. [file |-> f, content |-> disk[p]] # NoSighting
  BY <1>1, ContentsAssumption DEF NoSighting
<1>4. \A q \in Places : Known(q)' <=> Known(q) \/ q = p
  BY <1>2, <1>3 DEF Known
<1>5. \A g \in Files : lastOf'[g] = IF g = f THEN [place |-> p, content |-> disk[p]] ELSE lastOf[g]
  BY <1>1 DEF Typed
<1>6. docs[f] \in Seq(Contents)
  BY <1>1 DEF Typed
<1>7. CASE docs' = docs
  <2>1. f \in Minted
    <3>1. CASE Same(f, p) \/ Taken(f, p)
      BY <1>1, <3>1, KnownMeans DEF Same, Taken
    <3>2. CASE Edited(f, p) \/ Fresh(f, p)
      <4>1. docs'[f] = Append(docs[f], disk[p])
        BY <1>1, <3>2 DEF Edited, Fresh, AddDocument, Typed
      <4>2. Len(docs'[f]) = Len(docs[f]) + 1 /\ Len(docs[f]) \in Nat
        BY <1>1, <1>6, <4>1
      <4> QED
        BY <1>7, <4>2
    <3> QED
      BY <3>1, <3>2 DEF Sights
  <2> QED
    BY <1>1, <1>2, <1>4, <1>5, <1>6, <1>7, <2>1 DEF Minted, Typed
<1>8. CASE AddDocument(f, p)
  <2>1. docs' = [docs EXCEPT ![f] = Append(docs[f], disk[p])]
    BY <1>8 DEF AddDocument
  <2>2. /\ Append(docs[f], disk[p]) \in Seq(Contents)
        /\ DOMAIN docs[f] = 1 .. Len(docs[f]) /\ Len(docs[f]) \in Nat
        /\ Len(Append(docs[f], disk[p])) = Len(docs[f]) + 1
        /\ DOMAIN Append(docs[f], disk[p]) = DOMAIN docs[f] \cup {Len(docs[f]) + 1}
        /\ \A i \in DOMAIN docs[f] : Append(docs[f], disk[p])[i] = docs[f][i]
        /\ Append(docs[f], disk[p])[Len(docs[f]) + 1] = disk[p]
    BY <1>1, <1>6, Appended
  <2>3. docs'[f] = Append(docs[f], disk[p]) /\ \A g \in Files : g # f => docs'[g] = docs[g]
    BY <1>1, <2>1 DEF Typed
  <2>4. docs' \in [Files -> Seq(Contents)]
    BY <1>1, <2>1, <2>2 DEF Typed
  <2>5. docs'[f] # <<>> /\ Len(docs[f]) <= Len(docs'[f])
    BY <2>2, <2>3
  <2>6. ToSet(docs[f]) \subseteq ToSet(docs'[f])
    BY <2>2, <2>3 DEF ToSet
  <2>7. Minted' = Minted \cup {f}
    BY <1>1, <2>3, <2>5 DEF Minted
  <2> QED
    BY <1>1, <1>2, <1>4, <1>5, <2>3, <2>4, <2>5, <2>6, <2>7
<1> QED
  BY <1>7, <1>8 DEF Sights, Same, Edited, Taken, Fresh

\* What is sighted is the file's latest version, unless it was overlooked.
LEMMA LatestSighted ==
  ASSUME Typed, Agree, Settles, NEW f, NEW p, Sights(f, p), f \notin overlooked
  PROVE  docs'[f][Len(docs'[f])] = disk[p]
<1>1. f \in Files /\ p \in Places /\ disk[p] \in Contents /\ docs[f] \in Seq(Contents)
  BY DEF Sights, Typed
<1>2. CASE Same(f, p)
  <2>1. lastOf[f].place = p /\ f \in Minted
    BY <1>1, <1>2, KnownMeans DEF Same, Settles
  <2>2. lastAt[p] = [file |-> f, content |-> lastOf[f].content]
    BY <2>1 DEF Agree
  <2>3. disk[p] = lastOf[f].content /\ docs' = docs
    BY <1>2, <2>2 DEF Same
  <2> QED
    BY <2>1, <2>3 DEF Agree
<1>3. CASE Taken(f, p)
  BY <1>3 DEF Taken, Agree
<1>4. CASE Edited(f, p) \/ Fresh(f, p)
  <2>1. docs'[f] = Append(docs[f], disk[p])
    BY <1>1, <1>4 DEF Edited, Fresh, AddDocument, Typed
  <2> QED
    BY <1>1, <2>1
<1> QED
  BY <1>2, <1>3, <1>4 DEF Sights

\* What is sighted is one of the file's versions.
LEMMA SightedRecorded ==
  ASSUME Typed, Agree, NEW f, NEW p, Sights(f, p)
  PROVE  disk[p] \in ToSet(docs'[f])
<1>1. f \in Files /\ p \in Places /\ disk[p] \in Contents /\ docs[f] \in Seq(Contents)
  BY DEF Sights, Typed
<1>2. CASE Same(f, p)
  BY <1>1, <1>2 DEF Same, Agree
<1>3. CASE Taken(f, p)
  <2> DEFINE q == lastOf[f].place
  <2>1. f \in Minted /\ lastOf[f].content = disk[p] /\ docs' = docs
    BY <1>3 DEF Taken
  <2>2. lastAt[q] = [file |-> f, content |-> lastOf[f].content] /\ q \in Places
    BY <2>1 DEF Agree, Typed, Location
  <2>3. Known(q) /\ lastAt[q].file = f /\ lastAt[q].content = disk[p]
    BY <1>1, <2>1, <2>2 DEF Known, NoSighting, Files
  <2> QED
    BY <2>1, <2>2, <2>3 DEF Agree
<1>4. CASE Edited(f, p) \/ Fresh(f, p)
  <2>1. docs'[f] = Append(docs[f], disk[p])
    BY <1>1, <1>4 DEF Edited, Fresh, AddDocument, Typed
  <2>2. Len(docs[f]) + 1 \in DOMAIN docs'[f] /\ docs'[f][Len(docs[f]) + 1] = disk[p]
    BY <1>1, <2>1
  <2> QED
    BY <2>2 DEF ToSet
<1> QED
  BY <1>2, <1>3, <1>4 DEF Sights

-----------------------------------------------------------------------------
(***************************************************************************)
(* The inductive invariant.                                                *)
(***************************************************************************)

LEMMA InitHolds == Init => IInv
<1> SUFFICES ASSUME Init
             PROVE  IInv
  OBVIOUS
<1>1. Minted = {} /\ \A p \in Places : ~Known(p)
  BY DEF Init, Minted, Known
<1>2. Typed
  BY <1>1 DEF Init, Typed, NoScan, NoSighting
<1>3. Listed
  BY <1>1 DEF Init, Listed, ToSet, IsInjective
<1>4. Agree /\ Settles
  BY <1>1 DEF Agree, Settles
<1>5. FoundAll /\ Covered
  BY DEF Init, FoundAll, Covered, NoScan
<1> QED
  BY <1>2, <1>3, <1>4, <1>5 DEF IInv

\* More versions never make fewer.
LEMMA VersionsGrow ==
  ASSUME Typed, \A g \in Files : Len(docs[g]) <= Len(docs'[g]), docs' \in [Files -> Seq(Contents)]
  PROVE  AllDocs \subseteq AllDocs'
BY DEF AllDocs, Typed

LEMMA TypedStep == Typed /\ Listed /\ [Next]_vars => Typed'
<1> SUFFICES ASSUME Typed, Listed, [Next]_vars
             PROVE  Typed'
  OBVIOUS
<1> DEFINE ScanType == [step : {"idle", "roots", "files", "drain"}, roots : SUBSET Roots,
                        left : SUBSET Places, found : SUBSET Places, todo : SUBSET AllDocs]
<1>1. ASSUME NEW f, NEW p, Sights(f, p)
      PROVE  Typed'
  <2>0. Effect(f, p)
    BY <1>1, SightingEffect
  <2>1. lastAt' \in [Places -> Sighting \cup {NoSighting}]
    BY <1>1 DEF Sights, AddSighting, Typed, Sighting
  <2>2. \A q \in Places : Known(q)' => lastAt'[q].file \in Minted'
    BY <2>0, KnownMeans DEF Effect
  <2>3. DOMAIN lastOf' = Files /\ \A g \in Minted' : lastOf'[g] \in Location
    <3>1. DOMAIN lastOf' = Files
      BY <2>0 DEF Effect, Typed
    <3>2. [place |-> p, content |-> disk[p]] \in Location
      BY <2>0 DEF Effect, Location
    <3> QED
      BY <2>0, <3>1, <3>2, KnownMeans DEF Effect, Typed
  <2>4. docs' \in [Files -> Seq(Contents)] /\ AllDocs \subseteq AllDocs'
    <3>1. \A g \in Files : Len(docs[g]) <= Len(docs'[g])
      <4>1. \A g \in Files : Len(docs[g]) \in Nat
        BY DEF Typed
      <4> QED
        BY <2>0, <4>1 DEF Effect
    <3> QED
      BY <2>0, <3>1, VersionsGrow DEF Effect
  <2>5. /\ scan' = [scan EXCEPT !.left = @ \ {p}]
        /\ UNCHANGED <<disk, mounted, extracted, settled, calm, overlooked>>
        /\ overlooked \subseteq Minted'
    BY <1>1, <2>0 DEF Sights, Pass, world, history, Effect, Typed
  <2>6. /\ scan' \in [step : {"idle", "roots", "files", "drain"}, roots : SUBSET Roots,
                      left : SUBSET Places, found : SUBSET Places, todo : SUBSET AllDocs']
        /\ scan'.left \subseteq scan'.found
    <3>1. scan' \in ScanType /\ scan'.left \subseteq scan'.found
      BY <2>5 DEF Typed
    <3> QED
      BY <2>4, <3>1
  <2> QED
    BY <2>1, <2>2, <2>3, <2>4, <2>5, <2>6 DEF Typed
<1>2. ASSUME UNCHANGED <<sightings, docs, disk, mounted, extracted, settled, overlooked>>, calm' \in BOOLEAN,
             scan' \in ScanType, scan'.left \subseteq scan'.found
      PROVE  Typed'
  BY <1>2 DEF Typed, sightings, Known, Minted, AllDocs
<1>3. CASE /\ UNCHANGED <<sightings, docs, scan, extracted, overlooked>>
           /\ disk' \in [Places -> Contents \cup {Absent}] /\ mounted' \subseteq Roots
           /\ settled' \in {"no", "same", "renamed"} /\ calm' \in BOOLEAN
  BY <1>3 DEF Typed, sightings, Known, Minted, AllDocs
<1>4. ASSUME NEW r \in Roots, SkipRoot(r) \/ Discover(r)
      PROVE  Typed'
  <2>1. UNCHANGED <<sightings, docs, disk, mounted, extracted>> /\ calm' \in BOOLEAN
    BY <1>4 DEF SkipRoot, Discover, Omit, Change, Typed
  <2>2. /\ scan' \in ScanType /\ scan'.left \subseteq scan'.found
        /\ settled' \in {"no", "same", "renamed"} /\ overlooked' \subseteq Minted
    <3>1. CASE SkipRoot(r)
      BY <3>1 DEF SkipRoot, Typed
    <3>2. CASE Discover(r)
      <4>1. PICK found \in SUBSET Present(r) :
              /\ scan' = [scan EXCEPT !.roots = @ \ {r}, !.step = "files",
                                      !.found = found, !.left = found]
              /\ Omit(Present(r) \ found)
        BY <3>2 DEF Discover
      <4>2. found \subseteq Places
        BY DEF Present
      <4>3. scan' \in ScanType /\ scan'.left \subseteq scan'.found
        BY <4>1, <4>2 DEF Typed
      <4>4. \A p \in Present(r) : Known(p) => lastAt[p].file \in Minted
        BY DEF Present, Typed
      <4> QED
        BY <4>1, <4>3, <4>4 DEF Omit, Typed
    <3> QED
      BY <1>4, <3>1, <3>2
  <2> QED
    BY <2>1, <2>2 DEF Typed, sightings, Known, Minted, AllDocs
<1>5. CASE StartScan
  BY <1>5 DEF StartScan, NoScan, Typed, sightings, world, Known, Minted, AllDocs
<1>6. ASSUME NEW p \in Places, PassOver(p)
      PROVE  Typed'
  BY <1>2, <1>6 DEF PassOver, Pass, Change, Typed
<1>7. CASE EndRoot
  <2>1. scan.left = {}
    BY <1>7 DEF EndRoot
  <2> QED
    BY <1>2, <1>7, <2>1 DEF EndRoot, world, history, Typed
<1>8. CASE EndRoots
  BY <1>2, <1>8 DEF EndRoots, world, history, Typed
<1>9. ASSUME NEW d \in AllDocs, Extract(d) \/ PutOff(d) \/ ContentChanged(d)
      PROVE  Typed'
  <2>1. /\ scan' = [scan EXCEPT !.todo = @ \ {d}] /\ d \in AllDocs
        /\ extracted' \subseteq extracted \cup {d}
        /\ UNCHANGED <<sightings, docs, disk, mounted, settled, calm, overlooked>>
    BY <1>9 DEF Extract, PutOff, ContentChanged, Tried, world, history
  <2>2. scan' \in ScanType /\ scan'.left \subseteq scan'.found
    BY <2>1 DEF Typed
  <2> QED
    BY <2>1, <2>2 DEF Typed, sightings, Known, Minted, AllDocs
<1>10. CASE EndScan \/ Abort
  <2>1. /\ scan' = NoScan /\ settled' \in {"no", "same", "renamed"}
        /\ UNCHANGED <<sightings, docs, disk, mounted, extracted, calm, overlooked>>
    BY <1>10 DEF EndScan, Abort, world, Typed
  <2> QED
    BY <2>1 DEF Typed, sightings, Known, Minted, AllDocs, NoScan
<1>11. ASSUME NEW p \in Places, NEW c \in Contents, Write(p, c)
       PROVE  Typed'
  BY <1>3, <1>11 DEF Write, Change, Typed
<1>12. ASSUME NEW p \in Places, Delete(p)
       PROVE  Typed'
  BY <1>3, <1>12 DEF Delete, Change, Typed
<1>13. ASSUME NEW p \in Places, NEW q \in Places, Rename(p, q)
       PROVE  Typed'
  BY <1>3, <1>13 DEF Rename, Change, Typed
<1>14. ASSUME NEW r \in Roots, MountOrUnmount(r)
       PROVE  Typed'
  BY <1>3, <1>14 DEF MountOrUnmount, Change, Typed
<1>15. CASE UNCHANGED vars
  BY <1>3, <1>15 DEF vars, world, history, Typed
<1> QED
  <2>1. ASSUME NEW p \in Places, Unchanged(p) \/ Changed(p) \/ Moved(p) \/ New(p)
        PROVE  Typed'
    BY <1>1, <2>1, OutcomeSights
  <2> QED
    BY <1>4, <1>5, <1>6, <1>7, <1>8, <1>9, <1>10, <1>11, <1>12, <1>13, <1>14, <1>15, <2>1
       DEF Next, Scan, World, SkipRoot, Discover

\* A file appears where the record knows no other: the files of known places only
\* change or go.
LEMMA StaysAway ==
  ASSUME ~Reuse, Typed, [Next]_vars, NEW p \in Places, Known(p), disk[p] = Absent
  PROVE  disk'[p] = Absent
<1>1. ASSUME NEW q \in Places, NEW c \in Contents, Write(q, c)
      PROVE  disk'[p] = Absent
  BY <1>1 DEF Write, Free, Typed
<1>2. ASSUME NEW q \in Places, Delete(q)
      PROVE  disk'[p] = Absent
  BY <1>2 DEF Delete, Typed
<1>3. ASSUME NEW q \in Places, NEW r \in Places, Rename(q, r)
      PROVE  disk'[p] = Absent
  BY <1>3 DEF Rename, Free, Typed
<1>4. CASE disk' = disk
  BY <1>4
<1> QED
  BY <1>1, <1>2, <1>3, <1>4 DEF Next, Scan, World, vars, world, StartScan, SkipRoot, Discover,
     PassOver, Unchanged, Changed, Moved, New, EndRoot, EndRoots, Extract, PutOff,
     ContentChanged, EndScan, Abort, MountOrUnmount

LEMMA ListedStep == Typed /\ Listed /\ [Next]_vars => Listed'
<1> SUFFICES ASSUME Typed, Listed, [Next]_vars
             PROVE  Listed'
  OBVIOUS
<1>1. CASE UNCHANGED <<sightings, docs>>
  BY <1>1 DEF Listed, sightings, Minted
<1>2. ASSUME NEW f, NEW p, Sights(f, p)
      PROVE  Listed'
  <2>1. Effect(f, p)
    BY <1>2, SightingEffect
  <2>2. recency' = Append(Without(f), f) /\ f \in Files /\ Minted' = Minted \cup {f}
    BY <1>2, <2>1 DEF Sights, AddSighting, Effect
  <2>3. /\ recency' \in Seq(Files) /\ IsInjective(recency')
        /\ ToSet(recency') = ToSet(recency) \cup {f}
    BY <2>2, SightedLast DEF Listed
  <2> QED
    BY <2>2, <2>3 DEF Listed
<1> QED
  BY <1>1, <1>2, SightingSteps

\* TypeOK: sightings name files on record, the recency lists each of them once, and
\* what is extracted or queued is a version on record (record/__init__.py:183-196).
THEOREM ScannerTypeCorrect == Spec => []TypeOK
<1>1. Init => Typed /\ Listed
  BY InitHolds DEF IInv
<1>2. Typed /\ Listed /\ [Next]_vars => (Typed /\ Listed)'
  BY TypedStep, ListedStep
<1>3. Typed /\ Listed => TypeOK
  <2> SUFFICES ASSUME Typed, Listed
               PROVE  TypeOK
    OBVIOUS
  <2>1. \A p \in Places : Known(p) => lastAt[p].file \in Minted /\ lastAt[p].content \in Contents
    BY KnownMeans DEF Sighting
  <2>2. \A f \in Minted : lastOf[f].place \in Places /\ lastOf[f].content \in Contents
    BY DEF Typed, Location
  <2> QED
    BY <2>1, <2>2 DEF Typed, Listed, TypeOK
<1> QED
  BY <1>1, <1>2, <1>3, PTL DEF Spec

\* What was overlooked once counts as such for good.
LEMMA OverlookedGrows ==
  ASSUME [Next]_vars
  PROVE  overlooked \subseteq overlooked'
BY DEF Next, Scan, World, vars, history, StartScan, SkipRoot, Discover, Omit, PassOver, Unchanged,
   Changed, Moved, New, EndRoot, EndRoots, Extract, PutOff, ContentChanged, EndScan, Abort, Write,
   Delete, Rename, MountOrUnmount

LEMMA AgreeStep == Typed /\ Listed /\ Agree /\ Settles /\ [Next]_vars => Agree'
<1> SUFFICES ASSUME Typed, Listed, Agree, Settles, [Next]_vars
             PROVE  Agree'
  OBVIOUS
<1>1. CASE UNCHANGED <<sightings, docs>>
  BY <1>1, OverlookedGrows DEF Agree, sightings, Minted, Known
<1>2. ASSUME NEW f, NEW p, Sights(f, p)
      PROVE  Agree'
  <2>1. /\ Effect(f, p) /\ overlooked' = overlooked
        /\ f \notin overlooked => docs'[f][Len(docs'[f])] = disk[p]
    BY <1>2, SightingEffect, LatestSighted DEF Sights, history
  <2>2. \A g \in Minted : g # f => lastOf[g].place # p
    <3> SUFFICES ASSUME NEW g \in Minted, g # f, lastOf[g].place = p
                 PROVE  FALSE
      OBVIOUS
    <3>1. lastAt[p] = [file |-> g, content |-> lastOf[g].content] /\ g \in Files
      BY DEF Agree, Minted
    <3>2. Known(p) /\ lastAt[p].file # f
      BY <3>1 DEF Known, NoSighting, Files
    <3> QED
      BY <1>2, <3>2 DEF Sights, Same, Edited, Taken, Fresh
  <2>3. ASSUME NEW g \in Minted'
        PROVE  /\ lastAt'[lastOf'[g].place] = [file |-> g, content |-> lastOf'[g].content]
               /\ g \notin overlooked' => lastOf'[g].content = docs'[g][Len(docs'[g])]
    <3>1. CASE g = f
      BY <2>1, <3>1 DEF Effect
    <3>2. CASE g # f
      <4>1. g \in Minted /\ g \in Files /\ lastOf'[g] = lastOf[g] /\ docs'[g] = docs[g]
        BY <2>1, <2>3, <3>2 DEF Effect, Minted
      <4>2. lastOf[g].place \in Places /\ lastOf[g].place # p
        BY <2>2, <3>2, <4>1 DEF Typed, Location
      <4>3. lastAt'[lastOf[g].place] = lastAt[lastOf[g].place]
        BY <2>1, <4>2 DEF Effect
      <4>4. /\ lastAt[lastOf[g].place] = [file |-> g, content |-> lastOf[g].content]
            /\ g \notin overlooked => lastOf[g].content = docs[g][Len(docs[g])]
        BY <4>1 DEF Agree
      <4> QED
        BY <2>1, <4>1, <4>3, <4>4
    <3> QED
      BY <3>1, <3>2
  <2>4. ASSUME NEW q \in Places, Known(q)'
        PROVE  lastAt'[q].content \in ToSet(docs'[lastAt'[q].file])
    <3>1. CASE q = p
      <4>1. disk[p] \in ToSet(docs'[f])
        BY <1>2, SightedRecorded
      <4> QED
        BY <2>1, <3>1, <4>1 DEF Effect
    <3>2. CASE q # p
      <4>1. Known(q) /\ lastAt'[q] = lastAt[q]
        BY <2>1, <2>4, <3>2 DEF Effect
      <4>2. lastAt[q].content \in ToSet(docs[lastAt[q].file]) /\ lastAt[q].file \in Files
        BY <4>1, KnownMeans DEF Agree
      <4>3. ToSet(docs[lastAt[q].file]) \subseteq ToSet(docs'[lastAt[q].file])
        BY <2>1, <4>2 DEF Effect
      <4> QED
        BY <4>1, <4>2, <4>3
    <3> QED
      BY <3>1, <3>2
  <2> QED
    BY <2>3, <2>4 DEF Agree
<1> QED
  BY <1>1, <1>2, SightingSteps

\* Without reuse of paths, what is not on disk at a known place stays away.
LEMMA SettlesStep ==
  ~Reuse /\ Typed /\ Listed /\ Agree /\ Settles /\ FoundAll /\ [Next]_vars => Settles'
<1> SUFFICES ASSUME ~Reuse, Typed, Listed, Agree, Settles, FoundAll, [Next]_vars
             PROVE  Settles'
  OBVIOUS
<1>1. CASE UNCHANGED sightings /\ \A p \in Places : Known(p) /\ disk[p] = Absent => disk'[p] = Absent
  BY <1>1, OverlookedGrows DEF Settles, sightings, Known
<1>2. ASSUME NEW f, NEW p, Sights(f, p), NEW q \in Places, Known(q)', disk'[q] # Absent,
             lastAt'[q].file \notin overlooked'
      PROVE  lastOf'[lastAt'[q].file].place = q
  <2>1. Effect(f, p) /\ disk' = disk /\ overlooked' = overlooked
    BY <1>2, SightingEffect DEF Sights, world, history
  <2>2. CASE q = p
    BY <2>1, <2>2 DEF Effect
  <2>3. CASE q # p
    <3>1. /\ Known(q) /\ lastAt'[q] = lastAt[q] /\ disk[q] # Absent
          /\ lastAt[q].file \notin overlooked
      BY <1>2, <2>1, <2>3 DEF Effect
    <3>2. lastOf[lastAt[q].file].place = q /\ lastAt[q].file \in Minted
      BY <3>1, KnownMeans DEF Settles
    <3>3. lastAt[q].file # f
      <4> SUFFICES ASSUME lastAt[q].file = f
                   PROVE  FALSE
        OBVIOUS
      <4>1. CASE Same(f, p) \/ Edited(f, p)
        <5>1. Known(p) /\ f = lastAt[p].file /\ disk[p] # Absent /\ p \in Places
          BY <2>1, <4>1, ContentsAssumption DEF Same, Edited, Effect
        <5>2. lastOf[f].place = p
          BY <3>1, <5>1 DEF Settles
        <5> QED
          BY <2>3, <3>2, <5>2
      <4>2. CASE Taken(f, p)
        <5>1. q[1] = p[1] /\ q \notin scan.found
          BY <3>2, <4>2 DEF Taken
        <5>2. p \in scan.found
          BY <1>2 DEF Sights, Typed
        <5> QED
          BY <3>1, <5>1, <5>2 DEF FoundAll
      <4>3. CASE Fresh(f, p)
        BY <3>2, <4>3 DEF Fresh
      <4> QED
        BY <1>2, <4>1, <4>2, <4>3 DEF Sights
    <3>4. lastOf'[lastAt[q].file] = lastOf[lastAt[q].file]
      BY <2>1, <3>2, <3>3, KnownMeans DEF Effect
    <3> QED
      BY <3>1, <3>2, <3>4
  <2> QED
    BY <2>2, <2>3
<1> QED
  BY <1>1, <1>2, SightingSteps, StaysAway DEF Settles

LEMMA FoundAllStep ==
  ~Reuse /\ Typed /\ Typed' /\ Listed /\ FoundAll /\ [Next]_vars => FoundAll'
<1> SUFFICES ASSUME ~Reuse, Typed, Typed', Listed, FoundAll, [Next]_vars
             PROVE  FoundAll'
  OBVIOUS
<1>1. ASSUME NEW f, NEW p, Sights(f, p)
      PROVE  FoundAll'
  <2>1. /\ Effect(f, p) /\ UNCHANGED <<disk, overlooked>>
        /\ scan' = [scan EXCEPT !.left = @ \ {p}]
    BY <1>1, SightingEffect DEF Sights, world, history, Pass
  <2>2. scan.step = "files" /\ p \in scan.found /\ scan'.step = "files" /\ scan'.found = scan.found
    BY <1>1, <2>1 DEF Sights, Typed
  <2>3. \A q \in Places : Known(q)' /\ q \notin scan.found => Known(q) /\ lastAt'[q] = lastAt[q]
    BY <2>1, <2>2 DEF Effect
  <2>4. \A r \in scan'.found, q \in Places :
          /\ r[1] = q[1] /\ Known(q)' /\ q \notin scan'.found
          /\ lastAt'[q].file \notin overlooked'
          => disk'[q] = Absent
    BY <2>1, <2>2, <2>3 DEF FoundAll
  <2> QED
    BY <2>2, <2>4 DEF FoundAll
<1>2. CASE UNCHANGED sightings
           /\ (\A p \in Places : Known(p) /\ disk[p] = Absent => disk'[p] = Absent)
           /\ UNCHANGED <<scan.step, scan.roots, scan.found>>
           /\ scan'.left \subseteq scan.left /\ scan'.todo \subseteq scan.todo
  BY <1>2, OverlookedGrows DEF FoundAll, sightings, Known, Typed
<1>3. CASE UNCHANGED sightings /\ scan'.found = {}
           /\ (scan'.step # "files" => scan'.left = {})
           /\ (scan'.step = "idle" => scan'.roots = {} /\ scan'.todo = {})
           /\ (scan'.step = "drain" => scan'.roots = {})
  BY <1>3 DEF FoundAll
<1>4. CASE StartScan
  BY <1>3, <1>4 DEF StartScan, NoScan
<1>5. ASSUME NEW r \in Roots, SkipRoot(r)
      PROVE  FoundAll'
  <2>1. /\ scan' = [scan EXCEPT !.roots = @ \ {r}] /\ scan.step = "roots"
        /\ UNCHANGED sightings
    BY <1>5 DEF SkipRoot, NextRoot
  <2>2. scan'.step = "roots" /\ scan'.found = {} /\ scan'.left = {}
    BY <2>1 DEF FoundAll, Typed
  <2> QED
    BY <1>3, <2>1, <2>2
<1>6. ASSUME NEW r \in Roots, Discover(r)
      PROVE  FoundAll'
  <2>1. PICK found \in SUBSET Present(r) :
          /\ scan' = [scan EXCEPT !.roots = @ \ {r}, !.step = "files",
                                  !.found = found, !.left = found]
          /\ Omit(Present(r) \ found)
    BY <1>6 DEF Discover
  <2>2. UNCHANGED <<disk, sightings>> /\ scan'.step = "files" /\ scan'.found = found
    BY <1>6, <2>1 DEF Discover, Typed
  <2>3. \A q \in Present(r) \ found : Known(q) => lastAt[q].file \in overlooked'
    BY <2>1 DEF Omit
  <2>4. \A p \in scan'.found, q \in Places :
          p[1] = q[1] /\ Known(q) /\ q \notin scan'.found /\ lastAt[q].file \notin overlooked'
            => disk[q] = Absent
    BY <2>2, <2>3 DEF Present
  <2> QED
    BY <2>2, <2>4 DEF FoundAll, sightings, Known
<1>7. ASSUME NEW p \in Places, PassOver(p)
      PROVE  FoundAll'
  BY <1>2, <1>7 DEF PassOver, Pass, Typed
<1>8. CASE EndRoot
  <2>1. /\ scan' = [scan EXCEPT !.step = "roots", !.found = {}] /\ scan.left = {}
        /\ UNCHANGED sightings
    BY <1>8 DEF EndRoot
  <2>2. scan'.step = "roots" /\ scan'.found = {} /\ scan'.left = {}
    BY <2>1 DEF Typed
  <2> QED
    BY <1>3, <2>1, <2>2
<1>9. CASE EndRoots
  <2>1. /\ scan' = [scan EXCEPT !.step = "drain", !.todo = AllDocs \ extracted]
        /\ scan.step = "roots" /\ scan.roots = {} /\ UNCHANGED sightings
    BY <1>9 DEF EndRoots
  <2>2. scan'.step = "drain" /\ scan'.found = {} /\ scan'.left = {} /\ scan'.roots = {}
    BY <2>1 DEF FoundAll, Typed
  <2> QED
    BY <1>3, <2>1, <2>2
<1>10. ASSUME NEW d \in AllDocs, Extract(d) \/ PutOff(d) \/ ContentChanged(d)
       PROVE  FoundAll'
  BY <1>2, <1>10 DEF Extract, PutOff, ContentChanged, Tried, world, Typed
<1>11. CASE EndScan \/ Abort
  BY <1>3, <1>11 DEF EndScan, Abort, NoScan
<1>12. CASE World
  <2>1. UNCHANGED <<sightings, scan>>
    BY <1>12 DEF World, Delete, Write, Rename, MountOrUnmount
  <2> QED
    BY <1>2, <2>1, StaysAway
<1>13. CASE UNCHANGED vars
  BY <1>2, <1>13 DEF vars, world
<1> QED
  BY <1>1, <1>4, <1>5, <1>6, <1>7, <1>8, <1>9, <1>10, <1>11, <1>12, <1>13, OutcomeSights
     DEF Next, Scan

LEMMA CoveredStep ==
  Typed /\ Typed' /\ Listed /\ FoundAll /\ Covered /\ [Next]_vars => Covered'
<1> SUFFICES ASSUME Typed, Typed', Listed, FoundAll, Covered, [Next]_vars
             PROVE  Covered'
  OBVIOUS
<1>1. ASSUME NEW f, NEW p, Sights(f, p)
      PROVE  Covered'
  <2>1. /\ Effect(f, p) /\ UNCHANGED <<disk, mounted, calm>>
        /\ scan' = [scan EXCEPT !.left = @ \ {p}] /\ scan.step = "files"
    BY <1>1, SightingEffect DEF Sights, world, history, Pass
  <2>2. /\ scan'.step = "files" /\ scan'.roots = scan.roots /\ scan'.left = scan.left \ {p}
    BY <2>1 DEF Typed
  <2>3. \A q \in Places : Seen(q)' <=> Seen(q) \/ q = p
    <3>1. \A q \in Places : q # p => (Seen(q)' <=> Seen(q))
      BY <2>1 DEF Effect, Seen
    <3>2. Seen(p)'
      BY <2>1 DEF Effect, Seen
    <3> QED
      BY <3>1, <3>2
  <2> QED
    BY <2>1, <2>2, <2>3 DEF Covered
<1>2. CASE scan'.step = "idle" \/ ~calm'
  BY <1>2 DEF Covered
<1>3. CASE StartScan
  BY <1>3, PlacesAssumption DEF StartScan, NoScan, Covered
<1>4. ASSUME NEW r \in Roots, Discover(r), calm'
      PROVE  Covered'
  <2>1. PICK found \in SUBSET Present(r) :
          /\ scan' = [scan EXCEPT !.roots = @ \ {r}, !.step = "files",
                                  !.found = found, !.left = found]
          /\ Omit(Present(r) \ found)
    BY <1>4 DEF Discover
  <2>2. found = Present(r) /\ calm
    BY <1>4, <2>1 DEF Omit, Change
  <2>3. /\ UNCHANGED <<disk, mounted, sightings>>
        /\ r \in mounted /\ scan.step = "roots"
    BY <1>4 DEF Discover, NextRoot
  <2>4. scan'.roots = scan.roots \ {r} /\ scan'.left = Present(r) /\ scan.left = {}
    BY <2>1, <2>2, <2>3 DEF FoundAll, Typed
  <2>5. \A p \in Places : Seen(p)' <=> Seen(p)
    BY <2>3 DEF Seen, Known, sightings
  <2> QED
    BY <2>2, <2>3, <2>4, <2>5 DEF Covered, Present
<1>5. ASSUME NEW p \in Places, PassOver(p), calm'
      PROVE  Covered'
  <2>1. /\ scan' = [scan EXCEPT !.left = @ \ {p}] /\ scan.step = "files" /\ p \in scan.left
        /\ UNCHANGED <<disk, mounted, sightings, calm>>
        /\ disk[p] = Absent \/ p[1] \notin mounted
    BY <1>5 DEF PassOver, NextPlace, Pass, Change
  <2>2. scan'.roots = scan.roots /\ scan'.left = scan.left \ {p}
    BY <2>1 DEF Typed
  <2>3. \A q \in Places : Seen(q)' <=> Seen(q)
    BY <2>1 DEF Seen, Known, sightings
  <2>4. calm => disk[p] = Absent
    BY <2>1 DEF Covered
  <2> QED
    BY <2>1, <2>2, <2>3, <2>4 DEF Covered
<1>6. CASE UNCHANGED <<disk, mounted, sightings, calm, scan.roots, scan.left>> /\ scan.step # "idle"
  BY <1>6 DEF Covered, Seen, Known, sightings
<1>7. CASE EndRoot \/ EndRoots
  BY <1>6, <1>7 DEF EndRoot, EndRoots, world, history, Typed
<1>8. ASSUME NEW d \in AllDocs, Extract(d) \/ PutOff(d) \/ ContentChanged(d)
      PROVE  Covered'
  BY <1>6, <1>8 DEF Extract, PutOff, ContentChanged, Tried, world, history, Typed
<1>9. CASE UNCHANGED vars
  BY <1>9 DEF vars, world, history, Covered, Seen, Known, sightings
<1> QED
  BY <1>1, <1>2, <1>3, <1>4, <1>5, <1>7, <1>8, <1>9, OutcomeSights
     DEF Next, Scan, World, SkipRoot, EndScan, Abort, NoScan, Write, Delete, Rename, MountOrUnmount,
         Change

LEMMA InvStep == ~Reuse /\ IInv /\ [Next]_vars => IInv'
<1> SUFFICES ASSUME ~Reuse, IInv, [Next]_vars
             PROVE  IInv'
  OBVIOUS
<1>1. Typed /\ Listed /\ Agree /\ Settles /\ FoundAll /\ Covered
  BY DEF IInv
<1>2. Typed'
  BY <1>1, TypedStep
<1> QED
  BY <1>1, <1>2, ListedStep, AgreeStep, SettlesStep, FoundAllStep, CoveredStep DEF IInv

THEOREM Invariance == ~Reuse => (Spec => []IInv)
<1> SUFFICES ASSUME ~Reuse
             PROVE  Spec => []IInv
  OBVIOUS
<1>1. Init => IInv
  BY InitHolds
<1>2. IInv /\ [Next]_vars => IInv'
  BY InvStep
<1> QED
  BY <1>1, <1>2, PTL DEF Spec

-----------------------------------------------------------------------------
(***************************************************************************)
(* What a scan that nothing disturbs achieves.                             *)
(***************************************************************************)

\* After the scan of the roots, if nothing changed, all that is on disk is seen.
LEMMA AllSeen ==
  ASSUME IInv, scan.step = "drain", calm, NEW p \in Places, disk[p] # Absent
  PROVE  Seen(p) /\ (lastAt[p].file \notin overlooked => lastOf[lastAt[p].file].place = p)
<1>1. Seen(p)
  BY DEF IInv, Covered, FoundAll
<1> QED
  BY <1>1 DEF IInv, Settles, Seen

\* Two places on disk share no file_id (scanner.py:94-97) but one that a listing
\* left out of what it found there: if no file appears at a path that the record
\* knows from another.
THEOREM PlacesHaveTheirOwn == ~Reuse => (Spec => []OwnIdentity)
<1>1. IInv => OwnIdentity
  BY AllSeen DEF OwnIdentity
<1> QED
  BY <1>1, Invariance, PTL

\* A scan that nothing disturbed misses no file and no version (scanner.py:67-101).
THEOREM NothingIsMissed == ~Reuse => (Spec => NothingMissed)
<1>1. IInv => [EndScan /\ calm =>
                 \A p \in Places : disk[p] # Absent =>
                   /\ Known(p) /\ lastAt[p].content = disk[p]
                   /\ disk[p] \in ToSet(docs[lastAt[p].file])]_vars
  <2> SUFFICES ASSUME IInv, EndScan, calm, NEW p \in Places, disk[p] # Absent
               PROVE  /\ Known(p) /\ lastAt[p].content = disk[p]
                      /\ disk[p] \in ToSet(docs[lastAt[p].file])
    OBVIOUS
  <2>1. Seen(p)
    BY AllSeen DEF EndScan
  <2> QED
    BY <2>1 DEF IInv, Agree, Seen
<1> QED
  BY <1>1, Invariance, PTL DEF NothingMissed

\* The latest version of a file on disk is the bytes on disk (worker.py:52-66), if
\* no listing has left that file out while it was there.
THEOREM SeenIsReadableHolds == ~Reuse => (Spec => SeenIsReadable)
<1>1. IInv => [\A d \in AllDocs : ContentChanged(d) /\ calm /\ d[1] \notin overlooked
                                  => d[2] < Len(docs[d[1]])]_vars
  <2> SUFFICES ASSUME IInv, NEW d \in AllDocs, ContentChanged(d), calm, d[1] \notin overlooked
               PROVE  d[2] < Len(docs[d[1]])
    OBVIOUS
  <2> DEFINE f == d[1]
             p == lastOf[f].place
  <2>1. /\ f \in Files /\ d[2] \in 1 .. MaxVersions /\ d[2] <= Len(docs[f])
        /\ Len(docs[f]) \in Nat /\ docs[f] # <<>>
    BY DEF AllDocs, IInv, Typed
  <2>2. f \in Minted
    BY <2>1 DEF Minted
  <2>3. p \in Places
    BY <2>2 DEF IInv, Typed, Location
  <2>4. scan.step = "drain" /\ disk[p] # Absent /\ disk[p] # docs[f][d[2]]
    <3>1. OnDisk(d) \notin {Absent, docs[f][d[2]]} /\ scan.step = "drain"
      BY DEF ContentChanged, Tried
    <3>2. OnDisk(d) = IF p[1] \in mounted THEN disk[p] ELSE Absent
      BY DEF OnDisk
    <3> QED
      BY <3>1, <3>2
  <2>5. lastAt[p].content = disk[p]
    BY <2>3, <2>4, AllSeen DEF Seen
  <2>6. lastAt[p] = [file |-> f, content |-> lastOf[f].content]
        /\ lastOf[f].content = docs[f][Len(docs[f])]
    BY <2>2 DEF IInv, Agree
  <2>7. d[2] # Len(docs[f])
    BY <2>4, <2>5, <2>6
  <2> QED
    BY <2>1, <2>7
<1> QED
  BY <1>1, Invariance, PTL DEF SeenIsReadable

-----------------------------------------------------------------------------
(***************************************************************************)
(* Neither nothing nor renames add to the record.                          *)
(***************************************************************************)

\* What is on disk at places the record does not know.
Newcomers == {p \in Places : disk[p] # Absent /\ ~Known(p)}

\* Each of them can be told to be a file that has left its place, and no two of
\* them the same one.
Moves(h) ==
  /\ h \in [Newcomers -> Minted]
  /\ \A p, q \in Newcomers : h[p] = h[q] => p = q
  /\ \A p \in Newcomers :
       /\ lastOf[h[p]].content = disk[p] /\ lastOf[h[p]].place[1] = p[1]
       /\ disk[lastOf[h[p]].place] = Absent

\* Since the last scan that agreed with the disk, files were only renamed.
OnlyMoved ==
  settled # "no" =>
    /\ overlooked = {}
    /\ \A p \in Places : Known(p) /\ disk[p] # Absent => lastAt[p].content = disk[p]
    /\ \A p \in scan.found : disk[p] # Absent
    /\ settled = "same" => Newcomers = {}
    /\ \E h : Moves(h)

\* Then every file that can be read is the one of its place or one that moved.
LEMMA KnownOrMoved ==
  ASSUME IInv, OnlyMoved, settled # "no", NEW f, NEW p, Sights(f, p)
  PROVE  /\ Same(f, p) \/ (Taken(f, p) /\ settled = "renamed")
         /\ docs' = docs
<1>1. p \in Places /\ disk[p] \in Contents /\ disk[p] # Absent
  BY ContentsAssumption DEF Sights
<1>2. ~Edited(f, p)
  BY <1>1 DEF OnlyMoved, Edited
<1>3. ~Fresh(f, p)
  <2> SUFFICES ASSUME Fresh(f, p)
               PROVE  FALSE
    OBVIOUS
  <2>1. PICK h : Moves(h)
    BY DEF OnlyMoved
  <2>2. p \in Newcomers
    BY <1>1 DEF Newcomers, Fresh
  <2>3. /\ h[p] \in Minted /\ lastOf[h[p]].content = disk[p] /\ lastOf[h[p]].place[1] = p[1]
        /\ disk[lastOf[h[p]].place] = Absent
    BY <2>1, <2>2 DEF Moves
  <2>4. lastOf[h[p]].place \in scan.found
    BY <2>3, MoversMeans DEF Fresh, IInv
  <2> QED
    BY <2>3, <2>4 DEF OnlyMoved
<1>4. Taken(f, p) => settled = "renamed"
  <2> SUFFICES ASSUME Taken(f, p), settled = "same"
               PROVE  FALSE
    BY DEF IInv, Typed
  <2> QED
    BY <1>1 DEF OnlyMoved, Newcomers, Taken
<1> QED
  BY <1>2, <1>3, <1>4 DEF Sights, Same, Taken

\* A file whose place is not empty is no newcomer's, and one that is sighted again
\* makes no difference.
LEMMA SameKeepsMoves ==
  ASSUME IInv, overlooked = {}, NEW f, NEW p, Sights(f, p), Same(f, p), NEW h, Moves(h)
  PROVE  Moves(h)'
<1>1. Effect(f, p) /\ disk' = disk
  BY SightingEffect DEF Sights, world, IInv
<1>2. Newcomers' = Newcomers
  BY <1>1 DEF Newcomers, Effect, Same
<1>3. lastOf[f].place = p /\ disk[p] # Absent
  BY <1>1, ContentsAssumption DEF Same, Effect, IInv, Settles
<1>4. \A q \in Newcomers : h[q] # f /\ h[q] \in Files
  BY <1>3 DEF Moves, Minted
<1>5. \A q \in Newcomers : lastOf'[h[q]] = lastOf[h[q]]
  BY <1>1, <1>4 DEF Effect
<1>6. Minted \subseteq Minted'
  BY <1>1 DEF Effect
<1> QED
  BY <1>1, <1>2, <1>5, <1>6 DEF Moves

\* A newcomer that is given the file another could have been leaves it its own.
LEMMA TakenKeepsMoves ==
  ASSUME IInv, NEW f, NEW p, Sights(f, p), Taken(f, p), NEW h, Moves(h)
  PROVE  \E g : Moves(g)'
<1>1. Effect(f, p) /\ disk' = disk
  BY SightingEffect DEF Sights, world, IInv
<1>2. p \in Newcomers /\ Newcomers' = Newcomers \ {p}
  BY <1>1, ContentsAssumption DEF Newcomers, Effect, Taken
<1> DEFINE g == [q \in Newcomers' |-> IF h[q] = f THEN h[p] ELSE h[q]]
<1>3. \A q \in Newcomers : /\ h[q] \in Minted /\ h[q] \in Files
                           /\ lastOf[h[q]].content = disk[q] /\ lastOf[h[q]].place[1] = q[1]
                           /\ disk[lastOf[h[q]].place] = Absent
  BY DEF Moves, Minted
<1>4. \A q, r \in Newcomers : h[q] = h[r] => q = r
  BY DEF Moves
<1>5. \A q \in Newcomers' : q \in Newcomers /\ q # p
  BY <1>2
<1>6. \A q \in Newcomers' : g[q] # f
  BY <1>2, <1>4, <1>5
<1>7. \A q, r \in Newcomers' : g[q] = g[r] => q = r
  BY <1>2, <1>4, <1>5
<1>8. ASSUME NEW q \in Newcomers'
      PROVE  /\ g[q] \in Minted'
             /\ lastOf'[g[q]].content = disk'[q] /\ lastOf'[g[q]].place[1] = q[1]
             /\ disk'[lastOf'[g[q]].place] = Absent
  <2>1. g[q] \in Files /\ g[q] \in Minted /\ g[q] \in Minted'
    BY <1>1, <1>2, <1>3, <1>5 DEF Effect
  <2>2. lastOf'[g[q]] = lastOf[g[q]]
    BY <1>1, <1>6, <2>1 DEF Effect
  <2>3. /\ lastOf[g[q]].content = disk[q] /\ lastOf[g[q]].place[1] = q[1]
        /\ disk[lastOf[g[q]].place] = Absent
    <3>1. CASE h[q] = f
      <4>1. g[q] = h[p] /\ q \in Newcomers
        BY <1>5, <3>1
      <4>2. lastOf[f].content = disk[q] /\ lastOf[f].place[1] = q[1]
        BY <1>3, <3>1, <4>1
      <4>3. lastOf[f].content = disk[p] /\ lastOf[f].place[1] = p[1]
        BY DEF Taken
      <4> HIDE DEF g
      <4> QED
        BY <1>2, <1>3, <4>1, <4>2, <4>3
    <3>2. CASE h[q] # f
      <4>1. g[q] = h[q] /\ q \in Newcomers
        BY <1>5, <3>2
      <4> HIDE DEF g
      <4> QED
        BY <1>3, <4>1
    <3> QED
      BY <3>1, <3>2
  <2> QED
    BY <1>1, <2>1, <2>2, <2>3
<1>9. g \in [Newcomers' -> Minted']
  BY <1>8
<1>10. PICK k : k = g
  OBVIOUS
<1> HIDE DEF g
<1>11. Moves(k)'
  BY <1>7, <1>8, <1>9, <1>10 DEF Moves
<1> QED
  BY <1>11

\* A file that is renamed is, at its new place, the file it was or could have been.
LEMMA RenamedKeepsMoves ==
  ASSUME IInv, overlooked = {}, NEW h, Moves(h),
         NEW p \in Places, NEW q \in Places, Rename(p, q), ~Known(q),
         Known(p) => lastAt[p].content = disk[p]
  PROVE  \E g : Moves(g)'
<1>1. /\ p[1] = q[1] /\ disk[p] # Absent /\ disk[q] = Absent /\ p # q
      /\ UNCHANGED <<lastAt, lastOf, docs>>
      /\ \A r \in Places : disk'[r] = IF r = q THEN disk[p] ELSE IF r = p THEN Absent ELSE disk[r]
  BY DEF Rename, Free, sightings, IInv, Typed
<1>2. Newcomers' = (Newcomers \ {p}) \cup {q} /\ Minted' = Minted /\ q \notin Newcomers
  BY <1>1 DEF Newcomers, Known, Minted
<1>3. \A r \in Newcomers : /\ h[r] \in Minted
                           /\ lastOf[h[r]].content = disk[r] /\ lastOf[h[r]].place[1] = r[1]
                           /\ disk[lastOf[h[r]].place] = Absent
  BY DEF Moves
<1>4. \A r, s \in Newcomers : h[r] = h[s] => r = s
  BY DEF Moves
<1>5. \A f \in Minted : lastOf[f].place \in Places /\ lastOf[f].place # q
  <2> TAKE f \in Minted
  <2>1. f # 0 /\ lastOf[f].place \in Places
    BY DEF IInv, Typed, Location, Minted, Files
  <2>3. lastAt[lastOf[f].place].file = f
    <3>1. lastAt[lastOf[f].place] = [file |-> f, content |-> lastOf[f].content]
      BY DEF IInv, Agree
    <3> QED
      BY <3>1
  <2>2. lastAt[q].file = 0
    BY DEF Known, NoSighting
  <2> QED
    BY <2>1, <2>2, <2>3
<1> DEFINE source == IF p \in Newcomers THEN h[p] ELSE lastAt[p].file
<1>6. /\ source \in Minted
      /\ lastOf[source].content = disk[p] /\ lastOf[source].place[1] = q[1]
      /\ disk'[lastOf[source].place] = Absent
      /\ \A r \in Newcomers : h[r] = source => r = p
  <2>1. CASE p \in Newcomers
    <3>1. source = h[p]
      BY <2>1
    <3> HIDE DEF source
    <3>2. lastOf[source].place \in Places /\ lastOf[source].place # q
      BY <1>3, <1>5, <2>1, <3>1
    <3> QED
      BY <1>1, <1>3, <1>4, <2>1, <3>1, <3>2
  <2>2. CASE p \notin Newcomers
    <3>1. Known(p) /\ source = lastAt[p].file
      BY <1>1, <2>2 DEF Newcomers
    <3> HIDE DEF source
    <3>2. source \in Minted /\ lastOf[source].place = p
      BY <1>1, <3>1 DEF IInv, Typed, Settles
    <3>3. lastOf[source].content = disk[p]
      <4>1. lastAt[p] = [file |-> source, content |-> lastOf[source].content]
        BY <3>2 DEF IInv, Agree
      <4> QED
        BY <3>1, <4>1
    <3>4. \A r \in Newcomers : h[r] # source
      BY <1>1, <1>3, <3>2
    <3> QED
      BY <1>1, <3>2, <3>3, <3>4
  <2> QED
    BY <2>1, <2>2
<1> HIDE DEF source
<1> DEFINE g == [r \in (Newcomers \ {p}) \cup {q} |-> IF r = q THEN source ELSE h[r]]
<1>7. \A r \in Newcomers \ {p} : g[r] = h[r] /\ r # q
  BY <1>2
<1>8. g[q] = source
  OBVIOUS
<1>9. g \in [Newcomers' -> Minted']
  BY <1>2, <1>3, <1>6
<1> HIDE DEF g
<1>10. \A r, s \in Newcomers' : g[r] = g[s] => r = s
  BY <1>2, <1>4, <1>6, <1>7, <1>8
<1>11. \A r \in Newcomers' : /\ lastOf[g[r]].content = disk'[r] /\ lastOf[g[r]].place[1] = r[1]
                             /\ disk'[lastOf[g[r]].place] = Absent
  <2>1. /\ lastOf[g[q]].content = disk'[q] /\ lastOf[g[q]].place[1] = q[1]
        /\ disk'[lastOf[g[q]].place] = Absent
    BY <1>1, <1>6, <1>8
  <2>2. ASSUME NEW r \in Newcomers \ {p}
        PROVE  /\ lastOf[g[r]].content = disk'[r] /\ lastOf[g[r]].place[1] = r[1]
               /\ disk'[lastOf[g[r]].place] = Absent
    <3>1. r \in Places /\ r # q /\ r # p /\ g[r] = h[r] /\ disk'[r] = disk[r]
      BY <1>1, <1>7 DEF Newcomers
    <3>2. lastOf[h[r]].place \in Places /\ lastOf[h[r]].place # q
      BY <1>3, <1>5
    <3> QED
      BY <1>1, <1>3, <3>1, <3>2
  <2> QED
    BY <1>2, <2>1, <2>2
<1>12. PICK k : k = g
  OBVIOUS
<1>13. Moves(k)'
  BY <1>1, <1>9, <1>10, <1>11, <1>12 DEF Moves
<1> QED
  BY <1>13

LEMMA OnlyMovedStep == ~Reuse /\ IInv /\ IInv' /\ OnlyMoved /\ [Next]_vars => OnlyMoved'
<1> SUFFICES ASSUME ~Reuse, IInv, IInv', OnlyMoved, [Next]_vars, settled' # "no"
             PROVE  OnlyMoved'
  BY DEF OnlyMoved
<1>0. Typed /\ Listed /\ FoundAll
  BY DEF IInv
<1>1. ASSUME NEW f, NEW p, Sights(f, p)
      PROVE  OnlyMoved'
  <2>1. /\ Effect(f, p) /\ UNCHANGED <<disk, settled, overlooked>>
        /\ scan' = [scan EXCEPT !.left = @ \ {p}]
    BY <1>0, <1>1, SightingEffect DEF Sights, world, history, Pass
  <2>2. scan'.found = scan.found
    BY <1>0, <2>1 DEF Typed
  <2>3. \A q \in Places : Known(q)' /\ disk'[q] # Absent => lastAt'[q].content = disk'[q]
    BY <2>1 DEF Effect, OnlyMoved
  <2>4. Same(f, p) \/ (Taken(f, p) /\ settled = "renamed")
    BY <1>1, <2>1, KnownOrMoved
  <2>5. PICK h : Moves(h)
    BY <2>1 DEF OnlyMoved
  <2>6. \E g : Moves(g)'
    BY <1>1, <2>1, <2>4, <2>5, SameKeepsMoves, TakenKeepsMoves DEF OnlyMoved
  <2>7. settled' = "same" => Newcomers' = {}
    BY <2>1, <2>4 DEF OnlyMoved, Newcomers, Effect
  <2> QED
    BY <2>1, <2>2, <2>3, <2>6, <2>7 DEF OnlyMoved
<1>2. ASSUME UNCHANGED <<disk, sightings, docs, settled, overlooked>>,
             \A p \in scan'.found : disk[p] # Absent
      PROVE  OnlyMoved'
  <2>1. Newcomers' = Newcomers /\ Minted' = Minted
    BY <1>2 DEF Newcomers, Known, Minted, sightings
  <2>2. PICK h : Moves(h)
    BY <1>2 DEF OnlyMoved
  <2>3. Moves(h)'
    BY <1>2, <2>1, <2>2 DEF Moves, sightings
  <2> QED
    BY <1>2, <2>1, <2>3 DEF OnlyMoved, Known, sightings
<1>3. ASSUME UNCHANGED <<disk, sightings, docs, settled, overlooked>>,
             scan'.found = {} \/ scan'.found = scan.found
      PROVE  OnlyMoved'
  BY <1>2, <1>3 DEF OnlyMoved
<1>4. ASSUME NEW r \in Roots, SkipRoot(r)
      PROVE  OnlyMoved'
  BY <1>0, <1>3, <1>4 DEF SkipRoot, world, Typed
<1>5. ASSUME NEW r \in Roots, Discover(r)
      PROVE  OnlyMoved'
  <2>1. PICK found \in SUBSET Present(r) :
          /\ scan' = [scan EXCEPT !.roots = @ \ {r}, !.step = "files",
                                  !.found = found, !.left = found]
          /\ Omit(Present(r) \ found)
    BY <1>5 DEF Discover
  <2>2. /\ UNCHANGED <<disk, sightings, docs, settled, overlooked>>
        /\ scan'.found = found
    <3>1. settled' # "no"
      OBVIOUS
    <3> QED
      BY <1>0, <1>5, <2>1, <3>1 DEF Discover, Omit, Typed
  <2> QED
    BY <1>2, <2>2 DEF Present
<1>6. ASSUME NEW p \in Places, PassOver(p)
      PROVE  OnlyMoved'
  BY <1>0, <1>3, <1>6 DEF PassOver, Pass, Typed
<1>7. CASE EndRoot \/ EndRoots
  BY <1>0, <1>3, <1>7 DEF EndRoot, EndRoots, world, history, Typed
<1>8. ASSUME NEW d \in AllDocs, Extract(d) \/ PutOff(d) \/ ContentChanged(d)
      PROVE  OnlyMoved'
  BY <1>0, <1>3, <1>8 DEF Extract, PutOff, ContentChanged, Tried, world, history, Typed
<1>9. CASE StartScan
  BY <1>3, <1>9 DEF StartScan, NoScan, world
<1>10. CASE Abort
  <2>1. settled' = settled
    BY <1>0, <1>10 DEF Abort, Typed
  <2> QED
    BY <1>3, <1>10, <2>1 DEF Abort, NoScan, world
<1>11. CASE EndScan
  <2>1. /\ UNCHANGED <<disk, sightings, docs, overlooked>> /\ scan'.found = {}
        /\ settled' = IF calm /\ overlooked = {} THEN "same" ELSE settled
    BY <1>11 DEF EndScan, NoScan, world
  <2>2. CASE ~(calm /\ overlooked = {})
    BY <1>3, <2>1, <2>2
  <2>3. CASE calm /\ overlooked = {}
    <3>1. \A p \in Places : disk[p] # Absent => Known(p) /\ lastAt[p].content = disk[p]
      BY <1>11, <2>3, AllSeen DEF EndScan, Seen
    <3>2. Newcomers' = {}
      BY <2>1, <3>1 DEF Newcomers, Known, sightings
    <3>3. PICK k : k = [x \in {} |-> {}]
      OBVIOUS
    <3>4. Moves(k)'
      BY <3>2, <3>3 DEF Moves
    <3> QED
      BY <2>1, <3>1, <3>2, <3>4 DEF OnlyMoved, Known, sightings
  <2> QED
    BY <2>2, <2>3
<1>12. ASSUME NEW p \in Places, NEW q \in Places, Rename(p, q)
       PROVE  OnlyMoved'
  <2>1. /\ settled # "no" /\ settled' = "renamed" /\ scan.step = "idle" /\ ~Known(q)
        /\ UNCHANGED <<sightings, scan, overlooked>>
        /\ disk' = [disk EXCEPT ![p] = Absent, ![q] = disk[p]]
    BY <1>12 DEF Rename
  <2>2. scan'.found = {}
    BY <1>0, <2>1 DEF FoundAll
  <2>3. \A r \in Places : disk'[r] = IF r = q THEN disk[p] ELSE IF r = p THEN Absent ELSE disk[r]
    BY <1>0, <2>1 DEF Typed
  <2>4. \A r \in Places : Known(r)' /\ disk'[r] # Absent => lastAt'[r].content = disk'[r]
    BY <2>1, <2>3 DEF OnlyMoved, Known, sightings
  <2>5. \E g : Moves(g)'
    <3>1. disk[p] # Absent
      BY <1>12 DEF Rename
    <3>2. PICK h : Moves(h)
      BY <2>1 DEF OnlyMoved
    <3> QED
      BY <1>12, <2>1, <3>1, <3>2, RenamedKeepsMoves DEF OnlyMoved
  <2> QED
    BY <2>1, <2>2, <2>4, <2>5 DEF OnlyMoved
<1>13. ASSUME NEW r \in Roots, MountOrUnmount(r)
       PROVE  OnlyMoved'
  BY <1>3, <1>13 DEF MountOrUnmount
<1>14. CASE UNCHANGED vars
  BY <1>3, <1>14 DEF vars, world, history
<1> QED
  BY <1>0, <1>1, <1>4, <1>5, <1>6, <1>7, <1>8, <1>9, <1>10, <1>11, <1>12, <1>13, <1>14, OutcomeSights
     DEF Next, Scan, World, Write, Delete

\* Once a scan has agreed with the disk, scanning again adds nothing, and neither
\* does any number of renames between scans (mvp.md:358, 368; scanner.py:82-101).
THEOREM RenamesAddNothing == ~Reuse => (Spec => SettledAddsNothing)
<1> SUFFICES ASSUME ~Reuse
             PROVE  Spec => SettledAddsNothing
  OBVIOUS
<1>1. Init => OnlyMoved
  BY DEF Init, OnlyMoved
<1>2. IInv /\ IInv' /\ OnlyMoved /\ [Next]_vars => OnlyMoved'
  BY OnlyMovedStep
<1>3. IInv /\ OnlyMoved /\ [Next]_vars => [settled # "no" => docs' = docs]_vars
  <2> SUFFICES ASSUME IInv, OnlyMoved, [Next]_vars, settled # "no"
               PROVE  docs' = docs
    OBVIOUS
  <2>1. Typed /\ Listed
    BY DEF IInv
  <2> QED
    BY <2>1, SightingSteps, KnownOrMoved
<1>4. Spec => []IInv
  BY Invariance
<1> QED
  BY <1>1, <1>2, <1>3, <1>4, PTL DEF Spec, SettledAddsNothing
=============================================================================
