-------------------------------- MODULE Scanner --------------------------------
(***************************************************************************)
(* How Obi-Wan tells files apart (obiwan/scanner.py): each file found on   *)
(* disk is resolved, by its path first and its bytes second, to a file_id  *)
(* the record knows or to a new one; the drain that follows extracts each  *)
(* new version from the place its file was last seen at (obiwan/worker.py).*)
(*                                                                         *)
(* The record keeps every sighting; only the latest at each place and the  *)
(* latest of each file are ever read, and the order of the latter.  The    *)
(* disk belongs to others: it may change between any two steps of a scan.  *)
(***************************************************************************)
EXTENDS Integers, SequencesExt

CONSTANTS
  Roots,        \* the source roots: numbers, in the order configured
  Places,       \* a root and a path in it: a number, in the order scanned
  Contents,     \* file contents (and so their hashes)
  MaxFiles,     \* bound: file_ids minted
  MaxVersions,  \* bound: versions of one file
  MaxChanges,   \* bound: changes of the disk, and failures to read it
  Reuse         \* may a file appear at a path the record already knows

ASSUME PlacesAssumption == Roots \subseteq Nat /\ Places \subseteq Roots \X Nat

Absent == "absent"

ASSUME ContentsAssumption == Absent \notin Contents

ASSUME BoundsAssumption == MaxFiles \in Nat /\ MaxVersions \in Nat /\ MaxChanges \in Nat

ASSUME ReuseAssumption == Reuse \in BOOLEAN

Files == 1 .. MaxFiles

VARIABLES
  disk,       \* what is at each place
  mounted,    \* the roots that can be reached
  lastAt,     \* the latest sighting at each place: which file, which content
  lastOf,     \* the latest sighting of each file: where, which content
  recency,    \* the files, the one sighted longest ago first
  docs,       \* the versions of each file: their contents
  extracted,  \* versions whose chunks are on record
  scan,       \* the scan: its step, the roots and places it has left, what it
              \* found on disk in this root, the versions it has left to extract
  settled,    \* (history) what became of the disk since a scan last agreed with
              \* it: nothing, only renames, or anything
  calm,       \* (history) nothing has changed or failed since this scan began
  overlooked, \* (history) the files a listing left out while they were there
  changes

sightings == <<lastAt, lastOf, recency>>
world == <<disk, mounted, changes>>
history == <<settled, calm, overlooked>>
vars == <<world, sightings, docs, extracted, scan, history>>

NoSighting == [file |-> 0, content |-> Absent]
NoScan == [step |-> "idle", roots |-> {}, left |-> {}, found |-> {},
           todo |-> {}]

Init ==
  /\ disk \in [Places -> Contents \cup {Absent}]
  /\ mounted = Roots
  /\ lastAt = [p \in Places |-> NoSighting]
  /\ lastOf = [f \in Files |-> [place |-> <<>>, content |-> Absent]]
  /\ recency = <<>>
  /\ docs = [f \in Files |-> <<>>]
  /\ extracted = {}
  /\ scan = NoScan
  /\ settled = "no" /\ calm = TRUE /\ overlooked = {}
  /\ changes = 0

Known(p) == lastAt[p] # NoSighting
Minted == {f \in Files : docs[f] # <<>>}
AllDocs == {d \in Files \X (1 .. MaxVersions) : d[2] <= Len(docs[d[1]])}

-----------------------------------------------------------------------------
(***************************************************************************)
(* The scan of the roots.                                                  *)
(***************************************************************************)

StartScan ==
  /\ scan.step = "idle"
  /\ scan' = [NoScan EXCEPT !.step = "roots", !.roots = Roots]
  /\ calm' = TRUE
  /\ UNCHANGED <<world, sightings, docs, extracted, settled, overlooked>>

NextRoot(r) ==
  /\ scan.step = "roots" /\ r \in scan.roots
  /\ \A q \in scan.roots : r <= q

\* Something changes, or a call on the disk fails.
Change == changes < MaxChanges /\ changes' = changes + 1 /\ calm' = FALSE

\* An absent mount, or a root that cannot be listed, is a gap in the report;
\* nothing is marked deleted.
SkipRoot(r) ==
  /\ NextRoot(r)
  /\ scan' = [scan EXCEPT !.roots = @ \ {r}]
  /\ IF r \in mounted THEN Change ELSE calm' = FALSE /\ UNCHANGED changes
  /\ UNCHANGED <<disk, mounted, sightings, docs, extracted, settled, overlooked>>

Present(r) == {p \in Places : p[1] = r /\ disk[p] # Absent}

\* A file whose is_file or stat fails, or that is too large, is left out.
Omit(ps) ==
  LET files == {lastAt[p].file : p \in {p \in ps : Known(p)}}
  IN  /\ overlooked' = overlooked \cup files
      /\ settled' = IF files = {} THEN settled ELSE "no"
      /\ IF ps = {} THEN UNCHANGED <<changes, calm>> ELSE Change

Discover(r) ==
  /\ NextRoot(r) /\ r \in mounted
  /\ \E found \in SUBSET Present(r) :
       /\ scan' = [scan EXCEPT !.roots = @ \ {r}, !.step = "files",
                               !.found = found, !.left = found]
       /\ Omit(Present(r) \ found)
  /\ UNCHANGED <<disk, mounted, sightings, docs, extracted>>

NextPlace(p) ==
  /\ scan.step = "files" /\ p \in scan.left
  /\ \A q \in scan.left : p[2] <= q[2]

Pass(p) == scan' = [scan EXCEPT !.left = @ \ {p}]

\* The file has gone since it was discovered, or cannot be read: the record is
\* untouched.
PassOver(p) ==
  /\ NextPlace(p)
  /\ Pass(p)
  /\ IF disk[p] = Absent \/ p[1] \notin mounted THEN UNCHANGED <<changes, calm>> ELSE Change
  /\ UNCHANGED <<disk, mounted, sightings, docs, extracted, settled, overlooked>>

Readable(p) == NextPlace(p) /\ disk[p] # Absent /\ p[1] \in mounted

\* Mutant: earlier sightings of the file still count.
AddSightingMutTwice(f, p) ==
  /\ lastAt' = [lastAt EXCEPT ![p] = [file |-> f, content |-> disk[p]]]
  /\ lastOf' = [lastOf EXCEPT ![f] = [place |-> p, content |-> disk[p]]]
  /\ recency' = Append(recency, f)

\* The recency of the files, leaving out this one.
Without(f) ==
  IF f \in ToSet(recency) THEN RemoveAt(recency, CHOOSE i \in DOMAIN recency : recency[i] = f)
  ELSE recency

AddSighting(f, p) ==
  /\ lastAt' = [lastAt EXCEPT ![p] = [file |-> f, content |-> disk[p]]]
  /\ lastOf' = [lastOf EXCEPT ![f] = [place |-> p, content |-> disk[p]]]
  /\ recency' = Append(Without(f), f)

AddDocument(f, p) == docs' = [docs EXCEPT ![f] = Append(@, disk[p])]

Unchanged(p) ==
  /\ Readable(p) /\ Known(p) /\ lastAt[p].content = disk[p]
  /\ AddSighting(lastAt[p].file, p)
  /\ Pass(p)
  /\ UNCHANGED <<world, docs, extracted, history>>

Changed(p) ==
  /\ Readable(p) /\ Known(p) /\ lastAt[p].content # disk[p]
  /\ Len(docs[lastAt[p].file]) < MaxVersions
  /\ AddSighting(lastAt[p].file, p)
  /\ AddDocument(lastAt[p].file, p)
  /\ Pass(p)
  /\ UNCHANGED <<world, extracted, history>>

\* The files last seen with this content, by their position in the recency.
WithHash(c) == {i \in DOMAIN recency : lastOf[recency[i]].content = c}

\* Mutant: a file still at its old place may have moved here.
MoversMutPresent(p) == {i \in WithHash(disk[p]) : lastOf[recency[i]].place[1] = p[1]}

\* Mutant: the bytes a file was first seen with decide.
MoversMutFirst(p) ==
  {i \in DOMAIN recency : /\ docs[recency[i]][1] = disk[p]
                          /\ lastOf[recency[i]].place[1] = p[1]
                          /\ lastOf[recency[i]].place \notin scan.found}

\* Mutant: the bytes are not compared.
MoversMutAny(p) ==
  {i \in DOMAIN recency : /\ lastOf[recency[i]].place[1] = p[1]
                          /\ lastOf[recency[i]].place \notin scan.found}

\* Files of this root with the same bytes whose last place is empty now.
Movers(p) ==
  {i \in WithHash(disk[p]) : /\ lastOf[recency[i]].place[1] = p[1]
                             /\ lastOf[recency[i]].place \notin scan.found}

Moved(p) ==
  /\ Readable(p) /\ ~Known(p) /\ Movers(p) # {}
  /\ AddSighting(recency[Min(Movers(p))], p)
  /\ Pass(p)
  /\ UNCHANGED <<world, docs, extracted, history>>

\* A file of its own, even if another has the same bytes.
New(p) ==
  /\ Readable(p) /\ ~Known(p) /\ Movers(p) = {}
  /\ \E f \in Files :
       /\ f \notin Minted /\ \A g \in Files : g < f => g \in Minted
       /\ AddSighting(f, p)
       /\ AddDocument(f, p)
  /\ Pass(p)
  /\ UNCHANGED <<world, extracted, history>>

EndRoot ==
  /\ scan.step = "files" /\ scan.left = {}
  /\ scan' = [scan EXCEPT !.step = "roots", !.found = {}]
  /\ UNCHANGED <<world, sightings, docs, extracted, history>>

EndRoots ==
  /\ scan.step = "roots" /\ scan.roots = {}
  /\ scan' = [scan EXCEPT !.step = "drain", !.todo = AllDocs \ extracted]
  /\ UNCHANGED <<world, sightings, docs, extracted, history>>

-----------------------------------------------------------------------------
(***************************************************************************)
(* The drain: each version is read where its file was last seen.           *)
(***************************************************************************)

Tried(d) ==
  /\ scan.step = "drain" /\ d \in scan.todo
  /\ scan' = [scan EXCEPT !.todo = @ \ {d}]

OnDisk(d) == LET p == lastOf[d[1]].place
             IN  IF p[1] \in mounted THEN disk[p] ELSE Absent

Extract(d) ==
  /\ Tried(d)
  /\ OnDisk(d) = docs[d[1]][d[2]]
  /\ extracted' = extracted \cup {d}
  /\ UNCHANGED <<world, sightings, docs, history>>

\* The work row is not due, the file is not there, or it cannot be read.
PutOff(d) == Tried(d) /\ UNCHANGED <<world, sightings, docs, extracted, history>>

ContentChanged(d) ==
  /\ Tried(d)
  /\ OnDisk(d) \notin {Absent, docs[d[1]][d[2]]}
  /\ UNCHANGED <<world, sightings, docs, extracted, history>>

EndScan ==
  /\ scan.step = "drain" /\ scan.todo = {}
  /\ scan' = NoScan
  /\ settled' = IF calm /\ overlooked = {} THEN "same" ELSE settled
  /\ UNCHANGED <<world, sightings, docs, extracted, calm, overlooked>>

\* The process dies, or the request raises; every file was a transaction.
Abort ==
  /\ scan.step # "idle"
  /\ scan' = NoScan
  /\ settled' = IF settled = "same" THEN "same" ELSE "no"
  /\ UNCHANGED <<world, sightings, docs, extracted, calm, overlooked>>

-----------------------------------------------------------------------------
(***************************************************************************)
(* The world: files come and go, are edited and renamed.                   *)
(***************************************************************************)

Free(p) == disk[p] = Absent /\ (Reuse \/ ~Known(p))

Write(p, c) ==
  /\ Change
  /\ disk[p] # c /\ (disk[p] # Absent \/ Free(p))
  /\ disk' = [disk EXCEPT ![p] = c]
  /\ settled' = "no"
  /\ UNCHANGED <<mounted, sightings, docs, extracted, scan, overlooked>>

Delete(p) ==
  /\ Change
  /\ disk[p] # Absent
  /\ disk' = [disk EXCEPT ![p] = Absent]
  /\ settled' = "no"
  /\ UNCHANGED <<mounted, sightings, docs, extracted, scan, overlooked>>

Rename(p, q) ==
  /\ Change
  /\ p[1] = q[1] /\ disk[p] # Absent /\ Free(q)
  /\ disk' = [disk EXCEPT ![p] = Absent, ![q] = disk[p]]
  /\ settled' = IF settled # "no" /\ scan.step = "idle" /\ ~Known(q)
                THEN "renamed" ELSE "no"
  /\ UNCHANGED <<mounted, sightings, docs, extracted, scan, overlooked>>

MountOrUnmount(r) ==
  /\ Change
  /\ mounted' = IF r \in mounted THEN mounted \ {r} ELSE mounted \cup {r}
  /\ UNCHANGED <<disk, sightings, docs, extracted, scan, settled, overlooked>>

-----------------------------------------------------------------------------

Scan ==
  \/ \E r \in Roots : SkipRoot(r) \/ Discover(r)
  \/ \E p \in Places : PassOver(p) \/ Unchanged(p) \/ Changed(p) \/ Moved(p) \/ New(p)
  \/ EndRoot \/ EndRoots
  \/ \E d \in AllDocs : Extract(d) \/ PutOff(d) \/ ContentChanged(d)
  \/ EndScan

World ==
  \/ \E p \in Places : Delete(p) \/ \E c \in Contents : Write(p, c)
  \/ \E p, q \in Places : Rename(p, q)
  \/ \E r \in Roots : MountOrUnmount(r)

Next == StartScan \/ Scan \/ Abort \/ World

Spec == Init /\ [][Next]_vars

-----------------------------------------------------------------------------
(***************************************************************************)
(* Properties.                                                             *)
(***************************************************************************)

\* Sightings name minted files; recency lists each of them once.
TypeOK ==
  /\ disk \in [Places -> Contents \cup {Absent}]
  /\ mounted \subseteq Roots
  /\ \A p \in Places : Known(p) => lastAt[p].file \in Minted /\ lastAt[p].content \in Contents
  /\ \A f \in Minted : lastOf[f].place \in Places /\ lastOf[f].content \in Contents
  /\ ToSet(recency) = Minted /\ IsInjective(recency)
  /\ extracted \cup scan.todo \subseteq AllDocs
  /\ scan.step \in {"idle", "roots", "files", "drain"}
  /\ scan.left \subseteq scan.found /\ scan.found \subseteq Places
  /\ settled \in {"no", "same", "renamed"} /\ overlooked \subseteq Minted

\* "Running ingestion repeatedly against unchanged source roots must not create
\* duplicate documents", and "identity survives the move" (mvp.md:358, 368): once
\* a scan has agreed with the disk, neither nothing nor renames add to the record,
\* however often scans are begun, aborted, or find a root unmounted or a file
\* unreadable; as long as no listing leaves out a file on record that is there.
SettledAddsNothing == [][settled # "no" => docs' = docs]_vars

\* After a scan that nothing disturbed, whatever is on disk is on record: under
\* the file of its place, with that content as one of its versions.
NothingMissed ==
  [][EndScan /\ calm =>
       \A p \in Places : disk[p] # Absent =>
         /\ Known(p) /\ lastAt[p].content = disk[p]
         /\ disk[p] \in ToSet(docs[lastAt[p].file])]_vars

\* "Two files with identical content at two paths are two files"
\* (scanner.py:94): two places on disk share a file_id only if some listing left
\* that very file out while it was there, and took a copy of it for its new place.
OwnIdentity ==
  scan.step = "drain" /\ calm =>
    \A p, q \in Places :
      p # q /\ disk[p] # Absent /\ disk[q] # Absent /\ lastAt[p].file = lastAt[q].file
        => lastAt[p].file \in overlooked

\* A version of a file that is on disk as the scan saw it is never refused as
\* changed: "the next scan records a new version" (worker.py:61); for files that
\* no listing has left out while they were there.
SeenIsReadable ==
  [][\A d \in AllDocs : ContentChanged(d) /\ calm /\ d[1] \notin overlooked
       => d[2] < Len(docs[d[1]])]_vars

=============================================================================
