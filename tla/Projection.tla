------------------------------ MODULE Projection ------------------------------
(***************************************************************************)
(* Obi-Wan's search projection (obiwan/projection.py) over the record it   *)
(* is built from.  The record is append-only and shared; the projection    *)
(* keeps a row of state per chunk in the record and the searchable rows in *)
(* an FTS5 file of its own.  Requests run on a thread pool and no lock     *)
(* covers a call of the projection, so each call is a sequence of steps.   *)
(*                                                                         *)
(* All threads share ONE connection to the FTS file: a row one of them has *)
(* written or deleted is visible to all at once, and the commit of any of  *)
(* them commits what every other has in progress.                          *)
(*                                                                         *)
(* A document stands for its chunks: they are written, removed and marked  *)
(* by one statement each time.                                             *)
(***************************************************************************)
EXTENDS Integers

CONSTANTS
  Subjects,    \* what a record is about: a file, a submitted or relayed text
  Threads,     \* the threads that call the projection
  MaxVersion   \* bound: versions of a subject

ASSUME VersionAssumption == MaxVersion \in Nat \ {0}

Docs  == Subjects \X (1 .. MaxVersion)
NoDoc == <<>>

VARIABLES
  versions,   \* how many versions of each subject are on record
  chunked,    \* documents whose chunks are on record
  forgotten,  \* subjects with a tombstone
  fts,        \* FTS rows of each document that any thread can see
  disk,       \* FTS rows of each document that survive a crash
  proj,       \* state of each document's projection rows
  thread      \* what each thread is about to do, and its local variables

record == <<versions, chunked, forgotten>>
index  == <<fts, disk, proj>>

States == {"none", "pending", "current", "stale"}

\* index_document and retire_subject, statement by statement.
CallSteps ==
  {"latest", "tombstone", "remove", "insert", "commit", "state", "older", "retire"}

Idle == [at |-> "idle", doc |-> NoDoc, ids |-> {}, mark |-> "none"]

\* A call of index_document(d), or of retire_subject for the subject of d.
Calling(step, d) == [at |-> step, doc |-> d, ids |-> {}, mark |-> "none"]

\* Mutant: versions are numbered from zero.
LatestMut(s) == <<s, versions[s] - 1>>

Latest(s) == <<s, versions[s]>>

IsLatest(d) == d = Latest(d[1])

\* Latest live documents with chunks: what a search should find.
Searchable(d) == d \in chunked /\ IsLatest(d) /\ d[1] \notin forgotten

\* Mutant: a document whose rows went stale or pending is not taken for repair.
NeedingIndexMut == {d \in Docs : Searchable(d) /\ proj[d] = "none"}

NeedingIndex == {d \in Docs : Searchable(d) /\ proj[d] # "current"}

ChunkIdsForSubject(s) == {d \in chunked : d[1] = s}

Empty == [d \in Docs |-> 0]

InitProjection ==
  /\ versions = [s \in Subjects |-> 0]
  /\ chunked = {} /\ forgotten = {}
  /\ fts = Empty /\ disk = Empty
  /\ proj = [d \in Docs |-> "none"]
  /\ thread = [t \in Threads |-> Idle]

At(t, step) == thread[t].at = step

\* The call of thread t moves on, with these chunks to remove or mark next.
Go(t, step, ids, mark) ==
  thread' = [thread EXCEPT
    ![t] = [at |-> step, doc |-> @.doc, ids |-> ids, mark |-> mark]]

Return(t) == thread' = [thread EXCEPT ![t] = Idle]

-----------------------------------------------------------------------------

\* A version that is no longer the latest must not displace the one that is.
ReadLatest(t) ==
  /\ At(t, "latest")
  /\ LET d == thread[t].doc
     IN  IF IsLatest(d) THEN Go(t, "tombstone", {}, "none")
         ELSE Go(t, "remove", {d}, "stale")
  /\ UNCHANGED <<record, index>>

\* Forgotten subjects are not indexed.
ReadTombstone(t) ==
  /\ At(t, "tombstone")
  /\ LET d == thread[t].doc
     IN  Go(t, "remove", {d}, IF d[1] \in forgotten THEN "stale" ELSE "current")
  /\ UNCHANGED <<record, index>>

\* Mutant: removing superseded or forgotten rows is not followed by a commit.
RemoveMut(t) ==
  /\ At(t, "remove")
  /\ fts' = [d \in Docs |-> IF d \in thread[t].ids THEN 0 ELSE fts[d]]
  /\ Go(t, IF thread[t].mark = "current" THEN "insert" ELSE "state",
        thread[t].ids, thread[t].mark)
  /\ UNCHANGED <<record, disk, proj>>

Remove(t) ==
  /\ At(t, "remove")
  /\ fts' = [d \in Docs |-> IF d \in thread[t].ids THEN 0 ELSE fts[d]]
  /\ Go(t, IF thread[t].mark = "current" THEN "insert" ELSE "commit",
        thread[t].ids, thread[t].mark)
  /\ UNCHANGED <<record, disk, proj>>

\* Mutant: rows that the record says are current are not written again.
InsertMut(t) ==
  /\ At(t, "insert")
  /\ fts' = IF proj[thread[t].doc] = "current" THEN fts
            ELSE [fts EXCEPT ![thread[t].doc] = @ + 1]
  /\ Go(t, "commit", thread[t].ids, "current")
  /\ UNCHANGED <<record, disk, proj>>

\* The FTS table has no key: inserting twice leaves two rows.
Insert(t) ==
  /\ At(t, "insert")
  /\ fts' = [fts EXCEPT ![thread[t].doc] = @ + 1]
  /\ Go(t, "commit", thread[t].ids, "current")
  /\ UNCHANGED <<record, disk, proj>>

Commit(t) ==
  /\ At(t, "commit")
  /\ disk' = fts
  /\ Go(t, "state", thread[t].ids, thread[t].mark)
  /\ UNCHANGED <<record, fts, proj>>

SetState(t) ==
  /\ At(t, "state")
  /\ proj' = [d \in Docs |-> IF d \in thread[t].ids THEN thread[t].mark ELSE proj[d]]
  /\ IF thread[t].mark = "current" THEN Go(t, "older", {}, "none") ELSE Return(t)
  /\ UNCHANGED <<record, fts, disk>>

\* Mutant: the comparison of versions is the wrong way round.
OlderMut(d) == {e \in ChunkIdsForSubject(d[1]) : e[2] > d[2]}

\* Every other version of the subject that has chunks by now, newer ones too.
Older(d) == ChunkIdsForSubject(d[1]) \ {d}

ReadOlder(t) ==
  /\ At(t, "older")
  /\ LET ids == Older(thread[t].doc)
     IN  IF ids = {} THEN Return(t) ELSE Go(t, "remove", ids, "stale")
  /\ UNCHANGED <<record, index>>

RetireSubject(t) ==
  /\ At(t, "retire")
  /\ LET ids == ChunkIdsForSubject(thread[t].doc[1])
     IN  IF ids = {} THEN Return(t) ELSE Go(t, "remove", ids, "stale")
  /\ UNCHANGED <<record, index>>

CallStep(t) ==
  \/ ReadLatest(t) \/ ReadTombstone(t) \/ Remove(t) \/ Insert(t) \/ Commit(t)
  \/ SetState(t) \/ ReadOlder(t) \/ RetireSubject(t)

=============================================================================
