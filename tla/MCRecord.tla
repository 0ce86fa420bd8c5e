-------------------------------- MODULE MCRecord --------------------------------
(***************************************************************************)
(* Record, and beside it every text chunking may be given: the two share no  *)
(* state, so the record moves only where the text is empty.                  *)
(***************************************************************************)
EXTENDS Record, Chunking

VARIABLE written  \* the text to be chunked

MCInit == Init /\ written \in BoundedSeq(Characters, MaxLength)

\* Nor do the tables depend on the shape a record once had: they move on one that
\* has always been of this build's.  A count that was disturbed is followed no
\* further, as CompleteWasTrue says nothing of it (NeverLooksComplete's run follows
\* it).  A failure and a confirmation do not meet.
MCNext ==
  /\ written = <<>> /\ Next /\ UNCHANGED written
  /\ origin # SchemaVersion => UNCHANGED <<tables, callers, request, coverage>>
  /\ coverage'.quiet
  /\ failures' = 0 \/ \A s \in Texts : documents'[s] <= 1

MCSpec == MCInit /\ [][MCNext]_<<vars, written>>

\* What is searchable is the whole text: its chunks are in order, apart, within
\* the limit and as full as they can be, and every letter is in one of them
\* (chunking.py:1, 43-49, 62-67).
ChunksSound == \A limit \in Limits : Covered(written, limit)

=============================================================================
