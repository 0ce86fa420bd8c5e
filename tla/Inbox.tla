--------------------------------- MODULE Inbox ---------------------------------
(***************************************************************************)
(* The inbox (obiwan/inbox.py): what is dropped there is recorded and      *)
(* moved to processed/, or moved to failed/ with the reason beside it.     *)
(* The record and the folders cannot change together, so a move that was   *)
(* interrupted after its commit is recognised by its bytes in a later scan.*)
(*                                                                         *)
(* A name is a sequence: <<>> is a.md, <<1>> is a-1.md, <<1, 1>> is        *)
(* a-1-1.md; one day is enough.  Drops appear whole, as PARTIAL_SUFFIXES   *)
(* asks of whoever copies them in.                                         *)
(***************************************************************************)
EXTENDS Integers, FiniteSets, SequencesExt

CONSTANTS
  Names,        \* names a file may be dropped under, in the order listed
  Contents,     \* file contents (and so their hashes)
  Corrupt,      \* those that cannot be extracted
  InCorpus,     \* those a source root also holds, on record from there
  MaxDrops,     \* bound: files dropped
  MaxRemovals,  \* bound: pending files taken back
  MaxFaults,    \* bound: moves and transactions that fail
  MaxCrashes,   \* bound: crashes of the process
  Tidy          \* may somebody empty processed/

Absent == "absent"
Vanished == "vanished"

ASSUME NamesAssumption == Names \in Seq(Seq(Nat)) /\ IsInjective(Names)

ASSUME ContentsAssumption ==
  /\ Corrupt \subseteq Contents /\ InCorpus \subseteq Contents
  /\ IsFiniteSet(InCorpus)
  /\ {Absent, Vanished} \cap Contents = {}

ASSUME BoundsAssumption ==
  /\ MaxDrops \in Nat /\ MaxRemovals \in Nat /\ MaxFaults \in Nat /\ MaxCrashes \in Nat
  /\ Tidy \in BOOLEAN

\* As many numbers as there can be files and reasons of one name.
Numbers == 1 .. (MaxDrops + MaxRemovals + MaxFaults + MaxCrashes)

\* In processed/ or failed/: the name, or the name with a number; and a place
\* in a source root, where a path means nothing to the inbox.
Numbered(n) == {n} \cup {Append(n, k) : k \in Numbers}
Places == UNION {Numbered(n) : n \in ToSet(Names)}
Elsewhere == <<0>>

VARIABLES
  pending,    \* the files at the top of the inbox, by name
  processed,  \* the files in processed/, and in the source root
  failed,     \* the files in failed/
  errors,     \* the error.json files in failed/: what each is about
  records,    \* the files on record, in order: their root, path and hash
  indexed,    \* those whose chunks are in the projection
  job,        \* the scan: its step, the names left, the file in hand, where to
  drops,      \* (history) how often each content was dropped,
  takenBack,  \* (history) how often it was taken back while pending,
  emptied,    \* (history) and how often removed from processed/
  bounds      \* drops, removals, faults and crashes so far

folders == <<pending, processed, failed, errors>>
history == <<drops, takenBack, emptied>>
vars == <<folders, records, indexed, job, history, bounds>>

NoJob == [step |-> "idle", left |-> {}, name |-> <<>>, to |-> <<>>]

Init ==
  /\ pending = [n \in ToSet(Names) |-> Absent]
  /\ processed = [p \in Places \cup {Elsewhere} |-> Absent]
  /\ failed = [p \in Places |-> Absent]
  /\ errors = [p \in Places |-> Absent]
  /\ records = SetToSeq({[root |-> "corpus", place |-> Elsewhere, content |-> c]
                         : c \in InCorpus})
  /\ indexed = DOMAIN records
  /\ job = NoJob
  /\ drops = [c \in Contents |-> 0]
  /\ takenBack = drops /\ emptied = drops
  /\ bounds = [drops |-> 0, removals |-> 0, faults |-> 0, crashes |-> 0]

-----------------------------------------------------------------------------
(***************************************************************************)
(* The scan, one call on the disk or the record at a time.                 *)
(***************************************************************************)

\* The position of a name in the listing.
Listed(n) == CHOOSE i \in DOMAIN Names : Names[i] = n

Step(step) == job.step = step
Goto(step) == job' = [job EXCEPT !.step = step]
InHand == pending[job.name]

\* An operation of the disk or the record raises.
Fault ==
  /\ bounds.faults < MaxFaults
  /\ bounds' = [bounds EXCEPT !.faults = @ + 1]

StartScan ==
  /\ Step("idle")
  /\ job' = [NoJob EXCEPT !.step = "files",
                          !.left = {n \in ToSet(Names) : pending[n] # Absent}]
  /\ UNCHANGED <<folders, records, indexed, history, bounds>>

\* Mutant: the file need not have been on its way to the inbox's own folder.
InterruptedMutRoot(c) ==
  {i \in DOMAIN records : records[i].content = c /\ processed[records[i].place] = Absent}

\* Mutant: an interrupted move is not recognised.
InterruptedMutNever(c) == {}

\* Recorded under these bytes, but never seen to arrive.
Interrupted(c) ==
  {i \in DOMAIN records : /\ records[i].content = c /\ records[i].root = "inbox"
                          /\ processed[records[i].place] = Absent}

\* The first name left: its bytes decide what is to be done with it.  Bytes
\* that cannot be read, or not be extracted, are a failure.
Take(n) ==
  /\ Step("files") /\ n \in job.left
  /\ \A m \in job.left : Listed(n) <= Listed(m)
  /\ job' = [job EXCEPT
       !.left = @ \ {n}, !.name = n,
       !.to = IF Interrupted(pending[n]) # {} THEN records[Min(Interrupted(pending[n]))].place
              ELSE <<>>,
       !.step = IF Interrupted(pending[n]) # {} THEN "recover"
                ELSE IF pending[n] \in Corrupt \cup {Absent} THEN "explain" ELSE "commit"]
  /\ UNCHANGED <<folders, records, indexed, history, bounds>>

\* A move onto whatever is at its destination.
Replace(folder, to) == [folder EXCEPT ![to] = InHand]
Gone == pending' = [pending EXCEPT ![job.name] = Absent]

Recover ==
  /\ Step("recover") /\ InHand # Absent
  /\ processed' = Replace(processed, job.to) /\ Gone
  /\ Goto("files")
  /\ UNCHANGED <<failed, errors, records, indexed, history, bounds>>

\* This move is among what the handler takes for an unreadable file.
RecoverFails ==
  /\ Step("recover")
  /\ IF InHand = Absent THEN UNCHANGED bounds ELSE Fault
  /\ Goto("explain")
  /\ UNCHANGED <<folders, records, indexed, history>>

\* Mutant: a place that is taken is not avoided.
UniqueMut(n, taken) == n

\* The name, if nothing has it, else the first number nothing has.
Unique(n, taken) ==
  IF n \notin taken THEN n
  ELSE LET k == CHOOSE k \in Numbers :
                  /\ Append(n, k) \notin taken
                  /\ \A j \in 1 .. (k - 1) : Append(n, j) \in taken
       IN  Append(n, k)

Taken(folder) == {p \in Places : folder[p] # Absent}

Commit ==
  /\ Step("commit") /\ InHand # Absent
  /\ LET to == Unique(job.name, Taken(processed))
     IN  /\ records' = Append(records,
              [root |-> "inbox", place |-> to, content |-> InHand])
         /\ job' = [job EXCEPT !.step = "move", !.to = to]
  /\ UNCHANGED <<folders, indexed, history, bounds>>

CommitFails ==
  /\ Step("commit") /\ InHand # Absent
  /\ Fault
  /\ Goto("files")
  /\ UNCHANGED <<folders, records, indexed, history>>

\* The file went between its extraction and its commit: the request raises.
CommitRaises ==
  /\ Step("commit") /\ InHand = Absent
  /\ job' = NoJob
  /\ UNCHANGED <<folders, records, indexed, history, bounds>>

Move ==
  /\ Step("move") /\ InHand # Absent
  /\ processed' = Replace(processed, job.to) /\ Gone
  /\ Goto("index")
  /\ UNCHANGED <<failed, errors, records, indexed, history, bounds>>

MoveFails ==
  /\ Step("move")
  /\ IF InHand = Absent THEN UNCHANGED bounds ELSE Fault
  /\ Goto("files")
  /\ UNCHANGED <<folders, records, indexed, history>>

Index ==
  /\ Step("index")
  /\ indexed' = indexed \cup {Len(records)}
  /\ Goto("files")
  /\ UNCHANGED <<folders, records, history, bounds>>

\* move_failed writes the reason first, then moves the file beside it.  A name
\* with a number must be free of an old reason too.
Explain ==
  /\ Step("explain")
  /\ LET taken == Taken(failed) \cup {p \in Taken(errors) : p # job.name}
         to == Unique(job.name, taken)
     IN  /\ errors' = [errors EXCEPT ![to] = IF InHand = Absent THEN Vanished ELSE InHand]
         /\ job' = [job EXCEPT !.step = "set aside", !.to = to]
  /\ UNCHANGED <<pending, processed, failed, records, indexed, history, bounds>>

\* Mutant: the reason is written, the file stays.
SetAsideMut ==
  /\ Step("set aside") /\ InHand # Absent
  /\ Goto("files")
  /\ UNCHANGED <<folders, records, indexed, history, bounds>>

SetAside ==
  /\ Step("set aside") /\ InHand # Absent
  /\ failed' = Replace(failed, job.to) /\ Gone
  /\ Goto("files")
  /\ UNCHANGED <<processed, errors, records, indexed, history, bounds>>

\* Nothing catches the failure of this move: the request raises.
SetAsideRaises ==
  /\ Step("set aside")
  /\ IF InHand = Absent THEN UNCHANGED bounds ELSE Fault
  /\ job' = NoJob
  /\ UNCHANGED <<folders, records, indexed, history>>

\* The rest of the scan indexes whatever is on record and not searchable.
Sweep ==
  /\ Step("files") /\ job.left = {}
  /\ indexed' = DOMAIN records
  /\ job' = NoJob
  /\ UNCHANGED <<folders, records, history, bounds>>

Crash ==
  /\ ~Step("idle") /\ bounds.crashes < MaxCrashes
  /\ bounds' = [bounds EXCEPT !.crashes = @ + 1]
  /\ job' = NoJob
  /\ UNCHANGED <<folders, records, indexed, history>>

-----------------------------------------------------------------------------
(***************************************************************************)
(* Whoever uses the inbox.                                                 *)
(***************************************************************************)

Where(c, folder) == Cardinality({p \in DOMAIN folder : folder[p] = c})

\* Nobody swaps a file for another while the scan has it in hand.
Drop(n, c) ==
  /\ bounds.drops < MaxDrops /\ pending[n] = Absent
  /\ Step("idle") \/ Step("files") \/ n # job.name
  /\ pending' = [pending EXCEPT ![n] = c]
  /\ drops' = [drops EXCEPT ![c] = @ + 1]
  /\ bounds' = [bounds EXCEPT !.drops = @ + 1]
  /\ UNCHANGED <<processed, failed, errors, records, indexed, job, takenBack, emptied>>

TakeBack(n) ==
  /\ bounds.removals < MaxRemovals /\ pending[n] # Absent
  /\ pending' = [pending EXCEPT ![n] = Absent]
  /\ takenBack' = [takenBack EXCEPT ![pending[n]] = @ + 1]
  /\ bounds' = [bounds EXCEPT !.removals = @ + 1]
  /\ UNCHANGED <<processed, failed, errors, records, indexed, job, drops, emptied>>

EmptyProcessed ==
  /\ Tidy /\ \E p \in Places : processed[p] # Absent
  /\ processed' = [p \in DOMAIN processed |-> Absent]
  /\ emptied' = [c \in Contents |-> emptied[c] + Where(c, processed)]
  /\ UNCHANGED <<pending, failed, errors, records, indexed, job, drops, takenBack, bounds>>

-----------------------------------------------------------------------------

Process ==
  \/ \E n \in ToSet(Names) : Take(n)
  \/ Recover \/ RecoverFails
  \/ Commit \/ CommitFails \/ CommitRaises
  \/ Move \/ MoveFails \/ Index
  \/ Explain \/ SetAside \/ SetAsideRaises
  \/ Sweep

User ==
  \/ \E n \in ToSet(Names), c \in Contents : Drop(n, c)
  \/ \E n \in ToSet(Names) : TakeBack(n)
  \/ EmptyProcessed

Next == StartScan \/ Process \/ Crash \/ User

Spec == Init /\ [][Next]_vars

\* A scan that runs goes on.
FairSpec == Spec /\ WF_vars(Process)

-----------------------------------------------------------------------------
(***************************************************************************)
(* Properties.                                                             *)
(***************************************************************************)

OnRecord(c) == Cardinality({i \in DOMAIN records :
                              records[i].content = c /\ records[i].root = "inbox"})

\* What is in hand was listed; what is indexed is on record.
TypeOK ==
  /\ pending \in [ToSet(Names) -> Contents \cup {Absent}]
  /\ processed \in [Places \cup {Elsewhere} -> Contents \cup {Absent}]
  /\ failed \in [Places -> Contents \cup {Absent}]
  /\ errors \in [Places -> Contents \cup {Absent, Vanished}]
  /\ \A i \in DOMAIN records : records[i].place \in Places \cup {Elsewhere}
  /\ indexed \subseteq DOMAIN records
  /\ job.left \subseteq ToSet(Names) /\ job.name \in ToSet(Names) \cup {<<>>}
  /\ job.to \in Places \cup {<<>>}

\* No move ever lands on another file: whatever was dropped, and not taken
\* away by its owner, is in one of the folders.
NothingOverwritten ==
  \A c \in Contents :
    drops[c] = takenBack[c] + emptied[c]
               + Where(c, pending) + Where(c, processed) + Where(c, failed)

\* Nobody took a file away, and no file that is on record ended in failed/:
\* either would leave the destination on record to another file.
Undisturbed ==
  /\ \A c \in Contents : takenBack[c] = 0 /\ emptied[c] = 0
  /\ \A i \in DOMAIN records, p \in Places :
       records[i].root = "inbox" => failed[p] # records[i].content

\* A later scan "finishes the move without creating a new record"
\* (inbox.py:68-69): however often scans were interrupted, no drop is recorded
\* twice, as long as every destination on record is left to its own file.
RecordedOnce == Undisturbed => \A c \in Contents : OnRecord(c) <= drops[c]

\* Nothing leaves the inbox unless it is on record or in failed/: what is no
\* longer pending is accounted for, drop by drop ("an identical drop is a second
\* file", test_inbox.py:72), in the middle of a scan too, as long as nobody
\* empties processed/.
EveryDropAccounted ==
  (\A c \in Contents : emptied[c] = 0) =>
    \A c \in Contents :
      drops[c] <= OnRecord(c) + Where(c, failed) + Where(c, pending) + takenBack[c]

\* A failure has "the reason beside it" (mvp.md:387): the error file next to a
\* failed file is about that file, whenever the process dies.
ReasonBeside == \A p \in Places : failed[p] # Absent => errors[p] = failed[p]

\* "Recorded files move to processed/<date>/; failures to failed/"
\* (docs/obiwan.md:28): no drop is both recorded and failed.
RecordedOrFailed ==
  \A c \in Contents : OnRecord(c) + Where(c, failed) <= drops[c]

\* "The inbox always shows what is pending" (mvp.md:490), so it must not show
\* anything for good: while scans keep coming, a dropped file leaves the top
\* of the inbox.
PendingClears ==
  []<><<StartScan>>_vars =>
    \A n \in ToSet(Names) : (pending[n] # Absent) ~> (pending[n] = Absent)

=============================================================================
