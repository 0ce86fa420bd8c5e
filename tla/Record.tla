--------------------------------- MODULE Record ---------------------------------
(***************************************************************************)
(* Obi-Wan's record (obiwan/record): how its file is opened, created or     *)
(* migrated, whatever crash cut an earlier attempt short, and how coverage  *)
(* is counted, statement by statement, while requests write.                *)
(*                                                                          *)
(* What a request writes in one transaction is one step here.  Of a call of *)
(* the projection there are the states it sets in the record, each with the *)
(* reads before it that only the states of forgotten or replaced versions   *)
(* depend on: these are not counted.  All its statements are Historian's.   *)
(***************************************************************************)
EXTENDS Integers, FiniteSets, SequencesExt

CONSTANTS
  SchemaVersion,  \* the version this build understands
  Migrations,     \* the steps it can take: n leads from n - 1 to n
  Files,          \* subjects a scan finds
  Texts,          \* subjects a request submits or relays
  MaxVersion,     \* bound: versions of a file
  MaxConfirms,    \* bound: times a text is confirmed
  MaxFailures     \* bound: crashes of the process and exceptions out of the projection

ASSUME SchemaAssumption ==
  SchemaVersion \in Nat \ {0} /\ Migrations \subseteq 2 .. SchemaVersion

ASSUME BoundsAssumption ==
  MaxVersion \in Nat \ {0} /\ MaxConfirms \in Nat /\ MaxFailures \in Nat

ASSUME SubjectsAssumption == Files \cap Texts = {} /\ IsFiniteSet(Files \cup Texts)

VARIABLES
  file,        \* the record's file: its version, what was created in it and
               \* the migrations it journalled
  origin,      \* (history) the version the file was first opened with
  process,     \* its step, and the version it found
  documents,   \* how many versions each subject has
  chunks,      \* documents whose chunks are stored
  projection,  \* documents whose chunks are all current in the projection
  tombstones, exclusions,
  work,        \* the state of each row of the work table
  calls,       \* the calls of the projection under way: the document, who makes it
               \* and how far it is
  checked,     \* texts a confirm may have found fit to be confirmed
  request,     \* the maintenance request: its step, the rows or documents it has
               \* left, the row its drain has taken
  coverage,    \* a count of coverage under way, and what it has read
  failures     \* crashes and exceptions so far

tables == <<documents, chunks, projection, tombstones, exclusions, work>>
callers == <<calls, checked>>
vars == <<file, origin, process, tables, callers, request, coverage, failures>>

Subjects == Files \cup Texts
Docs == (Files \X (1 .. MaxVersion)) \cup (Texts \X (1 .. MaxConfirms + 1))
Kinds == {"extract", "index"}
Rows == Kinds \X Docs
NoRow == <<>>
NoRequest == [step |-> "none", left |-> {}, item |-> NoRow]
NoCoverage == [step |-> "none", missing |-> 0, quiet |-> TRUE, right |-> FALSE]

\* The script every opening runs, in order: the tables of each version, their
\* triggers, the powers; each statement creates what is not there.
Script ==
  LET all(kind) == [n \in 1 .. SchemaVersion |-> <<kind, n>>]
  IN  all("tables") \o all("triggers") \o all("powers")

Of(version) == {object \in ToSet(Script) : object[2] <= version}

Init ==
  /\ origin \in 0 .. SchemaVersion + 1
  /\ file = [version |-> origin, objects |-> Of(origin), journal |-> <<>>]
  /\ process = [step |-> "down", found |-> 0]
  /\ documents = [s \in Subjects |-> 0]
  /\ chunks = {} /\ projection = {} /\ tombstones = {} /\ exclusions = {}
  /\ work = [r \in Rows |-> "none"]
  /\ calls = {} /\ checked = {} /\ request = NoRequest /\ coverage = NoCoverage
  /\ failures = 0

-----------------------------------------------------------------------------
(***************************************************************************)
(* Opening.                                                                *)
(***************************************************************************)

Serving == process.step = "serving"

Missing == {i \in DOMAIN Script : Script[i] \notin file.objects}

Understood(version) ==
  /\ version <= SchemaVersion
  /\ version > 0 => version + 1 .. SchemaVersion \subseteq Migrations

\* The version is read before anything that could modify the file.
Open ==
  /\ process.step = "down"
  /\ process' = [step |-> IF Understood(file.version) THEN "opening" ELSE "refused",
                 found |-> file.version]
  /\ UNCHANGED <<file, origin, tables, callers, request, coverage, failures>>

\* Autocommit: every statement of the script commits by itself.
Create ==
  /\ process.step = "opening" /\ Missing # {}
  /\ LET first == CHOOSE i \in Missing : \A j \in Missing : i <= j
     IN  file' = [file EXCEPT !.objects = @ \cup {Script[first]}]
  /\ UNCHANGED <<origin, process, tables, callers, request, coverage, failures>>

\* A fresh file has the current shape: it is stamped, no migration runs.
Stamp ==
  /\ process.step = "opening" /\ Missing = {} /\ process.found = 0
  /\ file' = [file EXCEPT !.version = SchemaVersion]
  /\ process' = [process EXCEPT !.step = "serving"]
  /\ UNCHANGED <<origin, tables, callers, request, coverage, failures>>

\* Mutant: the bump and the journal row are not one transaction.
MigrateMutApart ==
  /\ process.step = "opening" /\ Missing = {} /\ process.found > 0
  /\ file.version < SchemaVersion
  /\ \E rows \in {<<>>, <<file.version + 1>>} :
       file' = [file EXCEPT !.version = @ + 1, !.journal = @ \o rows]
  /\ UNCHANGED <<origin, process, tables, callers, request, coverage, failures>>

\* Mutant: one step too many.
MigrateMutPast ==
  /\ process.step = "opening" /\ Missing = {} /\ process.found > 0
  /\ file.version <= SchemaVersion
  /\ file' = [file EXCEPT !.version = @ + 1, !.journal = Append(@, file.version + 1)]
  /\ UNCHANGED <<origin, process, tables, callers, request, coverage, failures>>

\* One step, all or nothing: its statements, the version and the journal row.
Migrate ==
  /\ process.step = "opening" /\ Missing = {} /\ process.found > 0
  /\ file.version < SchemaVersion
  /\ file' = [file EXCEPT !.version = @ + 1, !.journal = Append(@, file.version + 1)]
  /\ UNCHANGED <<origin, process, tables, callers, request, coverage, failures>>

Opened ==
  /\ process.step = "opening" /\ Missing = {} /\ process.found > 0
  /\ file.version = SchemaVersion
  /\ process' = [process EXCEPT !.step = "serving"]
  /\ UNCHANGED <<file, origin, tables, callers, request, coverage, failures>>

\* A restarted process opens the file anew; a refusal ends it as well.
Crash ==
  /\ process.step # "down" /\ failures < MaxFailures
  /\ process' = [step |-> "down", found |-> 0]
  /\ calls' = {} /\ checked' = {s \in Texts \ tombstones : documents[s] = 1}
  /\ request' = NoRequest /\ coverage' = NoCoverage
  /\ failures' = failures + 1
  /\ UNCHANGED <<file, origin, tables>>

-----------------------------------------------------------------------------
(***************************************************************************)
(* What coverage counts.                                                   *)
(***************************************************************************)

LatestLive == {<<s, documents[s]>> : s \in {t \in Subjects : documents[t] > 0} \ tombstones}
Counted == LatestLive \ exclusions

\* Mutant: an exclusion counts though its version was replaced or forgotten.
ExcludedMutAll == exclusions

Excluded == LatestLive \cap exclusions
Indexed == Counted \cap chunks \cap projection

NeedingIndex == (LatestLive \cap chunks) \ projection

\* A failed extraction of a document that has chunks is the sweep's to repair.
Blocking ==
  {r \in Rows : /\ work[r] = "failed" /\ r[2] \in Counted
                /\ ~(r[1] = "extract" /\ r[2] \in chunks)}

\* Every latest live version that is not excluded is searchable, and no work on
\* one has failed.
Whole == Indexed = Counted /\ Blocking = {}

Reading(step) == Serving /\ coverage.step = step

\* What a count under way cannot see and the history keeps: what was true at
\* some moment, and whether a document was stored, a rebuild begun, or a latest
\* version retired.
Seen(disturbing) ==
  coverage' = IF coverage.step = "none" THEN coverage
              ELSE [coverage EXCEPT !.right = @ \/ Whole', !.quiet = @ /\ ~disturbing]

Read(fields) ==
  /\ coverage' = fields
  /\ UNCHANGED <<file, origin, process, tables, callers, request, failures>>

CountDocuments ==
  /\ Reading("none")
  /\ Read([NoCoverage EXCEPT !.step = "indexed", !.missing = Cardinality(LatestLive),
                             !.right = Whole])

CountIndexed ==
  /\ Reading("indexed")
  /\ Read([coverage EXCEPT !.step = "excluded", !.missing = @ - Cardinality(Indexed)])

CountExcluded ==
  /\ Reading("excluded")
  /\ Read([coverage EXCEPT !.step = "pending", !.missing = @ - Cardinality(Excluded)])

\* An answer is "partial" as soon as one of its conditions fails.
CountWork ==
  /\ Reading("pending")
  /\ LET holds == coverage.missing = 0 /\ \A r \in Rows : work[r] # "pending"
     IN  Read(IF holds THEN [coverage EXCEPT !.step = "blocking"] ELSE NoCoverage)

\* The roots of the last scan's report are reachable or not, whatever else holds.
Judge ==
  /\ Reading("blocking")
  /\ \E reachable \in BOOLEAN :
       Read(IF Blocking = {} /\ reachable THEN [coverage EXCEPT !.step = "complete"] ELSE NoCoverage)

AnswerCoverage == Reading("complete") /\ Read(NoCoverage)

-----------------------------------------------------------------------------
(***************************************************************************)
(* Requests.                                                               *)
(***************************************************************************)

Same == UNCHANGED <<file, origin, process, failures>>

Index(d, by) == [doc |-> d, by |-> by, at |-> "check"]

\* /submit and /relay: version, text and chunks commit together.
Submit(s) ==
  /\ Serving /\ s \in Texts /\ documents[s] = 0
  /\ documents' = [documents EXCEPT ![s] = 1]
  /\ chunks' = chunks \cup {<<s, 1>>}
  /\ calls' = calls \cup {Index(<<s, 1>>, "handler")}
  /\ checked' = checked \cup {s}
  /\ Same
  /\ UNCHANGED <<projection, tombstones, exclusions, work, request>>
  /\ Seen(TRUE)

\* Fit is a relayed version, the first; the transaction that promotes does not ask
\* again, and any number of handlers may have asked as soon as there was one.
Confirm(s) ==
  LET d == <<s, documents[s] + 1>>
  IN  /\ Serving /\ s \in checked /\ documents[s] <= MaxConfirms
      /\ documents' = [documents EXCEPT ![s] = @ + 1]
      /\ chunks' = chunks \cup {d}
      /\ calls' = calls \cup {Index(d, "handler")}
      /\ Same
      /\ UNCHANGED <<projection, tombstones, exclusions, work, checked, request>>
      /\ Seen(TRUE)

\* The projection is retired after the tombstone.
Forget(s) ==
  /\ Serving /\ documents[s] > 0 /\ s \notin tombstones
  /\ tombstones' = tombstones \cup {s}
  /\ projection' = {d \in projection : d[1] # s}
  /\ Same
  /\ UNCHANGED <<documents, chunks, exclusions, work, callers, request>>
  /\ Seen(FALSE)

Exclude(d) ==
  /\ Serving /\ d \in LatestLive \ (exclusions \cup chunks)
  /\ work[<<"extract", d>>] = "failed"
  /\ exclusions' = exclusions \cup {d}
  /\ Same
  /\ UNCHANGED <<documents, chunks, projection, tombstones, work, callers, request>>
  /\ Seen(FALSE)

-----------------------------------------------------------------------------
(***************************************************************************)
(* Calls of the projection, by handlers and by maintenance.                *)
(***************************************************************************)

Calling(c, at) ==
  /\ Serving /\ c \in calls /\ c.at = at /\ Same
  /\ UNCHANGED <<documents, chunks, tombstones, exclusions, work, checked, request>>

Becomes(c, at) == calls' = (calls \ {c}) \cup {[c EXCEPT !.at = at]}

\* Whether the version is the latest, and live, is read once; one that is not goes.
Check(c) ==
  /\ Calling(c, "check")
  /\ \/ c.doc \in LatestLive /\ Becomes(c, "mark") /\ UNCHANGED projection
     \/ c.doc \notin LatestLive /\ calls' = calls \ {c} /\ projection' = projection \ {c.doc}
  /\ Seen(FALSE)

Mark(c) ==
  /\ Calling(c, "mark") /\ Becomes(c, "retire")
  /\ projection' = projection \cup {c.doc}
  /\ Seen(FALSE)

\* Every other version there is by then goes, newer ones too.
Others(d) == {e \in chunks : e[1] = d[1] /\ e # d}

Retire(c) ==
  /\ Calling(c, "retire")
  /\ projection' = projection \ Others(c.doc)
  /\ calls' = calls \ {c}
  /\ Seen(LatestLive \cap projection \cap Others(c.doc) # {})

\* A write of a call raises: the request that made it ends, but a drain fails the row and
\* goes on.  A handler that ends is one whose call takes no more steps.
Raise(c) ==
  /\ Serving /\ c \in calls /\ c.by = "maintenance" /\ c.at # "check"
  /\ failures < MaxFailures
  /\ failures' = failures + 1
  /\ calls' = calls \ {c}
  /\ IF request.item = NoRow THEN request' = NoRequest /\ UNCHANGED work
     ELSE /\ request' = [request EXCEPT !.item = NoRow]
          /\ \E state \in {"pending", "failed"} : work' = [work EXCEPT ![request.item] = state]
  /\ UNCHANGED <<file, origin, process, documents, chunks, projection, tombstones, exclusions, checked>>
  /\ Seen(FALSE)

CallStep(c) == Check(c) \/ Mark(c) \/ Retire(c) \/ Raise(c)

-----------------------------------------------------------------------------
(***************************************************************************)
(* Maintenance: one scan or rebuild at a time.                             *)
(***************************************************************************)

Maintaining(step) ==
  /\ Serving /\ request.step = step /\ request.item = NoRow
  /\ \A c \in calls : c.by # "maintenance"

Goto(step, left) == request' = [step |-> step, left |-> left, item |-> NoRow]

StartScan ==
  /\ Maintaining("none") /\ Goto("register", {})
  /\ Same /\ UNCHANGED <<tables, callers>> /\ Seen(FALSE)

\* A new or changed file: a version, and a row asking to extract it.
Register(s) ==
  /\ Maintaining("register") /\ s \in Files /\ documents[s] < MaxVersion
  /\ documents' = [documents EXCEPT ![s] = @ + 1]
  /\ work' = [work EXCEPT ![<<"extract", <<s, documents[s] + 1>>>>] = "pending"]
  /\ Same
  /\ UNCHANGED <<chunks, projection, tombstones, exclusions, callers, request>>
  /\ Seen(TRUE)

\* A failed row is left alone, a done one asked for again.
Requeued(ds) ==
  [r \in Rows |-> IF r[1] = "index" /\ r[2] \in ds /\ work[r] \in {"none", "done"} THEN "pending"
                  ELSE work[r]]

Sweep ==
  /\ Maintaining("register")
  /\ work' = Requeued(NeedingIndex)
  /\ Goto("drain", {r \in Rows : work'[r] = "pending"})
  /\ Same
  /\ UNCHANGED <<documents, chunks, projection, tombstones, exclusions, callers>>
  /\ Seen(FALSE)

\* What has no chunks is extracted; then the document is indexed.
Process(r) ==
  /\ Maintaining("drain") /\ r \in request.left
  /\ request' = [request EXCEPT !.left = @ \ {r}, !.item = r]
  /\ chunks' = chunks \cup {r[2]}
  /\ calls' = calls \cup {Index(r[2], "maintenance")}
  /\ Same
  /\ UNCHANGED <<documents, projection, tombstones, exclusions, work, checked>>
  /\ Seen(FALSE)

Complete ==
  /\ Serving /\ request.item # NoRow /\ \A c \in calls : c.by # "maintenance"
  /\ request' = [request EXCEPT !.item = NoRow]
  /\ work' = [work EXCEPT ![request.item] = "done"]
  /\ Same
  /\ UNCHANGED <<documents, chunks, projection, tombstones, exclusions, callers>>
  /\ Seen(FALSE)

\* The file cannot be read or extracted, for the last time; before that it waits.
Fail(r) ==
  /\ Maintaining("drain") /\ r \in request.left /\ r[2] \notin chunks
  /\ request' = [request EXCEPT !.left = @ \ {r}]
  /\ work' = [work EXCEPT ![r] = "failed"]
  /\ Same
  /\ UNCHANGED <<documents, chunks, projection, tombstones, exclusions, callers>>
  /\ Seen(FALSE)

\* What is not due yet, or has to wait again, stays pending.
EndScan ==
  /\ Maintaining("drain") /\ Goto("none", {})
  /\ Same /\ UNCHANGED <<tables, callers>> /\ Seen(FALSE)

StartRebuild ==
  /\ Maintaining("none")
  /\ projection' = {}
  /\ Goto("rebuild", {<<s, documents[s]>> : s \in {t \in Subjects : documents[t] > 0}})
  /\ Same
  /\ UNCHANGED <<documents, chunks, tombstones, exclusions, work, callers>>
  /\ Seen(TRUE)

Rebuild(d) ==
  /\ Maintaining("rebuild") /\ d \in request.left
  /\ request' = [request EXCEPT !.left = @ \ {d}]
  /\ calls' = calls \cup
       (IF d[1] \in tombstones \/ d \notin chunks THEN {} ELSE {Index(d, "maintenance")})
  /\ Same
  /\ UNCHANGED <<tables, checked>>
  /\ Seen(FALSE)

\* /reindex looks which failed index rows belong to documents that are current again.
EndRebuild ==
  /\ Maintaining("rebuild") /\ request.left = {}
  /\ LET good == {d \in LatestLive \ NeedingIndex : work[<<"index", d>>] = "failed"}
     IN  Goto(IF good = {} THEN "none" ELSE "settle", good)
  /\ Same /\ UNCHANGED <<tables, callers>> /\ Seen(FALSE)

\* Each is looked at again on its own, some time before all are settled.
Settle ==
  /\ Maintaining("settle")
  /\ \E cleared \in SUBSET request.left :
       /\ \A d \in request.left \ cleared : d \notin LatestLive
       /\ work' = [r \in Rows |-> IF r[1] = "index" /\ r[2] \in cleared THEN "done" ELSE work[r]]
  /\ Goto("none", {})
  /\ Same
  /\ UNCHANGED <<documents, chunks, projection, tombstones, exclusions, callers>>
  /\ Seen(FALSE)

Count ==
  \/ CountDocuments \/ CountIndexed \/ CountExcluded \/ CountWork \/ Judge \/ AnswerCoverage

Next ==
  \/ Open \/ Create \/ Stamp \/ Migrate \/ Opened \/ Crash
  \/ Count
  \/ \E s \in Subjects : Submit(s) \/ Confirm(s) \/ Forget(s) \/ Register(s)
  \/ \E d \in Docs : Exclude(d) \/ Rebuild(d)
  \/ \E c \in calls : CallStep(c)
  \/ \E r \in Rows : Process(r) \/ Fail(r)
  \/ StartScan \/ Sweep \/ Complete \/ EndScan
  \/ StartRebuild \/ EndRebuild \/ Settle

Spec == Init /\ [][Next]_vars

-----------------------------------------------------------------------------
TypeOK ==
  /\ file.version \in 0 .. SchemaVersion + 1 /\ ToSet(file.journal) \subseteq Migrations
  /\ process.step \in {"down", "opening", "refused", "serving"}
  /\ \A s \in Files : documents[s] \in 0 .. MaxVersion
  /\ \A s \in Texts : documents[s] \in 0 .. MaxConfirms + 1
  /\ chunks \cup projection \cup exclusions \subseteq Docs
  /\ tombstones \subseteq Subjects /\ checked \subseteq Texts
  /\ calls \subseteq [doc : Docs, by : {"handler", "maintenance"},
                     at : {"check", "mark", "retire"}]
  /\ request.left \subseteq Docs \cup Rows /\ request.item \in Rows \cup {NoRow}
  /\ work \in [Rows -> {"none", "pending", "done", "failed"}]
  /\ coverage.missing <= Cardinality(Subjects)

\* However often its opening was cut short, a record that is served has every
\* table, trigger and power of this build and one journal row for each migration
\* step it went through; one that is refused was not touched
\* (record/__init__.py:113-136, record/schema.py:86-88).
OpensWhole ==
  /\ Serving =>
       /\ file.version = SchemaVersion /\ Missing = {}
       /\ file.journal = IF origin = 0 THEN <<>>
                         ELSE [i \in 1 .. SchemaVersion - origin |-> origin + i]
  /\ process.step = "refused" =>
       file = [version |-> origin, objects |-> Of(origin), journal |-> <<>>]

Answered == coverage.step = "complete"

\* Coverage that answers "complete" was complete at some moment of its counting,
\* whatever was indexed, failed, forgotten or excluded between its statements,
\* unless meanwhile a document was stored, a rebuild begun, or the latest version
\* of a text retired by an overtaken index call of an older one
\* (service.py:187-202, projection.py:91-96).
CompleteWasTrue == Answered /\ coverage.quiet => coverage.right

\* "A partial index must never be able to look complete": nor while documents
\* are being stored
\* (docs/superpowers/specs/2026-10-07-obiwan-v0.1-mvp.md:268).
NeverLooksComplete == Answered => coverage.right

=============================================================================
