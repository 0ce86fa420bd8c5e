------------------------------ MODULE Historian ------------------------------
(***************************************************************************)
(* Obi-Wan's service (obiwan/service.py): the handlers that write to the   *)
(* record and then call the projection, the search that reads both, the    *)
(* one maintenance request at a time that repairs or rebuilds, and the     *)
(* crash and the loss of the index file they must survive.                 *)
(*                                                                         *)
(* The work table is WorkQueue's: here a row is due, held back by a wait   *)
(* or a lease for some scans, or failed for good; how often it is tried,   *)
(* and when it is due again, is left open.                                 *)
(***************************************************************************)
EXTENDS Projection, FiniteSets

CONSTANTS
  Sources,     \* files under a source root or dropped into the inbox
  Submitted,   \* machine texts (POST /submit)
  Relayed,     \* the Commander's words, relayed: these can be promoted
  Clients,     \* threads serving requests
  Maintainer,  \* the thread that holds maintenance_lock
  MaxCrashes,  \* bound: crashes of the process
  MaxLosses,   \* bound: times the index file is lost while the process is down
  MaxFaults    \* bound: exceptions out of a call of the projection

ASSUME SubjectsAssumption ==
  /\ Subjects = Sources \cup Submitted \cup Relayed
  /\ Sources \cap Submitted = {} /\ Sources \cap Relayed = {}
  /\ Submitted \cap Relayed = {}

ASSUME ThreadsAssumption ==
  Threads = Clients \cup {Maintainer} /\ Maintainer \notin Clients

ASSUME FiniteAssumption == IsFiniteSet(Clients)

ASSUME BoundsAssumption == MaxCrashes \in Nat /\ MaxLosses \in Nat /\ MaxFaults \in Nat

VARIABLES
  service,  \* is the process up
  valid,    \* does the index file carry this build's user_version
  job,      \* the maintenance request: its step, the documents it has left,
            \* the work row its drain has taken, and (history) whether it ran
            \* with no client beside it and no fault
  work,     \* the rows that are not done: due, held (waiting or leased), failed
  answers,  \* (history) the search each client is making: what was forgotten
            \* when it began, the hits it holds
  bounds    \* crashes, losses and faults so far

vars == <<record, index, thread, service, valid, job, work, answers, bounds>>

Texts == Submitted \cup Relayed

JobSteps == {"idle", "register", "drain", "first", "pending", "create", "snapshot",
             "rebuild", "look", "settle"}

\* A row of the work table: what is to be done, to which document.
Items == {"extract", "index"} \X Docs
NoItem == <<>>

Job(step, todo) == [step |-> step, todo |-> todo, item |-> NoItem, quiet |-> job.quiet]
NoJob == [step |-> "idle", todo |-> {}, item |-> NoItem, quiet |-> FALSE]
NoWork == [due |-> {}, held |-> {}, failed |-> {}]
NoAnswer == [since |-> {}, hits |-> {}]

Init ==
  /\ InitProjection
  /\ service = "up" /\ valid = TRUE
  /\ job = NoJob /\ work = NoWork
  /\ answers = [c \in Clients |-> NoAnswer]
  /\ bounds = [crashes |-> 0, losses |-> 0, faults |-> 0]

Resting == \A t \in Threads : At(t, "idle")

\* A client sets out to write while a maintenance request may be running.
Disturb == job' = [job EXCEPT !.quiet = FALSE]

Call(t, step, d) == thread' = [thread EXCEPT ![t] = Calling(step, d)]

-----------------------------------------------------------------------------
(***************************************************************************)
(* Requests.                                                               *)
(***************************************************************************)

\* /submit and /relay: version, text and chunks commit together.
Store(c, s) ==
  /\ service = "up" /\ At(c, "idle")
  /\ s \in Texts /\ versions[s] = 0
  /\ versions' = [versions EXCEPT ![s] = 1]
  /\ chunked' = chunked \cup {<<s, 1>>}
  /\ Call(c, "latest", <<s, 1>>)
  /\ Disturb
  /\ UNCHANGED <<forgotten, index, service, valid, work, answers, bounds>>

\* The relayed version is the first; every promotion adds a direct one.
IsRelayed(s) == s \in Relayed /\ versions[s] = 1

Live(s) == versions[s] > 0 /\ s \notin forgotten

CheckConfirm(c, s) ==
  /\ service = "up" /\ At(c, "idle")
  /\ Live(s) /\ IsRelayed(s)
  /\ Call(c, "promote", Latest(s))
  /\ Disturb
  /\ UNCHANGED <<record, index, service, valid, work, answers, bounds>>

\* The checks are not repeated in the transaction that promotes.
Promote(c) ==
  LET s == thread[c].doc[1]
      d == <<s, versions[s] + 1>>
  IN  /\ At(c, "promote")
      /\ versions[s] < MaxVersion
      /\ versions' = [versions EXCEPT ![s] = @ + 1]
      /\ chunked' = chunked \cup {d}
      /\ Call(c, "latest", d)
      /\ UNCHANGED <<forgotten, index, service, valid, job, work, answers, bounds>>

CheckForget(c, s) ==
  /\ service = "up" /\ At(c, "idle")
  /\ Live(s)
  /\ Call(c, "bury", Latest(s))
  /\ Disturb
  /\ UNCHANGED <<record, index, service, valid, work, answers, bounds>>

Bury(c) ==
  /\ At(c, "bury")
  /\ forgotten' = forgotten \cup {thread[c].doc[1]}
  /\ Call(c, "retire", thread[c].doc)
  /\ UNCHANGED <<versions, chunked, index, service, valid, job, work, answers, bounds>>

\* A search reads the hits, then looks each of them up in the record.
ReadHits(c) ==
  /\ service = "up" /\ At(c, "idle")
  /\ Call(c, "hits", NoDoc)
  /\ answers' = [answers EXCEPT
       ![c] = [since |-> forgotten, hits |-> {d \in Docs : fts[d] > 0}]]
  /\ UNCHANGED <<record, index, service, valid, job, work, bounds>>

\* Mutant: the hits are taken at their word.
KeptMut(hits) == hits

Kept(hits) == {d \in hits : d[1] \notin forgotten}

FilterHits(c) ==
  /\ At(c, "hits")
  /\ Call(c, "answer", NoDoc)
  /\ answers' = [answers EXCEPT ![c].hits = Kept(@)]
  /\ UNCHANGED <<record, index, service, valid, job, work, bounds>>

Answer(c) ==
  /\ At(c, "answer")
  /\ Return(c)
  /\ answers' = [answers EXCEPT ![c] = NoAnswer]
  /\ UNCHANGED <<record, index, service, valid, job, work, bounds>>

-----------------------------------------------------------------------------
(***************************************************************************)
(* /scan: record what is on disk, take up what is unextracted or not       *)
(* current in the projection, process it.                                  *)
(***************************************************************************)

MayMaintain(step) == job.step = step /\ At(Maintainer, "idle")

StartScan ==
  /\ service = "up" /\ MayMaintain("idle")
  /\ job' = [NoJob EXCEPT !.step = "register", !.quiet = Resting]
  /\ UNCHANGED <<record, index, thread, service, valid, work, answers, bounds>>

\* A new or changed file, once a scan: its extraction is left for the drain.
Register(s) ==
  /\ MayMaintain("register")
  /\ versions[s] < MaxVersion /\ Latest(s) \notin job.todo
  /\ LET d == <<s, versions[s] + 1>>
     IN  /\ versions' = [versions EXCEPT ![s] = @ + 1]
         /\ work' = [work EXCEPT !.due = @ \cup {<<"extract", d>>}]
         /\ job' = [job EXCEPT !.todo = @ \cup {d}]
  /\ UNCHANGED <<chunked, forgotten, index, thread, service, valid, answers, bounds>>

\* A file dropped into the inbox is recorded with its chunks, then indexed.
RecordDrop(s) ==
  /\ MayMaintain("register")
  /\ versions[s] = 0
  /\ versions' = [versions EXCEPT ![s] = 1]
  /\ chunked' = chunked \cup {<<s, 1>>}
  /\ Call(Maintainer, "latest", <<s, 1>>)
  /\ UNCHANGED <<forgotten, index, service, valid, job, work, answers, bounds>>

\* requeue: rows that are held or have failed are left alone.
Requeued == {<<"index", d>> : d \in NeedingIndex} \ (work.held \cup work.failed)

\* The drain works at one instant: some waits and leases are over, some are not.
Sweep ==
  /\ MayMaintain("register")
  /\ \E ripe \in SUBSET work.held :
       work' = [work EXCEPT !.due = @ \cup ripe \cup Requeued, !.held = @ \ ripe]
  /\ job' = Job("drain", {})
  /\ UNCHANGED <<record, index, thread, service, valid, answers, bounds>>

MayTake(i) == MayMaintain("drain") /\ job.item = NoItem /\ i \in work.due

\* A row is leased; what has no chunks yet is extracted, and the document indexed,
\* though an earlier attempt may have done both.
Process(i) ==
  /\ MayTake(i)
  /\ work' = [work EXCEPT !.due = @ \ {i}, !.held = @ \cup {i}]
  /\ job' = [job EXCEPT !.item = i]
  /\ chunked' = chunked \cup {i[2]}
  /\ Call(Maintainer, "latest", i[2])
  /\ UNCHANGED <<versions, forgotten, index, service, valid, answers, bounds>>

Complete ==
  /\ MayMaintain("drain") /\ job.item # NoItem
  /\ work' = [work EXCEPT !.held = @ \ {job.item}]
  /\ job' = [job EXCEPT !.item = NoItem]
  /\ UNCHANGED <<record, index, thread, service, valid, answers, bounds>>

\* A failed attempt: the row waits, or was tried too often.
Fail(i) ==
  \/ work' = [work EXCEPT !.due = @ \ {i}, !.held = @ \cup {i}]
  \/ work' = [work EXCEPT !.due = @ \ {i}, !.held = @ \ {i}, !.failed = @ \cup {i}]

\* The file cannot be read, or is no longer this version.
Postpone(i) ==
  /\ MayTake(i) /\ i[2] \notin chunked
  /\ Fail(i)
  /\ UNCHANGED <<record, index, thread, service, valid, job, answers, bounds>>

EndScan ==
  /\ MayMaintain("drain")
  /\ work.due = {} /\ job.item = NoItem
  /\ job' = NoJob
  /\ UNCHANGED <<record, index, thread, service, valid, work, answers, bounds>>

-----------------------------------------------------------------------------
(***************************************************************************)
(* rebuild, for /reindex and for an index file found unusable at startup.  *)
(***************************************************************************)

StartReindex ==
  /\ service = "up" /\ MayMaintain("idle")
  /\ job' = [NoJob EXCEPT !.step = "pending", !.quiet = Resting]
  /\ UNCHANGED <<record, index, thread, service, valid, work, answers, bounds>>

MarkPending ==
  /\ MayMaintain("pending")
  /\ proj' = [d \in Docs |-> IF proj[d] = "none" THEN "none" ELSE "pending"]
  /\ job' = Job("create", {})
  /\ UNCHANGED <<record, fts, disk, thread, service, valid, work, answers, bounds>>

Created == Empty

\* _create, on startup ("first") and in rebuild: it commits by itself.
Create ==
  /\ MayMaintain("first") \/ MayMaintain("create")
  /\ fts' = Created /\ disk' = fts'
  /\ valid' = TRUE
  /\ job' = Job(IF job.step = "first" THEN "pending" ELSE "snapshot", {})
  /\ UNCHANGED <<record, proj, thread, service, work, answers, bounds>>

\* Mutant: only what the projection knew is indexed again.
SnapshotMut ==
  /\ MayMaintain("snapshot")
  /\ job' = Job("rebuild", {d \in Docs : IsLatest(d) /\ proj[d] = "pending"})
  /\ UNCHANGED <<record, index, thread, service, valid, work, answers, bounds>>

Snapshot ==
  /\ MayMaintain("snapshot")
  /\ job' = Job("rebuild", {Latest(s) : s \in {r \in Subjects : versions[r] > 0}})
  /\ UNCHANGED <<record, index, thread, service, valid, work, answers, bounds>>

RebuildDocument(d) ==
  /\ MayMaintain("rebuild")
  /\ d \in job.todo
  /\ job' = [job EXCEPT !.todo = @ \ {d}]
  /\ IF d[1] \in forgotten \/ d \notin chunked THEN UNCHANGED thread
     ELSE Call(Maintainer, "latest", d)
  /\ UNCHANGED <<record, index, service, valid, work, answers, bounds>>

\* What is still pending belongs to superseded versions or forgotten subjects.
EndRebuild ==
  /\ MayMaintain("rebuild")
  /\ job.todo = {}
  /\ proj' = [d \in Docs |-> IF proj[d] = "pending" THEN "stale" ELSE proj[d]]
  /\ job' = IF service = "opening" THEN NoJob ELSE Job("look", {})
  /\ service' = "up"
  /\ UNCHANGED <<record, fts, disk, thread, valid, work, answers, bounds>>

CurrentAgain(d) == IsLatest(d) /\ d[1] \notin forgotten

\* /reindex looks which failed rows its rebuild has made good.
LookAtFailed ==
  /\ MayMaintain("look")
  /\ LET good == {d \in Docs \ NeedingIndex :
                    <<"index", d>> \in work.failed /\ CurrentAgain(d)}
     IN  job' = IF good = {} THEN NoJob ELSE Job("settle", good)
  /\ UNCHANGED <<record, index, thread, service, valid, work, answers, bounds>>

\* Each is looked at again on its own, some time before all are cleared.
ClearFailed ==
  /\ MayMaintain("settle")
  /\ \E cleared \in SUBSET job.todo :
       /\ \A d \in job.todo \ cleared : ~CurrentAgain(d)
       /\ work' = [work EXCEPT !.failed = @ \ {<<"index", d>> : d \in cleared}]
  /\ job' = NoJob
  /\ UNCHANGED <<record, index, thread, service, valid, answers, bounds>>

-----------------------------------------------------------------------------
(***************************************************************************)
(* Failures.                                                               *)
(***************************************************************************)

\* A call of the projection raises.  What it wrote stays uncommitted on the
\* shared connection.  A drain fails the row and goes on; the inbox and a rebuild
\* have no such guard: there the request ends.
Fault(t) ==
  /\ bounds.faults < MaxFaults
  /\ thread[t].at \in {"remove", "insert", "commit", "state"}
  /\ service = "up"
  /\ Return(t)
  /\ IF t = Maintainer
     THEN IF job.step = "drain"
          THEN Fail(job.item) /\ job' = [job EXCEPT !.item = NoItem, !.quiet = FALSE]
          ELSE job' = NoJob /\ UNCHANGED work
     ELSE Disturb /\ UNCHANGED work
  /\ bounds' = [bounds EXCEPT !.faults = @ + 1]
  /\ UNCHANGED <<record, index, service, valid, answers>>

\* The process dies: what no thread has committed is rolled back.
Crash ==
  /\ service # "down" /\ bounds.crashes < MaxCrashes
  /\ service' = "down"
  /\ fts' = disk
  /\ thread' = [t \in Threads |-> Idle]
  /\ job' = NoJob
  /\ answers' = [c \in Clients |-> NoAnswer]
  /\ bounds' = [bounds EXCEPT !.crashes = @ + 1]
  /\ UNCHANGED <<record, disk, proj, valid, work>>

\* The projection is disposable: its file may be deleted, corrupt or outdated.
LoseIndex ==
  /\ service = "down" /\ bounds.losses < MaxLosses
  /\ fts' = Empty /\ disk' = Empty
  /\ valid' = FALSE
  /\ bounds' = [bounds EXCEPT !.losses = @ + 1]
  /\ UNCHANGED <<record, proj, thread, service, job, work, answers>>

\* Only an index file without this build's user_version is rebuilt.
Open ==
  /\ service = "down"
  /\ \/ valid /\ service' = "up" /\ UNCHANGED job
     \/ /\ ~valid /\ service' = "opening"
        /\ job' = [NoJob EXCEPT !.step = "first", !.quiet = TRUE]
  /\ UNCHANGED <<record, index, thread, valid, work, answers, bounds>>

-----------------------------------------------------------------------------

ThreadStep(t) ==
  CallStep(t) /\ UNCHANGED <<service, valid, job, work, answers, bounds>>

Request(c) ==
  \/ \E s \in Texts : Store(c, s)
  \/ \E s \in Relayed : CheckConfirm(c, s)
  \/ \E s \in Subjects : CheckForget(c, s)
  \/ Promote(c) \/ Bury(c)
  \/ ReadHits(c) \/ FilterHits(c) \/ Answer(c)

Maintain ==
  \/ \E s \in Sources : Register(s) \/ RecordDrop(s)
  \/ Sweep
  \/ \E i \in Items : Process(i) \/ Postpone(i)
  \/ Complete \/ EndScan
  \/ MarkPending \/ Create \/ Snapshot
  \/ \E d \in Docs : RebuildDocument(d)
  \/ EndRebuild \/ LookAtFailed \/ ClearFailed

Next ==
  \/ \E t \in Threads : ThreadStep(t) \/ Fault(t)
  \/ \E c \in Clients : Request(c)
  \/ StartScan \/ StartReindex \/ Maintain
  \/ Crash \/ LoseIndex \/ Open

Spec == Init /\ [][Next]_vars

\* Threads run on, a process that died is started again (compose restarts it).
FairSpec ==
  /\ Spec
  /\ \A t \in Threads : WF_vars(ThreadStep(t))
  /\ WF_vars(Maintain) /\ WF_vars(Open)

-----------------------------------------------------------------------------
(***************************************************************************)
(* Properties.                                                             *)
(***************************************************************************)

ThreadType ==
  [at : CallSteps \cup {"idle", "promote", "bury", "hits", "answer"},
   doc : Docs \cup {NoDoc}, ids : SUBSET Docs, mark : States]

\* Rows, states, threads and requests are well formed; a document has at most
\* one row in the index per thread that can be inserting it.
TypeOK ==
  /\ versions \in [Subjects -> 0 .. MaxVersion]
  /\ chunked \subseteq Docs /\ forgotten \subseteq Subjects
  /\ fts \in [Docs -> 0 .. Cardinality(Threads)]
  /\ disk \in [Docs -> 0 .. Cardinality(Threads)]
  /\ proj \in [Docs -> States]
  /\ thread \in [Threads -> ThreadType]
  /\ service \in {"up", "opening", "down"}
  /\ valid \in BOOLEAN
  /\ job \in [step : JobSteps, todo : SUBSET Docs, item : Items \cup {NoItem},
              quiet : BOOLEAN]
  /\ work \in [due : SUBSET Items, held : SUBSET Items, failed : SUBSET Items]
  /\ answers \in [Clients -> [since : SUBSET Subjects, hits : SUBSET Docs]]
  /\ bounds \in [crashes : 0 .. MaxCrashes, losses : 0 .. MaxLosses,
                 faults : 0 .. MaxFaults]

AtRest == service = "up" /\ Resting /\ job.step = "idle"

\* What coverage counts as indexed a search can find, now and after a crash
\* (record/__init__.py:325-329 against projection.py:105-113).
CountedIsFindable ==
  AtRest => \A d \in Docs : Searchable(d) /\ proj[d] = "current" =>
              fts[d] > 0 /\ disk[d] > 0

\* When nobody is working nothing hangs uncommitted on the shared connection.
RestIsDurable == AtRest => disk = fts

\* Once a subject is forgotten no search that starts afterwards returns it,
\* though a late index call may have put it back (service.py:176-177).
ForgottenNeverReturned ==
  \A c \in Clients : At(c, "answer") =>
    \A d \in answers[c].hits : d[1] \notin answers[c].since

\* "Make this version searchable and retire every earlier version of the same
\* subject" (projection.py:70): beside a current latest version no other is left.
EarlierRetired ==
  AtRest => \A d, e \in Docs :
    IsLatest(d) /\ proj[d] = "current" /\ e[1] = d[1] /\ e # d => fts[e] = 0

\* The index holds exactly the latest live documents, once each, and the record
\* says so.
Exact ==
  \A d \in Docs :
    /\ fts[d] = (IF Searchable(d) THEN 1 ELSE 0) /\ disk[d] = fts[d]
    /\ proj[d] = "current" <=> Searchable(d)
    /\ proj[d] # "pending"

\* Whatever state the projection was in, a rebuild that ran undisturbed leaves it
\* exact: "can be deleted and rebuilt from stored chunks at any time".
RebuildIsExact ==
  [][EndRebuild /\ job.quiet => Exact']_vars

Findable(d) == fts[d] > 0 /\ proj[d] = "current"

Waiting(i) == i \in work.held
FailedForGood(i) == i \in work.failed

\* A scan that ran undisturbed leaves every latest live document with chunks
\* findable and counted (docs/obiwan.md:104-105), unless its index row waits or has
\* failed for good; or, if it is counted and yet cannot be found, any of its rows.
ScanRepairs ==
  [][EndScan /\ job.quiet =>
       \A d \in Docs : Searchable(d) /\ ~Findable(d) =>
         \E i \in Items :
           /\ i[2] = d /\ (proj[d] = "current" \/ i[1] = "index")
           /\ Waiting(i) \/ FailedForGood(i)]_vars

\* The scan takes up all rows of a document that have not failed for good.
SweepAll(d) == Sweep /\ \A i \in Items : i[2] = d => i \notin work'.held

\* While scans keep coming after the waits of a document are over, it is found in
\* the end, whatever crash cut its handler short (service.py:134-136); if it is
\* the latest live one with chunks, and none of its rows fails for good.
ComesToLight ==
  \A d \in Docs :
    []<><<SweepAll(d)>>_vars =>
      (Searchable(d) ~> \/ Findable(d) \/ ~Searchable(d)
                        \/ \E i \in Items : i[2] = d /\ FailedForGood(i))

=============================================================================
