--------------------------- MODULE Historian_proofs ---------------------------
(***************************************************************************)
(* What Historian's runs check with two or three threads, proved for any   *)
(* number of them and any subjects, and for any crashes, losses and        *)
(* exceptions unless a theorem says otherwise (Calm, ByItself).            *)
(***************************************************************************)
EXTENDS Historian, FiniteSetTheorems, TLAPS

USE VersionAssumption, SubjectsAssumption, ThreadsAssumption, BoundsAssumption

RequestSteps == {"promote", "bury", "hits", "answer"}

\* A thread that works on a document has one in hand.
DocInHand ==
  \A t \in Threads :
    thread[t].at \in CallSteps \cup {"promote", "bury"} => thread[t].doc \in Docs

\* While its drain works on a document, it has taken a row.
Taken == job.step = "drain" /\ thread[Maintainer].at # "idle" => job.item \in Items

JobType ==
  [step : JobSteps, todo : SUBSET Docs, item : Items \cup {NoItem}, quiet : BOOLEAN]

WorkType == [due : SUBSET Items, held : SUBSET Items, failed : SUBSET Items]

\* TypeOK, without the limit on rows.
Typed ==
  /\ versions \in [Subjects -> 0 .. MaxVersion]
  /\ chunked \subseteq Docs /\ forgotten \subseteq Subjects
  /\ fts \in [Docs -> Nat]
  /\ disk \in [Docs -> Nat]
  /\ proj \in [Docs -> States]
  /\ thread \in [Threads -> ThreadType]
  /\ service \in {"up", "opening", "down"}
  /\ valid \in BOOLEAN
  /\ job \in JobType /\ work \in WorkType
  /\ answers \in [Clients -> [since : SUBSET Subjects, hits : SUBSET Docs]]
  /\ bounds \in [crashes : 0 .. MaxCrashes, losses : 0 .. MaxLosses,
                 faults : 0 .. MaxFaults]
  /\ DocInHand /\ Taken

-----------------------------------------------------------------------------

\* What a thread moves on to is well formed.
LEMMA GoTyped ==
  ASSUME Typed, NEW t \in Threads, thread[t].doc \in Docs,
         NEW step \in CallSteps, NEW ids \in SUBSET Docs, NEW mark \in States,
         Go(t, step, ids, mark)
  PROVE  thread' \in [Threads -> ThreadType] /\ DocInHand'
<1>1. thread' = [thread EXCEPT ![t] =
                   [at |-> step, doc |-> thread[t].doc, ids |-> ids, mark |-> mark]]
  BY DEF Go, Typed, ThreadType
<1> QED
  BY <1>1 DEF Typed, DocInHand, ThreadType

\* A call that returns leaves its thread idle.
LEMMA ReturnTyped ==
  ASSUME Typed, NEW t \in Threads, Return(t)
  PROVE  thread' \in [Threads -> ThreadType] /\ DocInHand'
BY DEF Return, Idle, Typed, DocInHand, ThreadType, States, CallSteps

\* A call begins with a document in hand, a search without one.
LEMMA CallTyped ==
  ASSUME Typed, NEW t \in Threads, NEW step \in CallSteps \cup RequestSteps, NEW d,
         d \in Docs \/ (d = NoDoc /\ step \in {"hits", "answer"}), Call(t, step, d)
  PROVE  thread' \in [Threads -> ThreadType] /\ DocInHand'
<1>1. thread' = [thread EXCEPT ![t] =
                   [at |-> step, doc |-> d, ids |-> {}, mark |-> "none"]]
  BY DEF Call, Calling, Idle
<1> QED
  BY <1>1 DEF Typed, DocInHand, ThreadType, States, CallSteps, RequestSteps

\* Latest names a document as soon as there is a version.
LEMMA LatestIsDoc ==
  ASSUME Typed, NEW s \in Subjects, versions[s] > 0
  PROVE  Latest(s) \in Docs
BY DEF Latest, Docs, Typed

\* So does the version after it, as long as there may be one.
LEMMA NextIsDoc ==
  ASSUME Typed, NEW s \in Subjects, versions[s] < MaxVersion
  PROVE  <<s, versions[s] + 1>> \in Docs
BY DEF Docs, Typed

\* What requests and maintenance make of the request and the rows is well formed.
LEMMA JobTyped ==
  ASSUME Typed
  PROVE  /\ NoJob \in JobType
         /\ \A step \in JobSteps, todo \in SUBSET Docs : Job(step, todo) \in JobType
         /\ \A quiet \in BOOLEAN : [job EXCEPT !.quiet = quiet] \in JobType
         /\ \A todo \in SUBSET Docs : [job EXCEPT !.todo = todo] \in JobType
         /\ \A i \in Items \cup {NoItem} : [job EXCEPT !.item = i] \in JobType
         /\ \A step \in JobSteps, quiet \in BOOLEAN :
              [NoJob EXCEPT !.step = step, !.quiet = quiet] \in JobType
         /\ job.todo \in SUBSET Docs /\ job.item \in Items \cup {NoItem}
         /\ job.quiet \in BOOLEAN /\ job.step \in JobSteps
<1>1. job \in JobType
  BY DEF Typed
<1>2. /\ job.todo \in SUBSET Docs /\ job.item \in Items \cup {NoItem}
      /\ job.quiet \in BOOLEAN /\ job.step \in JobSteps
  BY <1>1 DEF JobType
<1>3. NoJob \in JobType
  BY DEF JobType, NoJob, JobSteps
<1>4. \A step \in JobSteps, todo \in SUBSET Docs : Job(step, todo) \in JobType
  BY <1>2 DEF JobType, Job
<1>5. /\ \A quiet \in BOOLEAN : [job EXCEPT !.quiet = quiet] \in JobType
      /\ \A todo \in SUBSET Docs : [job EXCEPT !.todo = todo] \in JobType
      /\ \A i \in Items \cup {NoItem} : [job EXCEPT !.item = i] \in JobType
  BY <1>1 DEF JobType
<1>6. \A step \in JobSteps, quiet \in BOOLEAN :
        [NoJob EXCEPT !.step = step, !.quiet = quiet] \in JobType
  BY <1>3 DEF JobType
<1> QED
  BY <1>2, <1>3, <1>4, <1>5, <1>6

\* Where a step of maintenance takes its request.
LEMMA RequestMoves ==
  ASSUME Typed
  PROVE  /\ (\E s \in Sources : Register(s) \/ RecordDrop(s)) => job'.step = "register"
         /\ Sweep => job'.step = "drain"
         /\ (\E i \in Items : Process(i) \/ Postpone(i)) \/ Complete => job'.step = "drain"
         /\ EndScan \/ ClearFailed => job'.step = "idle"
         /\ MarkPending => job'.step = "create"
         /\ Create => job'.step \in {"pending", "snapshot"}
         /\ Snapshot \/ (\E d \in Docs : RebuildDocument(d)) => job'.step = "rebuild"
         /\ EndRebuild => job'.step \in {"idle", "look"}
         /\ LookAtFailed => job'.step \in {"idle", "settle"}
<1>1. (\E s \in Sources : Register(s) \/ RecordDrop(s)) => job'.step = "register"
  BY DEF Register, RecordDrop, MayMaintain, Typed, JobType
<1>2. Sweep => job'.step = "drain"
  BY DEF Sweep, Job
<1>3. (\E i \in Items : Process(i) \/ Postpone(i)) \/ Complete => job'.step = "drain"
  BY DEF Process, Postpone, Complete, MayMaintain, MayTake, Typed, JobType
<1>4. EndScan \/ ClearFailed => job'.step = "idle"
  BY DEF EndScan, ClearFailed, NoJob
<1>5. MarkPending => job'.step = "create"
  BY DEF MarkPending, Job
<1>6. Create => job'.step \in {"pending", "snapshot"}
  BY DEF Create, Job
<1>7. Snapshot => job'.step = "rebuild"
  BY DEF Snapshot, Job
<1>8. (\E d \in Docs : RebuildDocument(d)) => job'.step = "rebuild"
  BY DEF RebuildDocument, MayMaintain, Typed, JobType
<1>9. EndRebuild => job'.step \in {"idle", "look"}
  BY DEF EndRebuild, NoJob, Job
<1>10. LookAtFailed => job'.step \in {"idle", "settle"}
  BY DEF LookAtFailed, NoJob, Job
<1> QED
  BY <1>1, <1>2, <1>3, <1>4, <1>5, <1>6, <1>7, <1>8, <1>9, <1>10

\* A failed attempt takes no other row along.
LEMMA FailMoves ==
  ASSUME Typed, NEW i \in Items, Fail(i)
  PROVE  /\ (work'.due \cup work'.held \cup work'.failed)
              \subseteq ((work.due \cup work.held \cup work.failed) \cup {i})
         /\ \A j : j # i =>
              /\ (j \in work'.due) <=> (j \in work.due)
              /\ (j \in work'.held \cup work'.failed) <=> (j \in work.held \cup work.failed)
<1>1. work \in WorkType
  BY DEF Typed
<1>2. CASE work' = [work EXCEPT !.due = @ \ {i}, !.held = @ \cup {i}]
  <2>1. work'.due = work.due \ {i} /\ work'.held = work.held \cup {i} /\ work'.failed = work.failed
    BY <1>1, <1>2 DEF WorkType
  <2> QED
    BY <2>1
<1>3. CASE work' = [work EXCEPT !.due = @ \ {i}, !.held = @ \ {i}, !.failed = @ \cup {i}]
  <2>1. /\ work'.due = work.due \ {i} /\ work'.held = work.held \ {i}
        /\ work'.failed = work.failed \cup {i}
    BY <1>1, <1>3 DEF WorkType
  <2> QED
    BY <2>1
<1> QED
  BY <1>2, <1>3 DEF Fail

LEMMA FailTyped ==
  ASSUME Typed, NEW i \in Items, Fail(i)
  PROVE  work' \in WorkType
<1>1. work \in WorkType
  BY DEF Typed
<1>2. CASE work' = [work EXCEPT !.due = @ \ {i}, !.held = @ \cup {i}]
  BY <1>1, <1>2 DEF WorkType
<1>3. CASE work' = [work EXCEPT !.due = @ \ {i}, !.held = @ \ {i}, !.failed = @ \cup {i}]
  BY <1>1, <1>3 DEF WorkType
<1> QED
  BY <1>2, <1>3 DEF Fail

\* A row that a drain can take is one of a document.
LEMMA ItemIs ==
  ASSUME NEW i \in Items
  PROVE  i[1] \in {"extract", "index"} /\ i[2] \in Docs /\ i = <<i[1], i[2]>>
BY DEF Items

LEMMA TypedInit == Init => Typed
<1> SUFFICES ASSUME Init PROVE Typed
  OBVIOUS
<1>1. job \in JobType /\ work \in WorkType /\ Taken
  BY DEF Init, NoJob, NoWork, NoItem, JobType, WorkType, JobSteps, Taken
<1> QED
  BY <1>1 DEF Init, InitProjection, Typed, DocInHand, ThreadType, Idle, NoDoc, NoAnswer,
              States, CallSteps, Empty

\* The statements of a call keep everything well formed.
LEMMA TypedCall ==
  ASSUME Typed, Taken', NEW t \in Threads, ThreadStep(t)
  PROVE  Typed'
<1>1. UNCHANGED <<service, valid, job, work, answers, bounds>>
  BY DEF ThreadStep
<1> USE <1>1
<1> DEFINE d == thread[t].doc
<1>2. thread[t].ids \in SUBSET Docs /\ thread[t].mark \in States
  BY DEF Typed, ThreadType
<1>3. CASE ReadLatest(t)
  <2>1. d \in Docs
    BY <1>3 DEF ReadLatest, At, Typed, DocInHand, CallSteps
  <2>2. thread' \in [Threads -> ThreadType] /\ DocInHand'
    <3>1. CASE Go(t, "tombstone", {}, "none")
      BY <2>1, <3>1, GoTyped DEF CallSteps, States
    <3>2. CASE Go(t, "remove", {d}, "stale")
      BY <2>1, <3>2, GoTyped DEF CallSteps, States
    <3> QED
      BY <1>3, <3>1, <3>2 DEF ReadLatest
  <2> QED
    BY <1>3, <2>2 DEF ReadLatest, Typed, record, index
<1>4. CASE ReadTombstone(t)
  <2>1. d \in Docs
    BY <1>4 DEF ReadTombstone, At, Typed, DocInHand, CallSteps
  <2>2. thread' \in [Threads -> ThreadType] /\ DocInHand'
    BY <1>4, <2>1, GoTyped DEF ReadTombstone, CallSteps, States
  <2> QED
    BY <1>4, <2>2 DEF ReadTombstone, Typed, record, index
<1>5. CASE Remove(t)
  <2>1. d \in Docs
    BY <1>5 DEF Remove, At, Typed, DocInHand, CallSteps
  <2>2. thread' \in [Threads -> ThreadType] /\ DocInHand'
    BY <1>2, <1>5, <2>1, GoTyped DEF Remove, CallSteps
  <2> QED
    BY <1>5, <2>2 DEF Remove, Typed, record
<1>6. CASE Insert(t)
  <2>1. d \in Docs
    BY <1>6 DEF Insert, At, Typed, DocInHand, CallSteps
  <2>2. thread' \in [Threads -> ThreadType] /\ DocInHand'
    BY <1>2, <1>6, <2>1, GoTyped DEF Insert, CallSteps, States
  <2> QED
    BY <1>6, <2>1, <2>2 DEF Insert, Typed, record
<1>7. CASE Commit(t)
  <2>1. d \in Docs
    BY <1>7 DEF Commit, At, Typed, DocInHand, CallSteps
  <2>2. thread' \in [Threads -> ThreadType] /\ DocInHand'
    BY <1>2, <1>7, <2>1, GoTyped DEF Commit, CallSteps
  <2> QED
    BY <1>7, <2>2 DEF Commit, Typed, record
<1>8. CASE SetState(t)
  <2>1. d \in Docs
    BY <1>8 DEF SetState, At, Typed, DocInHand, CallSteps
  <2>2. thread' \in [Threads -> ThreadType] /\ DocInHand'
    <3>1. CASE Go(t, "older", {}, "none")
      BY <2>1, <3>1, GoTyped DEF CallSteps, States
    <3>2. CASE Return(t)
      BY <3>2, ReturnTyped
    <3> QED
      BY <1>8, <3>1, <3>2 DEF SetState
  <2> QED
    BY <1>2, <1>8, <2>2 DEF SetState, Typed, record
<1>9. CASE ReadOlder(t)
  <2>1. d \in Docs
    BY <1>9 DEF ReadOlder, At, Typed, DocInHand, CallSteps
  <2>2. thread' \in [Threads -> ThreadType] /\ DocInHand'
    <3>1. CASE Go(t, "remove", Older(d), "stale")
      BY <2>1, <3>1, GoTyped DEF Older, ChunkIdsForSubject, Typed, CallSteps, States
    <3>2. CASE Return(t)
      BY <3>2, ReturnTyped
    <3> QED
      BY <1>9, <3>1, <3>2 DEF ReadOlder
  <2> QED
    BY <1>9, <2>2 DEF ReadOlder, Typed, record, index
<1>10. CASE RetireSubject(t)
  <2>1. d \in Docs
    BY <1>10 DEF RetireSubject, At, Typed, DocInHand, CallSteps
  <2>2. thread' \in [Threads -> ThreadType] /\ DocInHand'
    <3>1. CASE Go(t, "remove", ChunkIdsForSubject(d[1]), "stale")
      BY <2>1, <3>1, GoTyped DEF ChunkIdsForSubject, Typed, CallSteps, States
    <3>2. CASE Return(t)
      BY <3>2, ReturnTyped
    <3> QED
      BY <1>10, <3>1, <3>2 DEF RetireSubject
  <2> QED
    BY <1>10, <2>2 DEF RetireSubject, Typed, record, index
<1> QED
  BY <1>3, <1>4, <1>5, <1>6, <1>7, <1>8, <1>9, <1>10 DEF ThreadStep, CallStep

\* So do requests: what they hand to the projection is a version on record.
LEMMA TypedRequest ==
  ASSUME Typed, Taken', NEW c \in Clients, Request(c)
  PROVE  Typed'
<1>1. c \in Threads /\ 1 \in 1 .. MaxVersion
  OBVIOUS
<1>0. Disturb => job' \in JobType
  BY JobTyped DEF Disturb
<1>2. ASSUME NEW s \in Texts, Store(c, s) PROVE Typed'
  <2>1. s \in Subjects /\ <<s, 1>> \in Docs
    BY <1>1, <1>2 DEF Texts, Docs
  <2>2. thread' \in [Threads -> ThreadType] /\ DocInHand'
    BY <1>1, <1>2, <2>1, CallTyped DEF Store, CallSteps
  <2>3. versions' \in [Subjects -> 0 .. MaxVersion] /\ chunked' \subseteq Docs
    BY <1>1, <1>2, <2>1 DEF Store, Typed
  <2> QED
    BY <1>2, <1>0, <2>2, <2>3 DEF Store, Typed, index
<1>3. ASSUME NEW s \in Relayed, CheckConfirm(c, s) PROVE Typed'
  <2>1. Latest(s) \in Docs
    BY <1>3, LatestIsDoc DEF CheckConfirm, Live, Typed
  <2>2. thread' \in [Threads -> ThreadType] /\ DocInHand'
    BY <1>1, <1>3, <2>1, CallTyped DEF CheckConfirm, RequestSteps
  <2> QED
    BY <1>3, <1>0, <2>2 DEF CheckConfirm, Typed, record, index
<1>4. ASSUME NEW s \in Subjects, CheckForget(c, s) PROVE Typed'
  <2>1. Latest(s) \in Docs
    BY <1>4, LatestIsDoc DEF CheckForget, Live, Typed
  <2>2. thread' \in [Threads -> ThreadType] /\ DocInHand'
    BY <1>1, <1>4, <2>1, CallTyped DEF CheckForget, RequestSteps
  <2> QED
    BY <1>4, <1>0, <2>2 DEF CheckForget, Typed, record, index
<1>5. CASE Promote(c)
  <2> DEFINE s == thread[c].doc[1]
  <2>1. s \in Subjects
    BY <1>1, <1>5 DEF Promote, At, Typed, DocInHand, Docs
  <2>2. <<s, versions[s] + 1>> \in Docs /\ versions[s] + 1 \in 0 .. MaxVersion
    BY <1>5, <2>1, NextIsDoc DEF Promote, Typed
  <2>3. thread' \in [Threads -> ThreadType] /\ DocInHand'
    BY <1>1, <1>5, <2>2, CallTyped DEF Promote, CallSteps
  <2> QED
    BY <1>5, <2>2, <2>3 DEF Promote, Typed, index
<1>6. CASE Bury(c)
  <2>1. thread[c].doc \in Docs
    BY <1>1, <1>6 DEF Bury, At, Typed, DocInHand
  <2>2. thread' \in [Threads -> ThreadType] /\ DocInHand'
    BY <1>1, <1>6, <2>1, CallTyped DEF Bury, CallSteps
  <2> QED
    BY <1>6, <2>1, <2>2 DEF Bury, Typed, index, Docs
<1>7. CASE ReadHits(c)
  <2>1. thread' \in [Threads -> ThreadType] /\ DocInHand'
    BY <1>1, <1>7, CallTyped DEF ReadHits, RequestSteps
  <2> QED
    BY <1>7, <2>1 DEF ReadHits, Typed, record, index
<1>8. CASE FilterHits(c)
  <2>1. thread' \in [Threads -> ThreadType] /\ DocInHand'
    BY <1>1, <1>8, CallTyped DEF FilterHits, RequestSteps
  <2>2. Kept(answers[c].hits) \in SUBSET Docs
    BY DEF Kept, Typed
  <2>3. answers' \in [Clients -> [since : SUBSET Subjects, hits : SUBSET Docs]]
    BY <1>8, <2>2 DEF FilterHits, Typed
  <2> QED
    BY <1>8, <2>1, <2>3 DEF FilterHits, Typed, record, index
<1>9. CASE Answer(c)
  <2>1. thread' \in [Threads -> ThreadType] /\ DocInHand'
    BY <1>1, <1>9, ReturnTyped DEF Answer
  <2> QED
    BY <1>9, <2>1 DEF Answer, NoAnswer, Typed, record, index
<1> QED
  BY <1>2, <1>3, <1>4, <1>5, <1>6, <1>7, <1>8, <1>9 DEF Request

\* A step of a maintenance request that leaves the threads alone only has to
\* keep what it changes.
LEMMA TypedMaintain ==
  ASSUME Typed, Taken', Maintain \/ StartScan \/ StartReindex
  PROVE  Typed'
<1>1. Maintainer \in Threads /\ 1 \in 1 .. MaxVersion
  OBVIOUS
<1>2. CASE StartScan \/ StartReindex
  <2>1. Resting \in BOOLEAN
    BY DEF Resting
  <2>2. job' \in JobType
    BY <1>2, <2>1, JobTyped DEF StartScan, StartReindex, JobSteps
  <2> QED
    BY <1>2, <2>2 DEF StartScan, StartReindex, Typed, DocInHand, record, index
<1>4. ASSUME NEW s \in Sources, Register(s) PROVE Typed'
  <2>1. s \in Subjects /\ <<s, versions[s] + 1>> \in Docs
    BY <1>4, NextIsDoc DEF Register
  <2>2. versions' \in [Subjects -> 0 .. MaxVersion]
    BY <1>4, <2>1 DEF Register, Typed
  <2>3. work' \in WorkType
    BY <1>4, <2>1 DEF Register, Typed, WorkType, Items
  <2>4. job' \in JobType
    BY <1>4, <2>1, JobTyped DEF Register
  <2> QED
    BY <1>4, <2>2, <2>3, <2>4 DEF Register, Typed, DocInHand, index
<1>5. ASSUME NEW s \in Sources, RecordDrop(s) PROVE Typed'
  <2>1. s \in Subjects /\ <<s, 1>> \in Docs
    BY <1>1 DEF Docs
  <2>2. thread' \in [Threads -> ThreadType] /\ DocInHand'
    BY <1>1, <1>5, <2>1, CallTyped DEF RecordDrop, CallSteps
  <2>3. versions' \in [Subjects -> 0 .. MaxVersion] /\ chunked' \subseteq Docs
    BY <1>1, <1>5, <2>1 DEF RecordDrop, Typed
  <2>4. UNCHANGED <<forgotten, fts, disk, proj, service, valid, job, work, answers, bounds>>
    BY <1>5 DEF RecordDrop, index
  <2> QED
    BY <2>2, <2>3, <2>4 DEF Typed
<1>6. CASE Sweep
  <2>1. Requeued \subseteq Items
    BY DEF Requeued, NeedingIndex, Items
  <2>2. work' \in WorkType
    <3>1. PICK ripe \in SUBSET work.held :
            work' = [work EXCEPT !.due = @ \cup ripe \cup Requeued, !.held = @ \ ripe]
      BY <1>6 DEF Sweep
    <3>2. work \in WorkType
      BY DEF Typed
    <3> QED
      BY <2>1, <3>1, <3>2 DEF WorkType
  <2>3. job' \in JobType
    BY <1>6, JobTyped DEF Sweep, JobSteps
  <2> QED
    BY <1>6, <2>2, <2>3 DEF Sweep, Typed, DocInHand, record, index
<1>7. ASSUME NEW i \in Items, Process(i) PROVE Typed'
  <2>1. i[2] \in Docs
    BY ItemIs
  <2>2. thread' \in [Threads -> ThreadType] /\ DocInHand'
    BY <1>1, <1>7, <2>1, CallTyped DEF Process, CallSteps
  <2>3. work' \in WorkType
    BY <1>7 DEF Process, Typed, WorkType
  <2>4. job' \in JobType
    BY <1>7, JobTyped DEF Process
  <2> QED
    BY <1>7, <2>1, <2>2, <2>3, <2>4 DEF Process, Typed, index
<1>8. ASSUME NEW i \in Items, Postpone(i) PROVE Typed'
  BY <1>8, FailTyped DEF Postpone, Typed, DocInHand, record, index
<1>9. ASSUME NEW d \in Docs, RebuildDocument(d) PROVE Typed'
  <2>1. thread' \in [Threads -> ThreadType] /\ DocInHand'
    <3>1. CASE UNCHANGED thread
      BY <3>1 DEF Typed, DocInHand
    <3>2. CASE Call(Maintainer, "latest", d)
      BY <1>1, <3>2, CallTyped DEF CallSteps
    <3> QED
      BY <1>9, <3>1, <3>2 DEF RebuildDocument
  <2>2. job.todo \ {d} \in SUBSET Docs
    BY JobTyped
  <2>3. job' \in JobType
    BY <1>9, <2>2, JobTyped DEF RebuildDocument
  <2> QED
    BY <1>9, <2>1, <2>3 DEF RebuildDocument, Typed, record, index
<1>10. CASE Complete \/ EndScan
  <2>1. work' \in WorkType
    BY <1>10 DEF Complete, EndScan, Typed, WorkType
  <2>2. job' \in JobType
    BY <1>10, JobTyped DEF Complete, EndScan
  <2> QED
    BY <1>10, <2>1, <2>2 DEF Complete, EndScan, Typed, DocInHand, record, index
<1>11. CASE MarkPending
  <2>1. job' \in JobType
    BY <1>11, JobTyped DEF MarkPending, JobSteps
  <2> QED
    BY <1>11, <2>1 DEF MarkPending, Typed, DocInHand, States, record
<1>12. CASE Create
  <2>1. job' \in JobType
    BY <1>12, JobTyped DEF Create, JobSteps
  <2> QED
    BY <1>12, <2>1 DEF Create, Created, Empty, Typed, DocInHand, record
<1>13. CASE Snapshot
  <2>1. {Latest(s) : s \in {r \in Subjects : versions[r] > 0}} \in SUBSET Docs
    BY LatestIsDoc
  <2>2. job' \in JobType
    BY <1>13, <2>1, JobTyped DEF Snapshot, JobSteps
  <2> QED
    BY <1>13, <2>2 DEF Snapshot, Typed, DocInHand, record, index
<1>14. CASE EndRebuild
  <2>1. job' \in JobType
    BY <1>14, JobTyped DEF EndRebuild, JobSteps
  <2> QED
    BY <1>14, <2>1 DEF EndRebuild, Typed, DocInHand, States, record
<1>15. CASE LookAtFailed \/ ClearFailed
  <2>1. job' \in JobType
    BY <1>15, JobTyped DEF LookAtFailed, ClearFailed, JobSteps
  <2>2. work' \in WorkType
    BY <1>15 DEF LookAtFailed, ClearFailed, Typed, WorkType
  <2> QED
    BY <1>15, <2>1, <2>2 DEF LookAtFailed, ClearFailed, Typed, DocInHand, record, index
<1> QED
  BY <1>2, <1>4, <1>5, <1>6, <1>7, <1>8, <1>9, <1>10, <1>11, <1>12, <1>13, <1>14, <1>15
  DEF Maintain

\* Failures are counted up to their bounds.
LEMMA TypedFailure ==
  ASSUME Typed, Taken', (\E t \in Threads : Fault(t)) \/ Crash \/ LoseIndex \/ Open
  PROVE  Typed'
<1>1. ASSUME NEW t \in Threads, Fault(t) PROVE Typed'
  <2>1. thread' \in [Threads -> ThreadType] /\ DocInHand'
    BY <1>1, ReturnTyped DEF Fault
  <2>2. job' \in JobType /\ work' \in WorkType
    <3>1. CASE t = Maintainer /\ job.step = "drain"
      <4>1. Fail(job.item) /\ job.item \in Items
        BY <1>1, <3>1 DEF Fault, Typed, Taken
      <4>2. job' = [job EXCEPT !.item = NoItem, !.quiet = FALSE]
        BY <1>1, <3>1 DEF Fault
      <4>3. job' \in JobType
        BY <4>2 DEF Typed, JobType
      <4> QED
        BY <4>1, <4>3, FailTyped
    <3>2. CASE t = Maintainer /\ job.step # "drain"
      BY <1>1, <3>2, JobTyped DEF Fault, Typed
    <3>3. CASE t # Maintainer
      BY <1>1, <3>3, JobTyped DEF Fault, Disturb, Typed
    <3> QED
      BY <3>1, <3>2, <3>3
  <2>3. bounds' \in [crashes : 0 .. MaxCrashes, losses : 0 .. MaxLosses,
                     faults : 0 .. MaxFaults]
    BY <1>1 DEF Fault, Typed
  <2> QED
    BY <1>1, <2>1, <2>2, <2>3 DEF Fault, Typed, record, index
<1>2. CASE Crash
  <2>1. bounds' \in [crashes : 0 .. MaxCrashes, losses : 0 .. MaxLosses,
                     faults : 0 .. MaxFaults]
    BY <1>2 DEF Crash, Typed
  <2>2. thread' \in [Threads -> ThreadType] /\ DocInHand'
    BY <1>2 DEF Crash, Idle, NoDoc, DocInHand, ThreadType, States, CallSteps
  <2>3. job' \in JobType
    BY <1>2, JobTyped DEF Crash
  <2> QED
    BY <1>2, <2>1, <2>2, <2>3 DEF Crash, NoAnswer, Typed, record
<1>3. CASE LoseIndex
  <2>1. bounds' \in [crashes : 0 .. MaxCrashes, losses : 0 .. MaxLosses,
                     faults : 0 .. MaxFaults]
    BY <1>3 DEF LoseIndex, Typed
  <2> QED
    BY <1>3, <2>1 DEF LoseIndex, Empty, Typed, DocInHand, record
<1>4. CASE Open
  <2>1. job' = job \/ job' = [NoJob EXCEPT !.step = "first", !.quiet = TRUE]
    BY <1>4 DEF Open
  <2>2. job' \in JobType
    BY <2>1, JobTyped DEF Typed, JobSteps
  <2>3. service' \in {"up", "opening", "down"}
    BY <1>4 DEF Open
  <2> QED
    BY <1>4, <2>2, <2>3 DEF Open, Typed, DocInHand, record, index
<1> QED
  BY <1>1, <1>2, <1>3, <1>4

\* Only Process sets a drain to work on a document, and it takes the row first.
LEMMA TakenStep ==
  ASSUME Typed, [Next]_vars
  PROVE  Taken'
<1>0. Taken /\ Maintainer \in Threads /\ Maintainer \notin Clients
  BY DEF Typed
<1>1. ASSUME job' = job, thread[Maintainer].at # "idle" \/ thread'[Maintainer] = thread[Maintainer]
      PROVE  Taken'
  BY <1>0, <1>1 DEF Taken
<1>2. ASSUME thread'[Maintainer].at = "idle" \/ job'.step # "drain"
      PROVE  Taken'
  BY <1>2 DEF Taken
<1>3. ASSUME NEW t \in Threads, ThreadStep(t) PROVE Taken'
  <2>1. thread[t].at # "idle" /\ job' = job
    BY <1>3 DEF ThreadStep, CallStep, ReadLatest, ReadTombstone, Remove, Insert, Commit,
                SetState, ReadOlder, RetireSubject, At
  <2>2. \A u \in Threads \ {t} : thread'[u] = thread[u]
    BY <1>3 DEF ThreadStep, CallStep, ReadLatest, ReadTombstone, Remove, Insert, Commit,
                SetState, ReadOlder, RetireSubject, Go, Return, Typed
  <2> QED
    BY <1>0, <1>1, <2>1, <2>2
<1>4. ASSUME NEW t \in Threads, Fault(t) PROVE Taken'
  <2>1. CASE t = Maintainer
    BY <1>0, <1>2, <1>4, <2>1 DEF Fault, Return, Idle, Typed
  <2>2. CASE t # Maintainer
    <3>1. thread'[Maintainer] = thread[Maintainer]
      BY <1>0, <1>4, <2>2 DEF Fault, Return, Typed
    <3>2. job'.step = job.step /\ job'.item = job.item
      BY <1>4, <2>2 DEF Fault, Disturb, Typed, JobType
    <3> QED
      BY <1>0, <3>1, <3>2 DEF Taken
  <2> QED
    BY <2>1, <2>2
<1>5. ASSUME NEW c \in Clients, Request(c) PROVE Taken'
  <2>1. thread'[Maintainer] = thread[Maintainer]
    BY <1>0, <1>5 DEF Request, Store, CheckConfirm, CheckForget, Promote, Bury, ReadHits,
                      FilterHits, Answer, Call, Return, Typed
  <2>2. job' = job \/ Disturb
    BY <1>5 DEF Request, Store, CheckConfirm, CheckForget, Promote, Bury, ReadHits,
                FilterHits, Answer
  <2>3. job'.step = job.step /\ job'.item = job.item
    BY <2>2 DEF Disturb, Typed, JobType
  <2> QED
    BY <1>0, <2>1, <2>3 DEF Taken
<1>6. ASSUME NEW i \in Items, Process(i) PROVE Taken'
  <2>1. job'.item = i
    BY <1>6 DEF Process, Typed, JobType
  <2> QED
    BY <2>1 DEF Taken
<1>7. CASE (\E s \in Sources : RecordDrop(s)) \/ (\E d \in Docs : RebuildDocument(d))
  <2>1. job'.step # "drain"
    BY <1>7 DEF RecordDrop, RebuildDocument, MayMaintain, Typed, JobType
  <2> QED
    BY <1>2, <2>1
<1>8. CASE \/ \E s \in Sources : Register(s)
           \/ \E i \in Items : Postpone(i)
           \/ StartScan \/ StartReindex \/ Sweep \/ Complete \/ EndScan \/ MarkPending
           \/ Create \/ Snapshot \/ EndRebuild \/ LookAtFailed \/ ClearFailed
  <2>1. thread' = thread /\ thread[Maintainer].at = "idle"
    BY <1>8 DEF Register, Postpone, StartScan, StartReindex, Sweep, Complete, EndScan,
                MarkPending, Create, Snapshot, EndRebuild, LookAtFailed, ClearFailed,
                MayTake, MayMaintain, At
  <2> QED
    BY <1>2, <2>1
<1>9. CASE Crash
  BY <1>0, <1>2, <1>9 DEF Crash, Idle
<1>10. CASE LoseIndex \/ Open
  <2>1. job' = job \/ job' = [NoJob EXCEPT !.step = "first", !.quiet = TRUE]
    BY <1>10 DEF LoseIndex, Open
  <2>2. job' = job \/ job'.step = "first"
    BY <2>1 DEF NoJob
  <2>3. thread' = thread
    BY <1>10 DEF LoseIndex, Open
  <2> QED
    BY <1>1, <1>2, <2>2, <2>3
<1>11. CASE UNCHANGED vars
  BY <1>1, <1>11 DEF vars
<1> QED
  BY <1>3, <1>4, <1>5, <1>6, <1>7, <1>8, <1>9, <1>10, <1>11 DEF Next, Maintain

LEMMA TypedStep == Typed /\ [Next]_vars => Typed'
<1> SUFFICES ASSUME Typed, [Next]_vars PROVE Typed'
  OBVIOUS
<1>0. Taken'
  BY TakenStep
<1>1. ASSUME NEW t \in Threads, ThreadStep(t) PROVE Typed'
  BY <1>0, <1>1, TypedCall
<1>2. ASSUME NEW c \in Clients, Request(c) PROVE Typed'
  BY <1>0, <1>2, TypedRequest
<1>3. CASE Maintain \/ StartScan \/ StartReindex
  BY <1>0, <1>3, TypedMaintain
<1>4. CASE (\E t \in Threads : Fault(t)) \/ Crash \/ LoseIndex \/ Open
  BY <1>0, <1>4, TypedFailure
<1>5. CASE UNCHANGED vars
  BY <1>0, <1>5 DEF vars, Typed, DocInHand, record, index
<1>6. CASE Next
  <2> USE <1>6 DEF Next
  <2>1. CASE \E t \in Threads : ThreadStep(t) \/ Fault(t)
    BY <2>1, <1>1, <1>4
  <2>2. CASE \E c \in Clients : Request(c)
    BY <2>2, <1>2
  <2> QED
    BY <2>1, <2>2, <1>3, <1>4
<1> QED
  BY <1>5, <1>6

-----------------------------------------------------------------------------
(***************************************************************************)
(* The table has no key, so what bounds the rows of a document is the      *)
(* number of threads: each removes before it inserts.                      *)
(***************************************************************************)

Bound == Cardinality(Threads)

Inserting(d) == {t \in Threads : thread[t].at = "insert" /\ thread[t].doc = d}

Rows ==
  \A d \in Docs :
    disk[d] <= Bound /\ fts[d] + Cardinality(Inserting(d)) <= Bound

\* A thread that is about to write a document's rows removes them first.
RemovesOwn ==
  \A t \in Threads :
    thread[t].at = "remove" /\ thread[t].mark = "current"
      => thread[t].doc \in thread[t].ids

\* No thread sets out on a replacement, or comes to its insert.
NoNewRow ==
  \A t \in Threads :
    thread'[t].at = "insert" \/ (thread'[t].at = "remove" /\ thread'[t].mark = "current")
      => thread'[t] = thread[t]

LEMMA ThreadsFinite == IsFiniteSet(Threads) /\ Bound \in Nat
<1>1. IsFiniteSet(Threads)
  BY FiniteAssumption, FS_AddElement
<1> QED
  BY <1>1, FS_CardinalityType DEF Bound

LEMMA InsertingFinite ==
  \A d : /\ IsFiniteSet(Inserting(d))
        /\ Cardinality(Inserting(d)) \in Nat /\ Cardinality(Inserting(d)) <= Bound
BY ThreadsFinite, FS_Subset, FS_CardinalityType DEF Inserting, Bound

\* As long as nobody comes to its insert, fewer are there.
LEMMA FewerInserting ==
  ASSUME NoNewRow, NEW d
  PROVE  /\ Cardinality(Inserting(d)') \in Nat
         /\ Cardinality(Inserting(d)') <= Cardinality(Inserting(d))
<1>1. Inserting(d)' \subseteq Inserting(d)
  BY DEF NoNewRow, Inserting
<1> QED
  BY <1>1, InsertingFinite, FS_Subset, FS_CardinalityType

LEMMA GoQuiet ==
  ASSUME Typed, NEW t \in Threads, NEW step, NEW ids, NEW mark,
         Go(t, step, ids, mark), step # "insert", step = "remove" => mark = "stale"
  PROVE  NoNewRow
BY DEF Go, NoNewRow, Typed

LEMMA ReturnQuiet == ASSUME Typed, NEW t \in Threads, Return(t) PROVE NoNewRow
BY DEF Return, Idle, NoNewRow, Typed

LEMMA CallQuiet ==
  ASSUME Typed, NEW t \in Threads, NEW step, NEW d, Call(t, step, d),
         step \notin {"insert", "remove"}
  PROVE  NoNewRow
BY DEF Call, Calling, NoNewRow, Typed

\* Rows stay within their bound where nobody writes any.
LEMMA RowsShrink ==
  ASSUME Typed, Rows, UNCHANGED <<fts, disk>>, \A e : Inserting(e)' \subseteq Inserting(e)
  PROVE  Rows'
<1>1. ASSUME NEW d \in Docs
      PROVE  disk'[d] <= Bound /\ fts'[d] + Cardinality(Inserting(d)') <= Bound
  <2>1. fts[d] \in Nat /\ fts'[d] = fts[d] /\ disk'[d] = disk[d]
    BY DEF Typed
  <2>2. disk[d] <= Bound /\ fts[d] + Cardinality(Inserting(d)) <= Bound
    BY DEF Rows
  <2>3. Inserting(d)' \subseteq Inserting(d)
    OBVIOUS
  <2>4. /\ Cardinality(Inserting(d)') \in Nat /\ Cardinality(Inserting(d)) \in Nat
        /\ Cardinality(Inserting(d)') <= Cardinality(Inserting(d))
    BY <2>3, InsertingFinite, FS_Subset, FS_CardinalityType
  <2> QED
    BY <2>1, <2>2, <2>4, ThreadsFinite
<1> QED
  BY <1>1 DEF Rows, Bound

LEMMA RowsKept ==
  ASSUME Typed, Rows, RemovesOwn, NoNewRow, UNCHANGED <<fts, disk>>
  PROVE  Rows' /\ RemovesOwn'
<1>1. Rows'
  BY RowsShrink DEF NoNewRow, Inserting
<1>2. RemovesOwn'
  BY DEF RemovesOwn, NoNewRow
<1> QED
  BY <1>1, <1>2

LEMMA RowsInit == Init => Rows /\ RemovesOwn
<1> SUFFICES ASSUME Init PROVE Rows /\ RemovesOwn
  OBVIOUS
<1>1. \A d \in Docs : Inserting(d) = {} /\ fts[d] = 0 /\ disk[d] = 0
  BY DEF Init, InitProjection, Idle, Empty, Inserting
<1>2. RemovesOwn
  BY DEF Init, InitProjection, Idle, RemovesOwn
<1> QED
  BY <1>1, <1>2, ThreadsFinite, FS_EmptySet DEF Rows

\* The statements of a call: a removal makes room, an insert fills it.
LEMMA RowsCall ==
  ASSUME Typed, Rows, RemovesOwn, NEW t \in Threads, ThreadStep(t)
  PROVE  Rows' /\ RemovesOwn'
<1> DEFINE d == thread[t].doc
           ids == thread[t].ids
<1>1. CASE ReadLatest(t) \/ ReadOlder(t) \/ RetireSubject(t) \/ SetState(t)
  <2>1. NoNewRow
    BY <1>1, GoQuiet, ReturnQuiet DEF ReadLatest, ReadOlder, RetireSubject, SetState
  <2>2. UNCHANGED <<fts, disk>>
    BY <1>1 DEF ReadLatest, ReadOlder, RetireSubject, SetState, index
  <2> QED
    BY <2>1, <2>2, RowsKept
<1>2. CASE ReadTombstone(t)
  <2>1. \A e : Inserting(e)' \subseteq Inserting(e)
    BY <1>2 DEF ReadTombstone, Go, Inserting, Typed
  <2>2. UNCHANGED <<fts, disk>>
    BY <1>2 DEF ReadTombstone, index
  <2>3. Rows'
    BY <2>1, <2>2, RowsShrink
  <2>4. RemovesOwn'
    BY <1>2 DEF ReadTombstone, Go, RemovesOwn, Typed
  <2> QED
    BY <2>3, <2>4
<1>3. CASE Remove(t)
  <2>1. RemovesOwn'
    BY <1>3 DEF Remove, Go, RemovesOwn, Typed
  <2>2. ASSUME NEW e \in Docs \ ids
        PROVE  Inserting(e)' \subseteq Inserting(e)
    BY <1>3, <2>2 DEF Remove, Go, At, Inserting, RemovesOwn, Typed
  <2>3. ASSUME NEW e \in Docs
        PROVE  disk'[e] <= Bound /\ fts'[e] + Cardinality(Inserting(e)') <= Bound
    <3>1. disk'[e] <= Bound
      BY <1>3 DEF Remove, Rows
    <3>2. Inserting(e)' \subseteq Threads
      BY DEF Inserting
    <3>3. Cardinality(Inserting(e)') \in Nat /\ Cardinality(Inserting(e)') <= Bound
      BY <3>2, ThreadsFinite, FS_Subset, FS_CardinalityType DEF Bound
    <3>4. CASE e \in ids
      <4>1. fts'[e] = 0
        BY <1>3, <3>4 DEF Remove
      <4> QED
        BY <3>1, <3>3, <4>1
    <3>5. CASE e \notin ids
      <4>1. fts'[e] = fts[e] /\ fts[e] \in Nat /\ fts[e] + Cardinality(Inserting(e)) <= Bound
        BY <1>3, <3>5 DEF Remove, Rows, Typed
      <4>2. Cardinality(Inserting(e)') <= Cardinality(Inserting(e))
        BY <2>2, <3>5, InsertingFinite, FS_Subset
      <4> QED
        BY <3>1, <3>3, <4>1, <4>2, InsertingFinite, ThreadsFinite
    <3> QED
      BY <3>4, <3>5
  <2> QED
    BY <2>1, <2>3 DEF Rows, Bound
<1>4. CASE Insert(t)
  <2>1. RemovesOwn'
    BY <1>4 DEF Insert, Go, RemovesOwn, Typed
  <2>2. ASSUME NEW e \in Docs
        PROVE  disk'[e] <= Bound /\ fts'[e] + Cardinality(Inserting(e)') <= Bound
    <3>1. /\ disk'[e] <= Bound
          /\ fts[e] \in Nat /\ fts[e] + Cardinality(Inserting(e)) <= Bound
      BY <1>4 DEF Insert, Rows, Typed
    <3>2. CASE e = d
      <4>1. t \in Inserting(e) /\ Inserting(e)' = Inserting(e) \ {t}
        BY <1>4, <3>2 DEF Insert, Go, At, Inserting, Typed
      <4>2. Cardinality(Inserting(e)') = Cardinality(Inserting(e)) - 1
        BY <4>1, InsertingFinite, FS_RemoveElement
      <4>3. fts'[e] = fts[e] + 1
        BY <1>4, <3>2 DEF Insert, Typed
      <4> QED
        BY <3>1, <4>2, <4>3, InsertingFinite, ThreadsFinite
    <3>3. CASE e # d
      <4>1. Inserting(e)' = Inserting(e)
        BY <1>4, <3>3 DEF Insert, Go, At, Inserting, Typed
      <4>2. fts'[e] = fts[e]
        BY <1>4, <3>3 DEF Insert, Typed
      <4> QED
        BY <3>1, <4>1, <4>2
    <3> QED
      BY <3>2, <3>3
  <2> QED
    BY <2>1, <2>2 DEF Rows, Bound
<1>5. CASE Commit(t)
  <2>1. NoNewRow
    BY <1>5, GoQuiet DEF Commit
  <2>2. RemovesOwn'
    BY <2>1 DEF RemovesOwn, NoNewRow
  <2>3. ASSUME NEW e \in Docs
        PROVE  disk'[e] <= Bound /\ fts'[e] + Cardinality(Inserting(e)') <= Bound
    <3>1. disk'[e] = fts[e] /\ fts'[e] = fts[e] /\ fts[e] \in Nat
      BY <1>5 DEF Commit, Typed
    <3>2. fts[e] + Cardinality(Inserting(e)) <= Bound
      BY DEF Rows
    <3> QED
      BY <2>1, <3>1, <3>2, FewerInserting, InsertingFinite, ThreadsFinite
  <2> QED
    BY <2>2, <2>3 DEF Rows, Bound
<1> QED
  BY <1>1, <1>2, <1>3, <1>4, <1>5 DEF ThreadStep, CallStep

\* Everything else a process does while it is up leaves the rows alone, or
\* empties the table.
LEMMA RowsOther ==
  ASSUME Typed, Rows, RemovesOwn,
         \/ \E c \in Clients : Request(c)
         \/ \E t \in Threads : Fault(t)
         \/ Maintain \/ StartScan \/ StartReindex \/ Crash \/ LoseIndex \/ Open
  PROVE  Rows' /\ RemovesOwn'
<1>1. ASSUME NEW c \in Clients, Request(c) PROVE Rows' /\ RemovesOwn'
  <2>1. NoNewRow
    <3>1. ASSUME NEW d, NEW step \in {"latest", "retire"} \cup RequestSteps,
                 Call(c, step, d)
          PROVE  NoNewRow
      BY <3>1, CallQuiet DEF RequestSteps
    <3>2. CASE ~Answer(c)
      BY <1>1, <3>1, <3>2 DEF Request, Store, CheckConfirm, CheckForget, Promote, Bury,
                              ReadHits, FilterHits, RequestSteps
    <3>3. CASE Answer(c)
      BY <3>3, ReturnQuiet DEF Answer
    <3> QED
      BY <1>1, <3>1, <3>2, <3>3 DEF Request
  <2>2. UNCHANGED <<fts, disk>>
    BY <1>1 DEF Request, Store, CheckConfirm, CheckForget, Promote, Bury, ReadHits,
                FilterHits, Answer, index
  <2> QED
    BY <2>1, <2>2, RowsKept
<1>2. ASSUME NEW t \in Threads, Fault(t) PROVE Rows' /\ RemovesOwn'
  <2>1. NoNewRow
    BY <1>2, ReturnQuiet DEF Fault
  <2>2. UNCHANGED <<fts, disk>>
    BY <1>2 DEF Fault, index
  <2> QED
    BY <2>1, <2>2, RowsKept
<1>3. CASE \/ \E s \in Sources : RecordDrop(s)
           \/ \E i \in Items : Process(i)
           \/ \E d \in Docs : RebuildDocument(d)
  <2>1. NoNewRow
    <3>1. CASE UNCHANGED thread
      BY <3>1 DEF NoNewRow
    <3>2. CASE \E d : Call(Maintainer, "latest", d)
      BY <3>2, CallQuiet
    <3> QED
      BY <1>3, <3>1, <3>2 DEF RecordDrop, Process, RebuildDocument
  <2>2. UNCHANGED <<fts, disk>>
    BY <1>3 DEF RecordDrop, Process, RebuildDocument, index
  <2> QED
    BY <2>1, <2>2, RowsKept
<1>4. CASE \/ StartScan \/ StartReindex \/ Sweep \/ Complete \/ EndScan \/ MarkPending
           \/ Snapshot \/ EndRebuild \/ LookAtFailed \/ ClearFailed \/ Open
           \/ \E s \in Sources : Register(s)
           \/ \E i \in Items : Postpone(i)
  <2>1. UNCHANGED <<thread, fts, disk>>
    BY <1>4 DEF StartScan, StartReindex, Sweep, EndScan, MarkPending, Snapshot,
                EndRebuild, LookAtFailed, ClearFailed, Open, Register, Postpone, Complete, index
  <2> QED
    BY <2>1, RowsKept DEF NoNewRow
<1>5. CASE Create \/ LoseIndex
  <2>1. UNCHANGED thread /\ fts' = Empty /\ disk' = Empty
    BY <1>5 DEF Create, Created, LoseIndex
  <2>2. RemovesOwn'
    BY <2>1 DEF RemovesOwn
  <2>3. ASSUME NEW d \in Docs
        PROVE  disk'[d] <= Bound /\ fts'[d] + Cardinality(Inserting(d)') <= Bound
    <3>1. fts'[d] = 0 /\ disk'[d] = 0
      BY <2>1 DEF Empty
    <3>2. Inserting(d)' = Inserting(d)
      BY <2>1 DEF Inserting
    <3> QED
      BY <3>1, <3>2, InsertingFinite, ThreadsFinite
  <2> QED
    BY <2>2, <2>3 DEF Rows, Bound
<1>6. CASE Crash
  <2>1. fts' = disk /\ disk' = disk /\ thread' = [t \in Threads |-> Idle]
    BY <1>6 DEF Crash
  <2>2. RemovesOwn'
    BY <2>1 DEF RemovesOwn, Idle
  <2>3. ASSUME NEW d \in Docs
        PROVE  disk'[d] <= Bound /\ fts'[d] + Cardinality(Inserting(d)') <= Bound
    <3>1. Inserting(d)' = {}
      BY <2>1 DEF Inserting, Idle
    <3> QED
      BY <2>1, <3>1, FS_EmptySet DEF Rows, Typed
  <2> QED
    BY <2>2, <2>3 DEF Rows, Bound
<1> QED
  BY <1>1, <1>2, <1>3, <1>4, <1>5, <1>6 DEF Maintain

LEMMA RowsStep == Typed /\ Rows /\ RemovesOwn /\ [Next]_vars => Rows' /\ RemovesOwn'
<1> SUFFICES ASSUME Typed, Rows, RemovesOwn, [Next]_vars PROVE Rows' /\ RemovesOwn'
  OBVIOUS
<1>1. ASSUME NEW t \in Threads, ThreadStep(t) PROVE Rows' /\ RemovesOwn'
  BY <1>1, RowsCall
<1>2. CASE UNCHANGED vars
  BY <1>2, RowsKept DEF vars, index, NoNewRow
<1>3. CASE Next
  <2> USE <1>3 DEF Next
  <2>1. CASE \E t \in Threads : ThreadStep(t)
    BY <2>1, <1>1
  <2> QED
    BY <2>1, RowsOther
<1> QED
  BY <1>2, <1>3

-----------------------------------------------------------------------------
(***************************************************************************)
(* Searches: tombstones are never taken back, so what was forgotten when a *)
(* search began still is when its hits are looked up.                      *)
(***************************************************************************)

Answered ==
  \A c \in Clients :
    /\ answers[c].since \subseteq forgotten
    /\ thread[c].at = "answer" => \A d \in answers[c].hits : d[1] \notin answers[c].since

\* No client comes to its answer.
NoNewAnswer ==
  \A c \in Clients : thread'[c].at = "answer" => thread'[c] = thread[c]

LEMMA AnsweredKept ==
  ASSUME Answered, NoNewAnswer, forgotten \subseteq forgotten', UNCHANGED answers
  PROVE  Answered'
BY DEF Answered, NoNewAnswer

LEMMA AnsweredStep ==
  ASSUME Typed, Answered, [Next]_vars
  PROVE  Answered'
<1>1. ASSUME NEW t \in Threads, ThreadStep(t) PROVE Answered'
  <2>1. NoNewAnswer
    BY <1>1 DEF ThreadStep, CallStep, ReadLatest, ReadTombstone, Remove, Insert, Commit,
                SetState, ReadOlder, RetireSubject, Go, Return, Idle, Typed, NoNewAnswer
  <2>2. UNCHANGED <<forgotten, answers>>
    BY <1>1 DEF ThreadStep, CallStep, ReadLatest, ReadTombstone, Remove, Insert, Commit,
                SetState, ReadOlder, RetireSubject, record
  <2> QED
    BY <2>1, <2>2, AnsweredKept
<1>2. ASSUME NEW t \in Threads, Fault(t) PROVE Answered'
  BY <1>2, AnsweredKept DEF Fault, Return, Idle, Typed, NoNewAnswer, record
<1>3. ASSUME NEW c \in Clients, Request(c) PROVE Answered'
  <2>1. CASE ReadHits(c)
    BY <2>1 DEF ReadHits, Call, Calling, Answered, Typed, record
  <2>2. CASE FilterHits(c)
    <3>1. ASSUME NEW b \in Clients \ {c}
          PROVE  answers'[b] = answers[b] /\ thread'[b] = thread[b]
      BY <2>2 DEF FilterHits, Call, Typed
    <3>2. /\ answers'[c].since = answers[c].since
          /\ answers'[c].hits = Kept(answers[c].hits)
      BY <2>2 DEF FilterHits, Typed
    <3>3. \A d \in answers'[c].hits : d[1] \notin answers'[c].since
      BY <3>2 DEF Kept, Answered
    <3>4. forgotten' = forgotten
      BY <2>2 DEF FilterHits, record
    <3> QED
      BY <3>1, <3>2, <3>3, <3>4 DEF Answered
  <2>3. CASE Answer(c)
    BY <2>3 DEF Answer, Return, Idle, NoAnswer, Answered, Typed, record
  <2>4. CASE ~ReadHits(c) /\ ~FilterHits(c) /\ ~Answer(c)
    <3>1. ASSUME NEW d, NEW step \in {"latest", "promote", "bury", "retire"},
                 Call(c, step, d)
          PROVE  NoNewAnswer
      BY <3>1 DEF Call, Calling, NoNewAnswer, Typed
    <3>2. NoNewAnswer
      BY <1>3, <2>4, <3>1 DEF Request, Store, CheckConfirm, CheckForget, Promote, Bury
    <3>3. forgotten \subseteq forgotten' /\ UNCHANGED answers
      BY <1>3, <2>4 DEF Request, Store, CheckConfirm, CheckForget, Promote, Bury, record
    <3> QED
      BY <3>2, <3>3, AnsweredKept
  <2> QED
    BY <2>1, <2>2, <2>3, <2>4
<1>4. CASE Maintain \/ StartScan \/ StartReindex
  <2>1. \A c \in Clients : thread'[c] = thread[c]
    BY <1>4 DEF Maintain, StartScan, StartReindex, Register, RecordDrop, Sweep, Process,
                Postpone, Complete, RebuildDocument, EndScan, MarkPending, Create, Snapshot,
                EndRebuild, LookAtFailed, ClearFailed, Call, Typed
  <2>2. UNCHANGED <<forgotten, answers>>
    BY <1>4 DEF Maintain, StartScan, StartReindex, Register, RecordDrop, Sweep, Process,
                Postpone, Complete, RebuildDocument, EndScan, MarkPending, Create, Snapshot,
                EndRebuild, LookAtFailed, ClearFailed, record
  <2> QED
    BY <2>1, <2>2, AnsweredKept DEF NoNewAnswer
<1>5. CASE Crash
  BY <1>5 DEF Crash, Idle, NoAnswer, Answered, record
<1>6. CASE LoseIndex \/ Open \/ UNCHANGED vars
  BY <1>6, AnsweredKept DEF LoseIndex, Open, vars, NoNewAnswer, record
<1> QED
  <2>1. CASE Next
    BY <2>1, <1>1, <1>2, <1>3, <1>4, <1>5, <1>6 DEF Next
  <2> QED
    BY <2>1, <1>6

-----------------------------------------------------------------------------
(***************************************************************************)
(* The shared connection: only a call between its first statement and its  *)
(* commit, or one that raised there, leaves anything uncommitted.          *)
(***************************************************************************)

Pending == {t \in Threads : thread[t].at \in {"insert", "commit"}}

Durable == Pending = {} => disk = fts

\* Nobody leaves a call half done: who is about to insert or commit goes on.
LEMMA DurableKept ==
  ASSUME Durable, Pending \subseteq Pending', UNCHANGED <<fts, disk>>
  PROVE  Durable'
BY DEF Durable

LEMMA DurableStep ==
  ASSUME MaxFaults = 0, Typed, Durable, [Next]_vars
  PROVE  Durable'
<1>1. ASSUME NEW t \in Threads, ThreadStep(t) PROVE Durable'
  <2>1. CASE Remove(t)
    <3>1. thread'[t].at \in {"insert", "commit"}
      BY <2>1 DEF Remove, Go, Typed
    <3> QED
      BY <3>1 DEF Durable, Pending
  <2>2. CASE Insert(t)
    <3>1. thread'[t].at = "commit"
      BY <2>2 DEF Insert, Go, Typed
    <3> QED
      BY <3>1 DEF Durable, Pending
  <2>3. CASE Commit(t)
    BY <2>3 DEF Commit, Durable
  <2>4. CASE ReadLatest(t) \/ ReadTombstone(t) \/ SetState(t) \/ ReadOlder(t)
             \/ RetireSubject(t)
    <3>1. thread[t].at \notin {"insert", "commit"}
      BY <2>4 DEF ReadLatest, ReadTombstone, SetState, ReadOlder, RetireSubject, At
    <3>2. \A u \in Threads \ {t} : thread'[u] = thread[u]
      BY <2>4 DEF ReadLatest, ReadTombstone, SetState, ReadOlder, RetireSubject, Go,
                  Return, Typed
    <3>3. UNCHANGED <<fts, disk>>
      BY <2>4 DEF ReadLatest, ReadTombstone, SetState, ReadOlder, RetireSubject, index
    <3> QED
      BY <3>1, <3>2, <3>3, DurableKept DEF Pending
  <2> QED
    BY <1>1, <2>1, <2>2, <2>3, <2>4 DEF ThreadStep, CallStep
<1>2. ASSUME NEW t \in Threads, Fault(t) PROVE Durable'
  BY <1>2 DEF Fault, Typed
<1>3. ASSUME NEW c \in Clients, Request(c) PROVE Durable'
  <2>1. thread[c].at \notin {"insert", "commit"}
    BY <1>3 DEF Request, Store, CheckConfirm, CheckForget, Promote, Bury, ReadHits,
                FilterHits, Answer, At
  <2>2. \A u \in Threads \ {c} : thread'[u] = thread[u]
    BY <1>3 DEF Request, Store, CheckConfirm, CheckForget, Promote, Bury, ReadHits,
                FilterHits, Answer, Call, Return, Typed
  <2>3. UNCHANGED <<fts, disk>>
    BY <1>3 DEF Request, Store, CheckConfirm, CheckForget, Promote, Bury, ReadHits,
                FilterHits, Answer, index
  <2> QED
    BY <2>1, <2>2, <2>3, DurableKept DEF Pending
<1>4. CASE (Maintain /\ ~Create) \/ StartScan \/ StartReindex
  <2>1. thread[Maintainer].at \notin {"insert", "commit"}
    BY <1>4 DEF Maintain, StartScan, StartReindex, Register, RecordDrop, Sweep, Process, Postpone,
                Complete, RebuildDocument, EndScan, MarkPending, Snapshot, EndRebuild, LookAtFailed,
                ClearFailed, MayMaintain, MayTake, At
  <2>2. \A u \in Threads \ {Maintainer} : thread'[u] = thread[u]
    BY <1>4 DEF Maintain, StartScan, StartReindex, Register, RecordDrop, Sweep, Process, Postpone,
                Complete, RebuildDocument, EndScan, MarkPending, Snapshot, EndRebuild, LookAtFailed,
                ClearFailed, Call, Typed
  <2>3. UNCHANGED <<fts, disk>>
    BY <1>4 DEF Maintain, StartScan, StartReindex, Register, RecordDrop, Sweep, Process, Postpone,
                Complete, RebuildDocument, EndScan, MarkPending, Snapshot, EndRebuild, LookAtFailed,
                ClearFailed, index
  <2> QED
    BY <2>1, <2>2, <2>3, DurableKept DEF Pending
<1>5. CASE Create \/ Crash \/ LoseIndex
  BY <1>5 DEF Create, Crash, LoseIndex, Durable
<1>6. CASE Open \/ UNCHANGED vars
  BY <1>6, DurableKept DEF Open, vars, index, Pending
<1> QED
  <2>1. CASE Next
    BY <2>1, <1>1, <1>2, <1>3, <1>4, <1>5, <1>6 DEF Next, Maintain
  <2> QED
    BY <2>1, <1>6

-----------------------------------------------------------------------------
(***************************************************************************)
(* Theorems.                                                               *)
(***************************************************************************)

\* Rows, states, threads and requests stay well formed, and a document never has
\* more rows in the index than there are threads, though nothing in the table
\* forbids it (projection.py:87-90).
THEOREM HistorianTypeCorrect == Spec => []TypeOK
<1>1. Init => Typed /\ Rows /\ RemovesOwn
  BY TypedInit, RowsInit
<1>2. Typed /\ Rows /\ RemovesOwn /\ [Next]_vars => (Typed /\ Rows /\ RemovesOwn)'
  BY TypedStep, RowsStep
<1>3. Typed /\ Rows => TypeOK
  <2> SUFFICES ASSUME Typed, Rows PROVE TypeOK
    OBVIOUS
  <2>1. ASSUME NEW d \in Docs
        PROVE  fts[d] \in 0 .. Bound /\ disk[d] \in 0 .. Bound
    BY InsertingFinite, ThreadsFinite DEF Typed, Rows
  <2>2. fts \in [Docs -> 0 .. Bound] /\ disk \in [Docs -> 0 .. Bound]
    BY <2>1 DEF Typed
  <2> QED
    BY <2>2 DEF Typed, JobType, WorkType, TypeOK, Bound
<1> QED
  BY <1>1, <1>2, <1>3, PTL DEF Spec

\* A search that begins after a subject was forgotten does not return it, though
\* a late index call may have put it back into the index (service.py:176-177).
THEOREM ForgottenStaysForgotten == Spec => []ForgottenNeverReturned
<1>1. Init => Typed /\ Answered
  BY TypedInit DEF Init, InitProjection, Answered, NoAnswer, Idle
<1>2. Typed /\ Answered /\ [Next]_vars => (Typed /\ Answered)'
  BY TypedStep, AnsweredStep
<1>3. Answered => ForgottenNeverReturned
  BY DEF Answered, ForgottenNeverReturned, At
<1> QED
  BY <1>1, <1>2, <1>3, PTL DEF Spec

\* If no call of the projection raises, what the handlers have written is durable
\* whenever all are at rest, though they share one transaction
\* (projection.py:86-89).
THEOREM NothingLeftUncommitted ==
  ASSUME MaxFaults = 0
  PROVE  Spec => []RestIsDurable
<1>1. Init => Typed /\ Durable
  BY TypedInit DEF Init, InitProjection, Durable
<1>2. Typed /\ Durable /\ [Next]_vars => (Typed /\ Durable)'
  BY TypedStep, DurableStep
<1>3. Durable => RestIsDurable
  BY DEF Durable, Pending, RestIsDurable, AtRest, Resting, At
<1> QED
  BY <1>1, <1>2, <1>3, PTL DEF Spec

-----------------------------------------------------------------------------
(***************************************************************************)
(* Without promotions, crashes and exceptions: what is counted as indexed  *)
(* can be found, and what was superseded cannot.                           *)
(***************************************************************************)

Calm == Relayed = {} /\ MaxCrashes = 0 /\ MaxFaults = 0

\* A thread makes a document current: it found it to be the latest version.
Making(t) ==
  \/ thread[t].at \in {"tombstone", "insert", "older"}
  \/ thread[t].at \in {"remove", "commit", "state"} /\ thread[t].mark = "current"

Gone(d) == d[1] \in forgotten \/ ~IsLatest(d)

\* What a thread makes current is on record and stays the latest version; what it
\* removes to mark it stale is superseded or forgotten for good.
InOrder(t) ==
  /\ thread[t].ids \subseteq chunked
  /\ Making(t) \/ thread[t].at = "latest" =>
       /\ thread[t].doc \in chunked
       /\ t \in Clients => thread[t].doc[1] \in Submitted
  /\ Making(t) => IsLatest(thread[t].doc)
  /\ Making(t) /\ thread[t].at \in {"remove", "insert", "commit", "state"} =>
       thread[t].ids = {thread[t].doc} /\ thread[t].mark = "current"
  /\ thread[t].at \in {"remove", "commit", "state"} /\ ~Making(t) =>
       \A d \in thread[t].ids : Gone(d)
  /\ thread[t].at = "retire" => thread[t].doc[1] \in forgotten
  /\ thread[t].at # "promote"

\* The rows of the table that are not done.
Rowed == work.due \cup work.held \cup work.failed

Orderly ==
  /\ \A d \in chunked : d[2] <= versions[d[1]]
  /\ \A s \in Submitted : versions[s] <= 1
  /\ \A d \in Docs : proj[d] # "none" \/ fts[d] > 0 => d \in chunked
  /\ \A t \in Threads : InOrder(t)
  /\ \A i \in Rowed : i[2][2] <= versions[i[2][1]]
  /\ service = "up" /\ job.step # "first"

LEMMA LatestMeans ==
  ASSUME NEW d \in Docs
  PROVE  /\ d[1] \in Subjects /\ d[2] \in 1 .. MaxVersion
         /\ IsLatest(d) <=> d[2] = versions[d[1]]
         /\ IsLatest(d)' <=> d[2] = versions'[d[1]]
BY DEF IsLatest, Latest, Docs

LEMMA RowedTyped == Typed => Rowed \subseteq Items
BY DEF Typed, WorkType, Rowed

\* A thread that takes no step stays in order, while the record only grows and the
\* document it makes current is not superseded.
LEMMA StaysInOrder ==
  ASSUME Typed, Orderly, NEW t \in Threads, thread'[t] = thread[t],
         chunked \subseteq chunked', forgotten \subseteq forgotten',
         versions' \in [Subjects -> 0 .. MaxVersion],
         \A s \in Subjects : versions[s] <= versions'[s],
         Making(t) => versions'[thread[t].doc[1]] = versions[thread[t].doc[1]]
  PROVE  InOrder(t)'
<1>1. InOrder(t) /\ chunked \subseteq Docs
  BY DEF Orderly, Typed
<1>2. Making(t)' <=> Making(t)
  BY DEF Making
<1>3. ASSUME Making(t)
      PROVE  IsLatest(thread[t].doc)'
  <2>1. thread[t].doc \in Docs /\ IsLatest(thread[t].doc)
    BY <1>1, <1>3 DEF InOrder
  <2> QED
    BY <1>3, <2>1, LatestMeans
<1>4. ASSUME NEW d \in thread[t].ids, Gone(d)
      PROVE  Gone(d)'
  <2>1. d \in chunked /\ d \in Docs
    BY <1>1, <1>4 DEF InOrder
  <2>2. CASE d[1] \in forgotten
    BY <2>2 DEF Gone
  <2>3. CASE ~IsLatest(d)
    <3>1. d[2] <= versions[d[1]] /\ d[2] # versions[d[1]]
      BY <2>1, <2>3, LatestMeans DEF Orderly
    <3>2. /\ d[1] \in Subjects /\ d[2] \in Nat
          /\ versions[d[1]] \in Nat /\ versions'[d[1]] \in Nat
      BY <2>1, LatestMeans DEF Typed
    <3>3. d[2] # versions'[d[1]]
      BY <3>1, <3>2
    <3> QED
      BY <2>1, <3>3, LatestMeans DEF Gone
  <2> QED
    BY <1>4, <2>2, <2>3 DEF Gone
<1>5. (thread[t].ids)' = thread[t].ids /\ (thread[t].doc)' = thread[t].doc
  OBVIOUS
<1> QED
  BY <1>1, <1>2, <1>3, <1>4, <1>5 DEF InOrder

\* A call moves on in order.
LEMMA InOrderCall ==
  ASSUME Typed, NEW t \in Threads, InOrder(t), CallStep(t)
  PROVE  InOrder(t)' /\ UNCHANGED record /\ \A u \in Threads \ {t} : thread'[u] = thread[u]
<1> PICK d : d = thread[t].doc
  OBVIOUS
<1>0. InOrder(t) /\ UNCHANGED record /\ \A u \in Threads \ {t} : thread'[u] = thread[u]
  BY DEF CallStep, ReadLatest, ReadTombstone, Remove, Insert, Commit, SetState,
         ReadOlder, RetireSubject, Go, Return, Typed
<1>1. UNCHANGED <<versions, chunked, forgotten>>
  BY <1>0 DEF record
<1>2. ASSUME NEW step, NEW ids, NEW mark, Go(t, step, ids, mark)
      PROVE  thread'[t] = [at |-> step, doc |-> d, ids |-> ids, mark |-> mark]
  BY <1>2 DEF Go, Typed
<1>3. Return(t) => InOrder(t)'
  BY DEF Return, Idle, Typed, InOrder, Making
<1>4. \A e \in Docs : (IsLatest(e)' <=> IsLatest(e)) /\ (Gone(e)' <=> Gone(e))
  BY <1>1 DEF IsLatest, Latest, Gone
<1>5. CASE ReadLatest(t)
  <2>1. d \in chunked /\ d \in Docs /\ (t \in Clients => d[1] \in Submitted)
    BY <1>0, <1>5 DEF ReadLatest, At, InOrder, Typed
  <2>2. CASE IsLatest(d)
    <3>1. thread'[t] = [at |-> "tombstone", doc |-> d, ids |-> {}, mark |-> "none"]
      BY <1>2, <1>5, <2>2 DEF ReadLatest
    <3> QED
      BY <1>0, <1>1, <1>4, <2>1, <2>2, <3>1 DEF InOrder, Making
  <2>3. CASE ~IsLatest(d)
    <3>1. thread'[t] = [at |-> "remove", doc |-> d, ids |-> {d}, mark |-> "stale"]
      BY <1>2, <1>5, <2>3 DEF ReadLatest
    <3>2. Gone(d)'
      BY <1>4, <2>1, <2>3 DEF Gone
    <3> QED
      BY <1>0, <1>1, <2>1, <3>1, <3>2 DEF InOrder, Making
  <2> QED
    BY <2>2, <2>3
<1>6. CASE ReadTombstone(t)
  <2>1. d \in chunked /\ d \in Docs /\ IsLatest(d) /\ (t \in Clients => d[1] \in Submitted)
    BY <1>0, <1>6 DEF ReadTombstone, At, InOrder, Making, Typed
  <2>2. thread'[t] = [at |-> "remove", doc |-> d, ids |-> {d},
                      mark |-> IF d[1] \in forgotten THEN "stale" ELSE "current"]
    BY <1>2, <1>6 DEF ReadTombstone
  <2>3. d[1] \in forgotten => Gone(d)'
    BY <1>4, <2>1 DEF Gone
  <2> QED
    BY <1>0, <1>1, <1>4, <2>1, <2>2, <2>3 DEF InOrder, Making
<1>7. CASE Remove(t)
  <2>1. thread'[t] = [at |-> IF thread[t].mark = "current" THEN "insert" ELSE "commit",
                      doc |-> d, ids |-> thread[t].ids, mark |-> thread[t].mark]
    BY <1>2, <1>7 DEF Remove
  <2>2. thread[t].at = "remove"
    BY <1>7 DEF Remove, At
  <2> QED
    BY <1>0, <1>1, <1>4, <2>1, <2>2 DEF InOrder, Making, Typed
<1>8. CASE Insert(t)
  <2>1. thread'[t] = [at |-> "commit", doc |-> d, ids |-> thread[t].ids, mark |-> "current"]
    BY <1>2, <1>8 DEF Insert
  <2>2. thread[t].at = "insert"
    BY <1>8 DEF Insert, At
  <2> QED
    BY <1>0, <1>1, <1>4, <2>1, <2>2 DEF InOrder, Making, Typed
<1>9. CASE Commit(t)
  <2>1. thread'[t] = [at |-> "state", doc |-> d, ids |-> thread[t].ids, mark |-> thread[t].mark]
    BY <1>2, <1>9 DEF Commit
  <2>2. thread[t].at = "commit"
    BY <1>9 DEF Commit, At
  <2> QED
    BY <1>0, <1>1, <1>4, <2>1, <2>2 DEF InOrder, Making, Typed
<1>10. CASE SetState(t)
  <2>1. CASE thread[t].mark = "current"
    <3>1. thread'[t] = [at |-> "older", doc |-> d, ids |-> {}, mark |-> "none"]
      BY <1>2, <1>10, <2>1 DEF SetState
    <3>2. thread[t].at = "state"
      BY <1>10 DEF SetState, At
    <3> QED
      BY <1>0, <1>1, <1>4, <2>1, <3>1, <3>2 DEF InOrder, Making, Typed
  <2>2. CASE thread[t].mark # "current"
    <3>1. Return(t)
      BY <1>10, <2>2 DEF SetState
    <3> QED
      BY <1>0, <1>3, <3>1
  <2> QED
    BY <2>1, <2>2
<1>11. CASE ReadOlder(t)
  <2>1. CASE Older(d) = {}
    <3>1. Return(t)
      BY <1>11, <2>1 DEF ReadOlder
    <3> QED
      BY <1>0, <1>3, <3>1
  <2>2. CASE Older(d) # {}
    <3>1. thread'[t] = [at |-> "remove", doc |-> d, ids |-> Older(d), mark |-> "stale"]
      BY <1>2, <1>11, <2>2 DEF ReadOlder
    <3>2. d \in chunked /\ d \in Docs /\ IsLatest(d)
      BY <1>0, <1>11 DEF ReadOlder, At, InOrder, Making, Typed
    <3>3. Older(d) \subseteq chunked /\ \A e \in Older(d) : ~IsLatest(e) /\ e \in Docs
      BY <3>2 DEF Older, ChunkIdsForSubject, IsLatest, Latest, Typed
    <3>4. \A e \in Older(d) : Gone(e)'
      BY <1>4, <3>3 DEF Gone
    <3> QED
      BY <1>0, <1>1, <3>1, <3>3, <3>4 DEF InOrder, Making
  <2> QED
    BY <2>1, <2>2
<1>12. CASE RetireSubject(t)
  <2> PICK ids : ids = ChunkIdsForSubject(d[1])
    OBVIOUS
  <2>1. CASE ids = {}
    <3>1. Return(t)
      BY <1>12, <2>1 DEF RetireSubject
    <3> QED
      BY <1>0, <1>3, <3>1
  <2>2. CASE ids # {}
    <3>1. thread'[t] = [at |-> "remove", doc |-> d, ids |-> ids, mark |-> "stale"]
      BY <1>2, <1>12, <2>2 DEF RetireSubject
    <3>2. d[1] \in forgotten
      BY <1>0, <1>12 DEF RetireSubject, At, InOrder
    <3>3. ids \subseteq chunked /\ \A e \in ids : Gone(e)'
      BY <1>1, <3>2 DEF ChunkIdsForSubject, Gone
    <3> QED
      BY <1>0, <1>1, <3>1, <3>3 DEF InOrder, Making
  <2> QED
    BY <2>1, <2>2
<1> QED
  BY <1>0, <1>5, <1>6, <1>7, <1>8, <1>9, <1>10, <1>11, <1>12 DEF CallStep

\* Making, of a thread that takes no step.
LEMMA MakingIsRecorded ==
  ASSUME Typed, Orderly, NEW t \in Threads, Making(t)
  PROVE  /\ thread[t].doc \in chunked /\ thread[t].doc \in Docs
         /\ versions[thread[t].doc[1]] > 0
<1>1. thread[t].doc \in chunked /\ thread[t].doc \in Docs
  BY DEF Orderly, InOrder, Typed
<1>2. thread[t].doc[2] <= versions[thread[t].doc[1]]
  BY <1>1 DEF Orderly
<1> QED
  BY <1>1, <1>2, LatestMeans DEF Typed

\* The statements of a call keep the order: they mark and insert what is on record.
LEMMA OrderlyCall ==
  ASSUME Typed, Orderly, NEW t \in Threads, ThreadStep(t)
  PROVE  Orderly'
<1>1. CallStep(t) /\ UNCHANGED <<service, job>>
  BY DEF ThreadStep
<1>2. /\ InOrder(t)' /\ UNCHANGED <<versions, chunked, forgotten>>
      /\ \A u \in Threads \ {t} : thread'[u] = thread[u]
  BY <1>1, InOrderCall DEF record, Orderly
<1>3. \A u \in Threads : InOrder(u)'
  <2> TAKE u \in Threads
  <2>1. CASE u # t
    BY <1>2, <2>1, StaysInOrder DEF Typed
  <2> QED
    BY <1>2, <2>1
<1>4. \A d \in Docs : proj'[d] # "none" \/ fts'[d] > 0 => d \in chunked
  <2> TAKE d \in Docs
  <2>1. InOrder(t) /\ (proj[d] # "none" \/ fts[d] > 0 => d \in chunked)
    BY DEF Orderly
  <2>2. CASE SetState(t)
    BY <2>1, <2>2 DEF SetState, InOrder
  <2>3. CASE Insert(t)
    <3>1. thread[t].doc \in chunked
      BY <2>1, <2>3 DEF Insert, At, InOrder, Making
    <3> QED
      BY <2>1, <2>3, <3>1 DEF Insert, Typed
  <2>4. CASE Remove(t)
    BY <2>1, <2>4 DEF Remove, Typed
  <2>5. CASE ~SetState(t) /\ ~Insert(t) /\ ~Remove(t)
    <3>1. UNCHANGED <<proj, fts>>
      BY <1>1, <2>5 DEF CallStep, ReadLatest, ReadTombstone, Commit, ReadOlder, RetireSubject, index
    <3> QED
      BY <2>1, <3>1
  <2> QED
    BY <2>2, <2>3, <2>4, <2>5
<1>5. Rowed' = Rowed
  BY DEF ThreadStep, Rowed
<1> QED
  BY <1>1, <1>2, <1>3, <1>4, <1>5 DEF Orderly

\* A thread that begins a call of index_document with a document that has chunks.
LEMMA InOrderBegun ==
  ASSUME Typed, NEW t \in Threads, NEW d, Call(t, "latest", d),
         d \in chunked', t \in Clients => d[1] \in Submitted
  PROVE  InOrder(t)'
<1>1. thread'[t] = [at |-> "latest", doc |-> d, ids |-> {}, mark |-> "none"]
  BY DEF Call, Calling, Typed
<1> QED
  BY <1>1 DEF InOrder, Making

\* A version is added to a subject that nobody is indexing.
LEMMA OrderlyAdded ==
  ASSUME Typed, Orderly, Typed', NEW s \in Subjects,
         versions' = [versions EXCEPT ![s] = @ + 1],
         s \in Submitted => versions[s] = 0,
         chunked' \in {chunked, chunked \cup {<<s, versions[s] + 1>>}},
         \A t \in Threads : Making(t) => thread[t].doc[1] # s,
         \A t \in Threads : thread'[t] = thread[t] \/ InOrder(t)',
         \A i \in Rowed' : i \in Rowed \/ i[2] = <<s, versions[s] + 1>>,
         UNCHANGED <<forgotten, proj, fts, service>>, job'.step # "first"
  PROVE  Orderly'
<1>1. /\ versions'[s] = versions[s] + 1 /\ versions[s] \in Nat
      /\ \A r \in Subjects \ {s} : versions'[r] = versions[r]
      /\ \A r \in Subjects : versions[r] \in Nat
  BY DEF Typed
<1>2. \A d \in chunked' : d[2] <= versions'[d[1]]
  <2> TAKE d \in chunked'
  <2>1. CASE d \in chunked
    <3>1. d \in Docs /\ d[2] <= versions[d[1]]
      BY <2>1 DEF Orderly, Typed
    <3> QED
      BY <1>1, <3>1, LatestMeans
  <2>2. CASE d = <<s, versions[s] + 1>>
    BY <1>1, <2>2
  <2> QED
    BY <2>1, <2>2
<1>3. \A r \in Submitted : versions'[r] <= 1
  <2> TAKE r \in Submitted
  <2>1. r \in Subjects
    OBVIOUS
  <2> QED
    BY <1>1, <2>1 DEF Orderly
<1>4. \A t \in Threads : InOrder(t)'
  <2> TAKE t \in Threads
  <2>1. CASE thread'[t] = thread[t]
    <3>1. \A r \in Subjects : versions[r] <= versions'[r]
      BY <1>1
    <3>2. Making(t) => versions'[thread[t].doc[1]] = versions[thread[t].doc[1]]
      BY <1>1, MakingIsRecorded, LatestMeans
    <3>3. /\ versions' \in [Subjects -> 0 .. MaxVersion]
          /\ chunked \subseteq chunked' /\ forgotten \subseteq forgotten'
      BY DEF Typed
    <3> QED
      BY <2>1, <3>1, <3>2, <3>3, StaysInOrder
  <2> QED
    BY <2>1
<1>5. \A d \in Docs : proj'[d] # "none" \/ fts'[d] > 0 => d \in chunked'
  BY DEF Orderly
<1>6. ASSUME NEW i \in Rowed'
      PROVE  i[2][2] <= versions'[i[2][1]]
  <2>1. CASE i[2] = <<s, versions[s] + 1>>
    BY <1>1, <2>1
  <2>2. CASE i \in Rowed
    <3>1. i[2] \in Docs /\ i[2][2] <= versions[i[2][1]]
      BY <2>2, RowedTyped, ItemIs DEF Orderly
    <3> QED
      BY <1>1, <3>1, LatestMeans
  <2> QED
    BY <1>6, <2>1, <2>2
<1> QED
  BY <1>2, <1>3, <1>4, <1>5, <1>6 DEF Orderly

\* No version is added.
LEMMA OrderlyKept ==
  ASSUME Typed, Orderly, Typed', UNCHANGED <<versions, service>>,
         chunked \subseteq chunked', forgotten \subseteq forgotten',
         \A d \in chunked' \ chunked : d[2] <= versions[d[1]],
         \A d \in Docs : (proj'[d] # "none" => proj[d] # "none") /\ (fts'[d] > 0 => fts[d] > 0),
         \A t \in Threads : thread'[t] = thread[t] \/ InOrder(t)',
         \A i \in Rowed' : i \in Rowed \/ i[2][2] <= versions[i[2][1]],
         job'.step # "first"
  PROVE  Orderly'
<1>1. \A t \in Threads : InOrder(t)'
  <2> TAKE t \in Threads
  <2>1. CASE thread'[t] = thread[t]
    <3>1. versions' \in [Subjects -> 0 .. MaxVersion] /\ \A r \in Subjects : versions[r] <= versions'[r]
      BY DEF Typed
    <3> QED
      BY <2>1, <3>1, StaysInOrder
  <2> QED
    BY <2>1
<1>2. \A d \in Docs : proj'[d] # "none" \/ fts'[d] > 0 => d \in chunked'
  BY DEF Orderly
<1>3. (\A d \in chunked' : d[2] <= versions'[d[1]]) /\ \A s \in Submitted : versions'[s] <= 1
  BY DEF Orderly
<1>4. \A i \in Rowed' : i[2][2] <= versions'[i[2][1]]
  BY DEF Orderly
<1> QED
  BY <1>1, <1>2, <1>3, <1>4 DEF Orderly

\* A thread that is not in a call of the projection.
LEMMA InOrderAway ==
  ASSUME Typed, NEW t \in Threads,
         Return(t) \/ \E step \in {"bury", "hits", "answer"} : \E d : Call(t, step, d)
  PROVE  InOrder(t)'
<1>1. CASE Return(t)
  BY <1>1 DEF Return, Idle, Typed, InOrder, Making
<1>2. ASSUME NEW step \in {"bury", "hits", "answer"}, NEW d, Call(t, step, d)
      PROVE  InOrder(t)'
  <2>1. thread'[t] = [at |-> step, doc |-> d, ids |-> {}, mark |-> "none"]
    BY <1>2 DEF Call, Calling, Typed
  <2> QED
    BY <2>1 DEF InOrder, Making
<1> QED
  BY <1>1, <1>2

LEMMA OrderlyInit == Init => Orderly
BY DEF Init, InitProjection, Idle, NoJob, NoWork, Empty, Orderly, Rowed, InOrder, Making, Docs

LEMMA OrderlyRequest ==
  ASSUME Calm, Typed, Orderly, Typed', NEW c \in Clients, Request(c)
  PROVE  Orderly'
<1>1. c \in Threads /\ InOrder(c) /\ job.step # "first"
  BY DEF Orderly
<1>0. Rowed' = Rowed
  <2>1. work' = work
    BY DEF Request, Store, CheckConfirm, CheckForget, Promote, Bury, ReadHits, FilterHits, Answer
  <2> QED
    BY <2>1 DEF Rowed
<1>2. ASSUME NEW s \in Texts, Store(c, s)
      PROVE  Orderly'
  <2>1. s \in Submitted /\ s \in Subjects /\ versions[s] = 0
    BY <1>2 DEF Store, Texts, Calm
  <2>2. /\ versions' = [versions EXCEPT ![s] = @ + 1]
        /\ chunked' = chunked \cup {<<s, versions[s] + 1>>}
    BY <1>2, <2>1 DEF Store
  <2>3. Call(c, "latest", <<s, 1>>) /\ <<s, 1>> \in chunked' /\ <<s, 1>>[1] \in Submitted
    BY <1>2, <2>1 DEF Store
  <2>4. InOrder(c)'
    BY <1>1, <2>3, InOrderBegun
  <2>5. \A t \in Threads : thread'[t] = thread[t] \/ InOrder(t)'
    BY <2>3, <2>4 DEF Call, Typed
  <2>6. \A t \in Threads : Making(t) => thread[t].doc[1] # s
    BY <2>1, MakingIsRecorded
  <2>7. UNCHANGED <<forgotten, proj, fts, service>> /\ job'.step = job.step
    BY <1>2 DEF Store, Disturb, index, Typed, JobType
  <2> QED
    BY <1>0, <1>1, <2>1, <2>2, <2>5, <2>6, <2>7, OrderlyAdded
<1>3. ASSUME NEW s \in Subjects, CheckForget(c, s)
      PROVE  Orderly'
  <2>1. InOrder(c)' /\ \A t \in Threads \ {c} : thread'[t] = thread[t]
    BY <1>1, <1>3, InOrderAway DEF CheckForget, Call, Typed
  <2>2. /\ UNCHANGED <<versions, chunked, forgotten, proj, fts, service>>
        /\ job'.step = job.step
    BY <1>3 DEF CheckForget, Disturb, record, index, Typed, JobType
  <2> QED
    BY <1>0, <1>1, <2>1, <2>2, OrderlyKept
<1>4. CASE Bury(c)
  <2>1. thread'[c] = [at |-> "retire", doc |-> thread[c].doc, ids |-> {}, mark |-> "none"]
        /\ \A t \in Threads \ {c} : thread'[t] = thread[t]
    BY <1>1, <1>4 DEF Bury, Call, Calling, Typed
  <2>2. forgotten' = forgotten \cup {thread[c].doc[1]}
    BY <1>4 DEF Bury
  <2>3. InOrder(c)'
    BY <2>1, <2>2 DEF InOrder, Making
  <2>4. UNCHANGED <<versions, chunked, proj, fts, service, job>>
    BY <1>4 DEF Bury, index
  <2> QED
    BY <1>0, <1>1, <2>1, <2>2, <2>3, <2>4, OrderlyKept
<1>5. CASE ReadHits(c) \/ FilterHits(c) \/ Answer(c)
  <2>1. InOrder(c)' /\ \A t \in Threads \ {c} : thread'[t] = thread[t]
    BY <1>1, <1>5, InOrderAway DEF ReadHits, FilterHits, Answer, Call, Return, Typed
  <2>2. UNCHANGED <<versions, chunked, forgotten, proj, fts, service, job>>
    BY <1>5 DEF ReadHits, FilterHits, Answer, record, index
  <2> QED
    BY <1>0, <1>1, <2>1, <2>2, OrderlyKept
<1>6. ~Promote(c) /\ \A s \in Relayed : ~CheckConfirm(c, s)
  BY <1>1 DEF Promote, At, InOrder, Calm
<1> QED
  BY <1>2, <1>3, <1>4, <1>5, <1>6 DEF Request

LEMMA OrderlyMaintain ==
  ASSUME Calm, Typed, Orderly, Typed', Maintain \/ StartScan \/ StartReindex
  PROVE  Orderly'
<1>1. /\ Maintainer \in Threads /\ Maintainer \notin Clients /\ job.step # "first" /\ service = "up"
  BY DEF Orderly
<1>2. ASSUME NEW s \in Sources, Register(s)
      PROVE  Orderly'
  <2>1. thread[Maintainer].at = "idle"
    BY <1>2 DEF Register, MayMaintain, At
  <2>2. \A t \in Threads : Making(t) => thread[t].doc[1] # s
    BY <2>1 DEF Orderly, InOrder, Making
  <2>3. /\ versions' = [versions EXCEPT ![s] = @ + 1] /\ job'.step = "register"
        /\ UNCHANGED <<chunked, forgotten, proj, fts, service, thread>>
    BY <1>2 DEF Register, MayMaintain, index, Typed, JobType
  <2>5. \A i \in Rowed' : i \in Rowed \/ i[2] = <<s, versions[s] + 1>>
    BY <1>2 DEF Register, Rowed, Typed, WorkType
  <2>4. s \in Subjects /\ s \notin Submitted
    OBVIOUS
  <2> QED
    BY <2>2, <2>3, <2>4, <2>5, OrderlyAdded
<1>3. ASSUME NEW s \in Sources, RecordDrop(s)
      PROVE  Orderly'
  <2>1. s \in Subjects /\ versions[s] = 0
    BY <1>3 DEF RecordDrop
  <2>2. /\ versions' = [versions EXCEPT ![s] = @ + 1]
        /\ chunked' = chunked \cup {<<s, versions[s] + 1>>}
    BY <1>3, <2>1 DEF RecordDrop
  <2>3. Call(Maintainer, "latest", <<s, 1>>) /\ <<s, 1>> \in chunked'
    BY <1>3, <2>1 DEF RecordDrop
  <2>4. InOrder(Maintainer)'
    BY <1>1, <2>3, InOrderBegun
  <2>5. \A t \in Threads : thread'[t] = thread[t] \/ InOrder(t)'
    BY <2>3, <2>4 DEF Call, Typed
  <2>6. \A t \in Threads : Making(t) => thread[t].doc[1] # s
    BY <2>1, MakingIsRecorded
  <2>7. UNCHANGED <<forgotten, proj, fts, service, job>> /\ Rowed' = Rowed
    BY <1>3 DEF RecordDrop, index, Rowed
  <2> QED
    BY <1>1, <2>1, <2>2, <2>5, <2>6, <2>7, OrderlyAdded
<1>4. ASSUME NEW i \in Items, Process(i)
      PROVE  Orderly'
  <2>0. i \in Rowed /\ Rowed' \subseteq Rowed /\ job.step = "drain"
    BY <1>4 DEF Process, MayTake, MayMaintain, Rowed, Typed, WorkType
  <2>1. Call(Maintainer, "latest", i[2]) /\ chunked' = chunked \cup {i[2]}
        /\ i[2][2] <= versions[i[2][1]]
    BY <1>4, <2>0 DEF Process, Orderly
  <2>2. InOrder(Maintainer)' /\ \A t \in Threads \ {Maintainer} : thread'[t] = thread[t]
    BY <1>1, <2>1, InOrderBegun DEF Call, Typed
  <2>3. UNCHANGED <<versions, forgotten, proj, fts, service>> /\ job'.step = job.step
    BY <1>4 DEF Process, index, Typed, JobType
  <2> QED
    BY <1>1, <2>0, <2>1, <2>2, <2>3, OrderlyKept
<1>5. ASSUME NEW d \in Docs, RebuildDocument(d)
      PROVE  Orderly'
  <2>1. UNCHANGED thread \/ (Call(Maintainer, "latest", d) /\ d \in chunked)
    <3>1. CASE d[1] \in forgotten \/ d \notin chunked
      BY <1>5, <3>1 DEF RebuildDocument
    <3>2. CASE ~(d[1] \in forgotten \/ d \notin chunked)
      BY <1>5, <3>2 DEF RebuildDocument
    <3> QED
      BY <3>1, <3>2
  <2>2. UNCHANGED <<versions, chunked, forgotten, proj, fts, service>> /\ job'.step = "rebuild"
    BY <1>5 DEF RebuildDocument, MayMaintain, record, index, Typed, JobType
  <2>3. \A t \in Threads : thread'[t] = thread[t] \/ InOrder(t)'
    <3>1. CASE Call(Maintainer, "latest", d) /\ d \in chunked
      BY <1>1, <2>2, <3>1, InOrderBegun DEF Call, Typed
    <3> QED
      BY <2>1, <3>1
  <2>4. Rowed' = Rowed
    BY <1>5 DEF RebuildDocument, Rowed
  <2> QED
    BY <2>2, <2>3, <2>4, OrderlyKept
<1>6. CASE Sweep
  <2>1. UNCHANGED <<versions, chunked, forgotten, proj, fts, service, thread>> /\ job'.step = "drain"
    BY <1>6 DEF Sweep, Job, record, index
  <2>2. Rowed' \subseteq Rowed \cup Requeued
    BY <1>6 DEF Sweep, Rowed, Typed, WorkType
  <2>3. \A i \in Requeued : i[2][2] <= versions[i[2][1]]
    BY DEF Requeued, NeedingIndex, Searchable, Orderly
  <2> QED
    BY <2>1, <2>2, <2>3, OrderlyKept
<1>7. CASE \/ StartScan \/ StartReindex \/ Complete \/ EndScan \/ MarkPending \/ Create
           \/ Snapshot \/ EndRebuild \/ LookAtFailed \/ ClearFailed
           \/ \E i \in Items : Postpone(i)
  <2>1. UNCHANGED <<versions, chunked, forgotten, service, thread>>
    BY <1>1, <1>7 DEF StartScan, StartReindex, EndScan, MarkPending, Create, Snapshot, EndRebuild,
                      Postpone, Complete, LookAtFailed, ClearFailed, record, index
  <2>2. StartScan \/ StartReindex => job'.step \in {"register", "pending"}
    BY DEF StartScan, StartReindex, NoJob
  <2>3. job'.step # "first"
    BY <1>7, <2>2, RequestMoves
  <2>4. \A d \in Docs : (proj'[d] # "none" => proj[d] # "none") /\ (fts'[d] > 0 => fts[d] > 0)
    BY <1>7 DEF StartScan, StartReindex, EndScan, MarkPending, Create, Created, Empty, Snapshot,
                EndRebuild, Postpone, Complete, LookAtFailed, ClearFailed, index, Typed
  <2>5. Rowed' \subseteq Rowed
    <3>1. \/ work' = work \/ Complete \/ ClearFailed
          \/ \E i \in Items : i \in work.due /\ Fail(i)
      BY <1>7 DEF StartScan, StartReindex, EndScan, MarkPending, Create, Snapshot, EndRebuild,
                  Postpone, MayTake, LookAtFailed
    <3>2. Complete => Rowed' \subseteq Rowed
      BY DEF Complete, Rowed, Typed, WorkType
    <3>3. ClearFailed => Rowed' \subseteq Rowed
      BY DEF ClearFailed, Rowed, Typed, WorkType
    <3>4. ASSUME NEW i \in Items, i \in work.due, Fail(i)
          PROVE  Rowed' \subseteq Rowed
      BY <3>4, FailMoves DEF Rowed
    <3> QED
      BY <3>1, <3>2, <3>3, <3>4 DEF Rowed
  <2> QED
    BY <1>1, <2>1, <2>3, <2>4, <2>5, OrderlyKept
<1> QED
  BY <1>2, <1>3, <1>4, <1>5, <1>6, <1>7 DEF Maintain

\* Nothing fails.
LEMMA NoFailure ==
  ASSUME Calm, Typed, Orderly
  PROVE  ~Crash /\ ~LoseIndex /\ ~Open /\ \A t \in Threads : ~Fault(t)
BY DEF Calm, Crash, LoseIndex, Open, Fault, Typed, Orderly

LEMMA OrderlyStep == Calm /\ Typed /\ Orderly /\ [Next]_vars => Orderly'
<1> SUFFICES ASSUME Calm, Typed, Orderly, [Next]_vars PROVE Orderly'
  OBVIOUS
<1>1. Typed'
  BY TypedStep
<1>2. ASSUME NEW t \in Threads, ThreadStep(t) PROVE Orderly'
  BY <1>2, OrderlyCall
<1>3. ASSUME NEW c \in Clients, Request(c) PROVE Orderly'
  BY <1>1, <1>3, OrderlyRequest
<1>4. CASE Maintain \/ StartScan \/ StartReindex
  BY <1>1, <1>4, OrderlyMaintain
<1>5. CASE UNCHANGED vars
  BY <1>1, <1>5, OrderlyKept DEF vars, record, index, Orderly, Rowed
<1> QED
  BY <1>2, <1>3, <1>4, <1>5, NoFailure DEF Next

\* Somebody is about to insert d.
Coming(d) ==
  \E t \in Threads :
    thread[t].doc = d /\ Making(t) /\ thread[t].at \in {"remove", "insert"}

\* A rebuild has emptied the index and is still to come to d.
Rebuilding(d) ==
  \/ job.step = "snapshot"
  \/ /\ job.step = "rebuild"
     /\ \/ d \in job.todo
        \/ thread[Maintainer].doc = d /\ thread[Maintainer].at \in {"latest", "tombstone"}

\* The record counts d, or somebody is about to make it.
Claimed(d) ==
  \/ proj[d] = "current"
  \/ \E t \in Threads :
       thread[t].doc = d /\ Making(t) /\ thread[t].at \in {"commit", "state"}

Found ==
  \A d \in Docs :
    Searchable(d) /\ Claimed(d) => fts[d] > 0 \/ Coming(d) \/ Rebuilding(d)

\* Beside a current latest version another one is found only while somebody is about
\* to remove it.
Retiring ==
  \A d, e \in Docs :
    IsLatest(d) /\ proj[d] = "current" /\ e[1] = d[1] /\ e # d /\ fts[e] > 0 =>
      \E t \in Threads :
        \/ thread[t].at = "older" /\ thread[t].doc = d
        \/ thread[t].at = "remove" /\ ~Making(t) /\ e \in thread[t].ids

\* What a call does to what can be found.
LEMMA FoundCall ==
  ASSUME Typed, Orderly, Found, NEW t \in Threads, ThreadStep(t)
  PROVE  Found'
<1> PICK w : w = thread[t].doc
  OBVIOUS
<1>1. /\ InOrder(t) /\ CallStep(t) /\ UNCHANGED <<versions, chunked, forgotten, job>>
      /\ \A u \in Threads \ {t} : thread'[u] = thread[u]
  BY InOrderCall DEF ThreadStep, record, Orderly
<1>2. \A u \in Threads \ {t} : Making(u)' <=> Making(u)
  BY <1>1 DEF Making
<1>3. ASSUME NEW step, NEW ids, NEW mark, Go(t, step, ids, mark)
      PROVE  thread'[t] = [at |-> step, doc |-> w, ids |-> ids, mark |-> mark]
  BY <1>3 DEF Go, Typed
<1> SUFFICES ASSUME NEW d \in Docs, Searchable(d)', Claimed(d)'
             PROVE  fts'[d] > 0 \/ Coming(d)' \/ Rebuilding(d)'
  BY DEF Found
<1>4. Searchable(d) /\ d \in chunked /\ IsLatest(d) /\ d[1] \notin forgotten /\ ~Gone(d)
  BY <1>1 DEF Searchable, IsLatest, Latest, Gone
<1>5. Claimed(d) => fts[d] > 0 \/ Coming(d) \/ Rebuilding(d)
  BY <1>4 DEF Found
<1>6. ASSUME Coming(d), ~(thread[t].doc = d /\ Making(t) /\ thread[t].at \in {"remove", "insert"})
      PROVE  Coming(d)'
  BY <1>1, <1>2, <1>6 DEF Coming
<1>7. ASSUME Rebuilding(d), ~(thread[t].doc = d /\ thread[t].at \in {"latest", "tombstone"})
      PROVE  Rebuilding(d)'
  BY <1>1, <1>7 DEF Rebuilding
<1>8. ASSUME ~(thread'[t].doc = d /\ Making(t)' /\ thread'[t].at \in {"commit", "state"}),
             proj'[d] = "current" => proj[d] = "current"
      PROVE  Claimed(d)
  BY <1>1, <1>2, <1>8 DEF Claimed
<1>9. CASE ReadLatest(t)
  <2>1. thread[t].at = "latest" /\ UNCHANGED <<fts, proj>>
    BY <1>9 DEF ReadLatest, At, index
  <2>2. /\ thread'[t].at \in {"tombstone", "remove"}
        /\ ~(thread'[t].at = "remove" /\ thread'[t].mark = "current")
    <3>1. CASE IsLatest(w)
      <4>1. thread'[t] = [at |-> "tombstone", doc |-> w, ids |-> {}, mark |-> "none"]
        BY <1>3, <1>9, <3>1 DEF ReadLatest
      <4> QED
        BY <4>1
    <3>2. CASE ~IsLatest(w)
      <4>1. thread'[t] = [at |-> "remove", doc |-> w, ids |-> {w}, mark |-> "stale"]
        BY <1>3, <1>9, <3>2 DEF ReadLatest
      <4> QED
        BY <4>1
    <3> QED
      BY <3>1, <3>2
  <2>3. Claimed(d)
    BY <1>8, <2>1, <2>2
  <2>4. w = d => thread'[t] = [at |-> "tombstone", doc |-> d, ids |-> {}, mark |-> "none"]
    BY <1>3, <1>4, <1>9 DEF ReadLatest
  <2>5. Rebuilding(d) => Rebuilding(d)'
    BY <1>1, <1>7, <2>4 DEF Rebuilding
  <2> QED
    BY <1>5, <1>6, <2>1, <2>3, <2>5
<1>10. CASE ReadTombstone(t)
  <2>1. thread[t].at = "tombstone" /\ UNCHANGED <<fts, proj>>
    BY <1>10 DEF ReadTombstone, At, index
  <2>2. thread'[t] = [at |-> "remove", doc |-> w, ids |-> {w},
                      mark |-> IF w[1] \in forgotten THEN "stale" ELSE "current"]
    BY <1>3, <1>10 DEF ReadTombstone
  <2>3. Claimed(d)
    BY <1>8, <2>1, <2>2
  <2>4. w = d => Coming(d)'
    BY <1>4, <2>2 DEF Coming, Making
  <2> QED
    BY <1>5, <1>6, <1>7, <2>1, <2>3, <2>4
<1>11. CASE Remove(t)
  <2>1. thread[t].at = "remove" /\ UNCHANGED proj
    BY <1>11 DEF Remove, At
  <2>2. thread'[t] = [at |-> IF thread[t].mark = "current" THEN "insert" ELSE "commit",
                      doc |-> w, ids |-> thread[t].ids, mark |-> thread[t].mark]
    BY <1>3, <1>11 DEF Remove
  <2>3. Claimed(d)
    BY <1>8, <2>1, <2>2 DEF Making
  <2>4. CASE Making(t) /\ w = d
    BY <2>1, <2>2, <2>4 DEF Coming, Making
  <2>5. CASE ~(Making(t) /\ w = d)
    <3>1. d \notin thread[t].ids
      <4>1. CASE Making(t)
        BY <1>1, <2>1, <2>5, <4>1 DEF InOrder
      <4>2. CASE ~Making(t)
        BY <1>1, <1>4, <2>1, <4>2 DEF InOrder
      <4> QED
        BY <4>1, <4>2
    <3>2. fts'[d] = fts[d]
      BY <1>11, <3>1 DEF Remove, Typed
    <3> QED
      BY <1>5, <1>6, <1>7, <2>1, <2>3, <2>5, <3>2
  <2> QED
    BY <2>4, <2>5
<1>12. CASE Insert(t)
  <2>1. thread[t].at = "insert" /\ UNCHANGED proj
    BY <1>12 DEF Insert, At
  <2>2. thread'[t] = [at |-> "commit", doc |-> w, ids |-> thread[t].ids, mark |-> "current"]
    BY <1>3, <1>12 DEF Insert
  <2>3. CASE w = d
    BY <1>12, <2>3 DEF Insert, Typed
  <2>4. CASE w # d
    <3>1. fts'[d] = fts[d]
      BY <1>12, <2>4 DEF Insert, Typed
    <3>2. Claimed(d)
      BY <1>8, <2>1, <2>2, <2>4
    <3> QED
      BY <1>5, <1>6, <1>7, <2>1, <2>4, <3>1, <3>2
  <2> QED
    BY <2>3, <2>4
<1>13. CASE Commit(t)
  <2>1. thread[t].at = "commit" /\ UNCHANGED <<fts, proj>>
    BY <1>13 DEF Commit, At
  <2>2. thread'[t] = [at |-> "state", doc |-> w, ids |-> thread[t].ids, mark |-> thread[t].mark]
    BY <1>3, <1>13 DEF Commit
  <2>3. Claimed(d)
    BY <1>1, <1>2, <2>1, <2>2 DEF Claimed, Making
  <2> QED
    BY <1>5, <1>6, <1>7, <2>1, <2>3
<1>14. CASE SetState(t)
  <2>1. thread[t].at = "state" /\ UNCHANGED fts
    BY <1>14 DEF SetState, At
  <2>2. thread'[t].at \in {"older", "idle"}
    BY <1>14 DEF SetState, Go, Return, Idle, Typed
  <2>3. Claimed(d)
    <3>1. CASE Making(t) /\ w = d
      BY <2>1, <3>1 DEF Claimed
    <3>2. CASE ~(Making(t) /\ w = d)
      <4>1. proj'[d] = "current" => proj[d] = "current"
        BY <1>1, <1>14, <2>1, <3>2 DEF SetState, InOrder, Making, Typed
      <4> QED
        BY <1>8, <2>2, <4>1
    <3> QED
      BY <3>1, <3>2
  <2> QED
    BY <1>5, <1>6, <1>7, <2>1, <2>3
<1>15. CASE ReadOlder(t) \/ RetireSubject(t)
  <2>1. thread[t].at \in {"older", "retire"} /\ UNCHANGED <<fts, proj>>
    BY <1>15 DEF ReadOlder, RetireSubject, At, index
  <2>2. thread'[t].at \in {"idle", "remove"}
    BY <1>15 DEF ReadOlder, RetireSubject, Go, Return, Idle, Typed
  <2>3. Claimed(d)
    BY <1>8, <2>1, <2>2
  <2> QED
    BY <1>5, <1>6, <1>7, <2>1, <2>3
<1> QED
  BY <1>1, <1>9, <1>10, <1>11, <1>12, <1>13, <1>14, <1>15 DEF CallStep

\* What is claimed is on record.
LEMMA ClaimedIsRecorded ==
  ASSUME Typed, Orderly, NEW d \in Docs, Claimed(d)
  PROVE  d \in chunked /\ d[2] <= versions[d[1]]
<1>1. d \in chunked
  BY DEF Claimed, Orderly, InOrder
<1> QED
  BY <1>1 DEF Orderly

\* A document that was on record and is the latest now was the latest before.
LEMMA LatestBefore ==
  ASSUME Typed, Typed', NEW d \in Docs, d[2] <= versions[d[1]], IsLatest(d)',
         \A s \in Subjects : versions[s] <= versions'[s]
  PROVE  IsLatest(d)
<1>1. /\ d[1] \in Subjects /\ d[2] = versions'[d[1]] /\ d[2] \in Nat
      /\ versions[d[1]] \in Nat /\ versions[d[1]] <= versions'[d[1]]
  BY LatestMeans DEF Typed
<1>2. d[2] = versions[d[1]]
  BY <1>1
<1> QED
  BY <1>2, LatestMeans

\* A step outside the calls of the projection: no thread begins or stops making a
\* document, none is marked current, and a rebuild still comes to what it had to.
LEMMA FoundKept ==
  ASSUME Typed, Typed', Orderly, Found,
         NEW t \in Threads, \A u \in Threads \ {t} : thread'[u] = thread[u],
         ~Making(t), ~Making(t)', UNCHANGED fts, forgotten \subseteq forgotten',
         \A s \in Subjects : versions[s] <= versions'[s],
         \A d \in Docs : proj'[d] = "current" => proj[d] = "current",
         \A d \in Docs : Searchable(d) /\ Rebuilding(d) => Rebuilding(d)'
  PROVE  Found'
<1> SUFFICES ASSUME NEW d \in Docs, Searchable(d)', Claimed(d)'
             PROVE  fts'[d] > 0 \/ Coming(d)' \/ Rebuilding(d)'
  BY DEF Found
<1>1. \A u \in Threads \ {t} : Making(u)' <=> Making(u)
  BY DEF Making
<1>2. Claimed(d)
  BY <1>1 DEF Claimed
<1>3. Searchable(d)
  <2>1. d \in chunked /\ d[2] <= versions[d[1]]
    BY <1>2, ClaimedIsRecorded
  <2>2. IsLatest(d)' /\ d[1] \notin forgotten
    BY DEF Searchable
  <2>3. IsLatest(d)
    BY <2>1, <2>2, LatestBefore
  <2> QED
    BY <2>1, <2>2, <2>3 DEF Searchable
<1>4. Coming(d) => Coming(d)'
  BY <1>1 DEF Coming
<1> QED
  BY <1>2, <1>3, <1>4 DEF Found

\* So for what was superseded.
LEMMA RetiringKept ==
  ASSUME Typed, Typed', Orderly, Retiring,
         NEW t \in Threads, \A u \in Threads \ {t} : thread'[u] = thread[u],
         thread[t].at \notin {"older", "remove"},
         \A s \in Subjects : versions[s] <= versions'[s],
         \A d \in Docs : (fts'[d] > 0 => fts[d] > 0) /\ (proj'[d] = "current" => proj[d] = "current")
  PROVE  Retiring'
<1> SUFFICES ASSUME NEW d \in Docs, NEW e \in Docs, IsLatest(d)', proj'[d] = "current",
                    e[1] = d[1], e # d, fts'[e] > 0
             PROVE  \E u \in Threads :
                      \/ thread'[u].at = "older" /\ thread'[u].doc = d
                      \/ thread'[u].at = "remove" /\ ~Making(u)' /\ e \in thread'[u].ids
  BY DEF Retiring
<1>1. proj[d] = "current" /\ fts[e] > 0
  OBVIOUS
<1>2. d[2] <= versions[d[1]]
  BY <1>1, ClaimedIsRecorded DEF Claimed
<1>3. IsLatest(d)
  BY <1>2, LatestBefore
<1>4. PICK u \in Threads : \/ thread[u].at = "older" /\ thread[u].doc = d
                           \/ thread[u].at = "remove" /\ ~Making(u) /\ e \in thread[u].ids
  BY <1>1, <1>3 DEF Retiring
<1>5. thread'[u] = thread[u] /\ (Making(u)' <=> Making(u))
  BY <1>4 DEF Making
<1> QED
  BY <1>4, <1>5

\* What a call does to what was superseded.
LEMMA RetiringCall ==
  ASSUME Typed, Orderly, Retiring, NEW t \in Threads, ThreadStep(t)
  PROVE  Retiring'
<1> PICK w : w = thread[t].doc
  OBVIOUS
<1>1. /\ InOrder(t) /\ CallStep(t) /\ UNCHANGED <<versions, chunked, forgotten>>
      /\ \A u \in Threads \ {t} : thread'[u] = thread[u]
  BY InOrderCall DEF ThreadStep, record, Orderly
<1>2. \A u \in Threads \ {t} : Making(u)' <=> Making(u)
  BY <1>1 DEF Making
<1>3. ASSUME NEW step, NEW ids, NEW mark, Go(t, step, ids, mark)
      PROVE  thread'[t] = [at |-> step, doc |-> w, ids |-> ids, mark |-> mark]
  BY <1>3 DEF Go, Typed
<1> SUFFICES ASSUME NEW d \in Docs, NEW e \in Docs, IsLatest(d)', proj'[d] = "current",
                    e[1] = d[1], e # d, fts'[e] > 0
             PROVE  \E u \in Threads :
                      \/ thread'[u].at = "older" /\ thread'[u].doc = d
                      \/ thread'[u].at = "remove" /\ ~Making(u)' /\ e \in thread'[u].ids
  BY DEF Retiring
<1>4. IsLatest(d) /\ ~IsLatest(e)
  BY <1>1 DEF IsLatest, Latest
<1>5. ASSUME proj[d] = "current", fts[e] > 0,
             ~(\/ thread[t].at = "older" /\ w = d
               \/ thread[t].at = "remove" /\ ~Making(t) /\ e \in thread[t].ids)
      PROVE  \E u \in Threads :
               \/ thread'[u].at = "older" /\ thread'[u].doc = d
               \/ thread'[u].at = "remove" /\ ~Making(u)' /\ e \in thread'[u].ids
  <2>1. PICK u \in Threads : \/ thread[u].at = "older" /\ thread[u].doc = d
                             \/ thread[u].at = "remove" /\ ~Making(u) /\ e \in thread[u].ids
    BY <1>4, <1>5 DEF Retiring
  <2>2. u # t
    BY <1>5, <2>1
  <2> QED
    BY <1>1, <1>2, <2>1, <2>2
<1>6. CASE Remove(t)
  <2>1. e \notin thread[t].ids /\ fts[e] > 0 /\ proj[d] = "current" /\ thread[t].at = "remove"
    BY <1>6 DEF Remove, At, Typed
  <2> QED
    BY <1>5, <2>1
<1>7. CASE Insert(t)
  <2>1. thread[t].at = "insert" /\ IsLatest(w) /\ proj[d] = "current"
    BY <1>1, <1>7 DEF Insert, At, InOrder, Making
  <2>2. fts[e] > 0
    BY <1>4, <1>7, <2>1 DEF Insert, Typed
  <2> QED
    BY <1>5, <2>1, <2>2
<1>8. CASE SetState(t)
  <2>1. thread[t].at = "state" /\ fts[e] > 0
    BY <1>8 DEF SetState, At
  <2>2. CASE Making(t) /\ w = d
    <3>1. thread'[t] = [at |-> "older", doc |-> w, ids |-> {}, mark |-> "none"]
      BY <1>1, <1>3, <1>8, <2>1, <2>2 DEF SetState, InOrder
    <3> QED
      BY <2>2, <3>1
  <2>3. CASE ~(Making(t) /\ w = d)
    <3>1. proj[d] = "current"
      BY <1>1, <1>8, <2>1, <2>3 DEF SetState, InOrder, Making, Typed
    <3> QED
      BY <1>5, <2>1, <3>1
  <2> QED
    BY <2>2, <2>3
<1>9. CASE ReadOlder(t)
  <2>1. thread[t].at = "older" /\ fts[e] > 0 /\ proj[d] = "current"
    BY <1>9 DEF ReadOlder, At, index
  <2>2. CASE w = d
    <3>1. e \in Older(w)
      BY <2>1, <2>2 DEF Older, ChunkIdsForSubject, Orderly
    <3>2. thread'[t] = [at |-> "remove", doc |-> w, ids |-> Older(w), mark |-> "stale"]
      BY <1>3, <1>9, <3>1 DEF ReadOlder
    <3>3. ~Making(t)'
      BY <3>2 DEF Making
    <3> QED
      BY <3>1, <3>2, <3>3
  <2>3. CASE w # d
    BY <1>5, <2>1, <2>3
  <2> QED
    BY <2>2, <2>3
<1>10. CASE ReadLatest(t) \/ ReadTombstone(t) \/ Commit(t) \/ RetireSubject(t)
  <2>1. thread[t].at \notin {"older", "remove"} /\ fts[e] > 0 /\ proj[d] = "current"
    BY <1>10 DEF ReadLatest, ReadTombstone, Commit, RetireSubject, At, index
  <2> QED
    BY <1>5, <2>1
<1> QED
  BY <1>1, <1>6, <1>7, <1>8, <1>9, <1>10 DEF CallStep

\* Requests and maintenance, but where a rebuild empties the index.
LEMMA FoundOther ==
  ASSUME Calm, Typed, Typed', Orderly, Found, Retiring,
         \/ \E c \in Clients : Request(c)
         \/ Maintain \/ StartScan \/ StartReindex
  PROVE  Found' /\ Retiring'
<1>1. Maintainer \in Threads /\ Maintainer \notin Clients /\ service = "up" /\ job.step # "first"
  BY DEF Orderly
<1>2. ASSUME NEW c \in Clients, Request(c) PROVE Found' /\ Retiring'
  <2>1. c \in Threads /\ thread[c].at \in {"idle", "promote", "bury", "hits", "answer"}
    BY <1>2 DEF Request, Store, CheckConfirm, CheckForget, Promote, Bury, ReadHits, FilterHits,
                Answer, At
  <2>2. ~Promote(c)
    BY <2>1 DEF Promote, At, Orderly, InOrder
  <2>3. \A u \in Threads \ {c} : thread'[u] = thread[u]
    BY <1>2 DEF Request, Store, CheckConfirm, CheckForget, Promote, Bury, ReadHits, FilterHits,
                Answer, Call, Return, Typed
  <2>4. thread'[c].at \in {"latest", "promote", "bury", "hits", "answer", "retire", "idle"}
    BY <1>2, <2>1 DEF Request, Store, CheckConfirm, CheckForget, Promote, Bury, ReadHits,
                      FilterHits, Answer, Call, Calling, Return, Idle, Typed
  <2>5. /\ UNCHANGED <<fts, proj>> /\ forgotten \subseteq forgotten'
        /\ job'.step = job.step /\ job'.todo = job.todo
    BY <1>2 DEF JobType, Request, Store, CheckConfirm, CheckForget, Promote, Bury, ReadHits,
                FilterHits, Answer, index, record, Disturb, Typed, JobType
  <2>6. \A s \in Subjects : versions[s] <= versions'[s]
    <3>1. \/ versions' = versions
          \/ \E s \in Texts : versions[s] = 0 /\ versions' = [versions EXCEPT ![s] = 1]
      BY <1>2, <2>2 DEF Request, Store, CheckConfirm, CheckForget, Bury, ReadHits, FilterHits,
                        Answer, record
    <3> QED
      BY <3>1 DEF Typed
  <2>7. ~Making(c) /\ ~Making(c)'
    BY <2>1, <2>4 DEF Making
  <2>8. \A d \in Docs : Rebuilding(d) => Rebuilding(d)'
    BY <1>1, <2>3, <2>5 DEF Rebuilding
  <2>9. Found'
    BY <2>1, <2>3, <2>5, <2>6, <2>7, <2>8, FoundKept
  <2>10. Retiring'
    BY <2>1, <2>3, <2>5, <2>6, RetiringKept
  <2> QED
    BY <2>9, <2>10
<1>3. CASE Maintain \/ StartScan \/ StartReindex
  <2>1. thread[Maintainer].at = "idle"
    BY <1>3 DEF Maintain, StartScan, StartReindex, Register, RecordDrop, Sweep, Process, Postpone,
                Complete, RebuildDocument, EndScan, MarkPending, Create, Snapshot, EndRebuild,
                LookAtFailed, ClearFailed, MayMaintain, MayTake, At
  <2>2. \A u \in Threads \ {Maintainer} : thread'[u] = thread[u]
    BY <1>3 DEF Maintain, StartScan, StartReindex, Register, RecordDrop, Sweep, Process, Postpone,
                Complete, RebuildDocument, EndScan, MarkPending, Create, Snapshot, EndRebuild,
                LookAtFailed, ClearFailed, Call, Typed
  <2>3. thread'[Maintainer].at \in {"idle", "latest"}
    <3>1. thread' = thread \/ \E d : Call(Maintainer, "latest", d)
      BY <1>3 DEF Maintain, StartScan, StartReindex, Register, RecordDrop, Sweep, Process, Postpone,
                  Complete, RebuildDocument, EndScan, MarkPending, Create, Snapshot, EndRebuild,
                  LookAtFailed, ClearFailed
    <3> QED
      BY <1>1, <2>1, <3>1 DEF Call, Calling, Typed
  <2>4. ~Making(Maintainer) /\ ~Making(Maintainer)'
    BY <2>1, <2>3 DEF Making
  <2>5. forgotten' = forgotten
    BY <1>3 DEF Maintain, StartScan, StartReindex, Register, RecordDrop, Sweep, Process, Postpone,
                Complete, RebuildDocument, EndScan, MarkPending, Create, Snapshot, EndRebuild,
                LookAtFailed, ClearFailed, record
  <2>6. \A s \in Subjects : versions[s] <= versions'[s]
    <3>1. \/ versions' = versions
          \/ \E s \in Sources : versions' = [versions EXCEPT ![s] = @ + 1]
          \/ \E s \in Sources : versions[s] = 0 /\ versions' = [versions EXCEPT ![s] = 1]
      BY <1>3 DEF Maintain, StartScan, StartReindex, Register, RecordDrop, Sweep, Process, Postpone,
                  Complete, RebuildDocument, EndScan, MarkPending, Create, Snapshot, EndRebuild,
                  LookAtFailed, ClearFailed, record
    <3>2. ASSUME NEW s \in Sources, versions' = [versions EXCEPT ![s] = @ + 1]
          PROVE  \A r \in Subjects : versions[r] <= versions'[r]
      BY <3>2 DEF Typed
    <3>3. ASSUME NEW s \in Sources, versions[s] = 0, versions' = [versions EXCEPT ![s] = 1]
          PROVE  \A r \in Subjects : versions[r] <= versions'[r]
      BY <3>3 DEF Typed
    <3>4. versions' = versions => \A r \in Subjects : versions[r] <= versions'[r]
      BY DEF Typed
    <3> QED
      BY <3>1, <3>2, <3>3, <3>4
  <2>7. \A d \in Docs : (fts'[d] > 0 => fts[d] > 0) /\ (proj'[d] = "current" => proj[d] = "current")
    <3>1. fts' = fts \/ fts' = Empty
      BY <1>3 DEF Maintain, StartScan, StartReindex, Register, RecordDrop, Sweep, Process, Postpone,
                  Complete, RebuildDocument, EndScan, MarkPending, Create, Created, Snapshot,
                  EndRebuild, LookAtFailed, ClearFailed, index
    <3>2. proj' = proj \/ MarkPending \/ EndRebuild
      BY <1>3 DEF Maintain, StartScan, StartReindex, Register, RecordDrop, Sweep, Process, Postpone,
                  Complete, RebuildDocument, EndScan, Create, Snapshot, LookAtFailed, ClearFailed,
                  index
    <3>3. \A d \in Docs : fts'[d] > 0 => fts[d] > 0
      BY <3>1 DEF Empty
    <3>4. \A d \in Docs : proj'[d] = "current" => proj[d] = "current"
      BY <3>2 DEF MarkPending, EndRebuild, LookAtFailed, ClearFailed
    <3> QED
      BY <3>3, <3>4
  <2>8. Retiring'
    BY <1>1, <2>1, <2>2, <2>6, <2>7, RetiringKept
  <2>9. CASE Create
    <3>1. job'.step = "snapshot"
      BY <1>1, <2>9 DEF Create, Job, MayMaintain
    <3> QED
      BY <2>8, <3>1 DEF Found, Rebuilding
  <2>10. CASE ~Create
    <3>1. UNCHANGED fts
      BY <1>3, <2>10 DEF Maintain, StartScan, StartReindex, Register, RecordDrop, Sweep, Process,
                         Postpone, Complete, RebuildDocument, EndScan, MarkPending, Snapshot,
                         EndRebuild, LookAtFailed, ClearFailed, index
    <3>2. ASSUME NEW d \in Docs, Searchable(d), Rebuilding(d)
          PROVE  Rebuilding(d)'
      <4>1. job.step = "snapshot" \/ (job.step = "rebuild" /\ d \in job.todo)
        BY <2>1, <3>2 DEF Rebuilding
      <4>2. CASE Snapshot
        <5>1. /\ d[1] \in Subjects /\ d = Latest(d[1]) /\ d[2] \in 1 .. MaxVersion
              /\ d[2] = versions[d[1]]
          BY <3>2, LatestMeans DEF Searchable, IsLatest
        <5>2. job'.step = "rebuild"
              /\ job'.todo = {Latest(s) : s \in {r \in Subjects : versions[r] > 0}}
          BY <4>2 DEF Snapshot, Job
        <5> QED
          BY <5>1, <5>2 DEF Rebuilding
      <4>3. ASSUME NEW e \in Docs, RebuildDocument(e)
            PROVE  Rebuilding(d)'
        <5>1. job'.step = "rebuild" /\ job'.todo = job.todo \ {e} /\ job.step = "rebuild"
          BY <4>3 DEF RebuildDocument, MayMaintain, Typed, JobType
        <5>2. CASE d # e
          BY <4>1, <5>1, <5>2 DEF Rebuilding
        <5>3. CASE d = e
          <6>1. Call(Maintainer, "latest", d)
            BY <3>2, <4>3, <5>3 DEF RebuildDocument, Searchable
          <6>2. thread'[Maintainer].doc = d /\ thread'[Maintainer].at = "latest"
            BY <1>1, <6>1 DEF Call, Calling, Typed
          <6> QED
            BY <5>1, <6>2 DEF Rebuilding
        <5> QED
          BY <5>2, <5>3
      <4>4. ~EndRebuild
        BY <4>1 DEF EndRebuild, MayMaintain
      <4>5. \/ Snapshot \/ \E e \in Docs : RebuildDocument(e)
        BY <1>3, <2>10, <4>1, <4>4 DEF Maintain, StartScan, StartReindex, Register, RecordDrop,
                                       Sweep, Process, Postpone, Complete, EndScan, MarkPending,
                                       LookAtFailed, ClearFailed, MayMaintain, MayTake
      <4> QED
        BY <4>2, <4>3, <4>5
    <3>3. Found'
      BY <1>1, <2>2, <2>4, <2>5, <2>6, <2>7, <3>1, <3>2, FoundKept
    <3> QED
      BY <2>8, <3>3
  <2> QED
    BY <2>9, <2>10
<1> QED
  BY <1>2, <1>3

LEMMA CalmStep ==
  Calm /\ Typed /\ Orderly /\ Found /\ Retiring /\ [Next]_vars
    => Typed' /\ Orderly' /\ Found' /\ Retiring'
<1> SUFFICES ASSUME Calm, Typed, Orderly, Found, Retiring, [Next]_vars
             PROVE  Typed' /\ Orderly' /\ Found' /\ Retiring'
  OBVIOUS
<1>1. Typed' /\ Orderly'
  BY TypedStep, OrderlyStep
<1>2. ASSUME NEW t \in Threads, ThreadStep(t) PROVE Found' /\ Retiring'
  BY <1>2, FoundCall, RetiringCall
<1>3. CASE (\E c \in Clients : Request(c)) \/ Maintain \/ StartScan \/ StartReindex
  BY <1>1, <1>3, FoundOther
<1>4. CASE UNCHANGED vars
  <2>1. UNCHANGED <<versions, chunked, forgotten, fts, proj, thread, job>>
    BY <1>4 DEF vars, record, index
  <2>2. Found'
    BY <2>1 DEF Found, Searchable, IsLatest, Latest, Claimed, Coming, Rebuilding, Making
  <2>3. Retiring'
    BY <2>1 DEF Retiring, IsLatest, Latest, Making
  <2> QED
    BY <1>1, <2>2, <2>3
<1>5. (\E t \in Threads : ThreadStep(t)) \/ (\E c \in Clients : Request(c)) \/ Maintain \/ StartScan
      \/ StartReindex \/ UNCHANGED vars
  BY NoFailure DEF Next
<1> QED
  BY <1>1, <1>2, <1>3, <1>4, <1>5

LEMMA CalmInvariant == Calm => (Spec => [](Typed /\ Orderly /\ Found /\ Retiring /\ Durable))
<1> SUFFICES ASSUME Calm PROVE Spec => [](Typed /\ Orderly /\ Found /\ Retiring /\ Durable)
  OBVIOUS
<1>1. Init => Typed /\ Orderly /\ Found /\ Retiring /\ Durable
  <2>1. Init => Found /\ Retiring /\ Durable
    BY DEF Init, InitProjection, Found, Searchable, Retiring, Durable
  <2> QED
    BY <2>1, TypedInit, OrderlyInit
<1>2. Typed /\ Orderly /\ Found /\ Retiring /\ Durable /\ [Next]_vars
        => (Typed /\ Orderly /\ Found /\ Retiring /\ Durable)'
  BY CalmStep, DurableStep DEF Calm
<1> QED
  BY <1>1, <1>2, PTL DEF Spec

\* Where nobody promotes, and nothing crashes or raises, what coverage counts as
\* indexed a search can find, whoever submits, forgets, scans and rebuilds at the
\* same time (record/__init__.py:325-329 against projection.py:105-113).
THEOREM CountedCanBeFound ==
  ASSUME Calm
  PROVE  Spec => []CountedIsFindable
<1>1. Found /\ Durable => CountedIsFindable
  <2> SUFFICES ASSUME Found, Durable, AtRest, NEW d \in Docs, Searchable(d), proj[d] = "current"
               PROVE  fts[d] > 0 /\ disk[d] > 0
    BY DEF CountedIsFindable
  <2>1. \A t \in Threads : thread[t].at = "idle"
    BY DEF AtRest, Resting, At
  <2>2. ~Coming(d) /\ ~Rebuilding(d) /\ Claimed(d)
    BY <2>1 DEF Coming, Rebuilding, Claimed, AtRest
  <2>3. disk = fts
    BY <2>1 DEF Durable, Pending
  <2> QED
    BY <2>2, <2>3 DEF Found
<1> QED
  BY <1>1, CalmInvariant, PTL

\* Under the same conditions no earlier version is left beside a current one
\* (projection.py:70, 91).
THEOREM EarlierAreRetired ==
  ASSUME Calm
  PROVE  Spec => []EarlierRetired
<1>1. Typed /\ Retiring => EarlierRetired
  <2> SUFFICES ASSUME Typed, Retiring, AtRest, NEW d \in Docs, NEW e \in Docs,
                      IsLatest(d), proj[d] = "current", e[1] = d[1], e # d
               PROVE  fts[e] = 0
    BY DEF EarlierRetired
  <2>1. \A t \in Threads : thread[t].at = "idle"
    BY DEF AtRest, Resting, At
  <2>2. ~(fts[e] > 0) /\ fts[e] \in Nat
    BY <2>1 DEF Retiring, Typed
  <2> QED
    BY <2>2
<1> QED
  BY <1>1, CalmInvariant, PTL

-----------------------------------------------------------------------------
(***************************************************************************)
(* A rebuild, or a scan, that ran undisturbed: no other thread calls the   *)
(* projection, and the maintainer works the documents off one by one.      *)
(***************************************************************************)

Undisturbed(steps) == job.quiet /\ job.step \in steps

RebuildSteps == {"first", "pending", "create", "snapshot", "rebuild"}

Alone ==
  /\ \A t \in Clients : thread[t].at \notin CallSteps \cup {"promote", "bury"}
  /\ thread[Maintainer].at # "idle" => InOrder(Maintainer)

\* The document the maintainer makes current, until it has retired the older ones.
InHand(d) == thread[Maintainer].doc = d /\ (thread[Maintainer].at = "latest" \/ Making(Maintainer))

Left(d) ==
  \/ d \in job.todo
  \/ InHand(d) /\ thread[Maintainer].at \in {"latest", "tombstone", "remove", "insert"}

Made(d) == Searchable(d) /\ ~Left(d)

\* The index holds what the rebuild has come past, once each, and nothing else.
MadeSoFar ==
  /\ \A d \in job.todo : IsLatest(d)
  /\ \A d \in Docs : InHand(d) => Searchable(d) /\ d \notin job.todo
  /\ \A d \in Docs :
       /\ fts[d] = (IF Made(d) THEN 1 ELSE 0)
       /\ disk[d] = (IF Made(d) /\ ~(InHand(d) /\ thread[Maintainer].at = "commit") THEN 1 ELSE 0)
       /\ proj[d] = "current" <=>
            Made(d) /\ ~(InHand(d) /\ thread[Maintainer].at \in {"commit", "state"})

NoneCurrent == \A d \in Docs : proj[d] # "current"

\* Where the maintainer and the clients can be at all.
Posted ==
  /\ job.step \notin {"register", "drain", "rebuild"} => thread[Maintainer].at = "idle"
  /\ service = "down" => job.step = "idle" /\ \A t \in Threads : thread[t].at = "idle"

Remade ==
  /\ Undisturbed(RebuildSteps) => Alone
  /\ Undisturbed({"create", "snapshot"}) => NoneCurrent
  /\ Undisturbed({"snapshot"}) => fts = Empty /\ disk = Empty
  /\ Undisturbed({"rebuild"}) => MadeSoFar

LEMMA PostedStep ==
  ASSUME Typed, Posted, [Next]_vars
  PROVE  Posted'
<1>0. Maintainer \in Threads /\ Maintainer \notin Clients /\ Clients \subseteq Threads
  OBVIOUS
<1>1. ASSUME NEW t \in Threads, ThreadStep(t) PROVE Posted'
  <2>1. thread[t].at \in CallSteps /\ thread[t].at # "idle"
    BY <1>1 DEF ThreadStep, CallStep, ReadLatest, ReadTombstone, Remove, Insert, Commit, SetState,
                ReadOlder, RetireSubject, At, CallSteps
  <2>2. UNCHANGED <<job, service>> /\ \A u \in Threads \ {t} : thread'[u] = thread[u]
    BY <1>1 DEF ThreadStep, CallStep, ReadLatest, ReadTombstone, Remove, Insert, Commit, SetState,
                ReadOlder, RetireSubject, Go, Return, Typed
  <2> QED
    BY <1>0, <2>1, <2>2 DEF Posted
<1>2. ASSUME NEW t \in Threads, Fault(t) PROVE Posted'
  <2>1. service' = "up" /\ thread' = [thread EXCEPT ![t] = Idle]
    BY <1>2 DEF Fault, Return
  <2>2. job'.step = job.step \/ t = Maintainer
    BY <1>2 DEF Fault, Disturb, Typed, JobType
  <2> QED
    BY <1>0, <2>1, <2>2 DEF Posted, Idle, Typed
<1>3. ASSUME NEW c \in Clients, Request(c) PROVE Posted'
  <2>1. service # "down" /\ service' = service
    BY <1>0, <1>3 DEF Request, Store, CheckConfirm, CheckForget, Promote, Bury, ReadHits,
                      FilterHits, Answer, At, Posted
  <2>2. thread'[Maintainer] = thread[Maintainer]
    BY <1>0, <1>3 DEF Request, Store, CheckConfirm, CheckForget, Promote, Bury, ReadHits,
                      FilterHits, Answer, Call, Return, Typed
  <2>3. job'.step = job.step
    BY <1>3 DEF Request, Store, CheckConfirm, CheckForget, Promote, Bury, ReadHits, FilterHits,
                Answer, Disturb, Typed, JobType
  <2> QED
    BY <2>1, <2>2, <2>3 DEF Posted
<1>4. CASE StartScan \/ StartReindex
  BY <1>4 DEF StartScan, StartReindex, MayMaintain, At, Posted
<1>5. CASE Maintain
  <2>1. job.step # "idle" /\ service # "down" /\ thread[Maintainer].at = "idle"
    BY <1>5 DEF Maintain, Register, RecordDrop, Sweep, Process, Postpone, Complete, RebuildDocument,
                EndScan, MarkPending, Create, Snapshot, EndRebuild, LookAtFailed, ClearFailed,
                MayMaintain, MayTake, At, Posted
  <2>2. service' # "down"
    BY <1>5, <2>1 DEF Maintain, Register, RecordDrop, Sweep, Process, Postpone, Complete,
                      RebuildDocument, EndScan, MarkPending, Create, Snapshot, EndRebuild,
                      LookAtFailed, ClearFailed
  <2>3. job'.step \in {"register", "drain", "rebuild"} \/ thread' = thread
    BY <1>5 DEF Maintain, Register, RecordDrop, Sweep, Process, Postpone, Complete, RebuildDocument,
                EndScan, MarkPending, Create, Snapshot, EndRebuild, LookAtFailed, ClearFailed,
                MayMaintain, MayTake, Typed, JobType
  <2> QED
    BY <2>1, <2>2, <2>3 DEF Posted
<1>6. CASE Crash
  BY <1>0, <1>6 DEF Crash, Posted, NoJob, Idle
<1>7. CASE LoseIndex
  BY <1>7 DEF LoseIndex, Posted
<1>8. CASE Open
  BY <1>0, <1>8 DEF Open, Posted
<1>9. CASE UNCHANGED vars
  BY <1>9 DEF vars, Posted
<1> QED
  BY <1>1, <1>2, <1>3, <1>4, <1>5, <1>6, <1>7, <1>8, <1>9 DEF Next

\* What a call of the maintainer does to what a rebuild has made.
LEMMA MadeCall ==
  ASSUME Typed, Alone, MadeSoFar, ThreadStep(Maintainer)
  PROVE  MadeSoFar'
<1> PICK w : w = thread[Maintainer].doc
  OBVIOUS
<1>1. thread[Maintainer].at \in CallSteps
  BY DEF ThreadStep, CallStep, ReadLatest, ReadTombstone, Remove, Insert, Commit, SetState,
         ReadOlder, RetireSubject, At, CallSteps
<1>2. /\ InOrder(Maintainer) /\ CallStep(Maintainer)
      /\ UNCHANGED <<versions, chunked, forgotten, job>>
  <2>1. InOrder(Maintainer)
    BY <1>1 DEF Alone, CallSteps
  <2> QED
    BY <2>1, InOrderCall DEF ThreadStep, record
<1>3. w \in Docs /\ Maintainer \in Threads
  BY <1>1 DEF Typed, DocInHand
<1>4. ASSUME NEW step, NEW ids, NEW mark, Go(Maintainer, step, ids, mark)
      PROVE  thread'[Maintainer] = [at |-> step, doc |-> w, ids |-> ids, mark |-> mark]
  BY <1>3, <1>4 DEF Go, Typed
<1>5. /\ \A d \in Docs : (Searchable(d)' <=> Searchable(d)) /\ (IsLatest(d)' <=> IsLatest(d))
      /\ \A d \in Docs : Gone(d) => ~Searchable(d)
      /\ \A d \in job'.todo : IsLatest(d)'
  BY <1>2 DEF Searchable, IsLatest, Latest, Gone, MadeSoFar
<1>6. ASSUME \A d \in Docs : InHand(d)' => InHand(d),
             \A d \in Docs : Made(d)' <=> Made(d),
             UNCHANGED <<fts, disk, proj>>,
             thread[Maintainer].at \notin {"commit", "state"},
             thread'[Maintainer].at \notin {"commit", "state"}
      PROVE  MadeSoFar'
  BY <1>2, <1>5, <1>6 DEF MadeSoFar
<1>7. Return(Maintainer) => thread'[Maintainer].at = "idle"
  <2>1. Return(Maintainer) => thread'[Maintainer] = Idle
    BY <1>3 DEF Return, Typed
  <2> QED
    BY <2>1 DEF Idle
<1>8. CASE ReadLatest(Maintainer)
  <2>1. thread[Maintainer].at = "latest" /\ UNCHANGED <<fts, disk, proj>> /\ InHand(w)
    BY <1>8 DEF ReadLatest, At, index, InHand
  <2>2. thread'[Maintainer] = [at |-> "tombstone", doc |-> w, ids |-> {}, mark |-> "none"]
    BY <1>3, <1>4, <1>8, <2>1 DEF ReadLatest, MadeSoFar, Searchable
  <2>3. \A d \in Docs : InHand(d)' <=> InHand(d)
    BY <2>1, <2>2 DEF InHand, Making
  <2>4. \A d \in Docs : Made(d)' <=> Made(d)
    BY <1>2, <1>5, <2>1, <2>2, <2>3 DEF Made, Left
  <2> QED
    BY <1>6, <2>1, <2>2, <2>3, <2>4
<1>9. CASE ReadTombstone(Maintainer)
  <2>1. /\ thread[Maintainer].at = "tombstone" /\ UNCHANGED <<fts, disk, proj>>
        /\ InHand(w)
    BY <1>9 DEF ReadTombstone, At, index, InHand, Making
  <2>2. thread'[Maintainer] = [at |-> "remove", doc |-> w, ids |-> {w}, mark |-> "current"]
    BY <1>3, <1>4, <1>9, <2>1 DEF ReadTombstone, MadeSoFar, Searchable
  <2>3. \A d \in Docs : InHand(d)' <=> InHand(d)
    BY <2>1, <2>2 DEF InHand, Making
  <2>4. \A d \in Docs : Made(d)' <=> Made(d)
    BY <1>2, <1>5, <2>1, <2>2, <2>3 DEF Made, Left
  <2> QED
    BY <1>6, <2>1, <2>2, <2>3, <2>4
<1>10. CASE Remove(Maintainer)
  <2>1. thread[Maintainer].at = "remove" /\ UNCHANGED <<disk, proj>>
    BY <1>10 DEF Remove, At
  <2>2. thread'[Maintainer] = [at |-> IF thread[Maintainer].mark = "current" THEN "insert" ELSE "commit",
                               doc |-> w, ids |-> thread[Maintainer].ids,
                               mark |-> thread[Maintainer].mark]
    BY <1>4, <1>10 DEF Remove
  <2>3. \A d \in Docs : InHand(d)' <=> InHand(d)
    BY <2>1, <2>2 DEF InHand, Making
  <2>4. \A d \in Docs : Made(d)' <=> Made(d)
    BY <1>2, <1>5, <2>1, <2>2, <2>3 DEF Made, Left, InHand, Making
  <2>5. \A d \in thread[Maintainer].ids : d \in Docs => ~Made(d)
    <3>1. CASE Making(Maintainer)
      BY <1>2, <2>1, <3>1 DEF InOrder, Made, Left, InHand
    <3>2. CASE ~Making(Maintainer)
      BY <1>2, <1>5, <2>1, <3>2 DEF InOrder, Made
    <3> QED
      BY <3>1, <3>2
  <2>6. UNCHANGED fts
    <3>1. fts' = [d \in Docs |-> IF d \in thread[Maintainer].ids THEN 0 ELSE fts[d]]
      BY <1>10 DEF Remove
    <3>2. \A d \in Docs : d \in thread[Maintainer].ids => fts[d] = 0
      BY <2>5 DEF MadeSoFar
    <3> QED
      BY <3>1, <3>2 DEF Typed
  <2>7. \A d \in Docs : ~(InHand(d)' /\ thread'[Maintainer].at \in {"commit", "state"})
                        /\ ~(InHand(d) /\ thread[Maintainer].at \in {"commit", "state"})
    BY <2>1, <2>2 DEF InHand, Making
  <2>8. \A d \in Docs : /\ fts[d] = (IF Made(d) THEN 1 ELSE 0)
                        /\ disk[d] = (IF Made(d) THEN 1 ELSE 0)
                        /\ proj[d] = "current" <=> Made(d)
    BY <2>7 DEF MadeSoFar
  <2>9. \A d \in Docs : InHand(d) => Searchable(d) /\ d \notin job.todo
    BY DEF MadeSoFar
  <2> QED
    BY <1>2, <1>5, <2>1, <2>3, <2>4, <2>6, <2>7, <2>8, <2>9 DEF MadeSoFar
<1>11. CASE Insert(Maintainer)
  <2>1. /\ thread[Maintainer].at = "insert" /\ UNCHANGED <<disk, proj>> /\ InHand(w) /\ Left(w)
        /\ fts' = [fts EXCEPT ![w] = @ + 1]
    BY <1>11 DEF Insert, At, InHand, Making, Left
  <2>2. thread'[Maintainer] = [at |-> "commit", doc |-> w, ids |-> thread[Maintainer].ids,
                               mark |-> "current"]
    BY <1>4, <1>11 DEF Insert
  <2>3. \A d \in Docs : (InHand(d)' <=> d = w) /\ (InHand(d) <=> d = w)
    BY <2>1, <2>2 DEF InHand, Making
  <2>4. Searchable(w) /\ w \notin job.todo
    BY <1>3, <2>1 DEF MadeSoFar
  <2>5. Made(w)' /\ ~Made(w) /\ \A d \in Docs : d # w => (Made(d)' <=> Made(d))
    BY <1>2, <1>3, <1>5, <2>1, <2>2, <2>3, <2>4 DEF Made, Left
  <2>6. fts'[w] = 1 /\ \A d \in Docs : d # w => fts'[d] = fts[d]
    BY <1>3, <2>1, <2>5 DEF MadeSoFar, Typed
  <2>7. \A d \in Docs : /\ fts[d] = (IF Made(d) THEN 1 ELSE 0)
                        /\ disk[d] = (IF Made(d) THEN 1 ELSE 0)
                        /\ proj[d] = "current" <=> Made(d)
    BY <2>1 DEF MadeSoFar
  <2>8. ASSUME NEW d \in Docs
        PROVE  /\ InHand(d)' => Searchable(d)' /\ d \notin job'.todo
               /\ fts'[d] = (IF Made(d)' THEN 1 ELSE 0)
               /\ disk'[d] = (IF Made(d)' /\ ~(InHand(d)' /\ thread'[Maintainer].at = "commit")
                              THEN 1 ELSE 0)
               /\ proj'[d] = "current" <=>
                    Made(d)' /\ ~(InHand(d)' /\ thread'[Maintainer].at \in {"commit", "state"})
    BY <1>2, <1>5, <2>1, <2>2, <2>3, <2>4, <2>5, <2>6, <2>7
  <2> QED
    BY <1>5, <2>8 DEF MadeSoFar
<1>12. CASE Commit(Maintainer)
  <2>1. thread[Maintainer].at = "commit" /\ UNCHANGED <<fts, proj>> /\ disk' = fts
    BY <1>12 DEF Commit, At
  <2>2. thread'[Maintainer] = [at |-> "state", doc |-> w, ids |-> thread[Maintainer].ids,
                               mark |-> thread[Maintainer].mark]
    BY <1>4, <1>12 DEF Commit
  <2>3. \A d \in Docs : InHand(d)' <=> InHand(d)
    BY <2>1, <2>2 DEF InHand, Making
  <2>4. \A d \in Docs : Made(d)' <=> Made(d)
    BY <1>2, <1>5, <2>1, <2>2, <2>3 DEF Made, Left
  <2>5. \A d \in Docs : /\ InHand(d) => Searchable(d) /\ d \notin job.todo
                        /\ fts[d] = (IF Made(d) THEN 1 ELSE 0)
                        /\ proj[d] = "current" <=> Made(d) /\ ~InHand(d)
    BY <2>1 DEF MadeSoFar
  <2>6. ASSUME NEW d \in Docs
        PROVE  /\ InHand(d)' => Searchable(d)' /\ d \notin job'.todo
               /\ fts'[d] = (IF Made(d)' THEN 1 ELSE 0)
               /\ disk'[d] = (IF Made(d)' /\ ~(InHand(d)' /\ thread'[Maintainer].at = "commit")
                              THEN 1 ELSE 0)
               /\ proj'[d] = "current" <=>
                    Made(d)' /\ ~(InHand(d)' /\ thread'[Maintainer].at \in {"commit", "state"})
    BY <1>2, <1>5, <2>1, <2>2, <2>3, <2>4, <2>5
  <2> QED
    BY <1>5, <2>6 DEF MadeSoFar
<1>13. CASE SetState(Maintainer)
  <2>1. /\ thread[Maintainer].at = "state" /\ UNCHANGED <<fts, disk>>
        /\ proj' = [d \in Docs |-> IF d \in thread[Maintainer].ids THEN thread[Maintainer].mark
                                   ELSE proj[d]]
    BY <1>13 DEF SetState, At
  <2>2. \A d \in Docs : /\ InHand(d) => Searchable(d) /\ d \notin job.todo
                        /\ fts[d] = (IF Made(d) THEN 1 ELSE 0)
                        /\ disk[d] = (IF Made(d) THEN 1 ELSE 0)
                        /\ proj[d] = "current" <=> Made(d) /\ ~InHand(d)
    BY <2>1 DEF MadeSoFar
  <2>3. thread'[Maintainer].at \notin {"commit", "state", "latest", "tombstone", "remove", "insert"}
    <3>1. CASE thread[Maintainer].mark = "current"
      <4>1. thread'[Maintainer] = [at |-> "older", doc |-> w, ids |-> {}, mark |-> "none"]
        BY <1>4, <1>13, <3>1 DEF SetState
      <4> QED
        BY <4>1
    <3>2. CASE thread[Maintainer].mark # "current"
      BY <1>13, <1>7, <3>2 DEF SetState
    <3> QED
      BY <3>1, <3>2
  <2>4. \A d \in Docs : InHand(d)' => InHand(d)
    <3>1. CASE thread[Maintainer].mark = "current"
      <4>1. thread'[Maintainer] = [at |-> "older", doc |-> w, ids |-> {}, mark |-> "none"]
        BY <1>4, <1>13, <3>1 DEF SetState
      <4> QED
        BY <2>1, <3>1, <4>1 DEF InHand, Making
    <3>2. CASE thread[Maintainer].mark # "current"
      BY <1>3, <1>13, <3>2 DEF SetState, Return, Idle, InHand, Making, Typed
    <3> QED
      BY <3>1, <3>2
  <2>5. \A d \in Docs : Made(d)' <=> Made(d)
    BY <1>2, <1>5, <2>1, <2>3 DEF Made, Left
  <2>6. \A d \in Docs : proj'[d] = "current" <=> Made(d)
    <3>1. CASE Making(Maintainer)
      <4>1. thread[Maintainer].ids = {w} /\ thread[Maintainer].mark = "current" /\ InHand(w)
        BY <1>2, <2>1, <3>1 DEF InOrder, InHand
      <4>2. Made(w) /\ \A d \in Docs : d # w => ~InHand(d)
        BY <1>3, <2>1, <2>2, <4>1 DEF Made, Left, InHand
      <4> QED
        BY <2>1, <2>2, <4>1, <4>2
    <3>2. CASE ~Making(Maintainer)
      <4>1. \A d \in thread[Maintainer].ids : d \in Docs => ~Made(d)
        BY <1>2, <1>5, <2>1, <3>2 DEF InOrder, Made
      <4>2. thread[Maintainer].mark # "current" /\ \A d \in Docs : ~InHand(d)
        BY <2>1, <3>2 DEF Making, InHand
      <4> QED
        BY <2>1, <2>2, <4>1, <4>2
    <3> QED
      BY <3>1, <3>2
  <2>7. ASSUME NEW d \in Docs
        PROVE  /\ InHand(d)' => Searchable(d)' /\ d \notin job'.todo
               /\ fts'[d] = (IF Made(d)' THEN 1 ELSE 0)
               /\ disk'[d] = (IF Made(d)' /\ ~(InHand(d)' /\ thread'[Maintainer].at = "commit")
                              THEN 1 ELSE 0)
               /\ proj'[d] = "current" <=>
                    Made(d)' /\ ~(InHand(d)' /\ thread'[Maintainer].at \in {"commit", "state"})
    BY <1>2, <1>5, <2>1, <2>2, <2>3, <2>4, <2>5, <2>6
  <2> QED
    BY <1>5, <2>7 DEF MadeSoFar
<1>14. CASE ReadOlder(Maintainer) \/ RetireSubject(Maintainer)
  <2>1. thread[Maintainer].at \in {"older", "retire"} /\ UNCHANGED <<fts, disk, proj>>
    BY <1>14 DEF ReadOlder, RetireSubject, At, index
  <2>2. \/ thread'[Maintainer].at = "idle"
        \/ thread'[Maintainer].at = "remove" /\ thread'[Maintainer].mark = "stale"
    <3>1. Return(Maintainer) \/ \E ids : Go(Maintainer, "remove", ids, "stale")
      BY <1>14 DEF ReadOlder, RetireSubject
    <3>2. CASE Return(Maintainer)
      BY <1>7, <3>2
    <3>3. ASSUME NEW ids, Go(Maintainer, "remove", ids, "stale")
          PROVE  thread'[Maintainer].at = "remove" /\ thread'[Maintainer].mark = "stale"
      <4>1. thread'[Maintainer] = [at |-> "remove", doc |-> w, ids |-> ids, mark |-> "stale"]
        BY <1>4, <3>3
      <4> QED
        BY <4>1
    <3> QED
      BY <3>1, <3>2, <3>3
  <2>3. \A d \in Docs : ~InHand(d)'
    BY <2>2 DEF InHand, Making
  <2>4. \A d \in Docs : Made(d)' <=> Made(d)
    BY <1>2, <1>5, <2>1, <2>3 DEF Made, Left
  <2> QED
    BY <1>6, <2>1, <2>2, <2>3, <2>4
<1> QED
  BY <1>2, <1>8, <1>9, <1>10, <1>11, <1>12, <1>13, <1>14 DEF CallStep

\* What no step touches stays as it was made.
LEMMA RemadeKept ==
  ASSUME Typed, Remade, UNCHANGED <<versions, chunked, forgotten, fts, disk, proj, job>>,
         thread'[Maintainer] = thread[Maintainer],
         \A c \in Clients : thread[c].at \notin CallSteps \cup {"promote", "bury"} =>
           thread'[c].at \notin CallSteps \cup {"promote", "bury"}
  PROVE  Remade'
<1>1. Undisturbed(RebuildSteps)' => Alone'
  <2>1. InOrder(Maintainer)' <=> InOrder(Maintainer)
    BY DEF InOrder, Making, IsLatest, Latest, Gone
  <2> QED
    BY <2>1 DEF Remade, Undisturbed, Alone
<1>2. \A d \in Docs : /\ InHand(d)' <=> InHand(d)
                      /\ Left(d)' <=> Left(d)
                      /\ Searchable(d)' <=> Searchable(d)
                      /\ Made(d)' <=> Made(d)
                      /\ IsLatest(d)' <=> IsLatest(d)
  BY DEF InHand, Making, Left, Made, Searchable, IsLatest, Latest
<1>3. MadeSoFar => MadeSoFar'
  <2>1. job.todo \subseteq Docs
    BY DEF Typed, JobType
  <2> QED
    BY <1>2, <2>1 DEF MadeSoFar
<1> QED
  BY <1>1, <1>3 DEF Remade, Undisturbed, NoneCurrent, Empty

\* A rebuild that nobody disturbs goes on, step by step.
LEMMA RemadeMaintain ==
  ASSUME Typed, Posted, Remade, Maintain
  PROVE  Remade'
<1>1. thread[Maintainer].at = "idle"
  BY DEF Maintain, Register, RecordDrop, Sweep, Process, Postpone, Complete, RebuildDocument,
         EndScan, MarkPending, Create, Snapshot, EndRebuild, LookAtFailed, ClearFailed, MayMaintain,
         MayTake, At
<1>2. \A c \in Clients : thread'[c] = thread[c]
  BY DEF Maintain, Register, RecordDrop, Sweep, Process, Postpone, Complete, RebuildDocument,
         EndScan, MarkPending, Create, Snapshot, EndRebuild, LookAtFailed, ClearFailed, Call, Typed
<1>3. CASE \/ \E s \in Sources : Register(s) \/ RecordDrop(s)
           \/ Sweep
           \/ \E i \in Items : Process(i) \/ Postpone(i)
           \/ Complete \/ EndScan \/ EndRebuild \/ LookAtFailed \/ ClearFailed
  <2>1. (\E s \in Sources : Register(s) \/ RecordDrop(s)) => job'.step = "register"
    BY DEF Register, RecordDrop, MayMaintain, Typed, JobType
  <2>2. Sweep => job'.step = "drain"
    BY DEF Sweep, Job
  <2>3. EndScan \/ EndRebuild \/ LookAtFailed \/ ClearFailed =>
          job'.step \in {"idle", "look", "settle"}
    BY DEF EndScan, EndRebuild, LookAtFailed, ClearFailed, NoJob, Job
  <2>4. (\E i \in Items : Process(i) \/ Postpone(i)) \/ Complete => job'.step = "drain"
    BY DEF Process, Postpone, Complete, MayMaintain, MayTake, Typed, JobType
  <2> QED
    BY <1>3, <2>1, <2>2, <2>3, <2>4 DEF Remade, Undisturbed, RebuildSteps
<1>4. CASE MarkPending
  <2>1. job' = Job("create", {}) /\ thread' = thread /\ job.step = "pending"
    BY <1>4 DEF MarkPending, MayMaintain
  <2>2. job'.step = "create" /\ job'.quiet = job.quiet
    BY <2>1 DEF Job
  <2>3. NoneCurrent'
    BY <1>4 DEF MarkPending, NoneCurrent
  <2> QED
    BY <1>1, <2>1, <2>2, <2>3 DEF Remade, Undisturbed, RebuildSteps, Alone
<1>5. CASE Create
  <2>1. /\ job' = Job(IF job.step = "first" THEN "pending" ELSE "snapshot", {}) /\ thread' = thread
        /\ job.step \in {"first", "create"} /\ proj' = proj /\ fts' = Empty /\ disk' = Empty
    BY <1>5 DEF Create, Created, MayMaintain
  <2>2. /\ job'.step = (IF job.step = "first" THEN "pending" ELSE "snapshot")
        /\ job'.quiet = job.quiet
    BY <2>1 DEF Job
  <2>3. Empty' = Empty
    BY DEF Empty
  <2> QED
    BY <1>1, <2>1, <2>2, <2>3 DEF Remade, Undisturbed, RebuildSteps, Alone, NoneCurrent
<1>6. CASE Snapshot
  <2>1. /\ job' = Job("rebuild", {Latest(s) : s \in {r \in Subjects : versions[r] > 0}})
        /\ thread' = thread /\ job.step = "snapshot"
        /\ UNCHANGED <<versions, chunked, forgotten, fts, disk, proj>>
    BY <1>6 DEF Snapshot, MayMaintain, record, index
  <2>2. /\ job'.step = "rebuild" /\ job'.quiet = job.quiet
        /\ job'.todo = {Latest(s) : s \in {r \in Subjects : versions[r] > 0}}
    BY <2>1 DEF Job
  <2>3. ASSUME job.quiet
        PROVE  MadeSoFar'
    <3>1. fts = Empty /\ disk = Empty /\ NoneCurrent
      BY <2>1, <2>3 DEF Remade, Undisturbed
    <3>2. \A d \in Docs : ~InHand(d)'
      BY <1>1, <2>1 DEF InHand, Making
    <3>3. \A d \in Docs : ~Made(d)'
      <4>1. ASSUME NEW d \in Docs, Searchable(d)'
            PROVE  d \in job'.todo
        <5>1. d = Latest(d[1]) /\ d[1] \in Subjects /\ versions[d[1]] > 0
          BY <2>1, <4>1, LatestMeans DEF Searchable, IsLatest, Latest
        <5> QED
          BY <2>2, <5>1
      <4> QED
        BY <4>1 DEF Made, Left
    <3>4. \A d \in job'.todo : IsLatest(d)'
      BY <2>1, <2>2 DEF IsLatest, Latest
    <3>5. \A d \in Docs : fts'[d] = 0 /\ disk'[d] = 0 /\ proj'[d] # "current"
      BY <2>1, <3>1 DEF Empty, NoneCurrent
    <3> QED
      BY <3>2, <3>3, <3>4, <3>5 DEF MadeSoFar
  <2> QED
    BY <1>1, <2>1, <2>2, <2>3 DEF Remade, Undisturbed, RebuildSteps, Alone
<1>7. ASSUME NEW d \in Docs, RebuildDocument(d)
      PROVE  Remade'
  <2>1. /\ job' = [job EXCEPT !.todo = @ \ {d}] /\ job.step = "rebuild" /\ d \in job.todo
        /\ UNCHANGED <<versions, chunked, forgotten, fts, disk, proj>>
    BY <1>7 DEF RebuildDocument, MayMaintain, record, index
  <2>2. job'.step = "rebuild" /\ job'.quiet = job.quiet /\ job'.todo = job.todo \ {d}
    BY <2>1 DEF Typed, JobType
  <2>3. \A e \in Docs : (Searchable(e)' <=> Searchable(e)) /\ (IsLatest(e)' <=> IsLatest(e))
    BY <2>1 DEF Searchable, IsLatest, Latest
  <2>4. job.todo \subseteq Docs /\ \A e \in Docs : ~InHand(e)
    BY <1>1 DEF Typed, JobType, InHand, Making
  <2>5. CASE ~Searchable(d) \/ ~job.quiet
    <3>1. ASSUME job.quiet
          PROVE  IsLatest(d) /\ MadeSoFar
      BY <2>1, <3>1 DEF Remade, Undisturbed, MadeSoFar
    <3>2. CASE ~job.quiet
      BY <2>2, <3>2 DEF Remade, Undisturbed
    <3>3. CASE job.quiet
      <4>1. UNCHANGED thread
        BY <1>7, <2>5, <3>1, <3>3 DEF RebuildDocument, Searchable
      <4>2. \A e \in Docs : ~InHand(e)'
        BY <1>1, <4>1 DEF InHand, Making
      <4>3. \A e \in Docs : Made(e)' <=> Made(e)
        BY <2>2, <2>3, <2>4, <2>5, <3>3, <4>2 DEF Made, Left
      <4>4. MadeSoFar'
        BY <2>1, <2>2, <2>3, <2>4, <3>1, <3>3, <4>2, <4>3 DEF MadeSoFar
      <4> QED
        BY <1>1, <2>1, <2>2, <4>1, <4>4 DEF Remade, Undisturbed, RebuildSteps, Alone
    <3> QED
      BY <3>2, <3>3
  <2>6. CASE Searchable(d) /\ job.quiet
    <3>1. Call(Maintainer, "latest", d) /\ MadeSoFar /\ Alone
      BY <1>7, <2>1, <2>6 DEF RebuildDocument, Searchable, Remade, Undisturbed, RebuildSteps
    <3>2. thread'[Maintainer] = [at |-> "latest", doc |-> d, ids |-> {}, mark |-> "none"]
      BY <3>1 DEF Call, Calling, Typed
    <3>3. \A e \in Docs : InHand(e)' <=> e = d
      BY <3>2 DEF InHand, Making
    <3>4. \A e \in Docs : Made(e)' <=> Made(e)
      BY <2>1, <2>2, <2>3, <2>4, <3>2, <3>3 DEF Made, Left
    <3>5. MadeSoFar'
      BY <2>1, <2>2, <2>3, <2>4, <2>6, <3>1, <3>2, <3>3, <3>4 DEF MadeSoFar
    <3>6. Alone'
      <4>1. InOrder(Maintainer)'
        BY <2>1, <2>6, <3>2 DEF InOrder, Making, Searchable
      <4> QED
        BY <1>2, <3>1, <4>1 DEF Alone
    <3> QED
      BY <2>2, <3>5, <3>6 DEF Remade, Undisturbed
  <2> QED
    BY <2>5, <2>6
<1> QED
  BY <1>3, <1>4, <1>5, <1>6, <1>7 DEF Maintain

LEMMA RemadeStep ==
  ASSUME Typed, Posted, Remade, [Next]_vars
  PROVE  Remade'
<1>0. Maintainer \in Threads /\ Maintainer \notin Clients /\ Clients \subseteq Threads
  OBVIOUS
<1>1. CASE ThreadStep(Maintainer)
  <2>1. /\ thread[Maintainer].at \in CallSteps
        /\ UNCHANGED <<versions, chunked, forgotten, job>>
        /\ \A c \in Clients : thread'[c] = thread[c]
    BY <1>1 DEF ThreadStep, CallStep, ReadLatest, ReadTombstone, Remove, Insert, Commit, SetState,
                ReadOlder, RetireSubject, Go, Return, At, CallSteps, record, Typed
  <2>2. thread[Maintainer].at # "idle"
    BY <2>1 DEF CallSteps
  <2>3. job.step \in {"register", "drain", "rebuild"}
    BY <2>2 DEF Posted
  <2>4. CASE Undisturbed({"rebuild"})
    <3>1. Alone /\ MadeSoFar
      BY <2>4 DEF Remade, Undisturbed, RebuildSteps
    <3>2. MadeSoFar'
      BY <1>1, <3>1, MadeCall
    <3>3. InOrder(Maintainer)'
      BY <1>0, <1>1, <2>2, <3>1, InOrderCall DEF Alone, ThreadStep
    <3> QED
      BY <2>1, <2>4, <3>1, <3>2, <3>3 DEF Remade, Undisturbed, Alone
  <2>5. CASE ~Undisturbed({"rebuild"})
    BY <2>1, <2>3, <2>5 DEF Remade, Undisturbed, RebuildSteps
  <2> QED
    BY <2>4, <2>5
<1>2. ASSUME NEW c \in Clients, ThreadStep(c)
      PROVE  Remade'
  <2>1. thread[c].at \in CallSteps /\ UNCHANGED job
    BY <1>2 DEF ThreadStep, CallStep, ReadLatest, ReadTombstone, Remove, Insert, Commit, SetState,
                ReadOlder, RetireSubject, At, CallSteps
  <2> QED
    BY <2>1 DEF Remade, Undisturbed, RebuildSteps, Alone
<1>3. ASSUME NEW t \in Threads, Fault(t) PROVE Remade'
  <2>1. \/ job' = NoJob \/ job' = [job EXCEPT !.quiet = FALSE]
        \/ job' = [job EXCEPT !.item = NoItem, !.quiet = FALSE]
    BY <1>3 DEF Fault, Disturb
  <2>2. ~job'.quiet
    <3>1. job \in JobType
      BY DEF Typed
    <3>2. job' = NoJob => ~job'.quiet
      BY DEF NoJob
    <3> QED
      BY <2>1, <3>1, <3>2 DEF JobType
  <2> QED
    BY <2>2 DEF Remade, Undisturbed
<1>4. ASSUME NEW c \in Clients, Request(c) PROVE Remade'
  <2>1. CASE \/ \E s \in Texts : Store(c, s)
             \/ \E s \in Relayed : CheckConfirm(c, s)
             \/ \E s \in Subjects : CheckForget(c, s)
    <3>1. ~job'.quiet
      BY <2>1 DEF Store, CheckConfirm, CheckForget, Disturb, Typed, JobType
    <3> QED
      BY <3>1 DEF Remade, Undisturbed
  <2>2. CASE Promote(c) \/ Bury(c)
    <3>1. thread[c].at \in {"promote", "bury"} /\ UNCHANGED job
      BY <2>2 DEF Promote, Bury, At
    <3> QED
      BY <3>1 DEF Remade, Undisturbed, RebuildSteps, Alone
  <2>3. CASE ReadHits(c) \/ FilterHits(c) \/ Answer(c)
    <3>1. UNCHANGED <<versions, chunked, forgotten, fts, disk, proj, job>>
      BY <2>3 DEF ReadHits, FilterHits, Answer, record, index
    <3>2. /\ thread'[c].at \in {"hits", "answer", "idle"}
          /\ \A u \in Threads \ {c} : thread'[u] = thread[u]
      BY <1>0, <2>3 DEF ReadHits, FilterHits, Answer, Call, Calling, Return, Idle, Typed
    <3> QED
      BY <1>0, <3>1, <3>2, RemadeKept DEF CallSteps
  <2> QED
    BY <1>4, <2>1, <2>2, <2>3 DEF Request
<1>5. CASE StartReindex
  <2>1. job'.step = "pending" /\ job'.quiet = Resting /\ thread' = thread
    BY <1>5 DEF StartReindex, NoJob
  <2>2. Resting => \A t \in Threads : thread'[t].at = "idle"
    BY <2>1 DEF Resting, At
  <2> QED
    BY <1>0, <2>1, <2>2 DEF Remade, Undisturbed, Alone, CallSteps
<1>6. CASE Open
  <2>1. /\ service = "down" /\ thread' = thread
        /\ job'.step \in {job.step, "first"}
    BY <1>6 DEF Open, NoJob
  <2>2. job.step = "idle" /\ \A t \in Threads : thread[t].at = "idle"
    BY <2>1 DEF Posted
  <2>3. job'.step \in {"idle", "first"} /\ Alone'
    BY <1>0, <2>1, <2>2 DEF Alone, CallSteps
  <2> QED
    BY <2>3 DEF Remade, Undisturbed, RebuildSteps
<1>7. CASE StartScan \/ Crash \/ LoseIndex
  <2>1. LoseIndex => job' = job /\ job.step = "idle"
    BY DEF LoseIndex, Posted
  <2>2. StartScan \/ Crash => job'.step \in {"register", "idle"}
    <3>1. StartScan => job'.step = "register"
      BY DEF StartScan, NoJob
    <3>2. Crash => job'.step = "idle"
      BY DEF Crash, NoJob
    <3> QED
      BY <3>1, <3>2
  <2>3. job'.step \in {"register", "idle"}
    BY <1>7, <2>1, <2>2
  <2> QED
    BY <2>3 DEF Remade, Undisturbed, RebuildSteps
<1>8. CASE Maintain
  BY <1>8, RemadeMaintain
<1>9. CASE UNCHANGED vars
  <2>1. UNCHANGED <<versions, chunked, forgotten, fts, disk, proj, thread, job>>
    BY <1>9 DEF vars, record, index
  <2> QED
    BY <2>1, RemadeKept
<1> QED
  BY <1>1, <1>2, <1>3, <1>4, <1>5, <1>6, <1>7, <1>8, <1>9 DEF Next

\* Whatever the projection held, whatever crashed, was lost or raised before, a
\* rebuild that ran with no other writer and no exception leaves exactly the latest
\* live documents in the index, once each, and the record says so: it "can be deleted
\* and rebuilt from stored chunks at any time" (projection.py:3-5).
THEOREM RebuildsAreExact == Spec => RebuildIsExact
<1>1. Init => Typed /\ Posted /\ Remade
  <2>1. Init => Posted /\ Remade
    BY DEF Init, InitProjection, Idle, NoJob, Posted, Remade, Undisturbed
  <2> QED
    BY <2>1, TypedInit
<1>2. Typed /\ Posted /\ Remade /\ [Next]_vars => (Typed /\ Posted /\ Remade)'
  BY TypedStep, PostedStep, RemadeStep
<1>3. Typed /\ Remade /\ [Next]_vars => [EndRebuild /\ job.quiet => Exact']_vars
  <2> SUFFICES ASSUME Typed, Remade, EndRebuild, job.quiet
               PROVE  Exact'
    OBVIOUS
  <2>1. /\ job.step = "rebuild" /\ job.todo = {} /\ thread[Maintainer].at = "idle"
        /\ UNCHANGED <<versions, chunked, forgotten, fts, disk>>
        /\ proj' = [d \in Docs |-> IF proj[d] = "pending" THEN "stale" ELSE proj[d]]
    BY DEF EndRebuild, MayMaintain, At, record
  <2>2. MadeSoFar
    BY <2>1 DEF Remade, Undisturbed
  <2>3. \A d \in Docs : ~InHand(d) /\ (Made(d) <=> Searchable(d))
    BY <2>1 DEF InHand, Making, Made, Left
  <2>4. \A d \in Docs : /\ fts[d] = (IF Searchable(d) THEN 1 ELSE 0)
                        /\ disk[d] = fts[d]
                        /\ proj[d] = "current" <=> Searchable(d)
    BY <2>2, <2>3 DEF MadeSoFar
  <2>5. \A d \in Docs : Searchable(d)' <=> Searchable(d)
    BY <2>1 DEF Searchable, IsLatest, Latest
  <2>6. \A d \in Docs : (proj'[d] = "current" <=> proj[d] = "current") /\ proj'[d] # "pending"
    BY <2>1
  <2> QED
    BY <2>1, <2>4, <2>5, <2>6 DEF Exact
<1> QED
  BY <1>1, <1>2, <1>3, PTL DEF Spec, RebuildIsExact

-----------------------------------------------------------------------------

\* What has chunks, and what has a row, are versions on record.
OnRecord ==
  /\ \A d \in chunked : d[2] <= versions[d[1]]
  /\ \A i \in Rowed : i[2][2] <= versions[i[2][1]]

\* So is the row that a drain has taken.
Recorded ==
  /\ OnRecord
  /\ job.item # NoItem => job.item[2][2] <= versions[job.item[2][1]]

LEMMA RecordedStep ==
  ASSUME Typed, Recorded, [Next]_vars
  PROVE  Recorded'
<1>0. /\ chunked \subseteq Docs /\ \A i \in Rowed : i[2] \in Docs
      /\ \A d \in Docs : d[1] \in Subjects /\ d[2] \in Nat
  BY RowedTyped, ItemIs DEF Typed, Docs
<1> OnRecord
  BY DEF Recorded
<1>1. ASSUME UNCHANGED <<versions, chunked>>, Rowed' \subseteq Rowed
      PROVE  OnRecord'
  BY <1>1 DEF OnRecord
<1>2. ASSUME NEW s \in Subjects, versions' = [versions EXCEPT ![s] = @ + 1],
             chunked' \subseteq chunked \cup {<<s, versions[s] + 1>>},
             \A i \in Rowed' : i \in Rowed \/ i[2] = <<s, versions[s] + 1>>
      PROVE  OnRecord'
  <2>1. /\ versions'[s] = versions[s] + 1
        /\ \A r \in Subjects :
             versions[r] \in Nat /\ versions'[r] \in Nat /\ versions[r] <= versions'[r]
    BY <1>2 DEF Typed
  <2>2. \A d \in Docs : d[2] <= versions[d[1]] => d[2] <= versions'[d[1]]
    <3>1. ASSUME NEW d \in Docs, d[2] <= versions[d[1]]
          PROVE  d[2] <= versions'[d[1]]
      <4>1. /\ d[1] \in Subjects /\ d[2] \in Nat /\ versions[d[1]] \in Nat /\ versions'[d[1]] \in Nat
            /\ versions[d[1]] <= versions'[d[1]]
        BY <1>0, <2>1
      <4> QED
        BY <3>1, <4>1
    <3> QED
      BY <3>1
  <2>3. ASSUME NEW d, d = <<s, versions[s] + 1>>
        PROVE  d[2] <= versions'[d[1]]
    BY <2>1, <2>3
  <2>4. \A d \in chunked' : d[2] <= versions'[d[1]]
    <3> TAKE d \in chunked'
    <3>1. d \in chunked \/ d = <<s, versions[s] + 1>>
      BY <1>2
    <3> QED
      BY <1>0, <2>2, <2>3, <3>1 DEF OnRecord
  <2>5. \A i \in Rowed' : i[2][2] <= versions'[i[2][1]]
    <3> TAKE i \in Rowed'
    <3>1. i \in Rowed \/ i[2] = <<s, versions[s] + 1>>
      BY <1>2
    <3>2. CASE i \in Rowed
      BY <1>0, <2>2, <3>2 DEF OnRecord
    <3>3. CASE i[2] = <<s, versions[s] + 1>>
      BY <2>3, <3>3
    <3> QED
      BY <3>1, <3>2, <3>3
  <2> QED
    BY <2>4, <2>5 DEF OnRecord
<1>3. ASSUME NEW t \in Threads, ThreadStep(t)
      PROVE  OnRecord'
  <2>1. UNCHANGED <<versions, chunked, work>>
    BY <1>3 DEF ThreadStep, CallStep, ReadLatest, ReadTombstone, Remove, Insert, Commit, SetState,
                ReadOlder, RetireSubject, record
  <2> QED
    BY <1>1, <2>1 DEF Rowed
<1>4. ASSUME NEW t \in Threads, Fault(t)
      PROVE  OnRecord'
  <2>1. UNCHANGED <<versions, chunked>>
    BY <1>4 DEF Fault, record
  <2>2. CASE UNCHANGED work
    BY <1>1, <2>1, <2>2 DEF Rowed
  <2>3. CASE Fail(job.item) /\ t = Maintainer /\ job.step = "drain"
    <3>1. Rowed' \subseteq Rowed \cup {job.item}
      BY <2>3 DEF Fail, Rowed, Typed, WorkType
    <3>2. job.item \in Items
      BY <1>4, <2>3 DEF Typed, Taken, Fault
    <3>3. job.item[2][2] <= versions[job.item[2][1]]
      BY <3>2 DEF Recorded, Items, NoItem
    <3> QED
      BY <2>1, <3>1, <3>3 DEF OnRecord
  <2> QED
    BY <1>4, <2>2, <2>3 DEF Fault
<1>5. ASSUME NEW c \in Clients, Request(c)
      PROVE  OnRecord'
  <2>1. Rowed' = Rowed
    <3>1. work' = work
      BY <1>5 DEF Request, Store, CheckConfirm, CheckForget, Promote, Bury, ReadHits, FilterHits,
                  Answer
    <3> QED
      BY <3>1 DEF Rowed
  <2>2. ASSUME NEW s \in Texts, Store(c, s)
        PROVE  OnRecord'
    <3>1. s \in Subjects /\ versions[s] = 0 /\ versions' = [versions EXCEPT ![s] = @ + 1]
      BY <2>2 DEF Store, Texts, Typed
    <3>2. chunked' \subseteq chunked \cup {<<s, versions[s] + 1>>}
      BY <2>2, <3>1 DEF Store
    <3> QED
      BY <1>2, <2>1, <3>1, <3>2
  <2>3. CASE Promote(c)
    <3>1. thread[c].doc[1] \in Subjects
      BY <1>0, <2>3 DEF Promote, At, Typed, DocInHand
    <3> QED
      BY <1>2, <2>1, <2>3, <3>1 DEF Promote
  <2>4. CASE ~Promote(c) /\ ~(\E s \in Texts : Store(c, s))
    <3>1. UNCHANGED <<versions, chunked>>
      BY <1>5, <2>4 DEF Request, CheckConfirm, CheckForget, Bury, ReadHits, FilterHits, Answer,
                        record
    <3> QED
      BY <1>1, <2>1, <3>1
  <2> QED
    BY <2>2, <2>3, <2>4
<1>6. ASSUME NEW s \in Sources, Register(s)
      PROVE  OnRecord'
  <2>1. s \in Subjects /\ versions' = [versions EXCEPT ![s] = @ + 1] /\ chunked' = chunked
    BY <1>6 DEF Register
  <2>2. \A i \in Rowed' : i \in Rowed \/ i[2] = <<s, versions[s] + 1>>
    BY <1>6 DEF Register, Rowed, Typed, WorkType
  <2> QED
    BY <1>2, <2>1, <2>2
<1>7. ASSUME NEW s \in Sources, RecordDrop(s)
      PROVE  OnRecord'
  <2>1. /\ s \in Subjects /\ versions[s] = 0 /\ versions' = [versions EXCEPT ![s] = @ + 1]
        /\ chunked' \subseteq chunked \cup {<<s, versions[s] + 1>>} /\ Rowed' = Rowed
    BY <1>7 DEF RecordDrop, Rowed
  <2> QED
    BY <1>2, <2>1
<1>8. ASSUME Sweep PROVE OnRecord'
  <2>1. UNCHANGED <<versions, chunked>>
    BY <1>8 DEF Sweep, record
  <2>2. Rowed' \subseteq Rowed \cup Requeued
    BY <1>8 DEF Sweep, Rowed, Typed, WorkType
  <2>3. \A i \in Requeued : i[2][2] <= versions[i[2][1]]
    BY DEF Requeued, NeedingIndex, Searchable, OnRecord
  <2>4. \A i \in Rowed' : i[2][2] <= versions'[i[2][1]]
    BY <2>1, <2>2, <2>3 DEF OnRecord
  <2>5. \A d \in chunked' : d[2] <= versions'[d[1]]
    BY <2>1 DEF OnRecord
  <2> QED
    BY <2>1, <2>4, <2>5 DEF OnRecord
<1>9. ASSUME NEW i \in Items, Process(i)
      PROVE  OnRecord'
  <2>1. versions' = versions /\ chunked' = chunked \cup {i[2]} /\ i \in Rowed /\ Rowed' \subseteq Rowed
    BY <1>9 DEF Process, MayTake, Rowed, Typed, WorkType
  <2> QED
    BY <2>1 DEF OnRecord
<1>10. ASSUME \/ \E i \in Items : Postpone(i)
              \/ Complete \/ EndScan \/ MarkPending \/ Create \/ Snapshot \/ EndRebuild
              \/ LookAtFailed \/ ClearFailed \/ \E d \in Docs : RebuildDocument(d)
              \/ StartScan \/ StartReindex \/ Crash \/ LoseIndex \/ Open \/ UNCHANGED vars
       PROVE  OnRecord'
  <2>1. UNCHANGED <<versions, chunked>>
    BY <1>10 DEF Postpone, Complete, RebuildDocument, EndScan, MarkPending, Create, Snapshot,
                 EndRebuild, LookAtFailed, ClearFailed, StartScan, StartReindex, Crash, LoseIndex,
                 Open, vars, record
  <2>2. \/ work' = work \/ Complete \/ ClearFailed
        \/ \E i \in Items : i \in work.due /\ Fail(i)
    BY <1>10 DEF Postpone, MayTake, RebuildDocument, EndScan, MarkPending, Create, Snapshot,
                 EndRebuild, LookAtFailed, StartScan, StartReindex, Crash, LoseIndex, Open, vars
  <2>3. Rowed' \subseteq Rowed
    <3>1. Complete => Rowed' \subseteq Rowed
      BY DEF Complete, Rowed, Typed, WorkType
    <3>2. ClearFailed => Rowed' \subseteq Rowed
      BY DEF ClearFailed, Rowed, Typed, WorkType
    <3>3. ASSUME NEW i \in Items, i \in work.due, Fail(i)
          PROVE  Rowed' \subseteq Rowed
      BY <3>3, FailMoves DEF Rowed
    <3>4. work' = work => Rowed' = Rowed
      BY DEF Rowed
    <3> QED
      BY <2>2, <3>1, <3>2, <3>3, <3>4
  <2> QED
    BY <1>1, <2>1, <2>3
<1>11. OnRecord'
  BY <1>3, <1>4, <1>5, <1>6, <1>7, <1>8, <1>9, <1>10 DEF Next, Maintain
<1>12. \A s \in Subjects : versions[s] \in Nat /\ versions'[s] \in Nat /\ versions[s] <= versions'[s]
  <2>1. \/ versions' = versions
        \/ \E s \in Subjects : versions' = [versions EXCEPT ![s] = @ + 1]
    <3>1. \A c \in Clients : Promote(c) => thread[c].doc[1] \in Subjects
      BY <1>0 DEF Promote, At, Typed, DocInHand
    <3>2. \A s \in Subjects : versions[s] = 0 =>
            [versions EXCEPT ![s] = 1] = [versions EXCEPT ![s] = @ + 1]
      BY DEF Typed
    <3>3. ASSUME NEW c \in Clients, Request(c)
          PROVE  \/ versions' = versions
                 \/ \E s \in Subjects : versions' = [versions EXCEPT ![s] = @ + 1]
      BY <3>1, <3>2, <3>3 DEF Request, Store, CheckConfirm, CheckForget, Promote, Bury, ReadHits,
                              FilterHits, Answer, Texts, record
    <3>4. ASSUME Maintain
          PROVE  \/ versions' = versions
                 \/ \E s \in Subjects : versions' = [versions EXCEPT ![s] = @ + 1]
      BY <3>2, <3>4 DEF Maintain, Register, RecordDrop, Sweep, Process, Postpone, Complete,
                        RebuildDocument, EndScan, MarkPending, Create, Snapshot, EndRebuild,
                        LookAtFailed, ClearFailed, record
    <3>5. ASSUME NEW t \in Threads, ThreadStep(t) \/ Fault(t)
          PROVE  versions' = versions
      BY <3>5 DEF ThreadStep, CallStep, ReadLatest, ReadTombstone, Remove, Insert, Commit,
                  SetState, ReadOlder, RetireSubject, Fault, record
    <3>6. StartScan \/ StartReindex \/ Crash \/ LoseIndex \/ Open \/ UNCHANGED vars =>
            versions' = versions
      BY DEF StartScan, StartReindex, Crash, LoseIndex, Open, vars, record
    <3> QED
      BY <3>3, <3>4, <3>5, <3>6 DEF Next
  <2> QED
    BY <2>1 DEF Typed
<1>13. \/ job'.item \in {job.item, NoItem}
       \/ \E i \in Items : i \in Rowed /\ job'.item = i /\ versions' = versions
  <2>1. (\E i \in Items : Process(i)) =>
          \E i \in Items : i \in Rowed /\ job'.item = i /\ versions' = versions
    BY DEF Process, MayTake, Rowed, Typed, JobType
  <2>2. ASSUME ~(\E i \in Items : Process(i))
        PROVE  job'.item \in {job.item, NoItem}
    <3>1. ASSUME NEW c \in Clients, Request(c)
          PROVE  job'.item = job.item
      BY <3>1 DEF Request, Store, CheckConfirm, CheckForget, Promote, Bury, ReadHits,
                  FilterHits, Answer, Disturb, Typed, JobType
    <3>2. Maintain => job'.item \in {job.item, NoItem}
      <4>1. ASSUME NEW s \in Sources, Register(s) \/ RecordDrop(s)
            PROVE  job'.item = job.item
        BY <4>1 DEF Register, RecordDrop, Typed, JobType
      <4>2. (\E i \in Items : Postpone(i)) => job'.item = job.item
        BY DEF Postpone
      <4>3. ASSUME NEW d \in Docs, RebuildDocument(d)
            PROVE  job'.item = job.item
        BY <4>3 DEF RebuildDocument, Typed, JobType
      <4>4. Complete => job'.item = NoItem
        <5>1. job \in JobType
          BY DEF Typed
        <5> QED
          BY <5>1 DEF Complete, JobType
      <4>5. Sweep \/ MarkPending \/ Create \/ Snapshot => job'.item = NoItem
        <5>1. Sweep => job'.item = NoItem
          BY DEF Sweep, Job
        <5>2. MarkPending => job'.item = NoItem
          BY DEF MarkPending, Job
        <5>3. Create \/ Snapshot => job'.item = NoItem
          BY DEF Create, Snapshot, Job
        <5> QED
          BY <5>1, <5>2, <5>3
      <4>6. EndScan \/ EndRebuild \/ LookAtFailed \/ ClearFailed => job'.item = NoItem
        BY DEF EndScan, EndRebuild, LookAtFailed, ClearFailed, Job, NoJob
      <4> QED
        BY <2>2, <4>1, <4>2, <4>3, <4>4, <4>5, <4>6 DEF Maintain
    <3>3. ASSUME NEW t \in Threads, ThreadStep(t) \/ Fault(t)
          PROVE  job'.item \in {job.item, NoItem}
      <4>1. \/ job' \in {job, NoJob} \/ job' = [job EXCEPT !.quiet = FALSE]
            \/ job' = [job EXCEPT !.item = NoItem, !.quiet = FALSE]
        BY <3>3 DEF ThreadStep, Fault, Disturb
      <4>2. job' = NoJob => job'.item = NoItem
        BY DEF NoJob
      <4>3. job \in JobType
        BY DEF Typed
      <4> QED
        BY <4>1, <4>2, <4>3 DEF JobType
    <3>4. StartScan \/ StartReindex \/ Crash \/ LoseIndex \/ Open \/ UNCHANGED vars =>
            job'.item \in {job.item, NoItem}
      <4>1. StartScan \/ StartReindex \/ Crash => job'.item = NoItem
        <5>1. StartScan \/ StartReindex => job'.item = NoItem
          BY DEF StartScan, StartReindex, NoJob
        <5>2. Crash => job'.item = NoItem
          BY DEF Crash, NoJob
        <5> QED
          BY <5>1, <5>2
      <4>2. LoseIndex \/ UNCHANGED vars => job' = job
        BY DEF LoseIndex, vars
      <4>3. Open => job'.item \in {job.item, NoItem}
        BY DEF Open, NoJob
      <4> QED
        BY <4>1, <4>2, <4>3
    <3> QED
      BY <3>1, <3>2, <3>3, <3>4 DEF Next
  <2> QED
    BY <2>1, <2>2
<1>14. job'.item # NoItem => job'.item[2][2] <= versions'[job'.item[2][1]]
  <2>1. CASE job'.item = job.item /\ job.item # NoItem
    <3>1. job.item \in Items /\ job.item[2][2] <= versions[job.item[2][1]]
      BY <2>1 DEF Typed, JobType, Recorded
    <3>2. job.item[2] \in Docs
      BY <3>1, ItemIs
    <3>3. job.item[2][1] \in Subjects /\ job.item[2][2] \in Nat
      BY <1>0, <3>2
    <3> QED
      BY <1>12, <2>1, <3>1, <3>3
  <2>2. CASE \E i \in Items : i \in Rowed /\ job'.item = i /\ versions' = versions
    BY <2>2 DEF OnRecord
  <2> QED
    BY <1>13, <2>1, <2>2
<1> QED
  BY <1>11, <1>14 DEF Recorded

\* A new version makes no other document searchable.
LEMMA NewVersion ==
  ASSUME Typed, Recorded, NEW s \in Subjects, versions' = [versions EXCEPT ![s] = @ + 1],
         chunked' \subseteq chunked \cup {<<s, versions[s] + 1>>}, forgotten' = forgotten,
         NEW d \in Docs, d # <<s, versions[s] + 1>>, Searchable(d)'
  PROVE  Searchable(d)
<1>1. d \in chunked /\ d[1] \notin forgotten /\ d[2] = versions'[d[1]] /\ d[2] <= versions[d[1]]
  BY LatestMeans DEF Searchable, Recorded, OnRecord
<1>2. d[1] \in Subjects /\ versions[s] \in Nat
  BY LatestMeans DEF Typed
<1>3. d[1] # s
  BY <1>1, <1>2 DEF Typed
<1>4. versions'[d[1]] = versions[d[1]]
  BY <1>2, <1>3 DEF Typed
<1> QED
  BY <1>1, <1>4, LatestMeans DEF Searchable

Scanning == Undisturbed({"register", "drain"})

Working(d) == InHand(d) /\ thread[Maintainer].at # "older"

Row(d) == <<"index", d>>

\* A drain has the index row of d before it, or leaves it alone.
Ahead(d) ==
  \/ Row(d) \in work.due
  \/ Row(d) \in work.held \cup work.failed /\ job.item # Row(d)

\* Through an undisturbed scan what is counted as indexed can be found, and what is
\* not yet counted has its row, or is in hand.
Repaired ==
  /\ Scanning => Alone
  /\ Scanning => \A d \in Docs :
       Searchable(d) /\ InHand(d) /\ thread[Maintainer].at \in {"commit", "state"} => fts[d] > 0
  /\ Scanning => \A d \in Docs :
       Searchable(d) /\ proj[d] = "current" => fts[d] > 0 \/ Working(d)
  /\ Undisturbed({"drain"}) => \A d \in Docs :
       Searchable(d) => Ahead(d) \/ Findable(d) \/ Working(d)

\* A call of the maintainer brings its document to the index and marks it, and
\* disturbs no other that a search should find.
LEMMA RepairCall ==
  ASSUME Typed, Alone, ThreadStep(Maintainer), NEW d \in Docs, Searchable(d)',
         Searchable(d) /\ InHand(d) /\ thread[Maintainer].at \in {"commit", "state"} => fts[d] > 0
  PROVE  /\ Searchable(d) /\ Alone'
         /\ InHand(d)' /\ thread'[Maintainer].at \in {"commit", "state"} => fts'[d] > 0
         /\ Working(d) => Working(d)' \/ Findable(d)'
         /\ ~Working(d) => (fts'[d] = fts[d] /\ proj'[d] = proj[d])
<1> PICK w : w = thread[Maintainer].doc
  OBVIOUS
<1>1. /\ thread[Maintainer].at \in CallSteps
      /\ \A c \in Clients : thread'[c] = thread[c]
  BY DEF ThreadStep, CallStep, ReadLatest, ReadTombstone, Remove, Insert, Commit, SetState,
         ReadOlder, RetireSubject, At, CallSteps, Go, Return, Typed
<1>2. /\ InOrder(Maintainer) /\ CallStep(Maintainer) /\ InOrder(Maintainer)'
      /\ UNCHANGED <<versions, chunked, forgotten, job>>
  <2>1. InOrder(Maintainer)
    BY <1>1 DEF Alone, CallSteps
  <2> QED
    BY <2>1, InOrderCall DEF ThreadStep, record
<1>3. w \in Docs /\ Maintainer \in Threads
  BY <1>1 DEF Typed, DocInHand
<1>4. ASSUME NEW step, NEW ids, NEW mark, Go(Maintainer, step, ids, mark)
      PROVE  thread'[Maintainer] = [at |-> step, doc |-> w, ids |-> ids, mark |-> mark]
  BY <1>3, <1>4 DEF Go, Typed
<1>5. Searchable(d) /\ IsLatest(d) /\ d[1] \notin forgotten /\ ~Gone(d)
  BY <1>2 DEF Searchable, IsLatest, Latest, Gone
<1>6. Alone'
  BY <1>1, <1>2 DEF Alone
<1>7. Return(Maintainer) => thread'[Maintainer].at = "idle"
  <2>1. Return(Maintainer) => thread'[Maintainer] = Idle
    BY <1>3 DEF Return, Typed
  <2> QED
    BY <2>1 DEF Idle
<1>8. SUFFICES /\ InHand(d)' /\ thread'[Maintainer].at \in {"commit", "state"} => fts'[d] > 0
               /\ Working(d) => Working(d)' \/ Findable(d)'
               /\ ~Working(d) => (fts'[d] = fts[d] /\ proj'[d] = proj[d])
  BY <1>5, <1>6
<1>9. CASE ReadLatest(Maintainer)
  <2>1. thread[Maintainer].at = "latest" /\ UNCHANGED <<fts, proj>>
    BY <1>9 DEF ReadLatest, At, index
  <2>2. thread'[Maintainer].at \in {"tombstone", "remove"}
    <3>1. \/ Go(Maintainer, "tombstone", {}, "none")
          \/ \E e : Go(Maintainer, "remove", {e}, "stale")
      BY <1>9 DEF ReadLatest
    <3>2. ASSUME NEW e, Go(Maintainer, "remove", {e}, "stale")
          PROVE  thread'[Maintainer].at = "remove"
      BY <1>3, <3>2 DEF Go, Typed
    <3>3. Go(Maintainer, "tombstone", {}, "none") => thread'[Maintainer].at = "tombstone"
      BY <1>3 DEF Go, Typed
    <3> QED
      BY <3>1, <3>2, <3>3
  <2>3. w = d => thread'[Maintainer] = [at |-> "tombstone", doc |-> d, ids |-> {}, mark |-> "none"]
    BY <1>4, <1>5, <1>9 DEF ReadLatest
  <2>4. Working(d) => Working(d)'
    BY <2>3 DEF Working, InHand, Making
  <2> QED
    BY <2>1, <2>2, <2>4
<1>10. CASE ReadTombstone(Maintainer)
  <2>1. thread[Maintainer].at = "tombstone" /\ UNCHANGED <<fts, proj>>
    BY <1>10 DEF ReadTombstone, At, index
  <2>2. thread'[Maintainer] = [at |-> "remove", doc |-> w, ids |-> {w},
                               mark |-> IF w[1] \in forgotten THEN "stale" ELSE "current"]
    BY <1>4, <1>10 DEF ReadTombstone
  <2>3. Working(d) => Working(d)'
    BY <1>5, <2>1, <2>2 DEF Working, InHand, Making
  <2> QED
    BY <2>1, <2>2, <2>3
<1>11. CASE Remove(Maintainer)
  <2>1. thread[Maintainer].at = "remove" /\ UNCHANGED proj
    BY <1>11 DEF Remove, At
  <2>2. thread'[Maintainer] = [at |-> IF thread[Maintainer].mark = "current" THEN "insert" ELSE "commit",
                               doc |-> w, ids |-> thread[Maintainer].ids,
                               mark |-> thread[Maintainer].mark]
    BY <1>4, <1>11 DEF Remove
  <2>3. /\ Working(d) => Working(d)'
        /\ ~(InHand(d)' /\ thread'[Maintainer].at \in {"commit", "state"})
    BY <2>1, <2>2 DEF Working, InHand, Making
  <2>4. d \in thread[Maintainer].ids => Working(d)
    BY <1>2, <1>5, <2>1 DEF InOrder, Working, InHand
  <2>5. d \notin thread[Maintainer].ids => fts'[d] = fts[d]
    BY <1>11 DEF Remove, Typed
  <2> QED
    BY <2>1, <2>3, <2>4, <2>5
<1>12. CASE Insert(Maintainer)
  <2>1. thread[Maintainer].at = "insert" /\ UNCHANGED proj /\ fts' = [fts EXCEPT ![w] = @ + 1]
    BY <1>12 DEF Insert, At
  <2>2. thread'[Maintainer] = [at |-> "commit", doc |-> w, ids |-> thread[Maintainer].ids,
                               mark |-> "current"]
    BY <1>4, <1>12 DEF Insert
  <2>3. (Working(d) => Working(d)') /\ (w = d => Working(d)) /\ (InHand(d)' => w = d)
    BY <2>1, <2>2 DEF Working, InHand, Making
  <2>4. (w = d => fts'[d] > 0) /\ (w # d => fts'[d] = fts[d])
    BY <1>3, <2>1 DEF Typed
  <2> QED
    BY <2>1, <2>3, <2>4
<1>13. CASE Commit(Maintainer)
  <2>1. thread[Maintainer].at = "commit" /\ UNCHANGED <<fts, proj>>
    BY <1>13 DEF Commit, At
  <2>2. thread'[Maintainer] = [at |-> "state", doc |-> w, ids |-> thread[Maintainer].ids,
                               mark |-> thread[Maintainer].mark]
    BY <1>4, <1>13 DEF Commit
  <2>3. (Working(d) => Working(d)') /\ (InHand(d)' <=> InHand(d))
    BY <2>1, <2>2 DEF Working, InHand, Making
  <2> QED
    BY <1>5, <2>1, <2>3
<1>14. CASE SetState(Maintainer)
  <2>1. /\ thread[Maintainer].at = "state" /\ UNCHANGED fts
        /\ proj' = [e \in Docs |-> IF e \in thread[Maintainer].ids THEN thread[Maintainer].mark
                                   ELSE proj[e]]
    BY <1>14 DEF SetState, At
  <2>2. thread'[Maintainer].at \notin {"commit", "state"}
    <3>1. CASE thread[Maintainer].mark = "current"
      <4>1. thread'[Maintainer] = [at |-> "older", doc |-> w, ids |-> {}, mark |-> "none"]
        BY <1>4, <1>14, <3>1 DEF SetState
      <4> QED
        BY <4>1
    <3>2. CASE thread[Maintainer].mark # "current"
      BY <1>7, <1>14, <3>2 DEF SetState
    <3> QED
      BY <3>1, <3>2
  <2>3. Working(d) => Findable(d)'
    <3> SUFFICES ASSUME Working(d)
                 PROVE  fts'[d] > 0 /\ proj'[d] = "current"
      BY DEF Findable
    <3>1. Making(Maintainer) /\ w = d
      BY <2>1 DEF Working, InHand
    <3>2. thread[Maintainer].ids = {d} /\ thread[Maintainer].mark = "current"
      BY <1>2, <2>1, <3>1 DEF InOrder
    <3> QED
      BY <1>5, <2>1, <3>2 DEF Working
  <2>4. d \in thread[Maintainer].ids => Working(d)
    BY <1>2, <1>5, <2>1 DEF InOrder, Working, InHand
  <2> QED
    BY <2>1, <2>2, <2>3, <2>4
<1>15. CASE ReadOlder(Maintainer) \/ RetireSubject(Maintainer)
  <2>1. thread[Maintainer].at \in {"older", "retire"} /\ UNCHANGED <<fts, proj>>
    BY <1>15 DEF ReadOlder, RetireSubject, At, index
  <2>2. thread'[Maintainer].at \in {"idle", "remove"}
    <3>1. Return(Maintainer) \/ \E ids : Go(Maintainer, "remove", ids, "stale")
      BY <1>15 DEF ReadOlder, RetireSubject
    <3>2. ASSUME NEW ids, Go(Maintainer, "remove", ids, "stale")
          PROVE  thread'[Maintainer].at = "remove"
      BY <1>3, <3>2 DEF Go, Typed
    <3> QED
      BY <1>7, <3>1, <3>2
  <2>3. ~Working(d)
    BY <2>1 DEF Working, InHand, Making
  <2> QED
    BY <2>1, <2>2, <2>3
<1> QED
  BY <1>2, <1>9, <1>10, <1>11, <1>12, <1>13, <1>14, <1>15 DEF CallStep

\* A scan that nobody disturbs goes on, step by step.
LEMMA RepairMaintain ==
  ASSUME Typed, Recorded, Repaired, Maintain
  PROVE  Repaired'
<1>1. thread[Maintainer].at = "idle"
  BY DEF Maintain, Register, RecordDrop, Sweep, Process, Postpone, Complete, RebuildDocument,
         EndScan, MarkPending, Create, Snapshot, EndRebuild, LookAtFailed, ClearFailed, MayMaintain,
         MayTake, At
<1>2. \A c \in Clients : thread'[c] = thread[c]
  BY DEF Maintain, Register, RecordDrop, Sweep, Process, Postpone, Complete, RebuildDocument,
         EndScan, MarkPending, Create, Snapshot, EndRebuild, LookAtFailed, ClearFailed, Call, Typed
<1>3. \A d \in Docs : ~InHand(d) /\ ~Working(d)
  BY <1>1 DEF InHand, Making, Working
<1>4. /\ chunked \subseteq Docs
      /\ \A d \in Docs : d[1] \in Subjects /\ d[2] \in Nat /\ d = <<d[1], d[2]>>
      /\ \A s \in Subjects : versions[s] \in Nat
  BY DEF Typed, Docs
<1>5. CASE \/ \E d \in Docs : RebuildDocument(d)
           \/ EndScan \/ MarkPending \/ Create \/ Snapshot \/ EndRebuild
           \/ LookAtFailed \/ ClearFailed
  <2>1. job'.step \notin {"register", "drain"}
    BY <1>5 DEF RebuildDocument, EndScan, MarkPending, Create, Snapshot, EndRebuild,
                LookAtFailed, ClearFailed, MayMaintain, Job, NoJob, Typed, JobType
  <2> QED
    BY <2>1 DEF Repaired, Scanning, Undisturbed
<1>6. ASSUME thread' = thread, job'.quiet = job.quiet, job.step \in {"register", "drain"},
             UNCHANGED <<fts, proj>>, \A d \in Docs : Searchable(d)' => Searchable(d)
      PROVE  /\ Scanning' => Scanning /\ Alone'
             /\ \A d \in Docs : ~InHand(d)' /\ ~Working(d)'
             /\ Scanning' => \A d \in Docs :
                  Searchable(d)' /\ proj'[d] = "current" => fts'[d] > 0
  <2>1. Scanning' => Scanning
    BY <1>6 DEF Scanning, Undisturbed
  <2>2. \A d \in Docs : ~InHand(d)' /\ ~Working(d)'
    BY <1>1, <1>6 DEF InHand, Making, Working
  <2> QED
    BY <1>1, <1>3, <1>6, <2>1, <2>2 DEF Repaired, Alone
<1>7. ASSUME NEW s \in Sources, Register(s)
      PROVE  Repaired'
  <2>1. /\ versions' = [versions EXCEPT ![s] = @ + 1] /\ thread' = thread /\ job.step = "register"
        /\ UNCHANGED <<chunked, forgotten, fts, proj>> /\ s \in Subjects
    BY <1>7 DEF Register, MayMaintain, index
  <2>2. job'.step = "register" /\ job'.quiet = job.quiet
    BY <1>7 DEF Register, MayMaintain, Typed, JobType
  <2>3. ASSUME NEW d \in Docs, Searchable(d)'
        PROVE  Searchable(d)
    <3>1. d \in chunked /\ d[2] <= versions[d[1]]
      BY <2>1, <2>3 DEF Searchable, Recorded, OnRecord
    <3>2. d # <<s, versions[s] + 1>>
      BY <1>4, <2>1, <3>1
    <3> QED
      BY <2>1, <2>3, <3>2, NewVersion
  <2> QED
    BY <1>6, <2>1, <2>2, <2>3 DEF Repaired, Undisturbed
<1>8. CASE Sweep
  <2>1. /\ thread' = thread /\ job.step = "register"
        /\ UNCHANGED <<versions, chunked, forgotten, fts, proj>>
    BY <1>8 DEF Sweep, MayMaintain, record, index
  <2>2. job'.step = "drain" /\ job'.quiet = job.quiet /\ job'.item = NoItem
    BY <1>8 DEF Sweep, Job
  <2>3. \A d \in Docs : Searchable(d)' <=> Searchable(d)
    BY <2>1 DEF Searchable, IsLatest, Latest
  <2>4. ASSUME job.quiet, NEW d \in Docs, Searchable(d)
        PROVE  Ahead(d)' \/ Findable(d)'
    <3>1. CASE proj[d] = "current"
      BY <1>3, <2>1, <2>4, <3>1 DEF Repaired, Scanning, Undisturbed, Findable
    <3>2. CASE proj[d] # "current"
      <4>1. d \in NeedingIndex
        BY <2>4, <3>2 DEF NeedingIndex
      <4>2. Row(d) \in Requeued \cup work.held \cup work.failed
        BY <4>1 DEF Requeued, Row
      <4>3. Row(d) \in (work'.due \cup work'.held \cup work'.failed)
        BY <1>8, <4>2 DEF Sweep, Typed, WorkType
      <4>4. NoItem # Row(d)
        BY DEF NoItem, Row
      <4> QED
        BY <2>2, <4>3, <4>4 DEF Ahead
    <3> QED
      BY <3>1, <3>2
  <2> QED
    BY <1>6, <2>1, <2>2, <2>3, <2>4 DEF Repaired, Undisturbed
<1>9. ASSUME NEW i \in Items, Postpone(i)
      PROVE  Repaired'
  <2>1. /\ thread' = thread /\ job.step = "drain" /\ i[2] \notin chunked /\ job' = job
        /\ job.item = NoItem /\ UNCHANGED <<versions, chunked, forgotten, fts, proj>>
    BY <1>9 DEF Postpone, MayMaintain, MayTake, record, index
  <2>2. \A e \in Docs : (Searchable(e)' <=> Searchable(e)) /\ (Findable(e)' <=> Findable(e))
    BY <2>1 DEF Searchable, IsLatest, Latest, Findable
  <2>3. ASSUME NEW e \in Docs, Searchable(e), Ahead(e)
        PROVE  Ahead(e)'
    <3>1. Row(e) # i /\ Row(e) # NoItem
      BY <2>1, <2>3 DEF Searchable, Row, NoItem
    <3>2. Fail(i)
      BY <1>9 DEF Postpone
    <3>3. Row(e) \in work'.due <=> Row(e) \in work.due
      BY <3>1, <3>2, FailMoves
    <3>4. Row(e) \in work'.held \cup work'.failed <=> Row(e) \in work.held \cup work.failed
      BY <3>1, <3>2, FailMoves
    <3> QED
      BY <2>1, <2>3, <3>1, <3>3, <3>4 DEF Ahead
  <2>4. job.quiet => \A e \in Docs : Searchable(e) => Ahead(e) \/ Findable(e)
    BY <1>3, <2>1 DEF Repaired, Undisturbed
  <2> QED
    BY <1>6, <2>1, <2>2, <2>3, <2>4 DEF Repaired, Undisturbed
<1>13. CASE Complete
  <2>1. /\ thread' = thread /\ job.step = "drain" /\ work'.due = work.due
        /\ work'.held = work.held \ {job.item} /\ work'.failed = work.failed
        /\ UNCHANGED <<versions, chunked, forgotten, fts, proj>>
    BY <1>13 DEF Complete, MayMaintain, record, index, Typed, WorkType
  <2>2. job'.step = "drain" /\ job'.quiet = job.quiet /\ job'.item = NoItem
    BY <1>13 DEF Complete, MayMaintain, Typed, JobType
  <2>3. \A e \in Docs : (Searchable(e)' <=> Searchable(e)) /\ (Findable(e)' <=> Findable(e))
    BY <2>1 DEF Searchable, IsLatest, Latest, Findable
  <2>4. \A e \in Docs : Ahead(e) => Ahead(e)'
    BY <2>1, <2>2 DEF Ahead, Row, NoItem
  <2>5. job.quiet => \A e \in Docs : Searchable(e) => Ahead(e) \/ Findable(e)
    BY <1>3, <2>1 DEF Repaired, Undisturbed
  <2> QED
    BY <1>6, <2>1, <2>2, <2>3, <2>4, <2>5 DEF Repaired, Undisturbed
<1>10. ASSUME NEW d \in Docs, Call(Maintainer, "latest", d), chunked' = chunked \cup {d},
              UNCHANGED <<forgotten, fts, proj>>, job.step \in {"register", "drain"},
              \A e \in Docs : e # d /\ Searchable(e)' => Searchable(e),
              job'.step = job.step, job'.quiet = job.quiet,
              job.step = "drain" => \A e \in Docs : e # d /\ Ahead(e) => Ahead(e)'
       PROVE  Repaired'
  <2>1. thread'[Maintainer] = [at |-> "latest", doc |-> d, ids |-> {}, mark |-> "none"]
    BY <1>10 DEF Call, Calling, Typed
  <2>2. InHand(d)' /\ Working(d)'
    BY <2>1 DEF InHand, Working
  <2>3. ASSUME Scanning'
        PROVE  Scanning /\ Alone'
    <3>1. Scanning /\ Alone
      BY <1>10, <2>3 DEF Scanning, Undisturbed, Repaired
    <3>2. InOrder(Maintainer)'
      BY <1>10, <2>1 DEF InOrder, Making
    <3> QED
      BY <1>2, <3>1, <3>2 DEF Alone
  <2>4. ASSUME Scanning', NEW e \in Docs, Searchable(e)', proj'[e] = "current"
        PROVE  fts'[e] > 0 \/ Working(e)'
    BY <1>3, <1>10, <2>2, <2>3, <2>4 DEF Repaired
  <2>5. ASSUME Undisturbed({"drain"})', NEW e \in Docs, Searchable(e)'
        PROVE  Ahead(e)' \/ Findable(e)' \/ Working(e)'
    <3>1. CASE e = d
      BY <2>2, <3>1
    <3>2. CASE e # d
      <4>1. Searchable(e) /\ Undisturbed({"drain"})
        BY <1>10, <2>5, <3>2 DEF Undisturbed
      <4>2. Ahead(e) \/ Findable(e)
        BY <1>3, <4>1 DEF Repaired
      <4> QED
        BY <1>10, <3>2, <4>1, <4>2 DEF Findable, Undisturbed
    <3> QED
      BY <3>1, <3>2
  <2>6. thread'[Maintainer].at \notin {"commit", "state"}
    BY <2>1
  <2> QED
    BY <2>3, <2>4, <2>5, <2>6 DEF Repaired
<1>11. ASSUME NEW s \in Sources, RecordDrop(s)
       PROVE  Repaired'
  <2>1. /\ versions[s] = 0 /\ versions' = [versions EXCEPT ![s] = 1]
        /\ chunked' = chunked \cup {<<s, 1>>}
        /\ Call(Maintainer, "latest", <<s, 1>>) /\ job.step = "register" /\ job' = job
        /\ UNCHANGED <<forgotten, fts, proj>> /\ s \in Subjects /\ <<s, 1>> \in Docs
    BY <1>11 DEF RecordDrop, MayMaintain, index, Docs
  <2>2. ASSUME NEW e \in Docs, e # <<s, 1>>, Searchable(e)'
        PROVE  Searchable(e)
    <3>1. versions' = [versions EXCEPT ![s] = @ + 1] /\ <<s, 1>> = <<s, versions[s] + 1>>
      BY <1>4, <2>1 DEF Typed
    <3> QED
      BY <2>1, <2>2, <3>1, NewVersion
  <2> QED
    BY <1>10, <2>1, <2>2
<1>12. ASSUME NEW i \in Items, Process(i)
       PROVE  Repaired'
  <2> PICK d : d = i[2]
    OBVIOUS
  <2>1. /\ job.step = "drain" /\ chunked' = chunked \cup {d} /\ Call(Maintainer, "latest", d)
        /\ UNCHANGED <<versions, forgotten, fts, proj>> /\ job.item = NoItem /\ d \in Docs
    BY <1>12, ItemIs DEF Process, MayMaintain, MayTake, index
  <2>2. job'.step = job.step /\ job'.quiet = job.quiet /\ job'.item = i
    BY <1>12 DEF Process, Typed, JobType
  <2>3. \A e \in Docs : e # d /\ Searchable(e)' => Searchable(e)
    BY <2>1 DEF Searchable, IsLatest, Latest
  <2>4. work'.due = work.due \ {i} /\ work'.held = work.held \cup {i} /\ work'.failed = work.failed
    BY <1>12 DEF Process, Typed, WorkType
  <2>5. \A e \in Docs : e # d => Row(e) # i
    BY DEF Row
  <2>6. \A e \in Docs : e # d /\ Ahead(e) => Ahead(e)'
    BY <2>2, <2>4, <2>5 DEF Ahead
  <2> QED
    BY <1>10, <2>1, <2>2, <2>3, <2>6
<1> QED
  BY <1>5, <1>7, <1>8, <1>9, <1>11, <1>12, <1>13 DEF Maintain

LEMMA RepairStep ==
  ASSUME Typed, Posted, Recorded, Repaired, CountedIsFindable, [Next]_vars
  PROVE  Repaired'
<1>0. Maintainer \in Threads /\ Maintainer \notin Clients /\ Clients \subseteq Threads
  OBVIOUS
<1>1. ASSUME UNCHANGED <<versions, chunked, forgotten, fts, proj, job, work>>,
             thread'[Maintainer] = thread[Maintainer],
             \A c \in Clients : thread[c].at \notin CallSteps \cup {"promote", "bury"} =>
               thread'[c].at \notin CallSteps \cup {"promote", "bury"}
      PROVE  Repaired'
  <2>1. Scanning' => Alone'
    <3>1. InOrder(Maintainer)' <=> InOrder(Maintainer)
      BY <1>1 DEF InOrder, Making, IsLatest, Latest, Gone
    <3> QED
      BY <1>1, <3>1 DEF Repaired, Scanning, Undisturbed, Alone
  <2>2. \A d \in Docs : /\ InHand(d)' <=> InHand(d)
                        /\ Working(d)' <=> Working(d)
                        /\ Searchable(d)' <=> Searchable(d)
                        /\ Findable(d)' <=> Findable(d)
                        /\ Ahead(d)' <=> Ahead(d)
    BY <1>1 DEF Ahead, Row, InHand, Making, Working, Searchable, IsLatest, Latest, Findable
  <2> QED
    BY <1>1, <2>1, <2>2 DEF Repaired, Scanning, Undisturbed
<1>2. CASE ThreadStep(Maintainer)
  <2>1. job' = job /\ work' = work /\ \A d \in Docs : Ahead(d)' <=> Ahead(d)
    BY <1>2 DEF ThreadStep, Ahead, Row
  <2>2. CASE ~Scanning
    BY <2>1, <2>2 DEF Repaired, Scanning, Undisturbed
  <2>3. CASE Scanning
    <3>1. /\ Alone
          /\ \A d \in Docs :
               Searchable(d) /\ InHand(d) /\ thread[Maintainer].at \in {"commit", "state"} => fts[d] > 0
      BY <2>3 DEF Repaired
    <3>2. Alone'
      <4>1. /\ thread[Maintainer].at \in CallSteps
            /\ \A c \in Clients : thread'[c] = thread[c]
        BY <1>2 DEF ThreadStep, CallStep, ReadLatest, ReadTombstone, Remove, Insert, Commit,
                    SetState, ReadOlder, RetireSubject, At, CallSteps, Go, Return, Typed
      <4>2. InOrder(Maintainer)'
        BY <1>0, <1>2, <3>1, <4>1, InOrderCall DEF Alone, CallSteps, ThreadStep
      <4> QED
        BY <3>1, <4>1, <4>2 DEF Alone
    <3>3. ASSUME NEW d \in Docs, Searchable(d)'
          PROVE  /\ Searchable(d)
                 /\ InHand(d)' /\ thread'[Maintainer].at \in {"commit", "state"} => fts'[d] > 0
                 /\ Working(d) => Working(d)' \/ Findable(d)'
                 /\ ~Working(d) => (fts'[d] = fts[d] /\ proj'[d] = proj[d])
      BY <1>2, <3>1, <3>3, RepairCall
    <3>4. ASSUME NEW d \in Docs, Searchable(d)', proj'[d] = "current"
          PROVE  fts'[d] > 0 \/ Working(d)'
      BY <2>3, <3>3, <3>4 DEF Repaired, Findable
    <3>5. ASSUME Undisturbed({"drain"})', NEW d \in Docs, Searchable(d)'
          PROVE  Ahead(d)' \/ Findable(d)' \/ Working(d)'
      BY <2>1, <3>3, <3>5 DEF Repaired, Findable, Undisturbed
    <3> QED
      BY <3>2, <3>3, <3>4, <3>5 DEF Repaired
  <2> QED
    BY <2>2, <2>3
<1>3. ASSUME NEW c \in Clients, ThreadStep(c)
      PROVE  Repaired'
  <2>1. thread[c].at \in CallSteps /\ UNCHANGED job
    BY <1>3 DEF ThreadStep, CallStep, ReadLatest, ReadTombstone, Remove, Insert, Commit, SetState,
                ReadOlder, RetireSubject, At, CallSteps
  <2> QED
    BY <2>1 DEF Repaired, Scanning, Undisturbed, Alone
<1>4. ASSUME NEW t \in Threads, Fault(t) PROVE Repaired'
  <2>1. \/ job' = NoJob \/ job' = [job EXCEPT !.quiet = FALSE]
        \/ job' = [job EXCEPT !.item = NoItem, !.quiet = FALSE]
    BY <1>4 DEF Fault, Disturb
  <2>2. ~job'.quiet
    <3>1. job \in JobType
      BY DEF Typed
    <3>2. job' = NoJob => ~job'.quiet
      BY DEF NoJob
    <3> QED
      BY <2>1, <3>1, <3>2 DEF JobType
  <2> QED
    BY <2>2 DEF Repaired, Scanning, Undisturbed
<1>5. ASSUME NEW c \in Clients, Request(c) PROVE Repaired'
  <2>1. CASE \/ \E s \in Texts : Store(c, s)
             \/ \E s \in Relayed : CheckConfirm(c, s)
             \/ \E s \in Subjects : CheckForget(c, s)
    <3>1. ~job'.quiet
      BY <2>1 DEF Store, CheckConfirm, CheckForget, Disturb, Typed, JobType
    <3> QED
      BY <3>1 DEF Repaired, Scanning, Undisturbed
  <2>2. CASE Promote(c) \/ Bury(c)
    <3>1. thread[c].at \in {"promote", "bury"} /\ UNCHANGED job
      BY <2>2 DEF Promote, Bury, At
    <3> QED
      BY <3>1 DEF Repaired, Scanning, Undisturbed, Alone
  <2>3. CASE ReadHits(c) \/ FilterHits(c) \/ Answer(c)
    <3>1. UNCHANGED <<versions, chunked, forgotten, fts, proj, job, work>>
      BY <2>3 DEF ReadHits, FilterHits, Answer, record, index
    <3>2. /\ thread'[c].at \in {"hits", "answer", "idle"}
          /\ \A u \in Threads \ {c} : thread'[u] = thread[u]
      BY <1>0, <2>3 DEF ReadHits, FilterHits, Answer, Call, Calling, Return, Idle, Typed
    <3> QED
      BY <1>0, <1>1, <3>1, <3>2 DEF CallSteps
  <2> QED
    BY <1>5, <2>1, <2>2, <2>3 DEF Request
<1>6. CASE StartScan
  <2>1. /\ job'.step = "register" /\ job'.quiet = Resting /\ thread' = thread
        /\ service = "up" /\ job.step = "idle"
        /\ UNCHANGED <<versions, chunked, forgotten, fts, proj>>
    BY <1>6 DEF StartScan, NoJob, MayMaintain, record, index
  <2>2. CASE ~Resting
    BY <2>1, <2>2 DEF Repaired, Scanning, Undisturbed
  <2>3. CASE Resting
    <3>1. \A t \in Threads : thread'[t].at = "idle"
      BY <2>1, <2>3 DEF Resting, At
    <3>2. Alone'
      BY <1>0, <3>1 DEF Alone, CallSteps
    <3>3. \A d \in Docs : (Searchable(d)' <=> Searchable(d)) /\ ~InHand(d)'
      BY <1>0, <2>1, <3>1 DEF Searchable, IsLatest, Latest, InHand, Making
    <3>4. AtRest
      BY <2>1, <2>3 DEF AtRest
    <3>5. \A d \in Docs : Searchable(d) /\ proj[d] = "current" => fts[d] > 0
      BY <3>4 DEF CountedIsFindable
    <3> QED
      BY <2>1, <3>2, <3>3, <3>5 DEF Repaired, Undisturbed
  <2> QED
    BY <2>2, <2>3
<1>7. CASE StartReindex \/ Crash \/ LoseIndex \/ Open
  <2>1. LoseIndex => job' = job /\ job.step = "idle"
    BY DEF LoseIndex, Posted
  <2>2. StartReindex \/ Crash => job'.step \in {"pending", "idle"}
    <3>1. StartReindex => job'.step = "pending"
      BY DEF StartReindex, NoJob
    <3>2. Crash => job'.step = "idle"
      BY DEF Crash, NoJob
    <3> QED
      BY <3>1, <3>2
  <2>3. Open => job'.step \in {"idle", "first"}
    BY DEF Open, NoJob, Posted
  <2>4. job'.step \notin {"register", "drain"}
    BY <1>7, <2>1, <2>2, <2>3
  <2> QED
    BY <2>4 DEF Repaired, Scanning, Undisturbed
<1>8. CASE Maintain
  BY <1>8, RepairMaintain
<1>9. CASE UNCHANGED vars
  <2>1. UNCHANGED <<versions, chunked, forgotten, fts, proj, thread, job, work>>
    BY <1>9 DEF vars, record, index
  <2> QED
    BY <1>1, <2>1
<1> QED
  BY <1>2, <1>3, <1>4, <1>5, <1>6, <1>7, <1>8, <1>9 DEF Next

\* If what is counted as indexed can be found whenever all are at rest, a scan that ran
\* with no other writer and no exception leaves every latest live document with chunks
\* findable and counted, unless its index row waits or has failed for good.
LEMMA RepairsIfCounted ==
  Spec => ([]CountedIsFindable => ScanRepairs)
<1>1. Init => Typed /\ Posted /\ Recorded /\ Repaired
  <2>1. Init => Posted /\ Recorded /\ Repaired
    BY DEF Init, InitProjection, Idle, NoJob, NoItem, NoWork, Posted, Recorded, OnRecord, Rowed,
           Repaired, Scanning,
           Undisturbed
  <2> QED
    BY <2>1, TypedInit
<1>2. Typed /\ Posted /\ Recorded /\ Repaired /\ CountedIsFindable /\ [Next]_vars
        => (Typed /\ Posted /\ Recorded /\ Repaired)'
  BY TypedStep, PostedStep, RecordedStep, RepairStep
<1>3. Repaired /\ [Next]_vars =>
        [EndScan /\ job.quiet =>
           \A d \in Docs : Searchable(d) /\ ~Findable(d) =>
             \E i \in Items :
               /\ i[2] = d /\ (proj[d] = "current" \/ i[1] = "index")
               /\ Waiting(i) \/ FailedForGood(i)]_vars
  <2> SUFFICES ASSUME Repaired, EndScan, job.quiet, NEW d \in Docs, Searchable(d), ~Findable(d)
               PROVE  \E i \in Items :
                        /\ i[2] = d /\ (proj[d] = "current" \/ i[1] = "index")
                        /\ Waiting(i) \/ FailedForGood(i)
    OBVIOUS
  <2>1. job.step = "drain" /\ work.due = {} /\ thread[Maintainer].at = "idle"
    BY DEF EndScan, MayMaintain, At
  <2>2. ~Working(d)
    BY <2>1 DEF Working, InHand, Making
  <2>3. Row(d) \in work.held \cup work.failed
    BY <2>1, <2>2 DEF Repaired, Undisturbed, Ahead
  <2>4. Row(d) \in Items /\ Row(d)[1] = "index" /\ Row(d)[2] = d
    BY DEF Row, Items
  <2> QED
    BY <2>3, <2>4 DEF Waiting, FailedForGood
<1> QED
  BY <1>1, <1>2, <1>3, PTL DEF Spec, ScanRepairs

-----------------------------------------------------------------------------
(***************************************************************************)
(* The maintainer by itself, through any number of crashes: a counted       *)
(* document that is indexed once more is on disk until its rows are back.  *)
(***************************************************************************)

ByItself == Clients = {} /\ MaxLosses = 0 /\ MaxFaults = 0

\* What is counted is on disk, and in the index or in hand; what is about to be
\* counted is in the index, and, once committed, on disk.
Safe(d) ==
  /\ proj[d] # "none" => d \in chunked
  /\ Searchable(d) /\ proj[d] = "current" => disk[d] > 0 /\ (fts[d] > 0 \/ Working(d))
  /\ Searchable(d) /\ InHand(d) /\ thread[Maintainer].at \in {"commit", "state"} => fts[d] > 0
  /\ Searchable(d) /\ InHand(d) /\ thread[Maintainer].at = "state" => disk[d] > 0

Counted ==
  /\ valid /\ job.step # "first"
  /\ Alone
  /\ job.step \in {"create", "snapshot"} => NoneCurrent
  /\ \A d \in Docs : Safe(d)

LEMMA SafeCall ==
  ASSUME Typed, Alone, ThreadStep(Maintainer), NEW d \in Docs, Safe(d)
  PROVE  Safe(d)'
<1> PICK w : w = thread[Maintainer].doc
  OBVIOUS
<1>1. thread[Maintainer].at \in CallSteps /\ InOrder(Maintainer)
  BY DEF ThreadStep, CallStep, ReadLatest, ReadTombstone, Remove, Insert, Commit, SetState,
         ReadOlder, RetireSubject, At, CallSteps, Alone
<1>2. CallStep(Maintainer) /\ UNCHANGED <<versions, chunked, forgotten>>
  BY <1>1, InOrderCall DEF ThreadStep, record
<1>3. Maintainer \in Threads
  OBVIOUS
<1>4. (Searchable(d)' <=> Searchable(d))
  BY <1>2 DEF Searchable, IsLatest, Latest
<1>5. Searchable(d) => /\ InHand(d)' /\ thread'[Maintainer].at \in {"commit", "state"} => fts'[d] > 0
                       /\ Working(d) => Working(d)' \/ Findable(d)'
                       /\ ~Working(d) => (fts'[d] = fts[d] /\ proj'[d] = proj[d])
  BY <1>4, RepairCall DEF Safe
<1>6. CASE Commit(Maintainer)
  <2>1. thread[Maintainer].at = "commit" /\ proj' = proj /\ disk' = fts
    BY <1>6 DEF Commit, At
  <2>2. thread'[Maintainer] = [at |-> "state", doc |-> w, ids |-> thread[Maintainer].ids,
                               mark |-> thread[Maintainer].mark]
    BY <1>3, <1>6 DEF Commit, Go, Typed
  <2>3. InHand(d)' => InHand(d)
    BY <2>1, <2>2 DEF InHand, Making
  <2>4. Searchable(d) /\ proj[d] = "current" => fts[d] > 0
    <3>1. Working(d) => InHand(d)
      BY DEF Working
    <3> QED
      BY <2>1, <3>1 DEF Safe
  <2>5. Searchable(d) /\ InHand(d) => fts[d] > 0
    BY <2>1 DEF Safe
  <2>6. proj[d] # "none" => d \in chunked
    BY DEF Safe
  <2>7. Searchable(d) /\ proj[d] = "current" => fts'[d] > 0 \/ Working(d)'
    BY <1>5, <2>4 DEF Findable
  <2> QED
    BY <1>2, <1>4, <1>5, <2>1, <2>2, <2>3, <2>4, <2>5, <2>6, <2>7 DEF Safe
<1>7. CASE ~Commit(Maintainer)
  <2>1. disk' = disk
    BY <1>2, <1>7 DEF CallStep, ReadLatest, ReadTombstone, Remove, Insert, SetState, ReadOlder,
                      RetireSubject, index
  <2>2. thread'[Maintainer].at # "state"
    <3>1. \/ \E step \in {"tombstone", "remove", "insert", "commit", "older"} : \E ids, mark :
               Go(Maintainer, step, ids, mark)
          \/ Return(Maintainer)
      BY <1>2, <1>7 DEF CallStep, ReadLatest, ReadTombstone, Remove, Insert, SetState, ReadOlder,
                        RetireSubject
    <3>2. ASSUME NEW step \in {"tombstone", "remove", "insert", "commit", "older"},
                 NEW ids, NEW mark, Go(Maintainer, step, ids, mark)
          PROVE  thread'[Maintainer].at # "state"
      <4>1. thread'[Maintainer] = [at |-> step, doc |-> w, ids |-> ids, mark |-> mark]
        BY <1>3, <3>2 DEF Go, Typed
      <4> QED
        BY <4>1
    <3>3. Return(Maintainer) => thread'[Maintainer] = Idle
      BY <1>3 DEF Return, Typed
    <3>4. Return(Maintainer) => thread'[Maintainer].at # "state"
      BY <3>3 DEF Idle
    <3> QED
      BY <3>1, <3>2, <3>4
  <2>3. CASE SetState(Maintainer)
    <3>1. /\ thread[Maintainer].at = "state"
          /\ proj' = [e \in Docs |-> IF e \in thread[Maintainer].ids THEN thread[Maintainer].mark
                                     ELSE proj[e]]
      BY <2>3 DEF SetState, At
    <3>2. proj'[d] # "none" => d \in chunked
      BY <1>1, <3>1 DEF Safe, InOrder
    <3>3. Searchable(d) /\ proj'[d] = "current" => disk[d] > 0
      <4> SUFFICES ASSUME Searchable(d), proj'[d] = "current"
                   PROVE  disk[d] > 0
        OBVIOUS
      <4>1. CASE Working(d)
        <5>1. InHand(d)
          BY <4>1 DEF Working
        <5> QED
          BY <3>1, <5>1 DEF Safe
      <4>2. CASE ~Working(d)
        BY <1>5, <4>2 DEF Safe
      <4> QED
        BY <4>1, <4>2
    <3>4. Searchable(d) /\ proj'[d] = "current" => fts'[d] > 0 \/ Working(d)'
      <4>1. CASE Working(d)
        BY <1>5, <4>1 DEF Findable
      <4>2. CASE ~Working(d)
        BY <1>5, <4>2 DEF Safe
      <4> QED
        BY <4>1, <4>2
    <3> QED
      BY <1>2, <1>4, <1>5, <2>1, <2>2, <3>2, <3>3, <3>4 DEF Safe
  <2>4. CASE ~SetState(Maintainer)
    <3>1. proj' = proj
      BY <1>2, <1>7, <2>4 DEF CallStep, ReadLatest, ReadTombstone, Remove, Insert, ReadOlder,
                              RetireSubject, index
    <3>2. Searchable(d) /\ proj[d] = "current" => fts'[d] > 0 \/ Working(d)'
      <4>1. CASE Working(d)
        BY <1>5, <4>1 DEF Findable
      <4>2. CASE ~Working(d)
        BY <1>5, <4>2 DEF Safe
      <4> QED
        BY <4>1, <4>2
    <3> QED
      BY <1>2, <1>4, <1>5, <2>1, <2>2, <3>1, <3>2 DEF Safe
  <2> QED
    BY <2>3, <2>4
<1> QED
  BY <1>6, <1>7

\* While the maintainer is idle, what is counted is safe as long as no step takes it
\* from the index.
LEMMA SafeIdle ==
  ASSUME thread'[Maintainer].at = "idle", NEW d \in Docs,
         proj'[d] # "none" => d \in chunked',
         Searchable(d)' /\ proj'[d] = "current" => fts'[d] > 0 /\ disk'[d] > 0
  PROVE  Safe(d)'
BY DEF Safe, Working, InHand, Making

LEMMA CountedMaintain ==
  ASSUME ByItself, Typed, Recorded, Counted, Maintain
  PROVE  Counted'
<1>1. /\ thread[Maintainer].at = "idle"
      /\ \A d \in Docs : ~Working(d) /\ ~InHand(d)
      /\ \A d \in Docs : /\ proj[d] # "none" => d \in chunked
                         /\ Searchable(d) /\ proj[d] = "current" => fts[d] > 0 /\ disk[d] > 0
  <2>1. thread[Maintainer].at = "idle"
    BY DEF Maintain, Register, RecordDrop, Sweep, Process, Postpone, Complete, RebuildDocument,
           EndScan, MarkPending, Create, Snapshot, EndRebuild, LookAtFailed, ClearFailed,
           MayMaintain, MayTake, At
  <2>2. \A d \in Docs : ~Working(d) /\ ~InHand(d)
    BY <2>1 DEF Working, InHand, Making
  <2> QED
    BY <2>1, <2>2 DEF Counted, Safe
<1>2. /\ chunked \subseteq Docs
      /\ \A d \in Docs : d[1] \in Subjects /\ d[2] \in Nat /\ d = <<d[1], d[2]>>
      /\ \A s \in Subjects : versions[s] \in Nat
      /\ Clients = {} /\ Maintainer \in Threads
  BY DEF Typed, Docs, ByItself
<1>3. valid' /\ job'.step # "first"
  <2>1. valid'
    BY DEF Maintain, Register, RecordDrop, Sweep, Process, Postpone, Complete, RebuildDocument,
           EndScan, MarkPending, Create, Snapshot, EndRebuild, LookAtFailed, ClearFailed, Counted
  <2>2. job'.step # "first"
    BY RequestMoves DEF Maintain
  <2> QED
    BY <2>1, <2>2 DEF Counted
<1>4. ASSUME thread' = thread, UNCHANGED <<fts, disk>>, chunked \subseteq chunked',
             \A d \in Docs : /\ Searchable(d)' => Searchable(d)
                             /\ proj'[d] = "current" => proj[d] = "current"
                             /\ proj'[d] # "none" => proj[d] # "none",
             job'.step \in {"create", "snapshot"} => NoneCurrent'
      PROVE  Counted'
  <2>1. \A d \in Docs : Safe(d)'
    BY <1>1, <1>4, SafeIdle
  <2>2. Alone'
    BY <1>1, <1>2, <1>4 DEF Alone
  <2> QED
    BY <1>3, <1>4, <2>1, <2>2 DEF Counted
<1>5. ASSUME NEW d \in Docs, Call(Maintainer, "latest", d), chunked' = chunked \cup {d},
             UNCHANGED <<fts, disk, proj>>,
             \A e \in Docs : Searchable(e)' /\ proj[e] = "current" => Searchable(e) \/ e = d,
             proj[d] = "current" => d \in chunked,
             job'.step = job.step, job.step \in {"register", "drain", "rebuild"},
             Searchable(d)' /\ proj[d] = "current" => Searchable(d)
      PROVE  Counted'
  <2>1. thread'[Maintainer] = [at |-> "latest", doc |-> d, ids |-> {}, mark |-> "none"]
    BY <1>2, <1>5 DEF Call, Calling, Typed
  <2>2. InOrder(Maintainer)'
    BY <1>2, <1>5, <2>1 DEF InOrder, Making
  <2>3. \A e \in Docs : Safe(e)'
    <3> SUFFICES ASSUME NEW e \in Docs
                 PROVE  Safe(e)'
      OBVIOUS
    <3>1. Searchable(e)' /\ proj[e] = "current" => fts[e] > 0 /\ disk[e] > 0
      BY <1>1, <1>5
    <3>2. proj[e] # "none" => e \in chunked'
      BY <1>1, <1>5
    <3>3. thread'[Maintainer].at = "latest"
      BY <2>1
    <3> QED
      BY <1>5, <3>1, <3>2, <3>3 DEF Safe
  <2>4. Alone'
    BY <1>2, <2>2 DEF Alone
  <2> QED
    BY <1>3, <1>5, <2>3, <2>4 DEF Counted
<1>6. ASSUME NEW s \in Sources, Register(s) PROVE Counted'
  <2>1. /\ versions' = [versions EXCEPT ![s] = @ + 1] /\ thread' = thread
        /\ UNCHANGED <<chunked, forgotten, fts, disk, proj>> /\ s \in Subjects /\ job.step = "register"
    BY <1>6 DEF Register, MayMaintain, index
  <2>2. job'.step = "register"
    BY <1>6 DEF Register, MayMaintain, Typed, JobType
  <2>3. ASSUME NEW d \in Docs, Searchable(d)'
        PROVE  Searchable(d)
    <3>1. d \in chunked /\ d[2] <= versions[d[1]]
      BY <2>1, <2>3 DEF Searchable, Recorded, OnRecord
    <3>2. d # <<s, versions[s] + 1>>
      BY <1>2, <2>1, <3>1
    <3> QED
      BY <2>1, <2>3, <3>2, NewVersion
  <2> QED
    BY <1>4, <2>1, <2>2, <2>3
<1>7. ASSUME NEW s \in Sources, RecordDrop(s) PROVE Counted'
  <2>1. /\ versions[s] = 0 /\ versions' = [versions EXCEPT ![s] = 1]
        /\ chunked' = chunked \cup {<<s, 1>>}
        /\ Call(Maintainer, "latest", <<s, 1>>) /\ job.step = "register" /\ job' = job
        /\ UNCHANGED <<forgotten, fts, disk, proj>> /\ s \in Subjects
    BY <1>7 DEF RecordDrop, MayMaintain, index
  <2>2. <<s, 1>> \in Docs
    BY <2>1 DEF Typed, Docs
  <2>3. ASSUME NEW e \in Docs, e # <<s, 1>>, Searchable(e)'
        PROVE  Searchable(e)
    <3>1. versions' = [versions EXCEPT ![s] = @ + 1] /\ <<s, 1>> = <<s, versions[s] + 1>>
      BY <1>2, <2>1 DEF Typed
    <3> QED
      BY <2>1, <2>3, <3>1, NewVersion
  <2>4. <<s, 1>> \notin chunked
    BY <2>1 DEF Recorded, OnRecord
  <2>5. proj[<<s, 1>>] # "current"
    BY <1>1, <2>2, <2>4
  <2> QED
    BY <1>5, <2>1, <2>2, <2>3, <2>5
<1>8. ASSUME NEW i \in Items, Process(i) PROVE Counted'
  <2> PICK d : d = i[2]
    OBVIOUS
  <2>1. /\ chunked' = chunked \cup {d} /\ Call(Maintainer, "latest", d) /\ job.step = "drain"
        /\ UNCHANGED <<versions, forgotten, fts, disk, proj>> /\ d \in Docs
    BY <1>8, ItemIs DEF Process, MayMaintain, MayTake, index
  <2>2. job'.step = job.step
    BY <1>8 DEF Process, Typed, JobType
  <2>3. \A e \in Docs : Searchable(e)' /\ proj[e] = "current" => Searchable(e)
    BY <1>1, <2>1 DEF Searchable, IsLatest, Latest
  <2> QED
    BY <1>1, <1>5, <2>1, <2>2, <2>3
<1>9. ASSUME NEW d \in Docs, RebuildDocument(d) PROVE Counted'
  <2>1. /\ job.step = "rebuild" /\ UNCHANGED <<versions, chunked, forgotten, fts, disk, proj>>
        /\ thread' = thread \/ (d \in chunked /\ Call(Maintainer, "latest", d))
    BY <1>9 DEF RebuildDocument, MayMaintain, record, index
  <2>2. job'.step = job.step
    BY <1>9 DEF RebuildDocument, Typed, JobType
  <2>3. \A e \in Docs : Searchable(e)' <=> Searchable(e)
    BY <2>1 DEF Searchable, IsLatest, Latest
  <2>4. CASE thread' = thread
    BY <1>4, <2>1, <2>2, <2>3, <2>4
  <2>5. CASE d \in chunked /\ Call(Maintainer, "latest", d)
    <3>1. chunked' = chunked \cup {d}
      BY <2>1, <2>5
    <3> QED
      BY <1>5, <2>1, <2>2, <2>3, <2>5, <3>1
  <2> QED
    BY <2>1, <2>4, <2>5
<1>10. CASE \/ Sweep \/ Complete \/ EndScan \/ EndRebuild \/ LookAtFailed \/ ClearFailed
            \/ \E i \in Items : Postpone(i)
  <2>1. /\ thread' = thread /\ UNCHANGED <<versions, chunked, forgotten, fts, disk>>
        /\ proj' = proj \/ proj' = [d \in Docs |-> IF proj[d] = "pending" THEN "stale" ELSE proj[d]]
    BY <1>10 DEF Sweep, Complete, Postpone, EndScan, EndRebuild, LookAtFailed, ClearFailed, record,
                 index
  <2>2. job'.step \notin {"create", "snapshot"}
    BY <1>10, RequestMoves
  <2>3. \A d \in Docs : /\ Searchable(d)' <=> Searchable(d)
                        /\ proj'[d] = "current" => proj[d] = "current"
                        /\ proj'[d] # "none" => proj[d] # "none"
    BY <2>1 DEF Searchable, IsLatest, Latest
  <2> QED
    BY <1>4, <2>1, <2>2, <2>3
<1>11. CASE MarkPending \/ Create \/ Snapshot
  <2>1. thread' = thread /\ UNCHANGED <<versions, chunked, forgotten>>
    BY <1>11 DEF MarkPending, Create, Snapshot, record
  <2>2. NoneCurrent' /\ \A d \in Docs : proj'[d] # "none" => proj[d] # "none"
    <3>1. MarkPending => NoneCurrent' /\ \A d \in Docs : proj'[d] # "none" => proj[d] # "none"
      BY DEF MarkPending, NoneCurrent
    <3>2. Create \/ Snapshot => proj' = proj /\ NoneCurrent
      BY DEF Create, Snapshot, MayMaintain, Counted, index
    <3> QED
      BY <1>11, <3>1, <3>2 DEF NoneCurrent
  <2>3. \A d \in Docs : Safe(d)'
    BY <1>1, <2>1, <2>2, SafeIdle DEF NoneCurrent
  <2>4. Alone'
    BY <1>1, <1>2, <2>1 DEF Alone
  <2> QED
    BY <1>3, <2>2, <2>3, <2>4 DEF Counted
<1> QED
  BY <1>6, <1>7, <1>8, <1>9, <1>10, <1>11 DEF Maintain

LEMMA CountedStep ==
  ASSUME ByItself, Typed, Posted, Recorded, Counted, [Next]_vars
  PROVE  Counted'
<1>0. Threads = {Maintainer} /\ Clients = {}
  BY DEF ByItself
<1>1. CASE ThreadStep(Maintainer)
  <2>1. thread[Maintainer].at \in CallSteps
    BY <1>1 DEF ThreadStep, CallStep, ReadLatest, ReadTombstone, Remove, Insert, Commit, SetState,
                ReadOlder, RetireSubject, At, CallSteps
  <2>2. InOrder(Maintainer) /\ Alone
    BY <2>1 DEF Counted, Alone, CallSteps
  <2>3. InOrder(Maintainer)' /\ UNCHANGED <<job, valid>>
    BY <1>0, <1>1, <2>2, InOrderCall DEF ThreadStep
  <2>4. job.step \notin {"create", "snapshot"}
    BY <2>1 DEF CallSteps, Posted
  <2>5. \A d \in Docs : Safe(d)'
    BY <1>1, <2>2, SafeCall DEF Counted
  <2>6. Alone'
    BY <1>0, <2>3 DEF Alone
  <2> QED
    BY <2>3, <2>4, <2>5, <2>6 DEF Counted
<1>2. ASSUME thread' = thread \/ (thread'[Maintainer].at = "idle" /\ fts' = disk),
             valid' = valid, UNCHANGED <<versions, chunked, forgotten, proj, disk>>,
             fts' = fts \/ fts' = disk, fts' = disk => thread'[Maintainer].at = "idle" \/ fts = disk,
             job'.step \in {"idle", "register", "pending", job.step}
      PROVE  Counted'
  <2>1. \A d \in Docs : Searchable(d)' <=> Searchable(d)
    BY <1>2 DEF Searchable, IsLatest, Latest
  <2>2. Alone'
    <3>1. CASE thread'[Maintainer].at = "idle"
      BY <1>0, <3>1 DEF Alone
    <3>2. CASE thread' = thread
      BY <1>0, <1>2, <3>2 DEF Counted, Alone, InOrder, Making, IsLatest, Latest, Gone
    <3> QED
      BY <1>2, <3>1, <3>2
  <2>3. \A d \in Docs : Safe(d)'
    <3>1. CASE thread' = thread /\ fts' = fts
      BY <1>2, <2>1, <3>1 DEF Counted, Safe, Working, InHand, Making
    <3>2. CASE thread'[Maintainer].at = "idle" /\ fts' = disk
      BY <1>2, <2>1, <3>2, SafeIdle DEF Counted, Safe
    <3> QED
      BY <1>2, <3>1, <3>2
  <2> QED
    BY <1>2, <2>2, <2>3 DEF Counted, NoneCurrent
<1>3. ~Fault(Maintainer)
  BY DEF Fault, ByItself, Typed
<1>4. CASE StartScan \/ StartReindex
  <2>1. thread' = thread /\ valid' = valid /\ UNCHANGED <<versions, chunked, forgotten, proj, disk, fts>>
    BY <1>4 DEF StartScan, StartReindex, record, index
  <2>2. thread[Maintainer].at = "idle" /\ job'.step \in {"register", "pending"}
    BY <1>4 DEF StartScan, StartReindex, MayMaintain, At, NoJob
  <2> QED
    BY <1>2, <2>1, <2>2
<1>5. CASE Crash
  BY <1>0, <1>2, <1>5 DEF Crash, Idle, NoJob, record
<1>6. ~LoseIndex
  BY DEF LoseIndex, ByItself, Typed
<1>7. CASE Open
  <2>1. thread' = thread /\ valid' = valid /\ job' = job
        /\ UNCHANGED <<versions, chunked, forgotten, proj, disk, fts>> /\ service = "down"
    BY <1>7 DEF Open, Counted, record, index
  <2>2. thread[Maintainer].at = "idle"
    BY <1>0, <2>1 DEF Posted
  <2> QED
    BY <1>2, <2>1, <2>2
<1>8. CASE UNCHANGED vars
  <2>1. thread' = thread /\ valid' = valid /\ job' = job
        /\ UNCHANGED <<versions, chunked, forgotten, proj, disk, fts>>
    BY <1>8 DEF vars, record, index
  <2>2. \A d \in Docs : Safe(d)'
    BY <2>1 DEF Counted, Safe, Searchable, IsLatest, Latest, Working, InHand, Making
  <2>3. Alone'
    BY <2>1 DEF Counted, Alone, InOrder, Making, IsLatest, Latest, Gone
  <2> QED
    BY <2>1, <2>2, <2>3 DEF Counted, NoneCurrent
<1>9. CASE Maintain
  BY <1>9, CountedMaintain
<1> QED
  BY <1>0, <1>1, <1>3, <1>4, <1>5, <1>6, <1>7, <1>8, <1>9 DEF Next

\* With no client, no index file lost and no exception, any number of crashes does not
\* make the record count what a search cannot find, though retried rows are indexed
\* again and again.
THEOREM CountedThroughCrashes ==
  ASSUME ByItself
  PROVE  Spec => []CountedIsFindable
<1>1. Init => Typed /\ Posted /\ Recorded /\ Counted
  <2>1. Init => Posted /\ Recorded
    BY DEF Init, InitProjection, Idle, NoJob, NoWork, NoItem, Posted, Recorded, OnRecord, Rowed
  <2>2. Init => Counted
    BY DEF Init, InitProjection, Idle, NoJob, Counted, Safe, Searchable, Working, InHand, Making,
           Alone, ByItself
  <2> QED
    BY <2>1, <2>2, TypedInit
<1>2. Typed /\ Posted /\ Recorded /\ Counted /\ [Next]_vars
        => (Typed /\ Posted /\ Recorded /\ Counted)'
  BY TypedStep, PostedStep, RecordedStep, CountedStep
<1>3. Counted => CountedIsFindable
  <2> SUFFICES ASSUME Counted, AtRest, NEW d \in Docs, Searchable(d), proj[d] = "current"
               PROVE  fts[d] > 0 /\ disk[d] > 0
    BY DEF CountedIsFindable
  <2>1. thread[Maintainer].at = "idle"
    BY DEF AtRest, Resting, At
  <2> QED
    BY <2>1 DEF Counted, Safe, Working, InHand, Making
<1> QED
  BY <1>1, <1>2, <1>3, PTL DEF Spec

\* Either way - clients but no promotion, crash or exception, or crashes but no client -
\* an undisturbed scan leaves every latest live document with chunks findable and counted
\* (docs/obiwan.md:104-105), unless its index row waits or has failed for good.
THEOREM ScansRepair ==
  ASSUME Calm \/ ByItself
  PROVE  Spec => ScanRepairs
<1>1. Spec => []CountedIsFindable
  BY CountedCanBeFound, CountedThroughCrashes
<1> QED
  BY <1>1, RepairsIfCounted, PTL

===============================================================================
