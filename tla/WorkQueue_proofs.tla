--------------------------- MODULE WorkQueue_proofs ---------------------------
(***************************************************************************)
(* What WorkQueue's runs check on a small instance, proved for any set of  *)
(* documents, any attempt limit and any lease.                             *)
(***************************************************************************)
EXTENDS WorkQueue, TLAPS

USE DocsAssumption, AttemptsAssumption, TimeAssumption, PowerAssumption

Busy == {"process", "index", "complete", "fail"}

\* The row in hand is leased to this request, and the lease is in the future.
HoldsClaim ==
  job.step \in Busy =>
    /\ job.item \in Items /\ job.item \in job.tried
    /\ work[job.item].state = "leased" /\ work[job.item].lease > 0

\* Rows are only added or reset before the drain has claimed any.
NothingTriedYet == job.step = "register" => job.tried = {}

\* What is, or is about to be, in the projection has its chunks in the record.
ChunksFirst ==
  /\ current \cup inflight \cup job.todo \subseteq chunked
  /\ job.step = "index" => Target \in chunked

\* The version out of coverage failed for good: its extraction never runs again.
ExcludedFailed ==
  \A d \in excluded :
    d \in Sources \ chunked /\ work[<<"extract", d>>].state = "failed"

IInv ==
  /\ TypeOK
  /\ IndexHasChunks
  /\ GivesUpExactly
  /\ HoldsClaim
  /\ NoTightLoop
  /\ NothingTriedYet
  /\ ChunksFirst
  /\ ExcludedFailed

-----------------------------------------------------------------------------

\* A failed attempt is never due at once: its wait is a positive number.
LEMMA BackoffPositive ==
  ASSUME NEW n \in 1 .. MaxAttempts
  PROVE  Backoff(n) \in Nat \ {0}
<1> DEFINE S == {2 ^ n, MaxBackoff}
<1>1. S \subseteq Nat \ {0}
  OBVIOUS
<1>2. \E m \in S : \A k \in S : m <= k
  <2>1. CASE 2 ^ n <= MaxBackoff
    BY <1>1, <2>1
  <2>2. CASE MaxBackoff <= 2 ^ n
    BY <1>1, <2>2
  <2> QED
    BY <1>1, <2>1, <2>2
<1>3. Least(S) \in S
  BY <1>2 DEF Least
<1> QED
  BY <1>1, <1>3 DEF Backoff

\* The row a failed attempt leaves behind.
LEMMA FailedRow ==
  ASSUME NEW row \in RowType, row.attempts < MaxAttempts
  PROVE  /\ Failed(row) \in RowType
         /\ Failed(row).state \in {"failed", "pending"}
         /\ Failed(row).wait > 0
         /\ Failed(row).state = "failed" => Failed(row).attempts = MaxAttempts
         /\ Failed(row).state = "pending" => Failed(row).attempts < MaxAttempts
<1>1. row.attempts + 1 \in 1 .. MaxAttempts
  BY DEF RowType
<1>2. Backoff(row.attempts + 1) \in Nat \ {0}
  BY <1>1, BackoffPositive
<1> QED
  BY <1>1, <1>2 DEF Failed, Row, RowType, States

-----------------------------------------------------------------------------

LEMMA Initially == Init => IInv
<1> SUFFICES ASSUME Init PROVE IInv
  OBVIOUS
<1>1. NoRow \in RowType /\ NoRow.state = "none"
  BY DEF NoRow, Row, RowType, States
<1>2. TypeOK
  BY <1>1 DEF Init, TypeOK, Idle, At, Steps
<1>3. \A i \in Items : work[i].state = "none"
  BY <1>1 DEF Init
<1>4. IndexHasChunks
  BY <1>3 DEF IndexHasChunks, Items
<1>5. GivesUpExactly
  BY <1>3 DEF GivesUpExactly
<1> QED
  BY <1>2, <1>4, <1>5 DEF Init, IInv, HoldsClaim, NoTightLoop, NothingTriedYet,
     ChunksFirst, ExcludedFailed, Busy, Idle, At

\* Time going by leaves every row what it was, but for its waits.
LEMMA ScanStep ==
  ASSUME IInv, NEW gap \in 0 .. MaxGap, StartScan(gap)
  PROVE  IInv'
<1>1. \A wait \in Nat : Shorter(wait, gap) \in Nat
  BY DEF Shorter
<1>2. \A i \in Items :
        /\ work'[i] \in RowType
        /\ work'[i].state = work[i].state
        /\ work'[i].attempts = work[i].attempts
  BY <1>1 DEF IInv, TypeOK, RowType, StartScan
<1>3. work' \in [Items -> RowType]
  BY <1>2 DEF StartScan
<1>4. TypeOK'
  BY <1>3 DEF IInv, TypeOK, StartScan, At, Steps, record
<1>5. IndexHasChunks'
  BY <1>2 DEF IInv, IndexHasChunks, Items, StartScan, record
<1>6. GivesUpExactly'
  BY <1>2 DEF IInv, GivesUpExactly
<1>7. ExcludedFailed'
  BY <1>2 DEF IInv, ExcludedFailed, TypeOK, Items, StartScan, record, Docs
<1> QED
  BY <1>4, <1>5, <1>6, <1>7 DEF IInv, StartScan, HoldsClaim, NoTightLoop,
     NothingTriedYet, ChunksFirst, Busy, At, record

LEMMA EnqueueStep ==
  ASSUME IInv, NEW d \in Sources, Enqueue(d)
  PROVE  IInv'
<1> DEFINE new == <<"extract", d>>
<1>1. new \in Items
  BY DEF Items, Docs
<1>2. Due \in RowType /\ Due.state = "pending" /\ Due.attempts = 0
  BY DEF Due, Row, RowType, States
<1>3. work' = [work EXCEPT ![new] = Due] /\ work \in [Items -> RowType]
  BY DEF Enqueue, IInv, TypeOK
<1>4. work'[new] = Due /\ \A i \in Items \ {new} : work'[i] = work[i]
  BY <1>1, <1>3
<1>5. TypeOK'
  BY <1>2, <1>3 DEF IInv, TypeOK, Enqueue, record
<1>6. IndexHasChunks'
  BY <1>4 DEF IInv, IndexHasChunks, Items, Enqueue, record
<1>7. GivesUpExactly'
  BY <1>2, <1>4 DEF IInv, GivesUpExactly
<1>8. ExcludedFailed'
  BY <1>4 DEF IInv, ExcludedFailed, TypeOK, Items, Docs, Enqueue, record
<1> QED
  BY <1>5, <1>6, <1>7, <1>8 DEF IInv, Enqueue, HoldsClaim, NoTightLoop,
     NothingTriedYet, ChunksFirst, Busy, record

\* The sweep only adds, or resets, index rows of documents that have chunks.
LEMMA SweepStep ==
  ASSUME IInv, Sweep
  PROVE  IInv'
<1>1. Due \in RowType /\ Due.state = "pending" /\ Due.attempts = 0
  BY DEF Due, Row, RowType, States
<1>2. \A i \in Items :
        \/ work'[i] = work[i]
        \/ work'[i] = Due /\ i[1] = "index" /\ i[2] \in chunked
  BY DEF Sweep, Requeue, NeedingIndex, IInv, TypeOK
<1>3. work' \in [Items -> RowType]
  BY <1>1, <1>2 DEF Sweep, IInv, TypeOK
<1>4. TypeOK'
  BY <1>3 DEF IInv, TypeOK, Sweep, Goto, Steps, record
<1>5. IndexHasChunks'
  BY <1>2 DEF IInv, IndexHasChunks, Items, Sweep, record
<1>6. GivesUpExactly'
  BY <1>1, <1>2 DEF IInv, GivesUpExactly
<1>7. ExcludedFailed'
  BY <1>2 DEF IInv, ExcludedFailed, TypeOK, Items, Docs, Sweep, record
<1>8. job' = [job EXCEPT !.step = "drain"] /\ job.tried = {}
  BY DEF Sweep, Goto, IInv, NothingTriedYet
<1> QED
  BY <1>4, <1>5, <1>6, <1>7, <1>8 DEF IInv, TypeOK, Sweep, HoldsClaim, NoTightLoop,
     NothingTriedYet, ChunksFirst, Busy, record

LEMMA ClaimStep ==
  ASSUME IInv, NEW i \in Items, Claim(i)
  PROVE  IInv'
<1>1. work[i].state \in {"pending", "leased"} /\ work[i] \in RowType
  BY DEF Claim, Claimable, IInv, TypeOK
<1>2. /\ work'[i] = [work[i] EXCEPT !.state = "leased", !.lease = LeaseTime]
      /\ \A j \in Items \ {i} : work'[j] = work[j]
      /\ work' \in [Items -> RowType]
  BY <1>1 DEF Claim, IInv, TypeOK, RowType, States
<1>3. /\ work'[i].state = "leased" /\ work'[i].lease = LeaseTime
      /\ work'[i].attempts = work[i].attempts
  BY <1>1, <1>2 DEF RowType
<1>4. /\ job'.step = "process" /\ job'.item = i
      /\ job'.tried = job.tried \cup {i} /\ job'.todo = job.todo
      /\ TypeOK'
  BY <1>2 DEF Claim, IInv, TypeOK, Steps, record
<1>5. IndexHasChunks'
  BY <1>1, <1>2 DEF IInv, IndexHasChunks, Items, Claim, record
<1>6. GivesUpExactly'
  BY <1>1, <1>2, <1>3 DEF IInv, GivesUpExactly
<1>7. HoldsClaim'
  BY <1>3, <1>4 DEF HoldsClaim
<1>8. NoTightLoop'
  BY <1>2, <1>3, <1>4 DEF IInv, TypeOK, NoTightLoop, Claimable
<1>9. ExcludedFailed'
  BY <1>1, <1>2 DEF IInv, ExcludedFailed, TypeOK, Items, Docs, Claim, record
<1> QED
  BY <1>4, <1>5, <1>6, <1>7, <1>8, <1>9 DEF IInv, NothingTriedYet, ChunksFirst,
     Claim, record

\* Settling the row in hand, as done or as failed, gives the claim back.
LEMMA SettleStep ==
  ASSUME IInv, job.step \in {"complete", "fail"},
         NEW row \in RowType,
         row.state \in {"done", "failed", "pending"},
         row.state = "failed" => row.attempts = MaxAttempts,
         row.state = "pending" => row.attempts < MaxAttempts /\ row.wait > 0,
         work' = [work EXCEPT ![job.item] = row],
         job' = [job EXCEPT !.step = "drain", !.item = NoItem],
         UNCHANGED <<record, reachable, crashes>>
  PROVE  IInv'
<1> DEFINE mine == job.item
<1>1. mine \in Items /\ mine \in job.tried /\ work[mine].state = "leased"
  BY DEF IInv, HoldsClaim, Busy
<1>2. /\ work'[mine] = row
      /\ \A j \in Items \ {mine} : work'[j] = work[j]
      /\ work' \in [Items -> RowType]
  BY <1>1 DEF IInv, TypeOK
<1>3. /\ job'.step = "drain" /\ job'.tried = job.tried /\ job'.todo = job.todo
      /\ TypeOK'
  BY <1>2 DEF IInv, TypeOK, Steps, record
<1>4. IndexHasChunks'
  BY <1>1, <1>2 DEF IInv, IndexHasChunks, Items, record
<1>5. GivesUpExactly'
  BY <1>2 DEF IInv, GivesUpExactly
<1>6. NoTightLoop'
  BY <1>2, <1>3 DEF IInv, TypeOK, NoTightLoop, Claimable
<1>7. ExcludedFailed'
  BY <1>1, <1>2 DEF IInv, ExcludedFailed, TypeOK, Items, Docs, record
<1> QED
  BY <1>3, <1>4, <1>5, <1>6, <1>7 DEF IInv, HoldsClaim, Busy, NothingTriedYet,
     ChunksFirst, record

LEMMA CompleteStep ==
  ASSUME IInv, Complete
  PROVE  IInv'
<1> DEFINE row == Completed(work[job.item])
<1>1. job.item \in Items /\ work[job.item] \in RowType
  BY DEF IInv, TypeOK, HoldsClaim, Busy, Complete
<1>2. row \in RowType /\ row.state = "done"
  BY <1>1 DEF Completed, RowType, States
<1>3. work' = [work EXCEPT ![job.item] = row]
  BY DEF Complete
<1> HIDE DEF row
<1> QED
  BY <1>2, <1>3, SettleStep DEF Complete

LEMMA FailStep ==
  ASSUME IInv, Fail
  PROVE  IInv'
<1> DEFINE row == Failed(work[job.item])
<1>1. /\ job.item \in Items /\ work[job.item] \in RowType
      /\ work[job.item].attempts < MaxAttempts
  BY DEF IInv, TypeOK, HoldsClaim, GivesUpExactly, Busy, Fail
<1>2. work' = [work EXCEPT ![job.item] = row]
  BY DEF Fail
<1> HIDE DEF row
<1>3. /\ row \in RowType /\ row.state \in {"failed", "pending"} /\ row.wait > 0
      /\ row.state = "failed" => row.attempts = MaxAttempts
      /\ row.state = "pending" => row.attempts < MaxAttempts
  BY <1>1, FailedRow DEF row
<1> QED
  BY <1>2, <1>3, SettleStep DEF Fail

\* The steps of a request that leave the work table alone and claim nothing.
LEMMA MoveStep ==
  ASSUME IInv,
         EndDrain \/ ReuseChunks \/ ExtractRaises \/ IndexRaises
  PROVE  IInv'
<1>1. work' = work /\ UNCHANGED <<record, reachable, crashes>>
  BY DEF EndDrain, ReuseChunks, ExtractRaises, IndexRaises
<1>2. \/ job' = Idle
      \/ /\ job' = [job EXCEPT !.step = job'.step]
         /\ job'.step \in Steps
         /\ job'.step \in Busy => job.step \in Busy
         /\ job'.step # "register"
         /\ job'.step = "index" => Target \in chunked
  BY DEF EndDrain, ReuseChunks, ExtractRaises, IndexRaises, Goto, Busy, Steps,
     IInv, TypeOK
<1>3. CASE job' = Idle
  BY <1>1, <1>3 DEF IInv, TypeOK, IndexHasChunks, GivesUpExactly, HoldsClaim,
     NoTightLoop, Claimable, NothingTriedYet, ChunksFirst, ExcludedFailed, Busy,
     Idle, At, Steps, record
<1>4. CASE job' # Idle
  <2>1. /\ job'.item = job.item /\ job'.tried = job.tried /\ job'.todo = job.todo
        /\ TypeOK'
    BY <1>1, <1>2, <1>4 DEF IInv, TypeOK, record
  <2>2. IndexHasChunks' /\ GivesUpExactly' /\ ExcludedFailed'
    BY <1>1 DEF IInv, IndexHasChunks, GivesUpExactly, ExcludedFailed, record
  <2>3. HoldsClaim' /\ NothingTriedYet'
    BY <1>1, <1>2, <1>4, <2>1 DEF IInv, HoldsClaim, NothingTriedYet
  <2>4. NoTightLoop'
    BY <1>1, <2>1 DEF IInv, NoTightLoop, Claimable
  <2>5. ChunksFirst'
    BY <1>1, <1>2, <1>4, <2>1 DEF IInv, ChunksFirst, Target, record
  <2> QED
    BY <2>1, <2>2, <2>3, <2>4, <2>5 DEF IInv
<1> QED
  BY <1>3, <1>4

\* An excluded version is never extracted: its extract row is failed, not in
\* hand, and an index row is only in hand for a document that has chunks.
LEMMA ExtractStep ==
  ASSUME IInv, Extract
  PROVE  IInv'
<1>1. /\ job.item \in Items /\ work[job.item].state = "leased"
      /\ job.step = "process" /\ Target \notin chunked
  BY DEF Extract, IInv, HoldsClaim, Busy
<1>2. Target \in Docs /\ job.item = <<job.item[1], Target>>
  BY <1>1 DEF Items, Target
<1>3. job.item[1] = "extract"
  BY <1>1, <1>2 DEF IInv, IndexHasChunks, Items
<1>4. Target \notin excluded
  BY <1>1, <1>2, <1>3 DEF IInv, ExcludedFailed
<1>5. /\ job' = [job EXCEPT !.step = "index"]
      /\ job'.step = "index" /\ job'.item = job.item
      /\ job'.tried = job.tried /\ job'.todo = job.todo
  BY DEF Extract, Goto, IInv, TypeOK
<1>6. TypeOK'
  BY <1>2, <1>5 DEF Extract, IInv, TypeOK, Steps
<1>7. ExcludedFailed'
  BY <1>4 DEF Extract, IInv, ExcludedFailed
<1>8. HoldsClaim' /\ NoTightLoop' /\ NothingTriedYet'
  BY <1>1, <1>5 DEF Extract, IInv, HoldsClaim, NoTightLoop, Claimable,
     NothingTriedYet, Busy
<1>9. ChunksFirst'
  BY <1>5 DEF Extract, IInv, ChunksFirst, Target
<1> QED
  BY <1>6, <1>7, <1>8, <1>9 DEF Extract, IInv, IndexHasChunks, GivesUpExactly

LEMMA IndexStep ==
  ASSUME IInv, Index
  PROVE  IInv'
<1>1. job.step = "index" /\ Target \in chunked
  BY DEF Index, IInv, ChunksFirst
<1>2. current' \subseteq current \cup {Target}
  BY DEF Index, IndexDocument
<1>3. /\ job'.step = "complete" /\ job'.item = job.item
      /\ job'.tried = job.tried /\ job'.todo = job.todo
      /\ TypeOK'
  BY <1>1, <1>2 DEF Index, Goto, IInv, TypeOK, Steps
<1>4. HoldsClaim' /\ NoTightLoop' /\ NothingTriedYet'
  BY <1>1, <1>3 DEF Index, IInv, HoldsClaim, NoTightLoop, Claimable,
     NothingTriedYet, Busy
<1>5. ChunksFirst'
  BY <1>1, <1>2, <1>3 DEF Index, IInv, ChunksFirst
<1> QED
  BY <1>3, <1>4, <1>5 DEF Index, IInv, IndexHasChunks, GivesUpExactly,
     ExcludedFailed

LEMMA StartReindexStep ==
  ASSUME IInv, StartReindex
  PROVE  IInv'
<1>1. /\ job'.step = "rebuild" /\ job'.tried = {} /\ job'.todo = chunked \ retired
      /\ TypeOK'
  BY DEF StartReindex, At, IInv, TypeOK, Steps
<1> QED
  BY <1>1 DEF StartReindex, IInv, IndexHasChunks, GivesUpExactly, HoldsClaim,
     NoTightLoop, NothingTriedYet, ChunksFirst, ExcludedFailed, Busy

LEMMA RebuildStep ==
  ASSUME IInv, NEW d \in Docs, RebuildDocument(d)
  PROVE  IInv'
<1>1. /\ job'.step = "rebuild" /\ job'.item = job.item
      /\ job'.tried = job.tried /\ job'.todo \subseteq job.todo
      /\ d \in chunked
      /\ TypeOK'
  BY DEF RebuildDocument, IndexDocument, IInv, TypeOK, ChunksFirst, Steps
<1>2. ChunksFirst'
  BY <1>1 DEF RebuildDocument, IndexDocument, IInv, ChunksFirst
<1> QED
  BY <1>1, <1>2 DEF RebuildDocument, IInv, IndexHasChunks, GivesUpExactly,
     HoldsClaim, NoTightLoop, Claimable, NothingTriedYet, ExcludedFailed, Busy

\* A document with a failed index row has chunks: it may be looked at.
LEMMA EndRebuildStep ==
  ASSUME IInv, EndRebuild
  PROVE  IInv'
<1>1. FailedIndexTargets \subseteq chunked
  BY DEF FailedIndexTargets, IInv, IndexHasChunks
<1>2. FailedIndexTargets \subseteq Docs
  BY DEF FailedIndexTargets
<1>3. /\ job'.step = "check" /\ job'.tried = job.tried /\ job'.item = job.item
      /\ job'.todo = FailedIndexTargets
      /\ TypeOK'
  BY <1>2 DEF EndRebuild, IInv, TypeOK, Steps, record
<1> QED
  BY <1>1, <1>3 DEF EndRebuild, IInv, IndexHasChunks, GivesUpExactly, HoldsClaim,
     NoTightLoop, Claimable, NothingTriedYet, ChunksFirst, ExcludedFailed, Busy, record

LEMMA CheckStep ==
  ASSUME IInv, NEW d \in Docs, CheckFailed(d)
  PROVE  IInv'
<1>1. /\ job'.step = "check" /\ job'.tried = job.tried /\ job'.item = job.item
      /\ job'.todo \subseteq job.todo
      /\ TypeOK'
  BY DEF CheckFailed, IInv, TypeOK, Steps, record
<1> QED
  BY <1>1 DEF CheckFailed, IInv, IndexHasChunks, GivesUpExactly, HoldsClaim,
     NoTightLoop, Claimable, NothingTriedYet, ChunksFirst, ExcludedFailed, Busy, record

LEMMA ClearStep ==
  ASSUME IInv, ClearFailed
  PROVE  IInv'
<1>1. \A i \in Items :
        \/ work'[i] = work[i]
        \/ /\ work'[i] = [work[i] EXCEPT !.state = "done"]
           /\ i[1] = "index" /\ work[i].state = "failed"
  BY DEF ClearFailed, Cleared
<1>2. ASSUME NEW i \in Items
      PROVE  /\ work'[i] \in RowType
             /\ work'[i].state # work[i].state =>
                  /\ work'[i].state = "done"
                  /\ work[i].state = "failed" /\ i[1] = "index"
             /\ work'[i].attempts = work[i].attempts
  <2>1. work[i] \in RowType
    BY DEF IInv, TypeOK
  <2>2. CASE work'[i] = work[i]
    BY <2>1, <2>2
  <2>3. CASE /\ work'[i] = [work[i] EXCEPT !.state = "done"]
             /\ i[1] = "index" /\ work[i].state = "failed"
    BY <2>1, <2>3 DEF RowType, States
  <2> QED
    BY <1>1, <2>2, <2>3
<1>3. work' \in [Items -> RowType]
  BY <1>2 DEF ClearFailed
<1>4. TypeOK'
  BY <1>3 DEF IInv, TypeOK, ClearFailed, Idle, At, Steps, record
<1>5. IndexHasChunks'
  BY <1>2 DEF IInv, IndexHasChunks, Items, ClearFailed, record
<1>6. GivesUpExactly'
  BY <1>2 DEF IInv, GivesUpExactly
<1>7. ExcludedFailed'
  BY <1>2 DEF IInv, ExcludedFailed, TypeOK, Items, Docs, ClearFailed, record
<1> QED
  BY <1>4, <1>5, <1>6, <1>7 DEF IInv, ClearFailed, HoldsClaim, NoTightLoop,
     NothingTriedYet, ChunksFirst, Busy, Idle, At, record

\* Whatever happens outside a maintenance request leaves work and job alone.
LEMMA OutsideStep ==
  ASSUME IInv, UNCHANGED <<work, job, crashes>>,
         \/ \E d \in Sources : Exclude(d)
         \/ \E d \in Texts : Store(d) \/ StoreIndexes(d) \/ Displace(d)
         \/ \E d \in Docs : Retire(d)
         \/ MountOrUnmount
  PROVE  IInv'
<1>1. /\ chunked \subseteq chunked'
      /\ chunked' \subseteq chunked \cup Texts
      /\ current' \cup inflight' \subseteq current \cup inflight \cup (chunked' \cap Texts)
      /\ retired' \subseteq Docs /\ inflight' \subseteq Texts
      /\ reachable' \in BOOLEAN
  BY DEF Exclude, Store, StoreIndexes, Displace, Retire, MountOrUnmount,
     IndexDocument, record, IInv, TypeOK, Docs
<1>2. \A d \in excluded' \ excluded :
        d \in Sources \ chunked /\ work[<<"extract", d>>].state = "failed"
  BY DEF Exclude, Store, StoreIndexes, Displace, Retire, MountOrUnmount, record
<1>3. TypeOK'
  BY <1>1, <1>2 DEF IInv, TypeOK, Docs
<1>4. ChunksFirst'
  BY <1>1 DEF IInv, ChunksFirst, Target
<1>5. ExcludedFailed'
  BY <1>1, <1>2 DEF IInv, ExcludedFailed
<1> QED
  BY <1>1, <1>3, <1>4, <1>5 DEF IInv, IndexHasChunks, GivesUpExactly, HoldsClaim,
     NoTightLoop, Claimable, NothingTriedYet

\* A crash forgets the request and leaves its row leased: nothing is repaired.
LEMMA CrashStep ==
  ASSUME IInv, Crash
  PROVE  IInv'
<1>1. TypeOK'
  BY DEF Crash, IInv, TypeOK, Idle, At, Steps
<1> QED
  BY <1>1 DEF Crash, IInv, IndexHasChunks, GivesUpExactly, HoldsClaim, NoTightLoop,
     NothingTriedYet, ChunksFirst, ExcludedFailed, Busy, Idle, At

-----------------------------------------------------------------------------

LEMMA Inductive == IInv /\ [Next]_vars => IInv'
<1> SUFFICES ASSUME IInv, [Next]_vars PROVE IInv'
  OBVIOUS
<1>1. ASSUME NEW gap \in 0 .. MaxGap, StartScan(gap) PROVE IInv'
  BY <1>1, ScanStep
<1>2. CASE StartReindex
  BY <1>2, StartReindexStep
<1>3. CASE Request
  <2>1. CASE Sweep
    BY <2>1, SweepStep
  <2>2. ASSUME NEW i \in Items, Claim(i) PROVE IInv'
    BY <2>2, ClaimStep
  <2>3. CASE Extract
    BY <2>3, ExtractStep
  <2>4. CASE Index
    BY <2>4, IndexStep
  <2>5. CASE Complete
    BY <2>5, CompleteStep
  <2>6. CASE Fail
    BY <2>6, FailStep
  <2>7. ASSUME NEW d \in Docs, RebuildDocument(d) PROVE IInv'
    BY <2>7, RebuildStep
  <2>8. CASE EndRebuild
    BY <2>8, EndRebuildStep
  <2>9. ASSUME NEW d \in Docs, CheckFailed(d) PROVE IInv'
    BY <2>9, CheckStep
  <2>10. CASE ClearFailed
    BY <2>10, ClearStep
  <2> QED
    BY <1>3, <2>1, <2>2, <2>3, <2>4, <2>5, <2>6, <2>7, <2>8, <2>9, <2>10, MoveStep
    DEF Request
<1>4. ASSUME NEW d \in Sources, Enqueue(d) PROVE IInv'
  BY <1>4, EnqueueStep
<1>5. CASE Crash
  BY <1>5, CrashStep
<1>6. CASE \/ \E d \in Sources : Exclude(d)
           \/ \E d \in Texts : Store(d) \/ StoreIndexes(d) \/ Displace(d)
           \/ \E d \in Docs : Retire(d)
           \/ MountOrUnmount
  <2>1. UNCHANGED <<work, job, crashes>>
    BY <1>6 DEF Exclude, Store, StoreIndexes, Displace, Retire, MountOrUnmount
  <2> QED
    BY <1>6, <2>1, OutsideStep
<1>7. CASE UNCHANGED vars
  BY <1>7 DEF vars, record, IInv, TypeOK, IndexHasChunks, GivesUpExactly,
     HoldsClaim, NoTightLoop, Claimable, NothingTriedYet, ChunksFirst,
     ExcludedFailed, Target
<1> QED
  BY <1>1, <1>2, <1>3, <1>4, <1>5, <1>6, <1>7 DEF Next, Others

LEMMA Invariance == Spec => []IInv
<1> QED
  BY Initially, Inductive, PTL DEF Spec

\* The work table and the request at work on it are always well formed.
THEOREM TypeCorrect == Spec => []TypeOK
<1>1. IInv => TypeOK
  BY DEF IInv
<1> QED
  BY <1>1, Invariance, PTL

\* Index work is only ever asked for documents that have chunks.
THEOREM IndexWorkHasChunks == Spec => []IndexHasChunks
<1>1. IInv => IndexHasChunks
  BY DEF IInv
<1> QED
  BY <1>1, Invariance, PTL

\* One drain claims a row at most once: what it claimed stays unclaimable for
\* the rest of the drain, whether it was completed, failed or is in hand.
THEOREM DrainTerminates == Spec => []NoTightLoop
<1>1. IInv => NoTightLoop
  BY DEF IInv
<1> QED
  BY <1>1, Invariance, PTL

\* Exactly MaxAttempts counted failures end a row, through any crashes.
THEOREM AttemptsExact == Spec => []GivesUpExactly
<1>1. IInv => GivesUpExactly
  BY DEF IInv
<1> QED
  BY <1>1, Invariance, PTL

\* A version taken out of coverage never has chunks and is never searchable.
THEOREM ExclusionHolds == Spec => []ExcludedNeverIndexed
<1>1. IInv => ExcludedNeverIndexed
  BY DEF IInv, ExcludedFailed, ChunksFirst, ExcludedNeverIndexed
<1> QED
  BY <1>1, Invariance, PTL

-----------------------------------------------------------------------------

\* A reindex settles what it has seen searchable: a listed document needed indexing
\* at the time of that reading, was searchable then, or is retired, and stays so.
Looked ==
  /\ job.step = "check" => job.todo \subseteq job.needing \cup job.seen \cup retired
  /\ job.step # "check" => job.settled = {}
  /\ job.settled \subseteq job.seen

LEMMA LookedStep ==
  ASSUME IInv, Looked, [Next]_vars
  PROVE  Looked'
<1> USE DEF Looked
<1>1. job \in [step : Steps, item : Items \cup {NoItem}, tried : SUBSET Items,
              todo : SUBSET Docs, needing : SUBSET Docs, settled : SUBSET Docs,
              seen : SUBSET Docs]
  BY DEF IInv, TypeOK
<1>2. retired \subseteq retired'
  BY DEF Next, Request, Others, StartScan, StartReindex, Sweep, EndDrain, Claim,
     ReuseChunks, Extract, ExtractRaises, Index, IndexRaises, Complete, Fail,
     RebuildDocument, EndRebuild, CheckFailed, ClearFailed, Enqueue, Exclude, Store,
     StoreIndexes, Displace, Retire, MountOrUnmount, Crash, vars, record
<1>3. CASE EndRebuild
  <2>1. \A d \in FailedIndexTargets : d \in Docs /\ d \in chunked
    BY DEF FailedIndexTargets, IInv, IndexHasChunks
  <2> QED
    BY <1>1, <1>3, <2>1 DEF EndRebuild, NeedingIndex, record
<1>4. ASSUME NEW d \in Docs, CheckFailed(d) PROVE Looked'
  BY <1>1, <1>4 DEF CheckFailed, Settleable, record
<1>5. CASE job' = Idle \/ (\E step \in Steps : job' = At(step))
  BY <1>5 DEF Idle, At
<1>6. CASE StartReindex
  BY <1>6 DEF StartReindex, At
<1>7. CASE UNCHANGED job
  BY <1>2, <1>7
<1>8. CASE /\ job.step # "check" /\ job'.step # "check"
           /\ job'.settled = job.settled /\ job'.seen = job.seen
  BY <1>8
<1>9. ASSUME NEW gap \in 0 .. MaxGap, StartScan(gap) PROVE Looked'
  BY <1>5, <1>9 DEF StartScan, Steps
<1>10. CASE EndDrain \/ ClearFailed \/ Crash
  BY <1>5, <1>10 DEF EndDrain, ClearFailed, Crash
<1>11. CASE \/ Sweep \/ ReuseChunks \/ Extract \/ ExtractRaises \/ Index
            \/ IndexRaises \/ Complete \/ Fail
            \/ \E i \in Items : Claim(i)
            \/ \E d \in Docs : RebuildDocument(d)
  <2>1. /\ job.step # "check" /\ job'.step # "check"
        /\ job'.settled = job.settled /\ job'.seen = job.seen
    BY <1>1, <1>11 DEF Sweep, ReuseChunks, Extract, ExtractRaises, Index, IndexRaises,
       Complete, Fail, Claim, RebuildDocument, Goto
  <2> QED
    BY <1>8, <2>1
<1>12. CASE \/ \E d \in Sources : Enqueue(d) \/ Exclude(d)
            \/ \E d \in Texts : Store(d) \/ StoreIndexes(d) \/ Displace(d)
            \/ \E d \in Docs : Retire(d)
            \/ MountOrUnmount
  <2>1. UNCHANGED job
    BY <1>12 DEF Enqueue, Exclude, Store, StoreIndexes, Displace, Retire, MountOrUnmount
  <2> QED
    BY <1>7, <2>1
<1>13. CASE UNCHANGED vars
  BY <1>7, <1>13 DEF vars
<1> QED
  BY <1>3, <1>4, <1>6, <1>9, <1>10, <1>11, <1>12, <1>13 DEF Next, Request, Others

LEMMA AlwaysLooked == Spec => []Looked
<1>1. Init => Looked
  BY DEF Init, Looked, Idle, At
<1>2. IInv /\ Looked /\ [Next]_vars => Looked'
  BY LookedStep
<1> QED
  BY <1>1, <1>2, Invariance, PTL DEF Spec

\* What one step may do to one row, whichever step it is.
RowStep(i) ==
  \/ work'[i].state = work[i].state
  \/ work[i].state \in {"none", "pending", "leased", "done"}
  \/ /\ work[i].state = "failed" /\ work'[i].state = "done" /\ job.step = "check"
     /\ i[1] = "index" /\ i[2] \in job.seen

LEMMA RowsStep ==
  ASSUME IInv, Looked, Next, NEW i \in Items
  PROVE  RowStep(i)
<1>1. work[i] \in RowType /\ work[i].state \in States
  BY DEF IInv, TypeOK, RowType
<1>2. CASE work'[i] = work[i] \/ work[i].state # "failed"
  BY <1>1, <1>2 DEF RowStep, States
<1>3. CASE work[i].state = "failed" /\ work'[i] # work[i]
  <2>1. ASSUME NEW gap \in 0 .. MaxGap, StartScan(gap) PROVE RowStep(i)
    <3>1. work'[i] = [work[i] EXCEPT !.wait = Shorter(@, gap),
                                     !.lease = Shorter(@, gap)]
      BY <2>1 DEF StartScan
    <3> QED
      BY <1>1, <3>1 DEF RowType, RowStep
  <2>2. CASE ClearFailed
    <3>1. Cleared(i) /\ work'[i] = [work[i] EXCEPT !.state = "done"]
      BY <1>3, <2>2 DEF ClearFailed
    <3> QED
      BY <1>1, <1>3, <2>2, <3>1 DEF RowType, RowStep, ClearFailed, Cleared, Looked
  <2>3. ASSUME NEW j \in Items, Claim(j) PROVE FALSE
    BY <1>3, <2>3 DEF Claim, Claimable, IInv, TypeOK
  <2>4. CASE Complete \/ Fail
    BY <1>3, <2>4 DEF Complete, Fail, IInv, TypeOK, HoldsClaim, Busy
  <2>5. CASE Sweep
    BY <1>3, <2>5 DEF Sweep, Requeue
  <2>6. ASSUME NEW d \in Sources, Enqueue(d) PROVE FALSE
    BY <1>3, <2>6 DEF Enqueue, IInv, TypeOK
  <2> QED
    BY <1>3, <2>1, <2>2, <2>3, <2>4, <2>5, <2>6
    DEF Next, Request, Others, StartReindex, EndDrain, ReuseChunks, Extract,
        ExtractRaises, Index, IndexRaises, RebuildDocument, EndRebuild, CheckFailed,
        Exclude, Store, StoreIndexes, Displace, Retire, MountOrUnmount, Crash
<1> QED
  BY <1>2, <1>3

\* A terminal failure stays on show until a /reindex has rebuilt the index and
\* then found its document searchable: no scan, sweep, drain or crash takes it away,
\* whatever other requests do between that look and the settling.
THEOREM FailuresStayVisible == Spec => SettledOnlyWhenCurrent
<1>1. IInv /\ Looked /\ [Next]_vars =>
        [\A i \in Items : work[i].state = "failed" /\ work'[i].state # "failed" =>
           /\ work'[i].state = "done" /\ job.step = "check"
           /\ i[1] = "index" /\ i[2] \in job.seen]_vars
  BY RowsStep DEF RowStep
<1> QED
  BY <1>1, Invariance, AlwaysLooked, PTL DEF Spec, SettledOnlyWhenCurrent

-----------------------------------------------------------------------------
(***************************************************************************)
(* The queue implements the promise of DurableWork.                        *)
(***************************************************************************)

\* The ledger's entry for one row.
Posted(row) == [status |-> Status(row.state), tries |-> row.attempts]

LEMMA PromisedInit == Init => Promise!Init
<1>1. Status("none") = "none"
  BY DEF Status
<1> QED
  BY <1>1 DEF Init, Promise!Init, Promise!Entry, Ledger, NoRow, Row

\* Rows whose state and attempts do not change leave the ledger unchanged.
LEMMA Stutter ==
  ASSUME \A i \in Items : Posted(work'[i]) = Posted(work[i])
  PROVE  Ledger' = Ledger
BY DEF Ledger, Posted

\* New work is asked for: an open entry with no tries, where there was none.
LEMMA AskStep ==
  ASSUME NEW S \in SUBSET Items,
         \A i \in S : work[i].state \in {"none", "done"},
         \A i \in S : work'[i] = Due,
         \A i \in Items \ S : work'[i] = work[i]
  PROVE  Promise!Ask
<1>1. \A i \in S : i \in Promise!In({"none", "done"})
  BY DEF Promise!In, Ledger, Status
<1>2. Posted(Due) = Promise!Entry("open", 0)
  BY DEF Posted, Due, Row, Status, Promise!Entry
<1>3. Ledger' = [i \in Items |-> IF i \in S THEN Promise!Entry("open", 0)
                                ELSE Ledger[i]]
  BY <1>2 DEF Ledger, Posted
<1> QED
  BY <1>1, <1>3 DEF Promise!Ask

\* The row in hand is settled: an open entry is finished or an attempt counted.
LEMMA PostStep ==
  ASSUME IInv, job.step \in {"complete", "fail"},
         NEW row, work' = [work EXCEPT ![job.item] = row],
         \/ row = Completed(work[job.item])
         \/ row = Failed(work[job.item])
  PROVE  Promise!Finish \/ Promise!Attempt
<1> DEFINE mine == job.item
<1>1. /\ mine \in Items /\ work[mine] \in RowType /\ work[mine].state = "leased"
      /\ work[mine].attempts < MaxAttempts /\ work[mine].attempts \in Nat
  BY DEF IInv, TypeOK, HoldsClaim, Busy, GivesUpExactly, RowType
<1>2. mine \in Promise!In({"open"}) /\ Ledger[mine] = Posted(work[mine])
  BY <1>1 DEF Promise!In, Ledger, Status, Posted
<1>3. work'[mine] = row /\ \A i \in Items \ {mine} : work'[i] = work[i]
  BY <1>1 DEF IInv, TypeOK
<1>4. Ledger' = [Ledger EXCEPT ![mine] = Posted(row)]
  BY <1>1, <1>3 DEF Ledger, Posted
<1>5. CASE row = Completed(work[mine])
  <2>1. row.state = "done" /\ row.attempts = work[mine].attempts
    BY <1>1, <1>5 DEF Completed, RowType
  <2>2. Posted(row) = [Ledger[mine] EXCEPT !.status = "done"]
    BY <1>2, <2>1 DEF Posted, Status
  <2> QED
    BY <1>2, <1>4, <2>2 DEF Promise!Finish
<1>6. CASE row = Failed(work[mine])
  <2>1. /\ row.attempts = work[mine].attempts + 1
        /\ row.state = IF row.attempts = MaxAttempts THEN "failed" ELSE "pending"
    BY <1>1, <1>6 DEF Failed, Row
  <2>2. Ledger[mine].tries = work[mine].attempts
    BY <1>2 DEF Posted
  <2>3. Posted(row) = Promise!Entry(
          IF row.attempts = MaxAttempts THEN "failed" ELSE "open", row.attempts)
    BY <2>1 DEF Posted, Status, Promise!Entry
  <2> QED
    BY <1>2, <1>4, <2>1, <2>2, <2>3 DEF Promise!Attempt
<1> QED
  BY <1>5, <1>6

LEMMA PromisedStep == IInv /\ [Next]_vars => [Promise!Next]_Ledger
<1> SUFFICES ASSUME IInv, [Next]_vars PROVE Promise!Next \/ Ledger' = Ledger
  OBVIOUS
<1>1. \A i \in Items : work[i] \in RowType
  BY DEF IInv, TypeOK
<1>2. ASSUME NEW gap \in 0 .. MaxGap, StartScan(gap) PROVE Ledger' = Ledger
  <2>1. ASSUME NEW i \in Items PROVE Posted(work'[i]) = Posted(work[i])
    <3>1. work'[i] = [work[i] EXCEPT !.wait = Shorter(@, gap),
                                     !.lease = Shorter(@, gap)]
      BY <1>2 DEF StartScan
    <3> QED
      BY <1>1, <3>1 DEF RowType, Posted
  <2> QED
    BY <2>1, Stutter
<1>3. ASSUME NEW d \in Sources, Enqueue(d) PROVE Promise!Ask
  <2> DEFINE new == <<"extract", d>>
  <2>1. new \in Items /\ work[new].state = "none"
    BY <1>3 DEF Items, Docs, Enqueue
  <2>2. work'[new] = Due /\ \A i \in Items \ {new} : work'[i] = work[i]
    BY <1>3, <2>1 DEF Enqueue, IInv, TypeOK
  <2> QED
    BY <2>1, <2>2, AskStep
<1>4. CASE Sweep
  <2> DEFINE S == {i \in Items : /\ i[1] = "index" /\ i[2] \in NeedingIndex
                                 /\ work[i].state \in {"none", "done"}}
  <2>1. \A i \in S : work'[i] = Due
    BY <1>4 DEF Sweep, Requeue, IInv, TypeOK
  <2>2. \A i \in Items \ S : work'[i] = work[i]
    BY <1>4 DEF Sweep, Requeue, IInv, TypeOK
  <2> HIDE DEF S
  <2>3. S \in SUBSET Items /\ \A i \in S : work[i].state \in {"none", "done"}
    BY DEF S
  <2> QED
    BY <2>1, <2>2, <2>3, AskStep DEF Promise!Next
<1>5. ASSUME NEW i \in Items, Claim(i) PROVE Ledger' = Ledger
  <2>1. work[i].state \in {"pending", "leased"}
    BY <1>5 DEF Claim, Claimable
  <2>2. /\ work'[i].state = "leased" /\ work'[i].attempts = work[i].attempts
        /\ \A j \in Items \ {i} : work'[j] = work[j]
    BY <1>1, <1>5 DEF Claim, IInv, TypeOK, RowType
  <2>3. \A j \in Items : Posted(work'[j]) = Posted(work[j])
    BY <2>1, <2>2 DEF Posted, Status
  <2> QED
    BY <2>3, Stutter
<1>6. CASE Complete
  BY <1>6, PostStep DEF Complete, Promise!Next
<1>7. CASE Fail
  BY <1>7, PostStep DEF Fail, Promise!Next
<1>8. CASE ClearFailed
  <2> DEFINE S == {i \in Items : Cleared(i)}
  <2>1. ASSUME NEW i \in S PROVE Posted(work'[i]) = [Ledger[i] EXCEPT !.status = "done"]
    <3>1. work'[i] = [work[i] EXCEPT !.state = "done"]
      BY <1>8 DEF ClearFailed
    <3>2. work'[i].state = "done" /\ work'[i].attempts = work[i].attempts
      BY <1>1, <3>1 DEF RowType
    <3> QED
      BY <3>2 DEF Posted, Status, Ledger
  <2>2. \A i \in Items \ S : Posted(work'[i]) = Ledger[i]
    BY <1>8 DEF ClearFailed, Posted, Ledger
  <2>3. \A i \in S : i \in Promise!In({"failed"})
    BY DEF Cleared, Promise!In, Ledger, Status
  <2> HIDE DEF S
  <2>4. S \subseteq Items
    BY DEF S
  <2>5. Ledger' = [i \in Items |->
                    IF i \in S THEN [Ledger[i] EXCEPT !.status = "done"]
                    ELSE Ledger[i]]
    BY <2>1, <2>2, <2>4 DEF Ledger, Posted
  <2>6. S \in SUBSET Promise!In({"failed"})
    BY <2>3
  <2> QED
    BY <2>5, <2>6 DEF Promise!Next, Promise!Settle
<1>9. CASE UNCHANGED work
  BY <1>9 DEF Ledger
<1> QED
  BY <1>2, <1>3, <1>4, <1>5, <1>6, <1>7, <1>8, <1>9
  DEF Next, Request, Others, StartReindex, EndDrain, ReuseChunks, Extract,
      ExtractRaises, Index, IndexRaises, RebuildDocument, EndRebuild, CheckFailed,
      Exclude, Store, StoreIndexes, Displace, Retire, MountOrUnmount, Crash,
      Promise!Next, vars

\* Leases, waits, drains and crashes are invisible: whoever reads the table sees
\* work that stays open until it is done or has failed MaxAttempts times.
THEOREM ImplementsPromise == Spec => KeepsPromise
<1> QED
  BY PromisedInit, PromisedStep, Invariance, PTL DEF Spec, KeepsPromise, Promise!Spec

=============================================================================
