------------------------------ MODULE WorkQueue ------------------------------
(***************************************************************************)
(* Obi-Wan's durable work: the work table (obiwan/work.py), the drain loop *)
(* that claims and settles its rows (obiwan/worker.py), and the two        *)
(* maintenance requests that drive it, /scan and /reindex, which exclude   *)
(* each other through maintenance_lock (obiwan/web.py).                    *)
(*                                                                         *)
(* Time.  Every comparison in work.py is against the start time of the     *)
(* scan at hand, and a drain uses that one instant throughout.  A row      *)
(* therefore holds how long it still has to wait, counted from the start   *)
(* of the latest scan; the start of the next scan shortens every wait by   *)
(* the time that went by.  Nothing else in the system can tell times apart.*)
(***************************************************************************)
EXTENDS Integers, FiniteSets

CONSTANTS
  Sources,      \* documents that scanning a source root records
  Texts,        \* documents submitted or relayed: stored with their chunks
  Broken,       \* source documents no extractor can read
  MaxAttempts,  \* settings.max_attempts
  MaxBackoff,   \* MAX_BACKOFF
  LeaseTime,    \* settings.lease_seconds
  MaxGap,       \* bound: the longest time between two scan starts
  MaxCrashes    \* bound: crashes of the service

Docs  == Sources \cup Texts
Items == {"extract", "index"} \X Docs

ASSUME DocsAssumption == Sources \cap Texts = {} /\ Broken \subseteq Sources

ASSUME AttemptsAssumption == MaxAttempts \in Nat \ {0}

ASSUME TimeAssumption ==
  /\ MaxBackoff \in Nat \ {0}
  /\ LeaseTime \in Nat \ {0}
  /\ MaxGap \in Nat
  /\ MaxCrashes \in Nat

\* The provers know nothing of exponentiation; TLC evaluates this one.
ASSUME PowerAssumption == \A n \in 1 .. MaxAttempts : 2 ^ n \in Nat \ {0}

VARIABLES
  work,       \* the work table, one row per (kind, target)
  chunked,    \* documents whose chunks are in the record
  current,    \* documents whose projection state is current
  retired,    \* documents superseded or forgotten: no longer latest and live
  excluded,   \* documents the Commander took out of coverage
  inflight,   \* submitted texts whose handler has yet to index them
  reachable,  \* the source root is mounted, its files as the last scan saw them
  job,        \* the maintenance request: its step, the claimed item, the items
              \* this drain has claimed, the documents it has left to do, what a
              \* reindex read and chose to settle, and (history) what was
              \* searchable at the time of that reading
  crashes

record == <<chunked, current, retired, excluded, inflight>>
vars == <<work, record, reachable, job, crashes>>

-----------------------------------------------------------------------------
(***************************************************************************)
(* The work table.                                                         *)
(***************************************************************************)

States == {"none", "pending", "leased", "done", "failed"}
Steps  == {"idle", "register", "drain", "process", "index",
           "complete", "fail", "rebuild", "check"}
NoItem == <<"none", "none">>

Least(S) == CHOOSE n \in S : \A m \in S : n <= m

Backoff(attempts) == Least({2 ^ attempts, MaxBackoff})

Row(state, attempts, wait, lease) ==
  [state |-> state, attempts |-> attempts, wait |-> wait, lease |-> lease]

NoRow == Row("none", 0, 0, 0)
Due   == Row("pending", 0, 0, 0)

\* Mutant: a due time in the past is kept as it is.
ShorterMut(wait, gap) == wait - gap

Shorter(wait, gap) == IF wait > gap THEN wait - gap ELSE 0

\* Mutant: an expired lease is not reclaimed.
ClaimableMut(i) == work[i].state = "pending" /\ work[i].wait = 0

Claimable(i) ==
  \/ work[i].state = "pending" /\ work[i].wait = 0
  \/ work[i].state = "leased" /\ work[i].lease = 0

\* Mutant: documents without chunks are taken for repair too.
NeedingIndexMut == (Docs \ retired) \ current

\* Latest live documents with chunks whose projection row is not current.
NeedingIndex == (chunked \ retired) \ current

At(step) == [step |-> step, item |-> NoItem, tried |-> {}, todo |-> {},
             needing |-> {}, settled |-> {}, seen |-> {}]
Idle == At("idle")

Init ==
  /\ work = [i \in Items |-> NoRow]
  /\ chunked = {} /\ current = {} /\ retired = {} /\ excluded = {}
  /\ inflight = {}
  /\ reachable = TRUE
  /\ job = Idle
  /\ crashes = 0

Goto(step) == job' = [job EXCEPT !.step = step]

-----------------------------------------------------------------------------
(***************************************************************************)
(* /scan: register what is on disk, sweep for documents that lost their    *)
(* projection, drain the queue, report.                                    *)
(***************************************************************************)

StartScan(gap) ==
  /\ job.step = "idle"
  /\ job' = At("register")
  /\ work' = [i \in Items |->
                [work[i] EXCEPT !.wait = Shorter(@, gap),
                                !.lease = Shorter(@, gap)]]
  /\ UNCHANGED <<record, reachable, crashes>>

\* The scanner records a new version and asks for its extraction.
Enqueue(d) ==
  /\ job.step = "register"
  /\ reachable
  /\ work[<<"extract", d>>].state = "none"
  /\ work' = [work EXCEPT ![<<"extract", d>>] = Due]
  /\ UNCHANGED <<record, reachable, job, crashes>>

\* Mutant: the upsert has lost its WHERE, a failed row is reset as well.
RequeueMut(w, i) ==
  [w EXCEPT ![i] = IF w[i].state \in {"none", "done", "failed"} THEN Due ELSE w[i]]

\* A row left behind by an earlier repair is reset only if it is done.
Requeue(w, i) ==
  [w EXCEPT ![i] = IF w[i].state \in {"none", "done"} THEN Due ELSE w[i]]

Sweep ==
  /\ job.step = "register"
  /\ work' = [i \in Items |->
                IF i[1] = "index" /\ i[2] \in NeedingIndex
                  THEN Requeue(work, i)[i] ELSE work[i]]
  /\ Goto("drain")
  /\ UNCHANGED <<record, reachable, crashes>>

\* The code takes overdue rows by due time; here any of them may come first.
Claim(i) ==
  /\ job.step = "drain"
  /\ Claimable(i)
  /\ work' = [work EXCEPT ![i].state = "leased", ![i].lease = LeaseTime]
  /\ job' = [job EXCEPT !.step = "process", !.item = i, !.tried = @ \cup {i}]
  /\ UNCHANGED <<record, reachable, crashes>>

\* Nothing is due any more: the scan reports and returns.
EndDrain ==
  /\ job.step = "drain"
  /\ \A i \in Items : ~Claimable(i)
  /\ job' = Idle
  /\ UNCHANGED <<work, record, reachable, crashes>>

-----------------------------------------------------------------------------
(***************************************************************************)
(* One claimed item.  An index item always has chunks (IndexHasChunks), so *)
(* process_item's refusal of one that has none never runs.                 *)
(***************************************************************************)

Target == job.item[2]

\* An earlier attempt stored the chunks and died: they are not written again.
ReuseChunks ==
  /\ job.step = "process"
  /\ Target \in chunked
  /\ Goto("index")
  /\ UNCHANGED <<work, record, reachable, crashes>>

Extract ==
  /\ job.step = "process"
  /\ Target \notin chunked
  /\ reachable /\ Target \notin Broken
  /\ chunked' = chunked \cup {Target}
  /\ Goto("index")
  /\ UNCHANGED <<work, current, retired, excluded, inflight, reachable, crashes>>

\* RootUnavailable or ContentChanged, ExtractionError, or an old version's
\* ContentChanged.
ExtractRaises ==
  /\ job.step = "process"
  /\ Target \notin chunked
  /\ ~reachable \/ Target \in Broken \/ Target \in retired
  /\ Goto("fail")
  /\ UNCHANGED <<work, record, reachable, crashes>>

\* A superseded or forgotten document is left out of the projection.
IndexDocument(d) == current' = current \cup ({d} \ retired)

Index ==
  /\ job.step = "index"
  /\ IndexDocument(Target)
  /\ Goto("complete")
  /\ UNCHANGED <<work, chunked, retired, excluded, inflight, reachable, crashes>>

IndexRaises ==
  /\ job.step = "index"
  /\ Goto("fail")
  /\ UNCHANGED <<work, record, reachable, crashes>>

Completed(row) == [row EXCEPT !.state = "done", !.lease = 0]

\* Mutant: the attempt limit is off by one.
FailedMutLimit(row) ==
  LET attempts == row.attempts + 1
  IN  Row(IF attempts > MaxAttempts THEN "failed" ELSE "pending",
          attempts, Backoff(attempts), 0)

\* Mutant: a failed attempt is due again at once.
FailedMutBackoff(row) ==
  LET attempts == row.attempts + 1
  IN  Row(IF attempts >= MaxAttempts THEN "failed" ELSE "pending",
          attempts, 0, 0)

Failed(row) ==
  LET attempts == row.attempts + 1
  IN  Row(IF attempts >= MaxAttempts THEN "failed" ELSE "pending",
          attempts, Backoff(attempts), 0)

Complete ==
  /\ job.step = "complete"
  /\ work' = [work EXCEPT ![job.item] = Completed(@)]
  /\ job' = [job EXCEPT !.step = "drain", !.item = NoItem]
  /\ UNCHANGED <<record, reachable, crashes>>

Fail ==
  /\ job.step = "fail"
  /\ work' = [work EXCEPT ![job.item] = Failed(@)]
  /\ job' = [job EXCEPT !.step = "drain", !.item = NoItem]
  /\ UNCHANGED <<record, reachable, crashes>>

-----------------------------------------------------------------------------
(***************************************************************************)
(* /reindex: empty the projection, index every latest live document again, *)
(* then settle the failed index rows of the documents that are current.    *)
(* What settling looks at is read statement by statement: what other       *)
(* requests write in between is not seen.                                  *)
(***************************************************************************)

StartReindex ==
  /\ job.step = "idle"
  /\ current' = {}
  /\ job' = [At("rebuild") EXCEPT !.todo = chunked \ retired]
  /\ UNCHANGED <<work, chunked, retired, excluded, inflight, reachable, crashes>>

RebuildDocument(d) ==
  /\ job.step = "rebuild"
  /\ d \in job.todo
  /\ IndexDocument(d)
  /\ job' = [job EXCEPT !.todo = @ \ {d}]
  /\ UNCHANGED <<work, chunked, retired, excluded, inflight, reachable, crashes>>

FailedIndexTargets == {d \in Docs : work[<<"index", d>>].state = "failed"}

\* The rebuild is over: what still needs indexing is read.  The failed rows are
\* read next, but no row changes while this request holds maintenance_lock; of
\* what was read only what concerns their documents is used again.
EndRebuild ==
  /\ job.step = "rebuild"
  /\ job.todo = {}
  /\ job' = [job EXCEPT !.step = "check", !.todo = FailedIndexTargets,
                        !.needing = NeedingIndex \cap FailedIndexTargets,
                        !.seen = (current \ retired) \cap FailedIndexTargets]
  /\ UNCHANGED <<work, record, reachable, crashes>>

\* Mutant: what needed indexing is not looked at.
SettleableMut(d) == d \notin retired

\* Latest and live are two reads, but a document that stops being one of them
\* never is again: what the second read finds was so, or is so, at one instant.
Settleable(d) == d \notin retired \cup job.needing

CheckFailed(d) ==
  /\ job.step = "check"
  /\ d \in job.todo
  /\ job' = [job EXCEPT !.todo = @ \ {d},
                        !.settled = IF Settleable(d) THEN @ \cup {d} ELSE @]
  /\ UNCHANGED <<work, record, reachable, crashes>>

Cleared(i) == i[1] = "index" /\ i[2] \in job.settled /\ work[i].state = "failed"

ClearFailed ==
  /\ job.step = "check"
  /\ job.todo = {}
  /\ work' = [i \in Items |->
                IF Cleared(i) THEN [work[i] EXCEPT !.state = "done"] ELSE work[i]]
  /\ job' = Idle
  /\ UNCHANGED <<record, reachable, crashes>>

-----------------------------------------------------------------------------
(***************************************************************************)
(* Requests that take no lock, and the world outside.                      *)
(***************************************************************************)

\* /submit and /relay: the record commits first, the projection follows.
Store(d) ==
  /\ d \in Texts \ chunked
  /\ chunked' = chunked \cup {d}
  /\ inflight' = inflight \cup {d}
  /\ UNCHANGED <<work, current, retired, excluded, reachable, job, crashes>>

StoreIndexes(d) ==
  /\ d \in inflight
  /\ inflight' = inflight \ {d}
  /\ \/ IndexDocument(d)
     \/ UNCHANGED current      \* the projection raised; the record stands
  /\ UNCHANGED <<work, chunked, retired, excluded, reachable, job, crashes>>

\* Forgotten, or overtaken by a newer version.
Retire(d) ==
  /\ d \notin retired
  /\ d \in chunked \/ work[<<"extract", d>>].state # "none"
  /\ retired' = retired \cup {d}
  /\ current' = current \ {d}
  /\ UNCHANGED <<work, chunked, excluded, inflight, reachable, job, crashes>>

\* A late index call of an older version of a text retires the newer one too.
Displace(d) ==
  /\ d \in current
  /\ current' = current \ {d}
  /\ UNCHANGED <<work, chunked, retired, excluded, inflight, reachable, job, crashes>>

\* Mutant: the state of the extract row is not looked at.
ExcludeMut(d) ==
  /\ d \notin retired \cup excluded \cup chunked
  /\ work[<<"extract", d>>].state # "none"
  /\ excluded' = excluded \cup {d}
  /\ UNCHANGED <<work, chunked, current, retired, inflight, reachable, job, crashes>>

Exclude(d) ==
  /\ d \notin retired \cup excluded \cup chunked
  /\ work[<<"extract", d>>].state = "failed"
  /\ excluded' = excluded \cup {d}
  /\ UNCHANGED <<work, chunked, current, retired, inflight, reachable, job, crashes>>

MountOrUnmount ==
  /\ reachable' = ~reachable
  /\ UNCHANGED <<work, record, job, crashes>>

\* The process dies, or an exception ends the maintenance request alone.
Crash ==
  /\ crashes < MaxCrashes
  /\ job.step # "idle" \/ inflight # {}
  /\ job' = Idle
  /\ inflight' \in {inflight, {}}
  /\ crashes' = crashes + 1
  /\ UNCHANGED <<work, chunked, current, retired, excluded, reachable>>

-----------------------------------------------------------------------------

Request ==
  \/ Sweep \/ EndDrain
  \/ \E i \in Items : Claim(i)
  \/ ReuseChunks \/ Extract \/ ExtractRaises
  \/ Index \/ IndexRaises \/ Complete \/ Fail
  \/ \E d \in Docs : RebuildDocument(d)
  \/ EndRebuild
  \/ \E d \in Docs : CheckFailed(d)
  \/ ClearFailed

Others ==
  \/ \E d \in Sources : Enqueue(d) \/ Exclude(d)
  \/ \E d \in Texts : Store(d) \/ StoreIndexes(d) \/ Displace(d)
  \/ \E d \in Docs : Retire(d)
  \/ MountOrUnmount \/ Crash

Next ==
  \/ \E gap \in 0 .. MaxGap : StartScan(gap)
  \/ StartReindex
  \/ Request
  \/ Others

Spec == Init /\ [][Next]_vars

\* A request that has begun runs on: its thread is scheduled until it returns.
FairSpec == Spec /\ WF_vars(Request)

-----------------------------------------------------------------------------
(***************************************************************************)
(* Properties.                                                             *)
(***************************************************************************)

RowType == [state : States, attempts : 0 .. MaxAttempts, wait : Nat, lease : Nat]

\* Every row of the work table, and the request at work on it, is well formed
\* (the columns and the CHECK of record/schema.py:64-69).
TypeOK ==
  /\ work \in [Items -> RowType]
  /\ chunked \in SUBSET Docs /\ current \in SUBSET Docs
  /\ retired \in SUBSET Docs /\ excluded \in SUBSET Docs
  /\ inflight \in SUBSET Texts
  /\ reachable \in BOOLEAN
  /\ job \in [step : Steps, item : Items \cup {NoItem},
              tried : SUBSET Items, todo : SUBSET Docs, needing : SUBSET Docs,
              settled : SUBSET Docs, seen : SUBSET Docs]
  /\ crashes \in 0 .. MaxCrashes

\* An index row is only ever for a document that has chunks, so process_item's
\* "has no chunks to index" (worker.py:44-45) is unreachable from a scan.
IndexHasChunks ==
  \A d \in Docs : work[<<"index", d>>].state # "none" => d \in chunked

\* A drain never claims the same row twice, whatever becomes of it: "there is
\* no tight loop by construction" (worker.py:69-70).
NoTightLoop == \A i \in job.tried : ~Claimable(i)

\* A row is given up after exactly MaxAttempts counted failures, however often
\* crashes made it change hands in between (work.py:88-96).
GivesUpExactly ==
  \A i \in Items :
    /\ work[i].state = "failed" => work[i].attempts = MaxAttempts
    /\ work[i].state \in {"pending", "leased"} => work[i].attempts < MaxAttempts

\* A version out of coverage never has chunks, then or later, so it is never
\* counted as indexed (the assumption of service.py:197-198).
ExcludedNeverIndexed == excluded \cap (chunked \cup current) = {}

\* A terminal failure stays visible: only /reindex settles one, only an index
\* row, and only of a document that was searchable when this same reindex looked,
\* after it had rebuilt (docs/obiwan.md:105-106; service.py:149-156 does not look
\* again, so "current" need no longer hold when the row is settled).
SettledOnlyWhenCurrent ==
  [][\A i \in Items : work[i].state = "failed" /\ work'[i].state # "failed" =>
       /\ work'[i].state = "done" /\ job.step = "check"
       /\ i[1] = "index" /\ i[2] \in job.seen]_vars

\* Time goes by and scans are ordered, over and over.
ScansKeepComing == []<><<\E gap \in 1 .. MaxGap : StartScan(gap)>>_vars

\* Work is postponed durably, never dropped: while scans keep coming, a row
\* that waits, or that a crash stranded under a lease, is settled one way or
\* the other (work.py:71-72).
NothingStranded ==
  ScansKeepComing =>
    \A i \in Items : (work[i].state \in {"pending", "leased"})
                      ~> (work[i].state \in {"done", "failed"})

\* Leases, waits, drains and crashes add nothing to what a reader of the table
\* may rely on: the queue implements the promise of DurableWork.
Status(state) == IF state \in {"pending", "leased"} THEN "open" ELSE state

Ledger == [i \in Items |-> [status |-> Status(work[i].state),
                           tries |-> work[i].attempts]]

Promise == INSTANCE DurableWork WITH ledger <- Ledger

KeepsPromise == Promise!Spec

\* "Work that cannot be completed because something it depends on is
\* unavailable must be postponed durably, never dropped" (mvp.md:380): once its
\* root is back for good, a readable document is extracted.
PostponedNeverDropped ==
  ScansKeepComing /\ <>[]reachable =>
    \A d \in Sources \ Broken :
      (work[<<"extract", d>>].state \in {"pending", "leased"})
        ~> (d \in chunked \cup retired \cup excluded)

=============================================================================
