# Obi-Wan and Jarvis in TLA+

A verification development for the two programs of this repository: the record keeper `obiwan/` and the assistant
`jarvis/`. The modules say what the code does to its state, one action per step that something else can get in between;
TLC explores them on small instances; TLAPS proves the safety of seven of them for every instance.

Read in this order: [the system](#the-system), [the modules](#the-modules), [the runs](#the-runs),
[what is proved](#what-is-proved), [what is left out](#what-is-left-out), [the plan](#the-plan).

## The system

### Obi-Wan, the record keeper (`obiwan/obiwan/`)

One process: FastAPI handlers on a thread pool, one SQLite record, one SQLite FTS file (the *projection*), read-only
source roots, and an inbox directory. `web.py` holds one `maintenance_lock` that admits one `/scan` or `/reindex` at a
time; every other handler takes no lock. Both databases are single connections shared by all the threads.
`compose.yaml:90` restarts the process when it dies.

| Component | State it keeps | Operations | What makes it correct |
|---|---|---|---|
| record (`record/`) | documents in versions, chunks, subjects, tombstones, exclusions, files and sightings, the event journal | `add_*`, the queries, `coverage`, opening and migrating | versions of a subject are numbered without gaps and never changed; what is forgotten is never returned |
| work queue (`work.py`, `worker.py`) | one row per (kind, document): state, attempts, due time, lease | `enqueue`, `requeue`, `claim`, `complete`, `fail`, `drain`, `process_item` | nothing asked for is lost, tried more often than allowed, or retried in a tight loop |
| projection (`projection.py`) | the FTS rows; the record keeps, per chunk, the state the projection is in | `index_document`, `retire_subject`, `rebuild`, `_open`, `search` | what the record counts as indexed can be found; only the latest version can; it can be rebuilt |
| service (`service.py`, `web.py`) | nothing but the lock | `submit`, `relay`, `confirm`, `forget`, `exclude`, `scan`, `reindex`, `search`, `coverage` | the rungs of a fact (relayed, direct), forgetting, coverage that tells the truth |
| scanner (`scanner.py`) | file identities and sightings, in the record | `discover`, `scan_root`, `_resolve`, `current_content` | a file keeps its identity through edits and moves, and shares it with no other file |
| inbox (`inbox.py`) | the folders `inbox/`, `processed/<date>/`, `failed/` | `process_inbox` | a dropped file is recorded and moved, or failed with its reason, once and for certain |
| extraction, chunking (`extract.py`, `chunking.py`) | none | functions on bytes and text | chunks cover the text, with true offsets |
| roles, config, paths, ids, CLI, runtime | none | checks before a handler, wiring | not modelled |

How they interact: a scan calls the scanner (which records versions and enqueues their extraction), then the inbox,
then sweeps the record for documents whose projection is missing, then drains the queue; the drain extracts, stores
chunks and calls the projection; `submit`, `relay` and `confirm` store text and call the projection themselves, while
any of that goes on.

### Jarvis, the assistant (`jarvis/jarvis/`)

A second process: FastAPI handlers on a thread pool, one of which may be a pipeline run (`/run`, under a lock) and others
chat turns. `jarvis reindex` is a process of its own.

| Component | State it keeps | Operations | What makes it correct |
|---|---|---|---|
| pipeline (`pipeline.py`) | a run in memory; the run and error events of the journal | `run_once`: resume, poll, `_process`: capture, index, classify, draft | no mail falls behind the poll's window; every message is settled: drafted, or given up after `MAX_ATTEMPTS` |
| versioned store (`core/store.py`, `core/nko.py`) | one file per version of a message, never overwritten | `save_version`, `save_raw`, `get_latest`, `iter_latest` | no version is lost to another writer |
| corrections (`briefing/`) | none | read the latest version, save one more, journal it | a recorded correction stays |
| classification, drafting (`classify/`, `draft/`, `core/llm.py`) | none | ask the model up to three times, validate, derive a version | what does not validate is an error, not a version |
| retrieval (`retrieval/`) | an FTS file, rebuilt by `jarvis reindex` | `index`, `rebuild`, `search` | what is drafted can be found |
| chat agent and tools (`agent/`, `tools/`, `openai_api.py`) | the conversation of a turn | fit the prompt, call the model, run its tool calls, answer | every prompt is one the server accepts, and every turn ends |
| notes (`notes/`) | versions of notes: pending, active, retired | propose, confirm, retire, expire | a note only moves forward |
| mail source (`sources/gmail.py`) | the token | list since a watermark, fetch | the listing starts no later than the watermark |
| workspace source, Obi-Wan client, web pages, CLI | the run lock | reading, wiring | |

`bench/` measures the language model under load and computes costs; `scripts/*.ps1` run everything, and
`stress-test.ps1` rewrites `.env` while it sweeps. llama.cpp and Open WebUI run as images.

### What is hard here

- *Two stores.* The record commits before the projection is called, and the projection before the state of its chunks
  is written to the record. Every crash window between them is a state somebody must repair.
- *One connection.* The projection's statements of different threads share a transaction. A thread's commit makes
  another's half-done replacement durable.
- *Checks before acts.* Which version is the latest, whether a subject is forgotten, whether a text is still relayed:
  each is read in one statement and used in a later one.
- *Leases and backoff.* A drain that died holds its row until its lease is over; failures are retried at growing
  distances and in the end given up.
- *A record that is opened in any state.* The schema is created statement by statement, with a commit after each, and
  migrated in steps; the process may die between any two.
- *Counts that are not one snapshot.* Coverage adds up what ten statements return while handlers write.
- *Two writers of one archive.* A correction and a run derive a version from the same latest one; the second to save
  must notice.
- *A window computed from the last run.* The next poll starts from what the journal says of the run before: capped,
  failed, crashed. Whatever lies before that is never listed again.
- *A conversation cut to fit.* Messages are dropped oldest first, and a call must go with its replies.
- *A disk that is not ours.* Files change, move, vanish and come back between the listing of a root and the reading of
  its files, roots are unmounted, and people drop, take back and tidy away files while the inbox is processed.

`PROJECT.json` lists the hazards one by one at the line where each bites, with the property that would catch it.

## The modules

| Module | Models | Depends on |
|---|---|---|
| `WorkQueue` | `work.py`, `worker.py`, and from `service.py` what `/scan` and `/reindex` do to the work table | `DurableWork` (as refinement target) |
| `DurableWork` | what deferred work promises, with no clock, lease, drain or crash | |
| `WorkQueue_proofs` | the theorems about `WorkQueue` | `WorkQueue` |
| `Projection` | `projection.py`: `index_document` and `retire_subject` by any number of threads, one statement at a time | |
| `Historian_proofs` | the theorems about `Historian` and `Projection` | `Historian` |
| `Historian` | `service.py` and `web.py`: the handlers, searches and maintenance requests that call `Projection`, the opening of the index file, crashes | `Projection` |
| `Scanner` | `scanner.py` and the extraction side of `worker.py`: file identity | |
| `Scanner_proofs` | the theorems about `Scanner` | `Scanner`, `Lemmas` |
| `Inbox` | `inbox.py` | |
| `Inbox_proofs` | the theorems about `Inbox` | `Inbox`, `Lemmas` |
| `Lemmas` | facts about finite sets of numbers, sequences and counts that several proofs need | |
| `Record` | opening and migrating the record, and `coverage` counted statement by statement beside the requests that write | |
| `Record_proofs` | the theorems about `Record` and `Chunking` | `MCRecord` |
| `Chunking` | `chunking.py`, as operators | |
| `Pipeline` | `pipeline.py` with the archive, the index, the mail window, and a person's corrections | |
| `Pipeline_proofs` | the theorems about `Pipeline` | `Pipeline` |
| `Chat` | a turn of `agent/` with its tools, and `notes/` | |
| `Chat_proofs` | the theorems about `Chat` | `Chat`, `Lemmas` |
| `MCHistorian`, `MCScanner`, `MCInbox`, `MCChat` | symmetry sets and structured constants for TLC | the module each is named after |
| `MCRecord` | `Record` and `Chunking` in one run | both |

Every definition that models code is in `PROJECT.json` "map" with its lines. Definitions whose name ends in `Mut…`
are small, plausible bugs of the definition they precede: each property of a passing run fails under one of them.

### WorkQueue

`work[<<kind, doc>>]` is a row of the table: state, attempts, and the times left of `due_at` and `lease_until`. All
comparisons in `work.py` are against the start of the scan at hand, and a drain uses that one instant throughout, so
rows count down when a scan starts and at no other time (`StartScan(gap)`). `chunked`, `current`, `retired` and
`excluded` are the record's view of each document; `job` is the thread that holds `maintenance_lock`, at the step it
has reached. `Claim` picks any claimable row, where the code takes the one due longest: this allows more.

| Code | Action |
|---|---|
| `Service.scan` | `StartScan`, `Enqueue`, `Sweep`, `Claim` …, `EndDrain` |
| `process_item`, `drain` | `ReuseChunks`, `Extract`, `ExtractRaises`, `Index`, `IndexRaises`, `Complete`, `Fail` |
| `Service.reindex` | `StartReindex`, `RebuildDocument`, `EndRebuild` (what needs indexing, and the failed rows), `CheckFailed` for each, `ClearFailed` |
| `submit`, `relay` | `Store`, then `StoreIndexes` (which may raise) |
| `forget`, a newer version | `Retire`; `exclude`: `Exclude`; an overtaken index call: `Displace` |
| mounts and crashes | the change of `reachable`; `Crash` |

`Service.reindex` reads in one statement after another and clears in the last: what `CheckFailed` found may be forgotten,
replaced or displaced before `ClearFailed`. `SettledOnlyWhenCurrent` says what is left: only an index row of a document
that was searchable when this reindex looked is settled, and by nothing else.

The upserts `enqueue` and `requeue` are `Due` and `Requeue`: both leave a pending, leased or failed row as it is.

### Projection and Historian

The record of a subject is its number of versions; a document is `<<subject, version>>`. `fts[d]` is how many rows of
`d` the shared connection shows, `disk[d]` how many are committed, `proj[d]` what the record says of them. A thread is
at a step of `index_document`: `latest` (is this the newest version?), `tombstone` (is it forgotten?), `remove`,
`insert`, `commit`, `state` (mark its chunks in the record), `older` (which other versions have chunks?), and `remove`,
`commit`, `state` once more for those. `fts` is shared, and so is the transaction: `Commit` of one thread makes
everybody's statements durable, which is what one `sqlite3` connection does.

`Historian` adds what brings threads there: `Store` (`submit` and `relay`), `CheckConfirm` then `Promote`,
`CheckForget` then `Bury`, a search that reads hits and then filters them by the record (`ReadHits`, `FilterHits`,
`Answer`), `/scan` (`StartScan`, `Register`, `RecordDrop`, `Sweep`, `Process`, `Complete`, `Postpone`, `EndScan`) and
`/reindex` (`StartReindex`, `MarkPending`, `Create`, `Snapshot`, `RebuildDocument`, `EndRebuild`, `LookAtFailed`,
`ClearFailed`). `Crash` rolls back what is uncommitted, `LoseIndex` deletes the index file or leaves another build's,
`Open` is the start of the process. `Fault` is an exception out of a call: a drain catches it, fails the row and goes
on, the inbox and a rebuild do not. `job.quiet` is a history variable: the request ran with no client beside it.

`work` has the rows of the work table that are not done: *due*, *held* (waiting after a failure, or leased, perhaps by a
drain that died) and *failed* for good. `Sweep` is `requeue`: it leaves held and failed rows alone, and at the instant of
the drain some waits and leases are over (`ripe`) and others not. A drain works off what is due: `Process` leases a row,
extracts what has no chunks and indexes, whether the document is counted already or not; a failed attempt leaves the row
held or failed (`Fail`). `WorkQueue` has the times and the number of attempts, which are left open here.

### Scanner

`disk` belongs to others and changes between any two steps of a scan. The record's sightings are kept as the code reads
them: the latest at each place, the latest of each file, and the order of the latter, which decides whom a moved file
is taken for. `Unchanged`, `Changed`, `Moved` and `New` are the four outcomes of `_resolve`. `SkipRoot` is a root that
is not there; `Omit` a file that `discover` leaves out because its `stat` raises, though it is there; `PassOver` a
listed file whose read raises. `Extract`, `PutOff` (nothing there, not readable, the root gone) and `ContentChanged`
are the outcomes of `process_item` for a version, read where its file was last seen. `calm` (nothing changed since this
scan began, and no read of it failed), `settled` (what became of the disk since a scan agreed with it) and `overlooked`
(the files a listing left out while they were there) are history variables the properties use.

### Inbox

The folders `inbox/`, `processed/` and `failed/` are functions from names to contents; a name is a sequence, `<<1>>` for
`a-1.md` after `<<>>` for `a.md`, so that the numbering of collisions (`_unique`) can be followed. `process_inbox` is
taken step by step: `Take` hashes the first file left and looks for an interrupted move, `Recover` finishes that,
`Commit` puts document, chunks and event on record, `Move` moves the file, `Index` calls the projection; `Explain` and
`SetAside` are `move_failed`. Each of them may fail (`CommitFails`, `MoveFails`, `RecoverFails`, `SetAsideRaises`) and
the process may die between any two. `drops`, `takenBack` and `emptied` count what people did, for the properties.

### Record

Two things the other modules take for granted. *Opening*: `origin` is the version the file came with, 0 for a new one,
up to one newer than this build understands. `Open` reads it and refuses what it cannot migrate before anything is
written; `Create` runs the next statement of the schema script that has something to create, each with a commit of its
own; `Stamp` ends a new file, `Migrate` takes one step (statements, version and journal row in one transaction),
`Opened` ends a migration. `Crash` may come anywhere, and the next `Open` finds what is there.

*Coverage*: `CountDocuments`, `CountIndexed`, `CountExcluded`, `CountWork`, `Judge` are the groups of statements whose
results the answer combines; an answer that is sure to be "partial" is dropped at once. Between any two, requests write.
A transaction of the record is one step. Of a call of the projection the steps are those that change what is counted:
`Check` (is this version the latest, and live?), `Mark` (its chunks are current), `Retire` (those of every other version
that has chunks by then are not), and `Raise`, at any of its writes; any number of calls are under way at once
(`calls`), of handlers and of maintenance. A read joins the write it leads to where it makes no difference to a count,
that is, where only versions that are forgotten or replaced depend on it; so does `Forget`'s `retire_subject`. A text is
stored by `Submit` and gets further versions by `Confirm`, whose checks are made before its transaction (`checked`).
Maintenance is a scan (`StartScan`, `Register`, `Sweep`, `Process`, `Complete`, `Fail`, `EndScan`) or a reindex
(`StartRebuild`, `Rebuild`, `EndRebuild`, `Settle`). `coverage.right` (it was complete at some moment of the count) and
`coverage.quiet` (during it no document was stored, no rebuild begun, and no latest version retired by an overtaken call)
are history variables. Whether the scan's roots were reachable is a free choice of `Judge`.

### Chunking

`ParagraphSpans`, `SplitLong`, `Pieces` and `Merged` are the four steps of `chunk_text` on spans of a text, whose
characters are letters, spaces, tabs and newlines: nothing in the code tells more apart. In `MCRecord`
every text up to `MaxLength` is an initial state (`written`), and `ChunksSound` holds of it for every limit in `Limits`.
The text and the record share no state: the record moves only where the text is empty.

### Pipeline

`store[m]` is the sequence of versions of message `m`, and a version is what it was classified, whether it is drafted
and the decisions it carries. `run` is the run under the lock, at the step it has reached; `work` the message it has in
hand.

| Code | Action |
|---|---|
| `run_once`: window (`_next_since`), unfinished work | `StartRun`, `Resume` |
| poll, listing | `List`, `Poll`, `PollFails`, `EndPoll` |
| `run_once`'s poll loop: capture of a message | `Capture`, `CaptureFails` |
| `_process`: index, classify, draft, save | `Index`, `IndexFails`, `Classify`, `Draft`, `ThinkFails`, `Save` (with `VersionExists`), `Finished` |
| the run event | `EndRun` |
| a correction's handler | `Read`, `Correct`, `Recorded` |
| `jarvis reindex` | `StartReindex`, `Reindex`, `EndReindex` |
| mail and time | `Arrive`, `Tick` |
| the container dies | `Crash` |

Time is counted in units of which `Day` make a day; `Zone` is how far the account's midnight lies behind UTC's, and
`Horizon` the moment Gmail's day-granular `after:` reaches back to. `Matched` is the configured query's own age filter
(`newer_than`), which reaches `Reach` back from the moment of the listing; `Mail` is what both let through. `kept`
(corrections a person was told of), `missed` (messages whose capture failed) and `partial` (a rebuild was cut short)
are history variables. Mail comes and time passes only between two messages of a run, as nothing a message in hand goes
through reads either.

### Chat

A message is its role, its cost, the ids of the calls it declares and the id it answers. A conversation is a function
from positions to messages, so that what `_fit` drops leaves a gap and every other message keeps its place; `Then`
appends after the last. No property depends on how wide the gaps are. `Ask` is the handler: expiry of old proposals,
`Trim`, and the hint after a "yes". `Send` fits the prompt (`Fit`: rounds of `Shorten`, each of which drops a message
with the replies to its calls or is the last, then `Truncate`), `Overflows` is the server's refusal and the tighter
retry, `CallsTools` an answer with calls, `Skip` and `Run` each call in turn, `EndStep`, `OutOfSteps`, `DeadlinePasses`
and `ForceAnswer` the ways on and out, `Finish` the reply. `RetireNote` and `RetireAllPending` are the notes page;
`DayPasses` makes proposals old. What the model answers is any of `Batches`, or no call at all, or an error.

## The runs

Twelve configurations. Those that pass, with their distinct states:

| Run | Instance | What it shows |
|---|---|---|
| `work_queue` (0.8 M) | one source document, one text, 2 attempts, one crash | no row is taken twice in one drain; a row fails after exactly `MaxAttempts` counted failures; an excluded version never gets chunks; only a reindex settles a failure, and only of a document that was searchable when it looked after its rebuild; the queue refines `DurableWork`; no pending or leased row stays so for good |
| `historian` (4.5 M) | two clients and the maintainer; one file, one submitted text, two versions each; no crash | with all interleavings of single statements: what is counted can be found and is committed, nothing uncommitted is left when all is at rest, a forgotten subject is never returned to a search that began later, only the latest version is searchable |
| `historian_rebuild` (2.2 M) | one relayed text, two versions, two clients, one crash, one loss of the index | an undisturbed rebuild is exact whatever the crash, the loss, confirmations, forgettings and overtaken calls before it left behind |
| `historian_live` (0.2 M) | one file, two versions, two crashes, two exceptions, no clients | an undisturbed scan repairs whatever no waiting, leased or finally failed row holds back, and while scans keep coming every latest live document comes to light, or a row of it fails for good |
| `scanner` (4.8 M) | two roots, of two places and of one; two contents, three files, two versions, two changes | an identity is shared by two files on disk only if a listing left one of them out; unchanged and renamed files add nothing; an undisturbed scan misses nothing, and what it recorded last can be read |
| `inbox` (0.8 M) | two unrelated names, three contents (one unreadable, one also in a source root), three drops, one removal, one fault, two crashes | no move lands on another file; nothing is recorded twice; at no moment is a drop without a record, a failure or its place in the inbox; a file in `failed/` has its own reason beside it; nothing stays at the top of the inbox for good |
| `pipeline` (1.5 M) | one message, one corrector, two corrections, two attempts, one fault, one crash, one reindex | a recorded correction stays in the latest version; drafted mail can be found; every message is settled in the end |
| `pipeline_window` (6.4 M) | two messages, one per run, days of two units with the account's midnight one behind, a query that reaches three back, five moments, one fault, one crash | nothing the query still matches falls behind the next poll's window |
| `chat` (0.6 M) | five conversations (one too long, one empty, one without a question), four answers with up to three calls, results of two sizes, a budget that must be cut to, two steps of two calls, two notes | every prompt answers each call it declares once and holds no orphan; cutting keeps the system prompt, the question and the newest calls with their results; notes only move forward; every turn ends |
| `record` (1.5 M) | two schema versions and the step between them, a file and a text of two versions, one crash or exception; texts up to 7 characters, limits 1 to 6 | a served record is whole and its journal exact, a refused one untouched; "complete" was true; chunks are in order, within the limit, and hold every letter |

And those that find a disagreement between the code and what the repository says of it:

| Run | Disagreement |
|---|---|
| `historian_reopen` | `_open` stamps the new, empty table valid before `rebuild` marks the states pending. A crash in between leaves an empty index that looks complete. |
| `record_coverage` | Coverage counts documents in one statement and indexed ones in a later one: with two submissions in between it answers complete though at every moment one document was not searchable. |

### Further disagreements

Met while modelling, each confirmed with TLC on the same modules; no run is spent on them, to keep the set small. Those
of the first list are found by adding the named property to a configuration with the constants given; the properties are
in the modules.

- `PostponedNeverDropped` (`WorkQueue`, `FairSpec`, two sources of which `s2` is `Broken`, no texts, 2 attempts, no
  crash): attempts are counted against an unmounted root, so an outage of `max_attempts` tries fails a readable document
  for good (`work.py:92`); the MVP specification says such work is "postponed durably, never dropped".
- `CountedIsFindable` (`Historian`, one relayed text, one client, two versions, no crash): `index_document` takes every
  other version for an earlier one; a repair of the relayed version, overtaken by `confirm`, removes the promoted
  version's rows while they are marked current (`projection.py:91`).
- `CountedIsFindable` (`HistorianLive.cfg`'s constants, with two exceptions and no crash, or one of each): an exception
  between the delete and the insert of a row that is retried for a counted document (`worker.py:48`, `worker.py:64`)
  leaves that document counted with its rows deleted; the next commit makes it durable. With crashes only, or one
  exception only, it holds; the failed row is tried again and makes it good, until it fails for good.
- `ScanRepairs` (`Historian`, one submitted text, one client, one crash): a submission whose call marks the text current
  between a reindex's marking of the states and its new table, and a crash before that rebuild is over, leave the text
  counted and not in the index, and no row asks for it (`projection.py:117`).
- `CompleteWasTrue` without the clause for overtaken calls (`Record.cfg`, `Retire` with `Seen(FALSE)`): two documents and
  one indexed are counted; then the index call of the relayed version, overtaken by `confirm`, retires the promoted one
  (`projection.py:91-96`), the other document, whose extraction has failed, is excluded, and one excluded is counted: the
  numbers agree and coverage answers complete, which it was at no moment.
- `OwnIdentity` without the clause for `overlooked` (`Scanner.cfg`): a file whose `is_file` or `stat` raises is left
  out of what was found, though it is there (`scanner.py:45-59`); a copy at a new path then takes its identity, as if
  it had moved. "Two files with identical content at two paths are two files" (`scanner.py:94`). `SeenIsReadable` then
  fails too.
- `NothingBehindTheWindow` without the condition `Matched`, and of the next listing (`PipelineWindow.cfg`, `m \in Mail(…)`): with a query that has an age filter
  of its own, as the one shipped (`newer_than:1d`: `compose.yaml:68`, `.env.example:21-26`), the `after:` clause never
  binds: the watermark a capped run holds preserves nothing, and what it left ages out of the query and is lost. The
  code's own comment says so (`pipeline.py:82-86`), and `docs/jarvis.md:198-231` tells how 845 messages were lost by
  it. With `Reach >= MaxTime`, a query without such a filter, the property holds without the condition
  (`UnfilteredMailIsListed`).
- `EarlierRetired` (`Historian`, one file, no clients, two versions, one crash): a crash between marking the new version
  current and removing the older ones leaves both searchable, and no scan looks for that (`projection.py:91`).
- `SeenIsReadable` (`MCScanner`, one root, `Places <- Single`, two files, versions and changes, `Reuse = TRUE`): a file
  is renamed and another is put at its old path: the path keeps the old identity, so the new file becomes a version of
  the moved one, and is refused as changed although it did not (`scanner.py:76`).
- `RecordedOrFailed` (`MCInbox`, one drop, two faults, no crash, `Tidy = FALSE`): the move that completes an interrupted
  one sits among the handlers of unreadable files: if it fails again, a recorded file ends in `failed/` (`inbox.py:89`).
- `RecordedOnce`, had `Undisturbed` said of people alone that they take nothing away (`MCInbox`, three drops, one
  fault, two crashes, `MaxRemovals = 0`, `Tidy = FALSE`): by the same way a recorded file ends in `failed/`, the place on
  its record goes to another file, and if that one's move is interrupted it is recorded a second time (`inbox.py:84`).
  The attempt to prove `RecordedOnce` came upon this: the property now excepts it by name.
- `PromptFits` (`MCChat`, as in `Chat.cfg`): the comment at `agent/__init__.py:114` says "Keep the whole prompt inside
  the budget"; only the last tool result gives way, so a prompt of protected messages goes out over it.

And without a property of their own:

- `claim` takes a leased row only after its lease: "a crash is reclaimed by the next scan" (`docs/obiwan.md:92-93`) holds
  for the first scan after `lease_seconds`.
- "Only `/reindex` settles it once the document is current" (`docs/obiwan.md:105-106`): `reindex` reads what needs
  indexing and what is latest and live, and clears later (`service.py:149-156`). A forgetting, a confirmation, or an
  overtaken index call in between makes it clear the row of a document that is no longer current.
  `SettledOnlyWhenCurrent` is about the moment it looked.
- A terminally failed row is never retried by a scan, as `docs/obiwan.md:105-106` says, so "every scan finds latest live
  documents whose chunks are not current … and enqueues" (`docs/obiwan.md:104`) does not repair those, nor, at once, rows
  that wait or are leased: `ScanRepairs` and `ComesToLight` except them.
- A version overtaken after its `latest` check marks the newer version's chunks stale (`projection.py:72` against its
  comment); the next scan repairs it.
- `forget` between the tombstone check and the insert: the forgotten text is back in the index (`projection.py:81`). No
  search returns it, which is what `ForgottenNeverReturned` shows.
- Delete and insert are separate statements on a table without a key: two threads that index one document double its
  rows (`projection.py:87`), until a rebuild.
- `confirm` checks the rung before its transaction (`service.py:79`): two at once promote twice.
- A file put at a moved file's old path shares its identity (`scanner.py:71` against `scanner.py:94`).
- `_unique` does not reserve destinations that are only on record: a drop named `a-1.md` may take the place an
  interrupted `a.md` was on its way to, and that one is then recorded twice (`inbox.py:84`).
- With `processed/` emptied, an identical drop is taken for an interrupted move: it is moved, never recorded
  (`inbox.py:84` against `test_inbox.py:72`).
- A message whose *capture* fails has left nothing to resume: the window moves on behind it, and it is lost
  (`pipeline.py:130`). While it is still listed it is tried by every run, `MAX_ATTEMPTS` or not
  (`pipeline.py:28`: "a message that has failed this many times is left alone").
- The journal names the version before it is saved; a conflict or crash in between leaves an event for a version that
  never was.
- A `jarvis reindex` that dies leaves a partial index stamped with the current schema, which nothing but another reindex
  repairs, where `docs/jarvis.md` calls it safe at any time.
- `core/llm.py:56` names the calls of a model that gives no ids `call_0`, `call_1`, … in every step: with
  `UniqueIds = FALSE`, `CallsAnswered` fails, as two declarations share the replies.
- The sentence that forces an answer and the hint after a "yes" are ordinary messages to `_fit`, which may drop them.
- `confirm_note` accepts any pending note the model names, with or without a "yes" of the user's.

`Scanner` runs with `Reuse = FALSE` and `Inbox` with two unrelated names for the reasons above, and `RecordedOnce` and
`EveryDropAccounted` say what must not have been taken away.

### The bounds, and why they are enough

- *Two of everything that can collide.* Two clients beside the maintainer, two versions of a subject, two files that can
  have the same bytes, two names, two contents that can be read. The races above need two actors and two versions, the
  moves two files. The maintainer is the third writer; `maintenance_lock` admits no fourth kind.
- *Two attempts.* One failure that is retried and one that is final: off-by-one errors of the limit and of the backoff
  show (`FailedMutLimit`, `FailedMutBackoff`). `MaxBackoff = 2` is reached by the first failure already; `LeaseTime = 1`
  with scans 0 or 1 apart means that a scan may find a lease still held or over.
- *One crash, one fault, one loss* at any step. Repairs are what the next request does, so a second crash meets either a
  repaired state or one the first could have left; `historian_reopen` has two, since the index must be lost first,
  `inbox` two, for two files whose moves are interrupted, and `historian_live` two crashes and two exceptions: one that
  leaves a row leased and one that meets its retry. In `record`, `MaxFailures` counts crashes and exceptions together.
- *Two changes of the disk* (`scanner`), where a failure to read it, or to list a file, counts as one: a rename and an
  edit, two renames, an unmount and its mount, before, during or between scans. Three files and two versions are what
  two changes and three places can produce.
- *One message, or two with a cap of one* (`pipeline`, `pipeline_window`): a run handles messages one after another, and
  corrections are per message, so one message meets every race; the window needs a second one to be capped at. `Day = 2`,
  `Zone = 1`, `Overlap = 1` and a longest run of 2 make `WindowAssumption` an equality: one unit more of any and the
  property fails. Five moments cross two midnights. `Reach = 3` lets mail age out of the query, and reaches further back
  than the overlap. `Pipeline_proofs` covers all other values.
- *Two corrections*: one read before and one after another writer saved.
- *A budget of 9 with results of 1 or 4* (`chat`): every prompt is under, at, or over what fits, and so is its tighter
  retry at 6; two steps of two calls exceed both limits by one.
- *Two schema versions* (`record`): a new file, one that must be migrated, a current one, one from a newer build; every
  statement of the script is a place to die. Seven characters hold two separators and three pieces; six limits are
  shorter and longer than all of them.
- *One file and one text* (`record`): what disturbs a count is a document of another kind, or a second version
  (`MaxConfirms = 1`) and the overtaken call of the first; `record_coverage` has the two
  submissions that mislead it.
- *`MaxFiles`, `MaxVersions`* only keep numbers small: `Scanner` mints the next number that is free.
- `MCRecord` lets the tables move only on a file that came with this build's version, which they do not depend on, and
  follows a count no further once it is disturbed, as `CompleteWasTrue` says nothing of it. A failure and a confirmation do
  not meet in one behaviour of its run; `CompleteIsTrue` covers both together.
- *Symmetry* is used over the clients (`Historian`) and the contents (`Scanner`), which the definitions nowhere tell
  apart, and only in runs without liveness properties.

### Fairness

- `WorkQueue`: weak fairness of the maintenance request's own steps: the thread that serves it runs on. Nothing is
  assumed of the other handlers. `NothingStranded` assumes in the property that scans with time between them keep being
  ordered: nothing in the code schedules them.
- `Historian`: weak fairness of each thread's steps, of the maintenance request and of the start of the process
  (`compose.yaml:90`, `restart: unless-stopped`). `ComesToLight` assumes that scans keep being ordered.
- `Inbox`: weak fairness of the scan's steps; `PendingClears` assumes that scans keep being ordered. No file is ever
  *guaranteed* to be readable: `PendingClears` is reached through `failed/` as well.
- `Pipeline`: weak fairness of the run's steps: it is a loop in one thread whose every wait has a timeout. `EverySettles`
  assumes in the property that runs keep being started: nothing in the code schedules them, `/run` is posted by a person
  or a script.
- `Chat`: a turn goes on: at any time either it is over later, or a step of it happens later. That is weak fairness of
  `TurnStep`, written without ENABLED.
- `Record` has no liveness property.

## What is proved

`WorkQueue_proofs.tla` holds for any finite or infinite sets of documents, any limit, backoff, lease and gap, and any
number of crashes:

| Theorem | States |
|---|---|
| `TypeCorrect` | `Spec => []TypeOK` |
| `IndexWorkHasChunks` | `Spec => []IndexHasChunks`: the `ExtractionError` for an index item without chunks is unreachable |
| `DrainTerminates` | `Spec => []NoTightLoop`: what a drain has claimed is not claimable in it again |
| `AttemptsExact` | `Spec => []GivesUpExactly` |
| `ExclusionHolds` | `Spec => []ExcludedNeverIndexed` |
| `FailuresStayVisible` | `Spec => SettledOnlyWhenCurrent`, an action property, with forgettings, promotions and overtaken calls between what a reindex reads and what it clears |
| `ImplementsPromise` | `Spec => KeepsPromise`: initial states and steps of `WorkQueue` map to those of `DurableWork` |

*Assumptions*: the named ASSUMEs of `WorkQueue` and no more. `PowerAssumption` is arithmetic (powers of two are positive
naturals), stated because the provers have no exponentiation; TLC evaluates it on every run.

*The argument.* None of the invariants is inductive alone. `IInv` conjoins `TypeOK`, `IndexHasChunks`, `GivesUpExactly`
and `NoTightLoop` with four facts about where the request is: `HoldsClaim` (between claim and settling the item in hand
is a row under an unexpired lease: with `GivesUpExactly` its attempts are below the limit, so `Fail` cannot count past
it), `NothingTriedYet` (before the drain nothing has been claimed in it: otherwise the shortening of waits at a scan's
start could make a tried row claimable), `ChunksFirst` (an item at `index` or later has chunks, and what is current or
in flight has chunks) and `ExcludedFailed` (an excluded version has no chunks and its extract row is failed for good,
so nothing will extract it). Each action is one step of the induction. The refinement follows from `IInv`: `Fail` is an
`Attempt` only because of `HoldsClaim`.

`Historian_proofs.tla` holds for any subjects, any number of versions, any finite number of clients, and any bounds on
crashes, losses and exceptions:

| Theorem | States |
|---|---|
| `HistorianTypeCorrect` | `Spec => []TypeOK`, in which a document has at most as many rows in the index as there are threads |
| `ForgottenStaysForgotten` | `Spec => []ForgottenNeverReturned` |
| `NothingLeftUncommitted` | `MaxFaults = 0` implies `Spec => []RestIsDurable`: with an exception in the middle of a call it would not hold |
| `RebuildsAreExact` | `Spec => RebuildIsExact`, an action property, with no hypothesis |
| `CountedCanBeFound` | `Calm` implies `Spec => []CountedIsFindable` |
| `EarlierAreRetired` | `Calm` implies `Spec => []EarlierRetired` |
| `CountedThroughCrashes` | `ByItself` implies `Spec => []CountedIsFindable`, though rows that are retried are indexed again |
| `ScansRepair` | `Calm` or `ByItself` implies `Spec => ScanRepairs`, an action property |

*Assumptions*: the named ASSUMEs of `Projection` and `Historian`, `MaxFaults = 0` where it is stated, and

- `Calm`: nobody promotes a relayed text, and nothing crashes or raises; any number of clients, submissions and
  forgettings beside scans and rebuilds. It is `historian`'s setting. TLC refutes `CountedIsFindable` when any one of the
  three is dropped, and `EarlierRetired` with a crash or an exception: two threads that index one document remove each
  other's rows, and the one that was to insert them again may not get to it.
- `ByItself`: no clients, no lost index file and no exception; any number of crashes. With a loss `CountedIsFindable` is
  false (`historian_reopen`), and with two exceptions, or one and a crash, as well (see above).

*The argument.* That a table without a key keeps a bounded number of rows is not inductive as it stands. `Rows` counts,
for each document, its rows *and* the threads about to insert it: an insert moves one from the second count to the
first, a removal sets the first to nothing, and nobody comes to an insert except from a removal of the same document
(`RemovesOwn`). Steps that write no row are one lemma (`RowsKept`). For searches, `Answered` adds that what was
forgotten when a search began still is. For the connection, `Durable` says that what is uncommitted belongs to a thread
between its first statement and its commit.

*What can be found.* `InOrder` says of a thread that what it makes current (`Making`) is on record and still the latest
version, and that what it removes to mark it stale is superseded or forgotten for good; a call keeps this of its own
thread (`InOrderCall`) whatever the others do, as long as nobody adds a version of its document. `Found` generalises
`CountedIsFindable` from rest to every moment: what is counted, or about to be (`Claimed`), has a row, or a thread that
is about to insert one (`Coming`), or a rebuild that is still to come to it (`Rebuilding`). `Retiring` does the same
for `EarlierRetired`: beside a current version another one is found only while a thread is on its way to remove it.

*Rebuilds and scans.* `Remade` follows an undisturbed rebuild: nothing is current once the states are pending, the
table is empty once it is created, and from then on `MadeSoFar` says row by row what is there: exactly the documents
the rebuild has come past, and for the one in hand what its step has done. Nothing is assumed of the state it began in.
`Repaired` follows an undisturbed scan: what is not counted has an index row before the drain or left alone (`Ahead`),
or is in hand, or findable; what is counted is in the index, or in hand. It needs `CountedIsFindable` when the scan
begins, and no more (`RepairsIfCounted`). `Counted` is why crashes do no harm to the maintainer by itself, though it
may index a counted document again: that document's committed rows stay on disk (`Safe`) until its new ones are in the
index, and the commit that replaces them comes after the insert; a crash in between brings the old ones back.

`Pipeline_proofs.tla` holds for any messages and correctors, any cap, limit and number of faults, crashes, corrections
and reindexes:

| Theorem | States |
|---|---|
| `PipelineTypeCorrect` | `Spec => []TypeOK`, in which a message is in error at most `MaxAttempts + MaxFaults` times |
| `CorrectionsKept` | `Spec => []DecisionsKept` |
| `DraftsSearchable` | `Spec => []DraftedIsSearchable` |
| `NothingFallsBehind` | `Spec => []NothingBehindTheWindow`: mail falls out of the window only by ageing out of the query |
| `UnfilteredMailIsListed` | `Reach >= MaxTime` implies: mail not archived, whose capture did not fail, is in the next listing |

*Assumptions*: the named ASSUMEs of `Pipeline`. `WindowAssumption` is the one with content: from its listing to its end a
run lasts no longer than the overlap and a day less the account's offset. The code does not enforce it (an hour and up to
a day against runs of minutes); the theorem says that it is all that is needed.

*The argument.* `IInv` says, besides the types (`Shape`), where the message in hand stands (`Hand`) and what its errors
come from (`ErrorsCounted`): only a message short of the limit is taken up, and it can fail once per run. `Window`
generalises the property from the moment between two runs to every moment: what waits is in the window of the run in
progress; once the mailbox is listed it is still to be taken up, in hand, or younger than the listing; and a run that
ends neither capped nor failed has nothing left to take up. `Clocks` bounds the listing's age, and `EndRunStep` puts the
two together with `WindowAssumption`. `Decisions` says that whoever holds a version that is still the latest holds all
its decisions, which the refusal to overwrite (`Save`, `Correct`) turns into `DecisionsKept`. `Searchable` adds the
messages past indexing, and what a rebuild has left.

`Record_proofs.tla` holds for any schema version and migrations, any finite number of subjects and any number of crashes,
and for texts of any length under any limit:

| Theorem | States |
|---|---|
| `RecordTypeCorrect` | `Spec => []TypeOK` |
| `AlwaysOpensWhole` | `Spec => []OpensWhole` |
| `CompleteIsTrue` | `Spec => []CompleteWasTrue` |
| `ChunksCover` | `Covered(text, limit)` for any text and limit |
| `ChunksAlwaysSound` | `MCSpec => []ChunksSound` |

*Assumptions*: the named ASSUMEs of `Record` and `Chunking`; that limits are positive is `chunk_text`'s own check
(`chunking.py:54`).

*The argument.* `Opening`: the version is the origin plus the journal's length, an opening found a version at most the
present one, and a file is untouched unless this build understands its version. `Counting`: at each step of a count
that is quiet, what it has yet to find missing is at least the number of documents that *are* not yet accounted for, in
the state at hand: latest ones at first, then those not indexed, then those neither indexed nor excluded. Requests that
store nothing and begin no rebuild only shrink these sets (`Steady`, `GapsShrink`), and of the calls of the projection
only a `Retire` that takes a latest version out does not, which `coverage.quiet` records (`CallSteps`); so a count that
comes to nothing missing is of a record that is whole at that moment.

*Chunks.* Each stage of `chunk_text` is a recursion that only moves right. `RightwardExists` (in `Lemmas`) shows that
such a recursion is a function, so that its equations hold, and `RightwardInduction` proves of every place what follows
from the places further right; both are `NaturalInduction` on the distance to the end. What all stages keep is `Tiles`:
spans in order, apart, not empty, and no letter between them (`GapsAreBlank`); stretches with nothing but blanks in
between join (`TilesJoin`). Paragraphs tile the text (`ParagraphsTile`), the cuts of a long paragraph tile it within
the limit (`CutMeans`, `SplitTiles`), and merging keeps both (`MergedTiles`) and adds `Full`: a chunk takes the longest
run of pieces that fits, so it has no room for the first piece of the next chunk, nor for that chunk.

`Inbox_proofs.tla` holds for any list of names, any contents, and any number of drops, removals, faults and crashes:

| Theorem | States |
|---|---|
| `InboxTypeCorrect` | `Spec => []TypeOK` |
| `NothingIsOverwritten` | `Spec => []NothingOverwritten` |
| `ReasonIsBeside` | `Spec => []ReasonBeside`: a file in `failed/` has its own reason beside it. Not the converse: between a reason and its move, and after a crash there, a reason stands alone |
| `EveryDropIsAccounted` | `Spec => []EveryDropAccounted` |
| `DropsAreRecordedOnce` | `Unrelated` implies `Spec => []RecordedOnce` |

*Assumptions*: the named ASSUMEs of `Inbox`. `Unrelated` says that no name is another's with a number, as `a.md` and
`a-1.md` are: `_unique` reserves no destination that is only on record, and with such names the property is false (see
above). The other four hold for related names as well.

*The argument.* That a move finds a free place is a matter of counting. `_unique` tries the name and its numbers in
turn, and `Room` says that there are too few files to occupy them all: no more files than drops in the three folders,
and no more reasons without their file than there were removals, faults and crashes, plus one for a file that is about
to follow its reason and for each name the scan will find gone. `CountPut` is what a change of one place does to such a
count; `Unique` then returns a free place (`NaturalInduction` over the numbers it tries), `Hand` keeps it free until
the move, and `NothingOverwritten` is that no move loses a file. `Recorded` (what lies in `processed/` is on record
there) gives `EveryDropAccounted`. For `RecordedOnce`, `Waiting` says that a file whose move was interrupted is still
pending and no other record of its bytes waits, `Ready` that a file is committed only when none does, and `Arrived`
that as many of the bytes are on record as have arrived in `processed/`, or one more: the one whose move is still to
come.

`Scanner_proofs.tla` holds for any roots, places and contents, and any number of changes of the disk:

| Theorem | States |
|---|---|
| `ScannerTypeCorrect` | `Spec => []TypeOK` |
| `PlacesHaveTheirOwn` | `~Reuse` implies `Spec => []OwnIdentity` |
| `NothingIsMissed` | `~Reuse` implies `Spec => NothingMissed`, an action property |
| `SeenIsReadableHolds` | `~Reuse` implies `Spec => SeenIsReadable`, an action property |
| `RenamesAddNothing` | `~Reuse` implies `Spec => SettledAddsNothing`, an action property |

*Assumptions*: the named ASSUMEs of `Scanner`, and `~Reuse` where it is stated: no file appears at a path the record
already knows and that is empty now. The code does not prevent it; with it, two files share an identity (see above).
That a listing leaves out a file that is there needs no assumption: `OwnIdentity` and `SeenIsReadable` except the
`overlooked` ones by name, and after such a listing nothing counts as `settled`.

*The argument.* `Agree`: the latest sighting of a file is also the latest at its place, and saw its latest version.
`Settles`: a known place that is not empty is the latest place of its file. A sighting (`Sights`, in its four outcomes
`Same`, `Edited`, `Taken`, `Fresh`) could break this only by taking a file that is still elsewhere on disk for one that
moved; `FoundAll` says that what the scan did not find in its root is not there. `Covered` (while nothing changes, what
is on disk is seen, or in a place or root the scan has left) turns all this into the three properties of an undisturbed
scan. That renames add nothing is a matching: `OnlyMoved` says that the newcomers on disk can be told, each by its
bytes and its root, from files that have left their places, no two of them from the same one. A rename adds a pair or
moves one (`RenamedKeepsMoves`); and where the scan takes a newcomer for a file that another newcomer was paired with,
the two swap (`TakenKeepsMoves`): which of several files with the same bytes a newcomer is taken for makes no
difference.

`Chat_proofs.tla` holds for any conversations a client may send, any answers of the model, any sizes, budgets and limits,
and any number of notes:

| Theorem | States |
|---|---|
| `ChatTypeCorrect` | `Spec => []TypeOK` |
| `NotesOnlyForward` | `Spec => NotesForward`, an action property |
| `ProtectedIsKept` | `Spec => ProtectedKept`, an action property |
| `EveryCallAnswered` | `UniqueIds` implies `Spec => []CallsAnswered` |

*Assumptions*: the named ASSUMEs of `Chat`: sizes and limits are naturals, a client's transcript has only users' and
assistants' messages and no calls (`_transcript` leaves the rest out), an answer that calls has a call. `UniqueIds`,
where it is stated, is a server that names the calls of a turn apart; `llm.py:56` does not for a model that gives no
ids, and then the property is false (see above). The other three hold without it.

*The argument.* `Fit` is a recursive function of the number of rounds. `FitMeans` shows, by `NaturalInduction`, that it
exists and does what its equations say, so that what one round keeps (`DropKeeps`) all of them keep (`FitKeeps`): fewer
messages, the same but for the cost of the last result, and those protected unchanged. As what is protected is found
again in what is left (`KeepsMeans`), later rounds protect the same messages. For calls and replies, `Paired` says that
every call declared is answered once and later, save those still `open`, and that every reply is to a call declared
before it. Dropping keeps it (`DropPairs`) because the first message that may go is never a reply (`FirstIsNoReply`):
the message that declared its call stands before it, so it would have gone first, or it is the newest one with calls,
whose replies are protected. `TurnPaired` is the inductive invariant: what is open is what the turn has left to answer,
nothing is open when a prompt is fitted (`ClosedBetween`), and every call's name tells the step it was made in, so that
new calls are new.

`Lemmas.tla` has the facts these proofs share. The induction theorems of the library take an operator as a parameter and
cannot be used, but induction over a *set* of naturals can: `LeastNatural` gets a least element from well-foundedness,
and `NaturalInduction` follows.

*Only model-checked*: the liveness properties (temporal proofs under fairness are out of the prover's reach). Every
invariant and action property of a passing run is the conclusion of a theorem.

## What is left out

- *In `WorkQueue`*: the limit of 10 000 items per drain, which ends a drain early as a crash does; the order of claims;
  events and reports. `retired` covers both a forgotten subject and a superseded version.
- *In `Historian`*: one chunk stands for a document's chunks, which are always written, marked and removed together. Of
  the work table there is whether a row is due, held or failed; how long it is held and how often it is tried are
  `WorkQueue`'s. The statements of `_create` are one step. Ranking, snippets and the quoting of a query's words are
  text. A transaction of the record is one step: its reads on the shared connection could see another thread's
  uncommitted writes, which is not modelled.
- *In `Scanner`*: which files a root offers (suffixes, sizes, hidden directories, containment of paths) is the set
  `Places`. Duplicate notes are journal entries. Sightings that no query reads are dropped.
- *In `Inbox`*: one day, hence one folder in `processed/`; drops appear whole, as the partial suffixes ask; nobody swaps
  a file for another while the scan has it in hand; path containment is one more way to be unreadable.
- *In `Record`*: one process opens a file at a time (the CLI goes through HTTP, and uvicorn runs one worker). A count's
  statements could see another thread's open transaction on the shared connection; that only makes them count less. A
  handler whose call raises is one whose call takes no more steps; leases and waits are `WorkQueue`'s: a drain takes any
  of the pending rows, and a row in hand counts as pending.
- *In `Pipeline`*: the listing is taken at once, where the code pages through it while it captures. Journal events other
  than runs and errors are written and never read. A `jarvis run` from the command line beside the web's own run, which
  the lock does not exclude, is not modelled. Queries of the index, the briefing's text, and the decoding of mail are
  conversions.
- *In `Chat`*: how messages are costed, streaming, the JSON of arguments and schemas. Tools that only read return a
  result of some size. A note's text, and what it applies to, are left out.
- *In `Chunking`*: all blanks but space, tab and newline; characters are counted, as the code does.
- *Not modelled at all*: the parts `PROJECT.json` lists as `not_modelled`, with the reason there.

## The plan

Of the first plan, `Coverage` and `RecordOpening` became `Record`; `Pipeline`, `Store`, `Notes`, `AgentTurn` and
`Chunking` became `Pipeline`, `Chat` and `Chunking`. What is left, in this order:

1. An abstract archive (every message captured at most once, versions only appended) that `Pipeline` implements, as
   `DurableWork` is for the queue.
2. `StressSweep` (`.env` rewritten and restored) and `LoadPoint` (slots, percentiles, cost) are the least of the system
   and come last, if at all.

What composes: `Historian` uses `Projection`, `MCRecord` runs `Record` and `Chunking`; `Record`'s requests are
`Historian`'s and `WorkQueue`'s, at the grain of what coverage reads.
