-------------------------------- MODULE Pipeline --------------------------------
(***************************************************************************)
(* Jarvis's mail pipeline (jarvis/pipeline.py): a run first resumes what    *)
(* the archive says is unfinished, then polls Gmail from a watermark it     *)
(* takes from the last run's journal event, and brings each message from    *)
(* capture through classification to a draft.  The archive keeps every      *)
(* version of a message and refuses to overwrite one; a person corrects a   *)
(* message at any time, from another thread.                                *)
(*                                                                          *)
(* Time is counted in Days, a day being Day units: what matters is how the  *)
(* poll's day-granular clause, the overlap and the length of a run add up.  *)
(***************************************************************************)
EXTENDS Integers, SequencesExt

CONSTANTS
  Messages, Answers,
  Correctors,   \* requests of a person correcting messages
  MaxAttempts,  \* MAX_ATTEMPTS: errors after which a message is left alone
  Cap,          \* max_messages_per_run
  Overlap,      \* OVERLAP
  Day,
  Zone,         \* how far the account's midnight lies behind UTC's
  Lookback,     \* initial_lookback_days
  Reach,        \* how far back the configured query matches by itself (newer_than)
  LongestRun,   \* bound: from a run's listing of the mailbox to its end
  MaxTime, MaxCorrections, MaxFaults, MaxCrashes, MaxReindexes  \* bounds

ASSUME CountsAssumption ==
  /\ MaxAttempts \in Nat \ {0} /\ Cap \in Nat \ {0}
  /\ {MaxTime, MaxCorrections, MaxFaults, MaxCrashes, MaxReindexes} \subseteq Nat

\* A run ends before the mail that came after its listing is a window old.
ASSUME WindowAssumption ==
  /\ Day \in Nat \ {0} /\ Overlap \in Nat /\ LongestRun \in Nat
  /\ Zone \in 0 .. Day - 1
  /\ LongestRun <= Overlap + Day - Zone
  /\ Lookback \in Nat /\ MaxTime <= Lookback
  /\ Reach \in Nat

\* What the model may answer, or a person decide: "asked" is a message of a
\* no-reply group that requests an action all the same.
ASSUME AnswersAssumption == Answers \subseteq {"fyi", "asked", "reply"}

VARIABLES
  now,
  received,   \* when each message reached the mailbox
  store,      \* the versions of each message in the archive, v0 first
  errors,     \* error events of each message in the journal
  lastRun,    \* the last run event in the journal
  index,      \* messages in the search index
  rebuild,    \* a reindex: running or not, and the messages it has left
  run,        \* the run in progress
  work,       \* the message it has in hand
  correcting, \* what each corrector read: a message and its latest version
  kept,       \* (history) corrections a person was told were recorded
  missed,     \* (history) messages whose capture failed
  partial,    \* (history) a rebuild was cut short
  used        \* corrections, faults, crashes and reindexes so far

vars == <<now, received, store, errors, lastRun, index, rebuild, run,
          work, correcting, kept, missed, partial, used>>

Never == -1
Unclassified == "unclassified"
Captured == [group |-> Unclassified, drafted |-> FALSE, decisions |-> <<>>]

NoRun == [ts |-> Never, since |-> Never, held |-> FALSE]
NoWork == [message |-> {}, step |-> "none", base |-> 0, current |-> Captured]
Idle == [step |-> "idle", since |-> Never, pending |-> {}, seen |-> {}, listed |-> {},
         began |-> Never, captured |-> 0, capped |-> FALSE, failed |-> FALSE]

Archived(m) == store[m] # <<>>
Latest(m) == Last(store[m])
Unfinished == {m \in Messages : Archived(m) /\ ~Latest(m).drafted}

EffectiveGroup(v) == IF v.decisions # <<>> THEN Last(v.decisions).to ELSE v.group
NoReply(v) == EffectiveGroup(v) \in {"fyi", "asked"} /\ v.group # "asked"

Init ==
  /\ now = 0
  /\ received = [m \in Messages |-> Never]
  /\ store = [m \in Messages |-> <<>>]
  /\ errors = [m \in Messages |-> 0]
  /\ lastRun = NoRun
  /\ index = {} /\ rebuild = [on |-> FALSE, left |-> {}]
  /\ run = Idle /\ work = NoWork
  /\ correcting = [c \in Correctors |-> <<>>]
  /\ kept = [m \in Messages |-> {}]
  /\ missed = {} /\ partial = FALSE
  /\ used = [corrections |-> 0, faults |-> 0, crashes |-> 0, reindexes |-> 0]

archive == <<store, errors>>
search == <<index, rebuild, partial>>
people == <<correcting, kept>>
clock == <<now, received, lastRun>>

Use(what, bound) == used[what] < bound /\ used' = [used EXCEPT ![what] = @ + 1]

-----------------------------------------------------------------------------
(***************************************************************************)
(* The mailbox and the poll window.                                        *)
(***************************************************************************)

\* Mail comes and time passes between two messages of a run: nothing a message
\* in hand goes through reads the clock or the mailbox.
Arrive(m) ==
  /\ work = NoWork /\ received[m] = Never
  /\ received' = [received EXCEPT ![m] = now]
  /\ UNCHANGED <<now, lastRun, archive, search, people, run, work, missed, used>>

Tick ==
  /\ work = NoWork /\ now < MaxTime
  /\ run.began # Never => now - run.began < LongestRun
  /\ now' = now + 1
  /\ UNCHANGED <<received, lastRun, archive, search, people, run, work, missed, used>>

\* Mutant: a capped or failed run moves the watermark all the same.
NextSinceMutMoves(last, at) ==
  IF last = NoRun THEN at - Lookback ELSE last.ts - Overlap

NextSince(last, at) ==
  CASE last = NoRun -> at - Lookback
    [] last.held -> last.since
    [] OTHER -> last.ts - Overlap

\* Mutant: the clause names the day of the watermark itself.
HorizonMutSameDay(since) == Day * (since \div Day) + Zone

\* The earliest time "after:" reaches: the midnight, by the account's clock, of
\* the UTC day before the watermark.
Horizon(since) == Day * ((since - Day) \div Day) + Zone

\* The query's own age filter, evaluated when the mailbox is listed.
Matched(m) == received[m] # Never /\ now - received[m] <= Reach

Mail(since) == {m \in Messages : Matched(m) /\ received[m] >= Horizon(since)}

-----------------------------------------------------------------------------
(***************************************************************************)
(* A run.                                                                  *)
(***************************************************************************)

\* One run at a time: /run holds a lock.
Unlocked == run.step = "idle"

GivenUp(m) == errors[m] >= MaxAttempts

\* Mutant: messages that failed too often are tried like the others.
StartRunMutForever ==
  /\ Unlocked
  /\ run' = [Idle EXCEPT !.step = "resume", !.since = NextSince(lastRun, now),
                         !.seen = Unfinished, !.pending = Unfinished]
  /\ UNCHANGED <<clock, archive, search, people, work, missed, used>>

\* Mutant: messages that failed before are not resumed.
StartRunMutOnce ==
  /\ Unlocked
  /\ run' = [Idle EXCEPT !.step = "resume", !.since = NextSince(lastRun, now),
                         !.seen = Unfinished,
                         !.pending = {m \in Unfinished : errors[m] = 0}]
  /\ UNCHANGED <<clock, archive, search, people, work, missed, used>>

StartRun ==
  /\ Unlocked
  /\ run' = [Idle EXCEPT !.step = "resume", !.since = NextSince(lastRun, now),
                         !.seen = Unfinished,
                         !.pending = {m \in Unfinished : ~GivenUp(m)}]
  /\ UNCHANGED <<clock, archive, search, people, work, missed, used>>

InHand(m, step) == work.step = step /\ work.message = {m}
Free(step) == run.step = step /\ work = NoWork

Resume(m) ==
  /\ Free("resume") /\ m \in run.pending
  /\ run' = [run EXCEPT !.pending = @ \ {m}]
  /\ work' = [NoWork EXCEPT !.message = {m}, !.step = "index"]
  /\ UNCHANGED <<clock, archive, search, people, missed, used>>

\* Nothing is left to resume: the mailbox is listed.
List ==
  /\ Free("resume") /\ run.pending = {}
  /\ run' = [run EXCEPT !.step = "poll", !.began = now, !.listed = Mail(run.since)]
  /\ UNCHANGED <<clock, archive, search, people, work, missed, used>>

\* The next listed message the archive lacks is fetched, its raw file saved beside
\* the versions to be; a run handles none twice.
Poll(m) ==
  /\ Free("poll") /\ run.captured < Cap /\ m \in run.listed
  /\ LET skip == Archived(m) \/ m \in run.seen
     IN  /\ run' = [run EXCEPT !.listed = @ \ {m},
                               !.seen = IF Archived(m) THEN @ ELSE @ \cup {m}]
         /\ work' = IF skip THEN NoWork
                    ELSE [NoWork EXCEPT !.message = {m}, !.step = "capture"]
  /\ UNCHANGED <<clock, archive, search, people, missed, used>>

\* Listing or fetching fails for good: back-off is spent, or the token refused.
PollFails ==
  /\ Free("poll") /\ run.captured < Cap
  /\ Use("faults", MaxFaults)
  /\ run' = [run EXCEPT !.step = "end", !.failed = TRUE]
  /\ UNCHANGED <<clock, archive, search, people, work, missed>>

EndPoll ==
  /\ Free("poll")
  /\ run.captured >= Cap \/ run.listed = {}
  /\ run' = [run EXCEPT !.step = "end", !.capped = run.captured >= Cap]
  /\ UNCHANGED <<clock, archive, search, people, work, missed, used>>

EndRun ==
  /\ run.step = "end"
  /\ lastRun' = [ts |-> now, since |-> run.since, held |-> run.capped \/ run.failed]
  /\ run' = Idle
  /\ UNCHANGED <<now, received, archive, search, people, work, missed, used>>

-----------------------------------------------------------------------------
(***************************************************************************)
(* One message: capture, index, classify, draft.                           *)
(***************************************************************************)

\* What failed is journalled and the run goes on with the next message.
Error(m) == errors' = [errors EXCEPT ![m] = @ + 1] /\ work' = NoWork

Capture(m) ==
  /\ InHand(m, "capture") /\ ~Archived(m)
  /\ store' = [store EXCEPT ![m] = <<Captured>>]
  /\ work' = [work EXCEPT !.step = "new"]
  /\ UNCHANGED <<clock, errors, search, people, run, missed, used>>

CaptureFails(m) ==
  /\ InHand(m, "capture")
  /\ Use("faults", MaxFaults)
  /\ Error(m)
  /\ missed' = missed \cup {m}
  /\ UNCHANGED <<clock, store, search, people, run>>

\* Mutant: a message an earlier run captured is taken to be indexed.
IndexMutOnce(m) ==
  /\ InHand(m, "new") \/ InHand(m, "index")
  /\ index' = IF work.step = "new" THEN index \cup {m} ELSE index
  /\ run' = IF work.step = "new" THEN [run EXCEPT !.captured = @ + 1] ELSE run
  /\ work' = [work EXCEPT !.step = "think", !.base = Len(store[m]), !.current = Latest(m)]
  /\ UNCHANGED <<clock, archive, rebuild, partial, people, missed, used>>

\* The message is indexed, again if an earlier run captured it, and its latest
\* version read.
Index(m) ==
  /\ InHand(m, "new") \/ InHand(m, "index")
  /\ index' = index \cup {m}
  /\ run' = IF work.step = "new" THEN [run EXCEPT !.captured = @ + 1] ELSE run
  /\ work' = [work EXCEPT !.step = "think", !.base = Len(store[m]), !.current = Latest(m)]
  /\ UNCHANGED <<clock, archive, rebuild, partial, people, missed, used>>

IndexFails(m) ==
  /\ InHand(m, "new") \/ InHand(m, "index")
  /\ Use("faults", MaxFaults)
  /\ Error(m)
  /\ UNCHANGED <<clock, store, search, people, run, missed>>

\* The event naming the version is journalled before the version is saved;
\* nothing reads it back.
Derive(v) ==
  /\ work' = [work EXCEPT !.step = "save", !.current = v]
  /\ UNCHANGED <<clock, archive, search, people, run, missed, used>>

Classify(m, answer) ==
  /\ InHand(m, "think") /\ work.current.group = Unclassified
  /\ Derive([work.current EXCEPT !.group = answer])

Draft(m) ==
  /\ InHand(m, "think") /\ work.current.group # Unclassified /\ ~work.current.drafted
  /\ Derive([work.current EXCEPT !.drafted = TRUE])

\* The model fails, or answers what does not validate, three times in a row.
ThinkFails(m) ==
  /\ InHand(m, "think") /\ ~work.current.drafted
  /\ work.current.group = Unclassified \/ ~NoReply(work.current)
  /\ Error(m)
  /\ UNCHANGED <<clock, store, search, people, run, missed, used>>

Finished(m) ==
  /\ InHand(m, "think") /\ work.current.drafted
  /\ work' = NoWork
  /\ UNCHANGED <<clock, archive, search, people, run, missed, used>>

\* Mutant: the file is replaced if it is there.
SaveMutClobber(m) ==
  /\ InHand(m, "save")
  /\ store' = [store EXCEPT ![m] = Append(SubSeq(@, 1, work.base), work.current)]
  /\ work' = [work EXCEPT !.step = "think", !.base = @ + 1]
  /\ UNCHANGED <<clock, errors, search, people, run, missed, used>>

Save(m) ==
  /\ InHand(m, "save")
  /\ \/ /\ Len(store[m]) = work.base
        /\ store' = [store EXCEPT ![m] = Append(@, work.current)]
        /\ work' = [work EXCEPT !.step = "think", !.base = @ + 1]
        /\ UNCHANGED errors
     \/ /\ Len(store[m]) > work.base  \* VersionExists
        /\ Error(m)
        /\ UNCHANGED store
  /\ UNCHANGED <<clock, search, people, run, missed, used>>

-----------------------------------------------------------------------------
(***************************************************************************)
(* A person's corrections, beside the run.                                 *)
(***************************************************************************)

Read(c, m) ==
  /\ correcting[c] = <<>> /\ Archived(m)
  /\ Use("corrections", MaxCorrections)
  /\ correcting' = [correcting EXCEPT ![c] =
       [message |-> m, base |-> Len(store[m]), current |-> Latest(m), saved |-> 0]]
  /\ UNCHANGED <<clock, archive, search, kept, run, work, missed>>

Correct(c, to) ==
  /\ correcting[c] # <<>> /\ correcting[c].saved = 0
  /\ LET r == correcting[c]
         id == used.corrections
     IN  \/ /\ Len(store[r.message]) = r.base
            /\ store' = [store EXCEPT ![r.message] = Append(@,
                 [r.current EXCEPT !.decisions = Append(@, [id |-> id, to |-> to])])]
            /\ correcting' = [correcting EXCEPT ![c].saved = id]
         \/ /\ Len(store[r.message]) > r.base  \* VersionExists: the request fails
            /\ correcting' = [correcting EXCEPT ![c] = <<>>]
            /\ UNCHANGED store
  /\ UNCHANGED <<clock, errors, search, kept, run, work, missed, used>>

\* The correction is journalled and the request answered.
Recorded(c) ==
  /\ correcting[c] # <<>> /\ correcting[c].saved # 0
  /\ LET r == correcting[c]
     IN  kept' = [kept EXCEPT ![r.message] = @ \cup {r.saved}]
  /\ correcting' = [correcting EXCEPT ![c] = <<>>]
  /\ UNCHANGED <<clock, store, errors, search, run, work, missed, used>>

-----------------------------------------------------------------------------
(***************************************************************************)
(* "jarvis reindex", a process of its own, and crashes.                    *)
(***************************************************************************)

StartReindex ==
  /\ ~rebuild.on
  /\ Use("reindexes", MaxReindexes)
  /\ index' = {}
  /\ rebuild' = [on |-> TRUE, left |-> {m \in Messages : Archived(m)}]
  /\ UNCHANGED <<clock, archive, partial, people, run, work, missed>>

Reindex(m) ==
  /\ m \in rebuild.left
  /\ index' = index \cup {m}
  /\ rebuild' = [rebuild EXCEPT !.left = @ \ {m}]
  /\ UNCHANGED <<clock, archive, partial, people, run, work, missed, used>>

EndReindex ==
  /\ rebuild.on /\ rebuild.left = {}
  /\ rebuild' = [rebuild EXCEPT !.on = FALSE]
  /\ partial' = FALSE
  /\ UNCHANGED <<clock, archive, index, people, run, work, missed, used>>

\* The container goes down with everything in it; no run event is written.
Crash ==
  /\ Use("crashes", MaxCrashes)
  /\ run' = Idle /\ work' = NoWork
  /\ correcting' = [c \in Correctors |-> <<>>]
  /\ rebuild' = [on |-> FALSE, left |-> {}]
  /\ partial' = (partial \/ rebuild.on)
  /\ UNCHANGED <<clock, archive, index, kept, missed>>

RunStep ==
  \/ List \/ EndPoll \/ EndRun
  \/ \E m \in Messages :
       \/ Resume(m) \/ Poll(m) \/ Capture(m) \/ Index(m) \/ Draft(m)
       \/ \E a \in Answers : Classify(m, a)
       \/ ThinkFails(m) \/ Finished(m) \/ Save(m)

Next ==
  \/ RunStep \/ StartRun \/ PollFails \/ Tick \/ Crash
  \/ StartReindex \/ EndReindex
  \/ \E m \in Messages : Arrive(m) \/ CaptureFails(m) \/ IndexFails(m) \/ Reindex(m)
  \/ \E c \in Correctors :
       \/ Recorded(c)
       \/ \E m \in Messages : Read(c, m)
       \/ \E to \in Answers \ {"asked"} : Correct(c, to)

Spec == Init /\ [][Next]_vars

\* A run is a loop that does not wait; who orders runs is left open.
FairSpec == Spec /\ WF_vars(RunStep)

-----------------------------------------------------------------------------
Decision == [id : 1 .. MaxCorrections, to : Answers]
Version == [group : Answers \cup {Unclassified}, drafted : BOOLEAN, decisions : Seq(Decision)]

TypeOK ==
  /\ now \in 0 .. MaxTime
  /\ received \in [Messages -> 0 .. MaxTime \cup {Never}]
  /\ \A m \in Messages : store[m] \in Seq(Version)
  /\ errors \in [Messages -> 0 .. MaxAttempts + MaxFaults]
  /\ index \subseteq {m \in Messages : Archived(m)}
  /\ rebuild.left \subseteq Messages
  /\ {run.pending, run.seen, run.listed} \subseteq SUBSET Messages
  /\ run.captured \in 0 .. Cap
  /\ work.current \in Version /\ work.message \subseteq Messages

\* Mail the configured query still matches by itself, that is not archived and whose
\* capture never failed, is within the window of the next poll, whichever of capped
\* runs, failed polls, crashes, the overlap and the day-granular clause came before
\* (sources/gmail.py:255-262 "a safe lower bound").  It says nothing of mail that has
\* aged out of the query: that is lost, as pipeline.py:82-87 has it.
NothingBehindTheWindow ==
  \A m \in Messages :
    Matched(m) /\ ~Archived(m) /\ m \notin missed =>
      received[m] >= Horizon(NextSince(lastRun, now))

\* A correction a person was told is recorded stays among the decisions of the
\* latest version, whatever a run that had read an older one saves meanwhile
\* (core/store.py:42-45 "refuses to clobber", briefing/__init__.py:51-60).
DecisionsKept ==
  \A m \in Messages :
    kept[m] \subseteq (IF Archived(m) THEN {Latest(m).decisions[i].id : i \in DOMAIN Latest(m).decisions}
                       ELSE {})

\* Mail with a draft can be found by search, though a run died before indexing
\* it, unless a rebuild is running or was cut short (pipeline.py:51-54).
DraftedIsSearchable ==
  \A m \in Messages :
    Archived(m) /\ Latest(m).drafted => m \in index \/ rebuild.on \/ partial

\* While runs keep being ordered, mail that came in ends up with a draft, or in
\* error as often as is allowed, or its capture failed (pipeline.py:28-29).
EverySettles ==
  []<><<StartRun>>_vars =>
    \A m \in Messages :
      (received[m] # Never) ~>
        (\/ m \in missed \/ GivenUp(m)
         \/ (Archived(m) /\ Latest(m).drafted))

=============================================================================
