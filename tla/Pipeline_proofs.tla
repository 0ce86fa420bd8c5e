---------------------------- MODULE Pipeline_proofs ----------------------------
(***************************************************************************)
(* What the runs of Pipeline check on a message or two, proved for any set  *)
(* of messages and correctors, any bound, any day, overlap and offset of    *)
(* the clock that WindowAssumption admits.                                  *)
(***************************************************************************)
EXTENDS Pipeline, TLAPS

Steps == {"none", "capture", "new", "index", "think", "save"}
Corrections == 1 .. MaxCorrections
Ids(v) == {v.decisions[i].id : i \in DOMAIN v.decisions}
ArchivedMessages == {m \in Messages : Archived(m)}

RunType == [step : {"idle", "resume", "poll", "end"}, since : Int, pending : SUBSET Messages,
            seen : SUBSET Messages, listed : SUBSET Messages, began : Int,
            captured : 0 .. Cap, capped : BOOLEAN, failed : BOOLEAN]
WorkType == [message : SUBSET Messages, step : Steps, base : Nat, current : Version]
ReadType == [message : Messages, base : Nat, current : Version, saved : {0} \cup Corrections]
UsedType == [corrections : 0 .. MaxCorrections, faults : 0 .. MaxFaults,
             crashes : 0 .. MaxCrashes, reindexes : 0 .. MaxReindexes]

\* The types TypeOK leaves out, and its bounds where they hold by themselves.
Shape ==
  /\ now \in 0 .. MaxTime
  /\ received \in [Messages -> 0 .. MaxTime \cup {Never}]
  /\ store \in [Messages -> Seq(Version)]
  /\ errors \in [Messages -> Nat]
  /\ lastRun \in [ts : Int, since : Int, held : BOOLEAN]
  /\ index \subseteq ArchivedMessages
  /\ rebuild \in [on : BOOLEAN, left : SUBSET Messages]
  /\ run \in RunType /\ work \in WorkType
  /\ correcting \in [Correctors -> ReadType \cup {<<>>}]
  /\ kept \in [Messages -> SUBSET Corrections]
  /\ missed \subseteq Messages
  /\ used \in UsedType

\* The message in hand: captured before anything else is done with it, no longer
\* among those to resume, and within the cap while it is new.
Hand ==
  /\ work.step = "none" => work = NoWork
  /\ work.step # "none" =>
       /\ \E m \in Messages : work.message = {m} /\ m \notin run.pending
       /\ run.step \in {"resume", "poll"}
  /\ work.step \in {"new", "index", "think", "save"} => work.message \subseteq ArchivedMessages
  /\ work.step \in {"capture", "new"} => run.captured < Cap
  /\ run.pending \subseteq ArchivedMessages
  /\ run.step # "resume" => run.pending = {}
  /\ rebuild.left \subseteq ArchivedMessages

\* A message fails without a fault only in a run that took it up short of the
\* limit; before it is archived, only faults are counted.
ErrorsCounted ==
  \A m \in Messages :
    /\ errors[m] <= MaxAttempts + used.faults
    /\ ~Archived(m) => errors[m] <= used.faults
    /\ m \in run.pending \/ work.message = {m} => errors[m] < MaxAttempts + used.faults

\* Mail the pipeline has left no trace of.
Waiting(m) == Matched(m) /\ ~Archived(m) /\ m \notin missed

\* Watermarks are never ahead of the clock, and a run is never longer than allowed.
Clocks ==
  /\ \A m \in Messages : received[m] <= now
  /\ lastRun.ts <= now /\ lastRun.since <= now
  /\ run.step # "idle" => run.since <= now
  /\ IF run.step \in {"poll", "end"} THEN run.began \in 0 .. now /\ now - run.began <= LongestRun
     ELSE run.began = Never

\* What waits is in the window of the run in progress, and once the mailbox was
\* listed, still to be taken up, in hand, or younger than the listing.
Window ==
  /\ NothingBehindTheWindow
  /\ run.step # "idle" => \A m \in Messages : Waiting(m) => received[m] >= Horizon(run.since)
  /\ run.step = "resume" => run.seen \subseteq ArchivedMessages
  /\ run.step \in {"poll", "end"} =>
       /\ run.listed \cap run.seen \subseteq ArchivedMessages
       /\ run.failed \/ run.capped \/
            \A m \in Messages : Waiting(m) =>
              \/ m \in run.listed
              \/ work.step = "capture" /\ work.message = {m}
              \/ received[m] >= run.began
  /\ run.step # "end" => ~run.capped
  /\ run.step = "end" /\ ~run.failed /\ ~run.capped => run.listed = {}

\* What a corrector read is still the latest version, or no longer; what it saved
\* stays among the decisions.
ReadKept(c) ==
  LET r == correcting[c]
  IN  /\ Archived(r.message) /\ r.base <= Len(store[r.message])
      /\ used.corrections > 0
      /\ r.saved = 0 /\ r.base = Len(store[r.message]) => r.current = Latest(r.message)
      /\ r.saved # 0 => r.saved \in Ids(Latest(r.message))

\* Whoever holds a version that is still the latest holds all its decisions.
Decisions ==
  /\ DecisionsKept
  /\ work.step \in {"think", "save"} =>
       \A m \in Messages : work.message = {m} =>
         /\ work.base <= Len(store[m])
         /\ work.base = Len(store[m]) => work.current.decisions = Latest(m).decisions
  /\ \A c \in Correctors : correcting[c] # <<>> => ReadKept(c)

\* Past indexing: drafted already, or on the way there.
PastIndex(m) ==
  \/ Archived(m) /\ Latest(m).drafted
  \/ work.step \in {"think", "save"} /\ work.message = {m}

Searchable ==
  /\ \A m \in Messages : PastIndex(m) => m \in index \/ rebuild.on \/ partial
  /\ rebuild.on => \A m \in Messages : PastIndex(m) => m \in index \cup rebuild.left

IInv ==
  /\ Shape /\ Hand /\ ErrorsCounted /\ Clocks /\ Window /\ Decisions /\ Searchable

-----------------------------------------------------------------------------
(***************************************************************************)
(* Versions, their decisions and the horizon.                              *)
(***************************************************************************)

LEMMA Numbers ==
  /\ MaxTime \in Nat /\ MaxCorrections \in Nat /\ MaxFaults \in Nat
  /\ MaxCrashes \in Nat /\ MaxReindexes \in Nat
  /\ MaxAttempts \in Nat /\ MaxAttempts > 0 /\ Cap \in Nat /\ Cap > 0
  BY CountsAssumption

\* A bounded counter that is used stays in its type and goes up by one.
LEMMA Using ==
  ASSUME used \in UsedType
  PROVE  /\ Use("corrections", MaxCorrections) =>
              used' \in UsedType /\ used'.corrections = used.corrections + 1 /\ used'.faults = used.faults
         /\ Use("faults", MaxFaults) =>
              used' \in UsedType /\ used'.faults = used.faults + 1 /\ used'.corrections = used.corrections
         /\ Use("crashes", MaxCrashes) =>
              used' \in UsedType /\ used'.corrections = used.corrections /\ used'.faults = used.faults
         /\ Use("reindexes", MaxReindexes) =>
              used' \in UsedType /\ used'.corrections = used.corrections /\ used'.faults = used.faults
  BY Numbers DEF Use, UsedType

LEMMA Appending ==
  ASSUME NEW S, NEW s \in Seq(S), NEW x \in S
  PROVE  /\ Append(s, x) \in Seq(S) /\ Append(s, x) # <<>>
         /\ Len(Append(s, x)) = Len(s) + 1 /\ Last(Append(s, x)) = x
  BY DEF Last

LEMMA LastIn ==
  ASSUME NEW S, NEW s \in Seq(S), s # <<>>
  PROVE  Last(s) \in S /\ Len(s) \in Nat \ {0}
  BY DEF Last

\* The poll reaches back at least a day less the offset of the account's clock.
LEMMA HorizonBound ==
  ASSUME NEW since \in Int
  PROVE  Horizon(since) \in Int /\ Horizon(since) <= since - Day + Zone
<1> DEFINE d == (since - Day) \div Day
<1>1. \A n \in Nat \ {0}, x \in Int : x \div n \in Int /\ n * (x \div n) \in Int /\ n * (x \div n) <= x
  OBVIOUS
<1>2. since - Day \in Int /\ Day \in Nat \ {0} /\ Zone \in Int
  BY WindowAssumption
<1>3. d \in Int /\ Day * d \in Int /\ Day * d <= since - Day
  BY <1>1, <1>2
<1>4. Horizon(since) = Day * d + Zone
  BY DEF Horizon
<1> QED
  BY <1>2, <1>3, <1>4

LEMMA HorizonBehind ==
  ASSUME NEW since \in Int, NEW at \in Int, since <= at
  PROVE  Horizon(since) \in Int /\ Horizon(since) < at
<1>1. Day \in Int /\ Zone \in Int /\ Zone < Day
  BY WindowAssumption
<1> QED
  BY <1>1, HorizonBound

\* What the window of the next poll starts from is not ahead of the clock.
LEMMA NextSinceBound ==
  ASSUME NEW at \in 0 .. MaxTime, NEW last \in [ts : Int, since : Int, held : BOOLEAN],
         last.ts <= at, last.since <= at
  PROVE  NextSince(last, at) \in Int /\ NextSince(last, at) <= at
  BY WindowAssumption, CountsAssumption DEF NextSince

LEMMA CapturedIsVersion == Captured \in Version /\ Ids(Captured) = {}
  BY DEF Captured, Version, Ids

\* Classifying and drafting leave the decisions alone; a correction adds one.
LEMMA Derived ==
  ASSUME NEW v \in Version
  PROVE  /\ \A a \in Answers :
              [v EXCEPT !.group = a] \in Version /\ [v EXCEPT !.group = a].decisions = v.decisions
         /\ [v EXCEPT !.drafted = TRUE] \in Version
         /\ [v EXCEPT !.drafted = TRUE].decisions = v.decisions
  BY DEF Version

LEMMA Corrected ==
  ASSUME NEW v \in Version, NEW d \in Decision
  PROVE  LET w == [v EXCEPT !.decisions = Append(@, d)]
         IN  w \in Version /\ w.drafted = v.drafted /\ Ids(v) \cup {d.id} \subseteq Ids(w)
<1> DEFINE w == [v EXCEPT !.decisions = Append(@, d)]
<1>1. w \in Version /\ w.drafted = v.drafted /\ w.decisions = Append(v.decisions, d)
  BY DEF Version
<1>2. v.decisions \in Seq(Decision)
  BY DEF Version
<1>3. \A i \in DOMAIN v.decisions : i \in DOMAIN w.decisions /\ w.decisions[i] = v.decisions[i]
  BY <1>1, <1>2
<1>4. LET n == Len(v.decisions) + 1 IN n \in DOMAIN w.decisions /\ w.decisions[n] = d
  BY <1>1, <1>2
<1> QED
  BY <1>1, <1>3, <1>4 DEF Ids

LEMMA LatestIsVersion ==
  ASSUME Shape, NEW m \in Messages, Archived(m)
  PROVE  Latest(m) \in Version /\ Len(store[m]) \in Nat \ {0}
  BY LastIn DEF Shape, Archived, Latest

-----------------------------------------------------------------------------
(***************************************************************************)
(* Parts a step does not touch.                                            *)
(***************************************************************************)

LEMMA DecisionsFrame ==
  ASSUME Decisions, UNCHANGED <<store, people>>, used'.corrections = used.corrections,
         work' = work \/ work'.step \notin {"think", "save"}
  PROVE  Decisions'
  BY DEF Decisions, DecisionsKept, ReadKept, Archived, Latest, people, Ids

LEMMA SearchableFrame ==
  ASSUME Searchable, UNCHANGED <<store, search>>,
         work' = work \/ work'.step \notin {"think", "save"}
  PROVE  Searchable'
  BY DEF Searchable, PastIndex, Archived, Latest, search

\* What became archived or missed waits no longer; nothing else does anything to
\* the window, unless it lets go of a message it was to capture.
LEMMA WindowFrame ==
  ASSUME Window, Clocks, UNCHANGED clock,
         run' = run \/ \E n : run' = [run EXCEPT !.captured = n],
         run \in RunType,
         \A m \in Messages : Archived(m) => Archived(m)',
         \A m \in Messages : Waiting(m)' => Waiting(m),
         \A m \in Messages : Waiting(m)' /\ work.step = "capture" /\ work.message = {m} => work' = work
  PROVE  Window' /\ Clocks'
<1>0. /\ run'.step = run.step /\ run'.since = run.since /\ run'.seen = run.seen
      /\ run'.listed = run.listed /\ run'.began = run.began
      /\ run'.capped = run.capped /\ run'.failed = run.failed
  BY DEF RunType
<1>1. Clocks'
  BY <1>0 DEF Clocks, clock
<1>2. NothingBehindTheWindow'
  BY DEF Window, NothingBehindTheWindow, Waiting, Matched, clock, NextSince, Horizon
<1>3. (run.step # "idle" => \A m \in Messages : Waiting(m) => received[m] >= Horizon(run.since))'
  BY <1>0 DEF Window, clock, Horizon
<1>4. ArchivedMessages \subseteq ArchivedMessages'
  BY DEF ArchivedMessages
<1>5. (run.step \in {"poll", "end"} =>
         run.failed \/ run.capped \/
            \A m \in Messages : Waiting(m) =>
              \/ m \in run.listed
              \/ work.step = "capture" /\ work.message = {m}
              \/ received[m] >= run.began)'
  BY <1>0 DEF Window, clock
<1> QED
  BY <1>0, <1>1, <1>2, <1>3, <1>4, <1>5 DEF Window

LEMMA ArchiveUnchanged ==
  ASSUME UNCHANGED store
  PROVE  /\ ArchivedMessages' = ArchivedMessages
         /\ \A m \in Messages : Archived(m)' = Archived(m)
  BY DEF ArchivedMessages, Archived

LEMMA Initially == Init => IInv
<1> SUFFICES ASSUME Init PROVE IInv
  OBVIOUS
<1>1. Shape
  BY CountsAssumption, CapturedIsVersion
  DEF Init, Shape, NoRun, Idle, NoWork, RunType, WorkType, ReadType, UsedType, Steps, Never, ArchivedMessages
<1>2. Hand /\ ErrorsCounted /\ Clocks
  BY CountsAssumption DEF Init, Hand, ErrorsCounted, Clocks, NoRun, Idle, NoWork, Never,
                          ArchivedMessages
<1>3. Window
  BY DEF Init, Window, NothingBehindTheWindow, Waiting, Matched, Idle, Never, ArchivedMessages
<1>4. Decisions /\ Searchable
  BY DEF Init, Decisions, DecisionsKept, Searchable, PastIndex, NoWork, Archived
<1> QED
  BY <1>1, <1>2, <1>3, <1>4 DEF IInv

-----------------------------------------------------------------------------
(***************************************************************************)
(* The mailbox and the clock.                                              *)
(***************************************************************************)

LEMMA ArriveStep ==
  ASSUME IInv, NEW m \in Messages, Arrive(m)
  PROVE  IInv'
<1>0. now \in 0 .. MaxTime /\ now \in Int
  BY CountsAssumption DEF IInv, Shape
<1>1. Shape'
  BY <1>0 DEF IInv, Shape, Arrive, archive, search, people, ArchivedMessages, Archived
<1>2. Hand' /\ ErrorsCounted'
  BY DEF IInv, Hand, ErrorsCounted, Arrive, archive, search, ArchivedMessages, Archived
<1>3. Clocks'
  BY <1>0 DEF IInv, Shape, Clocks, Arrive
<1>4. Decisions' /\ Searchable'
  BY DecisionsFrame, SearchableFrame DEF IInv, Arrive, archive
<1>5. received'[m] = now /\ \A n \in Messages \ {m} : received'[n] = received[n]
  BY DEF IInv, Shape, Arrive
<1>6. now >= Horizon(NextSince(lastRun, now)) /\ (run.step # "idle" => now >= Horizon(run.since))
  <2>1. NextSince(lastRun, now) \in Int /\ NextSince(lastRun, now) <= now
    BY NextSinceBound DEF IInv, Shape, Clocks
  <2>2. \A s \in Int : s <= now => now >= Horizon(s)
    BY <1>0, HorizonBehind
  <2>3. run.since \in Int /\ (run.step # "idle" => run.since <= now)
    BY DEF IInv, Shape, Clocks, RunType
  <2> QED
    BY <2>1, <2>2, <2>3
<1>7. \A n \in Messages \ {m} : Waiting(n)' => Waiting(n)
  BY <1>5 DEF Waiting, Matched, Arrive, archive, Archived
<1>8. Window'
  <2>1. NothingBehindTheWindow'
    BY <1>5, <1>6 DEF IInv, Window, NothingBehindTheWindow, Matched, Arrive, archive, Archived,
                      NextSince, Horizon
  <2>2. (run.step # "idle" => \A n \in Messages : Waiting(n) => received[n] >= Horizon(run.since))'
    BY <1>5, <1>6, <1>7 DEF IInv, Window, Arrive, Horizon
  <2>3. (run.step \in {"poll", "end"} => now >= run.began)'
    BY DEF IInv, Clocks, Arrive, Shape
  <2> QED
    BY <1>5, <1>7, <2>1, <2>2, <2>3 DEF IInv, Window, Arrive, archive, ArchivedMessages, Archived
<1> QED
  BY <1>1, <1>2, <1>3, <1>4, <1>8 DEF IInv

LEMMA TickStep ==
  ASSUME IInv, Tick
  PROVE  IInv'
<1>0. MaxTime \in Nat /\ now \in 0 .. MaxTime
  BY CountsAssumption DEF IInv, Shape
<1>1. Shape' /\ now' = now + 1 /\ now \in Nat
  <2>1. now' = now + 1 /\ now' \in 0 .. MaxTime
    BY <1>0 DEF Tick
  <2> QED
    BY <1>0, <2>1 DEF IInv, Shape, Tick, archive, search, people, ArchivedMessages, Archived
<1>2. Hand' /\ ErrorsCounted'
  BY DEF IInv, Hand, ErrorsCounted, Tick, archive, search, ArchivedMessages, Archived
<1>3. Clocks'
  <2>1. \A m \in Messages : received[m] \in Int
    BY <1>0 DEF IInv, Shape, Never
  <2>2. run.since \in Int /\ run.began \in Int /\ lastRun.ts \in Int /\ lastRun.since \in Int
    BY DEF IInv, Shape, RunType
  <2>3. run.began # Never => now + 1 - run.began <= LongestRun
    BY <1>0, <2>2, WindowAssumption DEF Tick
  <2> QED
    BY <1>0, <1>1, <2>1, <2>2, <2>3 DEF IInv, Clocks, Tick, Never
<1>4. Decisions' /\ Searchable'
  BY DecisionsFrame, SearchableFrame DEF IInv, Tick, archive
<1>7. \A m \in Messages : Waiting(m)' => Waiting(m)
  <2>1. \A m \in Messages : received[m] \in Int /\ received'[m] = received[m]
    BY <1>0 DEF IInv, Shape, Never, Tick
  <2>2. \A m \in Messages : Matched(m)' => Matched(m)
    BY <1>0, <1>1, <2>1, WindowAssumption DEF Matched
  <2> QED
    BY <2>2 DEF Waiting, Tick, archive, Archived
<1>5. NothingBehindTheWindow'
  <2>1. CASE lastRun = NoRun
    <3>1. NextSince(lastRun', now') = now + 1 - Lookback /\ now + 1 - Lookback \in Int /\ now + 1 - Lookback <= 0
      BY <1>1, <2>1, WindowAssumption, CountsAssumption DEF Tick, NextSince, NoRun
    <3>2. Horizon(NextSince(lastRun', now')) \in Int /\ Horizon(NextSince(lastRun', now')) <= 0
      BY <3>1, HorizonBound, WindowAssumption
    <3>3. \A m \in Messages : received'[m] # Never => received'[m] \in Nat
      BY DEF IInv, Shape, Tick
    <3>4. \A m \in Messages : Matched(m)' => received'[m] \in Nat
      BY <3>3 DEF Matched
    <3>5. \A m \in Messages : Matched(m)' => received'[m] >= Horizon(NextSince(lastRun', now'))
      BY <3>2, <3>4
    <3>6. Horizon(NextSince(lastRun', now')) = Horizon(NextSince(lastRun, now))'
      BY DEF Horizon, NextSince
    <3> QED
      BY <3>5, <3>6 DEF NothingBehindTheWindow
  <2>2. CASE lastRun # NoRun
    <3>1. Horizon(NextSince(lastRun, now))' = Horizon(NextSince(lastRun, now)) /\ received' = received
      BY <2>2 DEF Tick, NextSince, Horizon
    <3>2. \A m \in Messages : Waiting(m) => received[m] >= Horizon(NextSince(lastRun, now))
      BY DEF IInv, Window, NothingBehindTheWindow, Waiting
    <3> QED
      BY <1>7, <3>1, <3>2 DEF NothingBehindTheWindow, Waiting
  <2> QED
    BY <2>1, <2>2
<1>6. Window'
  BY <1>5, <1>7 DEF IInv, Window, Tick, archive, ArchivedMessages, Archived, Horizon
<1> QED
  BY <1>1, <1>2, <1>3, <1>4, <1>6 DEF IInv

-----------------------------------------------------------------------------
(***************************************************************************)
(* The run.                                                                *)
(***************************************************************************)

\* Nothing the steps of the run itself do concerns decisions or the index.
LEMMA RunFrame ==
  ASSUME IInv, UNCHANGED <<store, search, people>>, used'.corrections = used.corrections,
         work' = work \/ work'.step \notin {"think", "save"}
  PROVE  Decisions' /\ Searchable'
  BY DecisionsFrame, SearchableFrame DEF IInv

LEMMA IdleType == Idle \in RunType
  BY Numbers DEF Idle, RunType, Never

LEMMA NoWorkType == NoWork \in WorkType
  BY CapturedIsVersion DEF NoWork, WorkType, Steps

LEMMA ListingType ==
  ASSUME NEW r \in RunType, NEW l \in SUBSET Messages, NEW t \in Int
  PROVE  [r EXCEPT !.step = "poll", !.began = t, !.listed = l] \in RunType
  BY DEF RunType

LEMMA StartRunStep ==
  ASSUME IInv, StartRun
  PROVE  IInv'
<1>0. /\ run' \in RunType /\ run'.step = "resume" /\ run'.began = Never
      /\ run'.since = NextSince(lastRun, now) /\ run'.since <= now
      /\ run'.seen = Unfinished /\ run'.pending = {m \in Unfinished : ~GivenUp(m)}
      /\ run'.captured = 0 /\ run'.capped = FALSE
  <2>1. NextSince(lastRun, now) \in Int /\ NextSince(lastRun, now) <= now
    BY NextSinceBound DEF IInv, Shape, Clocks
  <2>2. Unfinished \in SUBSET Messages /\ {m \in Unfinished : ~GivenUp(m)} \in SUBSET Messages
    BY DEF Unfinished
  <2> QED
    BY <2>1, <2>2, IdleType DEF StartRun, Idle, RunType
<1>1. Shape'
  BY <1>0 DEF IInv, Shape, StartRun, clock, archive, search, people, ArchivedMessages, Archived
<1>2. Unfinished \subseteq ArchivedMessages /\ work = NoWork
  BY DEF IInv, Hand, Unfinished, ArchivedMessages, StartRun, Unlocked
<1>3. Hand'
  BY <1>0, <1>2 DEF IInv, Hand, StartRun, NoWork, archive, search, ArchivedMessages, Archived
<1>4. ErrorsCounted'
  BY <1>0, <1>2, CountsAssumption DEF IInv, Shape, UsedType, ErrorsCounted, StartRun, GivenUp,
                                      NoWork, archive, Archived
<1>5. Clocks'
  BY <1>0 DEF IInv, Clocks, StartRun, clock
<1>6. Window'
  BY <1>0, <1>2 DEF IInv, Window, NothingBehindTheWindow, Waiting, Matched, StartRun, clock,
                    archive, ArchivedMessages, Archived, Horizon, NextSince
<1> QED
  BY <1>1, <1>3, <1>4, <1>5, <1>6, RunFrame DEF IInv, StartRun, archive

LEMMA ResumeStep ==
  ASSUME IInv, NEW m \in Messages, Resume(m)
  PROVE  IInv'
<1>0. /\ run' = [run EXCEPT !.pending = @ \ {m}] /\ run' \in RunType
      /\ run.step = "resume" /\ m \in run.pending /\ work = NoWork
      /\ work' \in WorkType /\ work'.step = "index" /\ work'.message = {m}
  BY CapturedIsVersion DEF IInv, Shape, Resume, Free, RunType, NoWork, WorkType, Steps
<1>1. Shape'
  BY <1>0 DEF IInv, Shape, Resume, clock, archive, search, people, ArchivedMessages, Archived
<1>2. Hand' /\ ErrorsCounted'
  BY <1>0 DEF IInv, Shape, RunType, Hand, ErrorsCounted, Resume, NoWork, archive, search,
              ArchivedMessages, Archived
<1>3. Clocks'
  BY <1>0 DEF IInv, Shape, RunType, Clocks, Resume, clock
<1>4. Window'
  BY <1>0 DEF IInv, Shape, RunType, Window, NothingBehindTheWindow, Waiting, Matched, Resume, clock,
              archive, ArchivedMessages, Archived, Horizon, NextSince
<1> QED
  BY <1>0, <1>1, <1>2, <1>3, <1>4, RunFrame DEF IInv, Resume, archive

\* Everything that waits is in the listing.
LEMMA ListStep ==
  ASSUME IInv, List
  PROVE  IInv'
<1>0. /\ run' = [run EXCEPT !.step = "poll", !.began = now, !.listed = Mail(run.since)]
      /\ run' \in RunType /\ now \in Nat
      /\ run.step = "resume" /\ run.pending = {} /\ work = NoWork /\ work' = NoWork
  <2>1. Mail(run.since) \in SUBSET Messages /\ now \in Nat /\ run \in RunType
    BY Numbers DEF IInv, Shape, Mail, Matched
  <2>2. /\ run' = [run EXCEPT !.step = "poll", !.began = now, !.listed = Mail(run.since)]
        /\ run.step = "resume" /\ run.pending = {} /\ work = NoWork /\ work' = NoWork
    BY DEF List, Free
  <2> DEFINE listed == Mail(run.since)
  <2>3. listed \in SUBSET Messages /\ now \in Int /\ run \in RunType
    BY <2>1
  <2> HIDE DEF listed
  <2>4. [run EXCEPT !.step = "poll", !.began = now, !.listed = listed] \in RunType
    BY <2>3, ListingType
  <2> QED
    BY <2>1, <2>2, <2>4 DEF listed
<1>1. Shape'
  BY <1>0 DEF IInv, Shape, List, clock, archive, search, people, ArchivedMessages, Archived
<1>2. Hand' /\ ErrorsCounted'
  BY <1>0 DEF IInv, Shape, RunType, Hand, ErrorsCounted, List, NoWork, archive, search,
              ArchivedMessages, Archived
<1>3. Clocks'
  BY <1>0, WindowAssumption DEF IInv, Shape, RunType, Clocks, List, clock
<1>4. \A m \in Messages : Waiting(m) => m \in Mail(run.since)
  BY <1>0 DEF IInv, Window, Waiting, Matched, Mail
<1>5. Window'
  BY <1>0, <1>4 DEF IInv, Shape, RunType, Window, NothingBehindTheWindow, Waiting, Matched, List,
                    clock, archive, ArchivedMessages, Archived, Horizon, NextSince
<1> QED
  BY <1>0, <1>1, <1>2, <1>3, <1>5, RunFrame DEF IInv, List, archive

\* A message that waits and is listed is taken in hand.
LEMMA PollStep ==
  ASSUME IInv, NEW m \in Messages, Poll(m)
  PROVE  IInv'
<1>0. /\ run' \in RunType /\ run.step = "poll" /\ run'.step = "poll" /\ run'.listed = run.listed \ {m}
      /\ run'.since = run.since /\ run'.pending = run.pending /\ run'.began = run.began
      /\ run'.captured = run.captured /\ run'.failed = run.failed /\ run'.capped = run.capped
      /\ run.captured < Cap /\ work = NoWork /\ m \in run.listed
      /\ run'.seen = IF Archived(m) THEN run.seen ELSE run.seen \cup {m}
  BY DEF IInv, Shape, Poll, Free, RunType
<1>1. /\ work' \in WorkType
      /\ \/ work'.step = "none" /\ work' = NoWork
         \/ work'.step = "capture" /\ work'.message = {m} /\ ~Archived(m)
      /\ work' = NoWork => Archived(m) \/ m \in run.seen
  <2>1. NoWork \in WorkType /\ [NoWork EXCEPT !.message = {m}, !.step = "capture"] \in WorkType
    BY CapturedIsVersion DEF NoWork, WorkType, Steps
  <2>2. NoWork.step = "none" /\ [NoWork EXCEPT !.message = {m}, !.step = "capture"].step = "capture"
        /\ [NoWork EXCEPT !.message = {m}, !.step = "capture"].message = {m}
    BY DEF NoWork
  <2>3. work' = IF Archived(m) \/ m \in run.seen THEN NoWork
                ELSE [NoWork EXCEPT !.message = {m}, !.step = "capture"]
    BY DEF Poll
  <2>4. CASE Archived(m) \/ m \in run.seen
    BY <2>1, <2>2, <2>3, <2>4
  <2>5. CASE ~(Archived(m) \/ m \in run.seen)
    BY <2>1, <2>2, <2>3, <2>5
  <2> QED
    BY <2>4, <2>5
<1>2. Shape'
  BY <1>0, <1>1 DEF IInv, Shape, Poll, clock, archive, search, people, ArchivedMessages, Archived
<1>3. run.pending = {}
  BY <1>0 DEF IInv, Hand
<1>4. Hand'
  BY <1>0, <1>1, <1>3 DEF IInv, Hand, Poll, archive, search, ArchivedMessages, Archived
<1>5. ErrorsCounted'
  <2>1. errors' = errors /\ used' = used /\ \A n \in Messages : Archived(n)' = Archived(n)
    BY DEF Poll, archive, Archived
  <2>2. \A n \in Messages : work'.message = {n} => n = m /\ ~Archived(m)
    BY <1>1 DEF NoWork
  <2>3. ~Archived(m) => errors[m] < MaxAttempts + used.faults
    BY Numbers DEF IInv, ErrorsCounted, Shape, UsedType
  <2> QED
    BY <1>0, <1>3, <2>1, <2>2, <2>3 DEF IInv, ErrorsCounted
<1>6. Clocks'
  BY <1>0 DEF IInv, Clocks, Poll, clock
<1>7. m \in ArchivedMessages \/ (work'.step = "capture" /\ work'.message = {m})
  BY <1>0, <1>1 DEF IInv, Window, ArchivedMessages
<1>8. Window'
  <2>1. NothingBehindTheWindow' /\ (run.step # "idle" => \A n \in Messages : Waiting(n) => received[n] >= Horizon(run.since))'
    BY <1>0 DEF IInv, Window, NothingBehindTheWindow, Waiting, Matched, Poll, clock, archive,
                Archived, Horizon, NextSince
  <2>2. run'.listed \cap run'.seen \subseteq ArchivedMessages'
    BY <1>0 DEF IInv, Window, Poll, archive, ArchivedMessages, Archived
  <2>3. run'.failed \/ run'.capped \/
            \A n \in Messages : Waiting(n)' =>
              \/ n \in run'.listed
              \/ work'.step = "capture" /\ work'.message = {n}
              \/ received'[n] >= run'.began
    BY <1>0, <1>7 DEF IInv, Window, Poll, clock, archive, Archived, ArchivedMessages, Waiting,
                      Matched, NoWork
  <2> QED
    BY <1>0, <2>1, <2>2, <2>3 DEF IInv, Window
<1> QED
  BY <1>1, <1>2, <1>4, <1>5, <1>6, <1>8, RunFrame DEF IInv, Poll, archive

\* A listing that ends, or fails: the first leaves nothing listed or is capped.
LEMMA EndPollStep ==
  ASSUME IInv, EndPoll \/ PollFails
  PROVE  IInv'
<1>0. /\ run' \in RunType /\ run.step = "poll" /\ run'.step = "end" /\ work = NoWork /\ work' = NoWork
      /\ run'.since = run.since /\ run'.pending = run.pending /\ run'.began = run.began
      /\ run'.captured = run.captured /\ run'.listed = run.listed /\ run'.seen = run.seen
  <2>1. run \in RunType /\ (run.captured >= Cap) \in BOOLEAN
    BY DEF IInv, Shape
  <2>2. CASE EndPoll
    BY <2>1, <2>2 DEF EndPoll, Free, RunType
  <2>3. CASE PollFails
    BY <2>1, <2>3 DEF PollFails, Free, RunType
  <2> QED
    BY <2>2, <2>3
<1>u. /\ used' \in UsedType /\ used'.corrections = used.corrections
      /\ used'.faults = used.faults \/ used'.faults = used.faults + 1
  BY Using DEF IInv, Shape, EndPoll, PollFails
<1>1. run'.failed \/ run'.capped \/ (~run.failed /\ run.listed = {})
  BY Numbers DEF IInv, Shape, RunType, EndPoll, PollFails
<1>2. Shape'
  BY <1>0, <1>u DEF IInv, Shape, EndPoll, PollFails, clock, archive, search, people,
                    ArchivedMessages, Archived
<1>3. Hand'
  BY <1>0 DEF IInv, Hand, NoWork, EndPoll, PollFails, archive, search, ArchivedMessages, Archived
<1>4. ErrorsCounted'
  <2>1. errors' = errors /\ (\A n \in Messages : Archived(n)' = Archived(n)) /\ run.pending = {}
    BY <1>0 DEF IInv, Hand, EndPoll, PollFails, archive, Archived
  <2>2. used.faults \in Nat /\ used'.faults \in Nat /\ \A n \in Messages : errors[n] \in Nat /\ work.message # {n}
    BY <1>0, <1>u, Numbers DEF IInv, Shape, UsedType, NoWork
  <2> QED
    BY <1>0, <1>u, <2>1, <2>2, Numbers DEF IInv, ErrorsCounted
<1>5. Clocks'
  BY <1>0 DEF IInv, Clocks, EndPoll, PollFails, clock
<1>6. Window'
  <2>1. NothingBehindTheWindow' /\ (run.step # "idle" => \A n \in Messages : Waiting(n) => received[n] >= Horizon(run.since))'
    BY <1>0 DEF IInv, Window, NothingBehindTheWindow, Waiting, Matched, EndPoll, PollFails, clock,
                archive, Archived, Horizon, NextSince
  <2>2. run'.listed \cap run'.seen \subseteq ArchivedMessages'
    BY <1>0 DEF IInv, Window, EndPoll, PollFails, archive, ArchivedMessages, Archived
  <2>3. \A m \in Messages : (Waiting(m)' <=> Waiting(m)) /\ received'[m] = received[m]
    BY DEF Waiting, Matched, EndPoll, PollFails, clock, archive, Archived
  <2> QED
    BY <1>0, <1>1, <2>1, <2>2, <2>3 DEF IInv, Window, NoWork
<1> QED
  BY <1>0, <1>u, <1>2, <1>3, <1>4, <1>5, <1>6, RunFrame DEF IInv, EndPoll, PollFails, archive

\* The window of the next run starts where this one's did, or so little before
\* now that whatever came after the listing is within it.
LEMMA EndRunStep ==
  ASSUME IInv, EndRun
  PROVE  IInv'
<1>0. /\ lastRun' = [ts |-> now, since |-> run.since, held |-> run.capped \/ run.failed]
      /\ run' = Idle /\ run.step = "end" /\ now \in Nat /\ run.since \in Int
      /\ work = NoWork /\ work' = NoWork
  BY CountsAssumption DEF IInv, Shape, RunType, EndRun, Hand
<1>1. Shape'
  BY <1>0, CountsAssumption
  DEF IInv, Shape, EndRun, Idle, RunType, Never, archive, search, people, ArchivedMessages, Archived
<1>2. Hand' /\ ErrorsCounted'
  BY <1>0, CountsAssumption DEF IInv, Hand, ErrorsCounted, EndRun, Idle, NoWork, archive, search,
                                ArchivedMessages, Archived
<1>3. Clocks'
  BY <1>0 DEF IInv, Clocks, EndRun, Idle
<1>4. NothingBehindTheWindow'
  <2>0. NextSince(lastRun', now') = IF run.capped \/ run.failed THEN run.since ELSE now - Overlap
    <3>1. lastRun'.ts = now /\ lastRun'.since = run.since /\ lastRun'.held = (run.capped \/ run.failed)
      BY <1>0
    <3>2. lastRun' # NoRun
      BY <1>0, <3>1 DEF NoRun, Never
    <3> QED
      BY <3>1, <3>2 DEF NextSince
  <2>1. CASE run.capped \/ run.failed
    BY <1>0, <2>0, <2>1 DEF IInv, Window, NothingBehindTheWindow, Waiting, Matched, EndRun, archive,
                            Archived, Horizon
  <2>2. CASE ~(run.capped \/ run.failed)
    <3>1. \A m \in Messages : Waiting(m) => received[m] >= run.began
      BY <1>0, <2>2 DEF IInv, Window, NoWork
    <3>2. now - Overlap \in Int /\ now - LongestRun <= run.began /\ run.began \in Int
      BY <1>0, WindowAssumption DEF IInv, Clocks, Shape, RunType
    <3>3. Horizon(now - Overlap) \in Int /\ Horizon(now - Overlap) <= now - Overlap - Day + Zone
      BY <3>2, HorizonBound
    <3>4. Horizon(now - Overlap) <= run.began
      BY <1>0, <3>2, <3>3, WindowAssumption
    <3>5. \A m \in Messages : Waiting(m) => received[m] >= Horizon(now - Overlap)
      BY <3>1, <3>2, <3>3, <3>4 DEF IInv, Shape, Never, Waiting, Matched
    <3> QED
      BY <2>0, <2>2, <3>5 DEF NothingBehindTheWindow, Waiting, Matched, EndRun, archive, Archived,
                              Horizon
  <2> QED
    BY <2>1, <2>2
<1>5. Window'
  BY <1>0, <1>4 DEF Window, Idle
<1> QED
  BY <1>0, <1>1, <1>2, <1>3, <1>5, RunFrame DEF IInv, EndRun, archive

-----------------------------------------------------------------------------
(***************************************************************************)
(* One message.                                                            *)
(***************************************************************************)

\* Whatever is in hand is a message of the run's, and its versions are typed.
LEMMA InHandFacts ==
  ASSUME IInv, NEW m \in Messages, NEW step \in Steps \ {"none"}, InHand(m, step)
  PROVE  /\ work.message = {m} /\ work.step = step /\ m \notin run.pending
         /\ \A n \in Messages : work.message = {n} <=> n = m
         /\ run.step \in {"resume", "poll"}
         /\ errors[m] \in Nat /\ errors[m] < MaxAttempts + used.faults
         /\ used.faults \in Nat /\ store[m] \in Seq(Version)
         /\ work.current \in Version /\ work.base \in Nat
<1>1. work.message = {m} /\ work.step = step /\ work.step # "none"
  BY DEF InHand
<1>2. \A n \in Messages : work.message = {n} <=> n = m
  BY <1>1
<1>3. m \notin run.pending /\ run.step \in {"resume", "poll"}
  BY <1>1 DEF IInv, Hand
<1>4. errors[m] \in Nat /\ store[m] \in Seq(Version)
  BY DEF IInv, Shape
<1>5. used.faults \in Nat /\ work.current \in Version /\ work.base \in Nat
  BY Numbers DEF IInv, Shape, UsedType, WorkType
<1>6. errors[m] < MaxAttempts + used.faults
  BY <1>1 DEF IInv, ErrorsCounted
<1> QED
  BY <1>1, <1>2, <1>3, <1>4, <1>5, <1>6

\* A failure is counted, and the message let go: by a fault, or once per run.
LEMMA ErrorStep ==
  ASSUME IInv, NEW m \in Messages, NEW step \in Steps \ {"none"}, InHand(m, step), Error(m),
         UNCHANGED <<store, rebuild, run>>,
         \/ Archived(m) /\ used' = used
         \/ used' \in UsedType /\ used'.faults = used.faults + 1
  PROVE  /\ errors' \in [Messages -> Nat] /\ work' = NoWork /\ NoWork \in WorkType
         /\ Hand' /\ ErrorsCounted'
<1>1. errors' \in [Messages -> Nat] /\ work' = NoWork /\ NoWork \in WorkType
  BY NoWorkType DEF IInv, Shape, Error
<1>2. Hand'
  BY <1>1, ArchiveUnchanged DEF IInv, Hand, NoWork
<1>3. ErrorsCounted'
  <2>1. errors'[m] = errors[m] + 1 /\ \A n \in Messages \ {m} : errors'[n] = errors[n]
    BY DEF IInv, Shape, Error
  <2>2. used'.faults \in Nat /\ used.faults \in Nat /\ \A n \in Messages : errors[n] \in Nat
    BY Numbers DEF IInv, Shape, UsedType
  <2>3. \A n \in Messages : work'.message # {n}
    BY <1>1 DEF NoWork
  <2> QED
    BY <2>1, <2>2, <2>3, InHandFacts, ArchiveUnchanged, Numbers DEF IInv, ErrorsCounted
<1> QED
  BY <1>1, <1>2, <1>3

LEMMA CaptureStep ==
  ASSUME IInv, NEW m \in Messages, Capture(m)
  PROVE  IInv'
<1>1. /\ work.message = {m} /\ work.step = "capture" /\ ~Archived(m)
      /\ work' = [work EXCEPT !.step = "new"] /\ work' \in WorkType
      /\ store' \in [Messages -> Seq(Version)] /\ store'[m] = <<Captured>>
      /\ \A n \in Messages \ {m} : store'[n] = store[n]
  <2>1. work.message = {m} /\ work.step = "capture" /\ ~Archived(m)
    BY DEF Capture, InHand
  <2>2. work' = [work EXCEPT !.step = "new"] /\ work \in WorkType
    BY DEF Capture, IInv, Shape
  <2>3. work' \in WorkType
    BY <2>2 DEF WorkType, Steps
  <2>4. store \in [Messages -> Seq(Version)] /\ store' = [store EXCEPT ![m] = <<Captured>>]
    BY DEF Capture, IInv, Shape
  <2>5. <<Captured>> \in Seq(Version)
    BY CapturedIsVersion
  <2> QED
    BY <2>1, <2>2, <2>3, <2>4, <2>5
<1>2. /\ \A n \in Messages : Archived(n)' <=> Archived(n) \/ n = m
      /\ \A n \in Messages \ {m} : Latest(n)' = Latest(n)
      /\ ArchivedMessages' = ArchivedMessages \cup {m}
  <2>1. <<Captured>> # <<>>
    OBVIOUS
  <2>2. \A n \in Messages : Archived(n)' <=> Archived(n) \/ n = m
    BY <1>1, <2>1 DEF Archived
  <2>3. \A n \in Messages \ {m} : Latest(n)' = Latest(n)
    BY <1>1 DEF Latest
  <2>4. ArchivedMessages' = ArchivedMessages \cup {m}
    BY <2>2 DEF ArchivedMessages
  <2> QED
    BY <2>2, <2>3, <2>4
<1>3. Latest(m)' = Captured
  BY <1>1 DEF Latest, Last
<1>4. Shape'
  BY <1>1, <1>2 DEF IInv, Shape, Capture, clock, search, people
<1>5. Hand'
  BY <1>1, <1>2 DEF IInv, Shape, WorkType, Hand, Capture, search
<1>6. ErrorsCounted'
  BY <1>1, <1>2 DEF IInv, Shape, WorkType, ErrorsCounted, Capture
<1>7. Window' /\ Clocks'
  <2>1. \A n \in Messages : Waiting(n)' => Waiting(n) /\ n # m
    BY <1>2 DEF Waiting, Matched, Capture, clock
  <2>2. \A n \in Messages : n # m => work.message # {n}
    BY <1>1
  <2> QED
    BY <1>2, <2>1, <2>2, WindowFrame DEF IInv, Shape, Capture
<1>8. Decisions'
  <2>1. DecisionsKept'
    BY <1>1, <1>2 DEF IInv, Decisions, DecisionsKept, Capture, people
  <2>2. \A c \in Correctors : correcting[c] # <<>> => correcting[c].message \in Messages \ {m}
    BY <1>1 DEF IInv, Shape, ReadType, Decisions, ReadKept
  <2>3. correcting' = correcting /\ used' = used /\ work'.step = "new"
    BY <1>1 DEF Capture, people, IInv, Shape, WorkType
  <2>4. \A c \in Correctors : correcting[c] # <<>> => ReadKept(c)'
    BY <1>1, <2>2, <2>3 DEF IInv, Decisions, ReadKept, Archived, Latest
  <2> QED
    BY <2>1, <2>3, <2>4 DEF Decisions
<1>9. Searchable'
  <2>1. \A n \in Messages : PastIndex(n)' => PastIndex(n) /\ n # m
    BY <1>1, <1>2, <1>3 DEF IInv, Shape, WorkType, PastIndex, Captured
  <2> QED
    BY <2>1 DEF IInv, Searchable, Capture, search
<1> QED
  BY <1>4, <1>5, <1>6, <1>7, <1>8, <1>9 DEF IInv

LEMMA CaptureFailsStep ==
  ASSUME IInv, NEW m \in Messages, CaptureFails(m)
  PROVE  IInv'
<1>1. InHand(m, "capture") /\ Error(m) /\ missed' = missed \cup {m} /\ UNCHANGED <<clock, store, search, people, run>>
  BY DEF CaptureFails
<1>2. used' \in UsedType /\ used'.faults = used.faults + 1 /\ used'.corrections = used.corrections
  BY Using DEF IInv, Shape, CaptureFails
<1>3. /\ errors' \in [Messages -> Nat] /\ work' = NoWork /\ work' \in WorkType
      /\ Hand' /\ ErrorsCounted'
  BY <1>1, <1>2, ErrorStep DEF Steps, search
<1>4. Shape'
  BY <1>1, <1>2, <1>3, ArchiveUnchanged DEF IInv, Shape, clock, search, people
<1>5. Window' /\ Clocks'
  <2>1. \A n \in Messages : Waiting(n)' => Waiting(n) /\ n # m
    BY <1>1 DEF Waiting, Matched, clock, Archived
  <2>2. \A n \in Messages : n # m => work.message # {n}
    BY <1>1 DEF InHand
  <2> QED
    BY <1>1, <2>1, <2>2, ArchiveUnchanged, WindowFrame DEF IInv, Shape
<1>6. Decisions' /\ Searchable'
  BY <1>1, <1>2, <1>3, RunFrame DEF NoWork
<1> QED
  BY <1>3, <1>4, <1>5, <1>6 DEF IInv

\* Lets go of a message that is not to be captured; nothing else changes.
LEMMA LetGo ==
  ASSUME IInv, NEW m \in Messages, NEW step \in Steps \ {"none", "capture"}, InHand(m, step),
         work' = NoWork, UNCHANGED <<clock, store, search, people, run, missed>>,
         used'.corrections = used.corrections
  PROVE  Window' /\ Clocks' /\ Decisions' /\ Searchable'
<1>1. \A n \in Messages : Waiting(n)' => Waiting(n)
  BY DEF Waiting, Matched, clock, Archived
<1>2. Window' /\ Clocks'
  BY <1>1, ArchiveUnchanged, WindowFrame DEF IInv, Shape, InHand
<1>3. Decisions' /\ Searchable'
  BY RunFrame DEF NoWork
<1> QED
  BY <1>2, <1>3

\* Indexing or thinking fails, by a fault or as often as the model likes.
LEMMA FailsStep ==
  ASSUME IInv, NEW m \in Messages, IndexFails(m) \/ ThinkFails(m)
  PROVE  IInv'
<1>1. Error(m) /\ UNCHANGED <<clock, store, search, people, run, missed>>
  BY DEF IndexFails, ThinkFails
<1>2. PICK step \in {"new", "index", "think"} : InHand(m, step)
  BY DEF IndexFails, ThinkFails
<1>3. Archived(m)
  BY <1>2 DEF IInv, Hand, InHand, ArchivedMessages
<1>4. \/ used' = used
      \/ used' \in UsedType /\ used'.faults = used.faults + 1 /\ used'.corrections = used.corrections
  BY Using DEF IInv, Shape, IndexFails, ThinkFails
<1>5. /\ errors' \in [Messages -> Nat] /\ work' = NoWork /\ work' \in WorkType
      /\ Hand' /\ ErrorsCounted'
  BY <1>1, <1>2, <1>3, <1>4, ErrorStep DEF Steps, search
<1>6. Shape'
  BY <1>1, <1>4, <1>5, ArchiveUnchanged DEF IInv, Shape, clock, search, people
<1>7. Window' /\ Clocks' /\ Decisions' /\ Searchable'
  BY <1>1, <1>2, <1>4, <1>5, LetGo DEF Steps
<1> QED
  BY <1>5, <1>6, <1>7 DEF IInv

LEMMA FinishedStep ==
  ASSUME IInv, NEW m \in Messages, Finished(m)
  PROVE  IInv'
<1>1. InHand(m, "think") /\ work' = NoWork /\ NoWork \in WorkType
      /\ UNCHANGED <<clock, store, errors, search, people, run, missed, used>>
  BY NoWorkType DEF Finished, archive
<1>2. Shape'
  BY <1>1, ArchiveUnchanged DEF IInv, Shape, clock, search, people
<1>3. Hand'
  BY <1>1, ArchiveUnchanged DEF IInv, Hand, NoWork, search
<1>4. ErrorsCounted'
  BY <1>1, ArchiveUnchanged DEF IInv, ErrorsCounted, NoWork
<1>5. Window' /\ Clocks' /\ Decisions' /\ Searchable'
  BY <1>1, LetGo DEF Steps
<1> QED
  BY <1>2, <1>3, <1>4, <1>5 DEF IInv

LEMMA IndexStep ==
  ASSUME IInv, NEW m \in Messages, Index(m)
  PROVE  IInv'
<1>0. PICK step \in {"new", "index"} : InHand(m, step)
  BY DEF Index
<1>1. /\ work.message = {m} /\ work.step = step /\ m \notin run.pending
      /\ \A n \in Messages : work.message = {n} <=> n = m
      /\ errors[m] < MaxAttempts + used.faults /\ run.step \in {"resume", "poll"}
  BY <1>0, InHandFacts DEF Steps
<1>2. Archived(m)
  BY <1>1 DEF IInv, Hand, ArchivedMessages
<1>3. /\ UNCHANGED <<clock, store, errors, rebuild, partial, people, missed, used>>
      /\ index' = index \cup {m}
  BY DEF Index, archive
<1>4. /\ work' \in WorkType /\ work'.step = "think" /\ work'.message = {m}
      /\ work'.base = Len(store[m]) /\ work'.current = Latest(m)
  <2>1. Latest(m) \in Version /\ Len(store[m]) \in Nat /\ work \in WorkType
    BY <1>2, LatestIsVersion DEF IInv, Shape
  <2>2. work' = [work EXCEPT !.step = "think", !.base = Len(store[m]), !.current = Latest(m)]
    BY DEF Index
  <2> DEFINE n == Len(store[m])
  <2> DEFINE v == Latest(m)
  <2>3. n \in Nat /\ v \in Version /\ work' = [work EXCEPT !.step = "think", !.base = n, !.current = v]
    BY <2>1, <2>2
  <2> HIDE DEF n, v
  <2>4. work' \in WorkType /\ work'.step = "think" /\ work'.message = work.message
        /\ work'.base = n /\ work'.current = v
    BY <2>1, <2>3 DEF WorkType, Steps
  <2> QED
    BY <1>1, <2>4 DEF n, v
<1>5. /\ run' = run \/ \E n : run' = [run EXCEPT !.captured = n]
      /\ run' \in RunType /\ run'.step = run.step /\ run'.pending = run.pending
  <2>1. run \in RunType /\ run.captured \in Nat
    BY Numbers DEF IInv, Shape, RunType
  <2>2. CASE work.step = "new"
    <3>1. run' = [run EXCEPT !.captured = run.captured + 1]
      BY <2>2 DEF Index
    <3>2. run.captured + 1 \in 0 .. Cap
      BY <2>1, <2>2, Numbers DEF IInv, Hand
    <3> QED
      BY <2>1, <3>1, <3>2 DEF RunType
  <2>3. CASE work.step # "new"
    BY <2>1, <2>3 DEF Index
  <2> QED
    BY <2>2, <2>3
<1>6. ArchivedMessages' = ArchivedMessages /\ \A n \in Messages : Archived(n)' = Archived(n)
  BY <1>3, ArchiveUnchanged
<1>7. Shape'
  BY <1>2, <1>3, <1>4, <1>5, <1>6 DEF IInv, Shape, clock, people, ArchivedMessages
<1>8. Hand'
  BY <1>1, <1>2, <1>3, <1>4, <1>5, <1>6 DEF IInv, Hand, ArchivedMessages
<1>9. ErrorsCounted'
  BY <1>1, <1>3, <1>4, <1>5, <1>6 DEF IInv, ErrorsCounted
<1>10. Window' /\ Clocks'
  <2>1. \A n \in Messages : Waiting(n)' => Waiting(n)
    BY <1>3, <1>6 DEF Waiting, Matched, clock
  <2>2. work.step # "capture"
    BY <1>1
  <2> QED
    BY <1>3, <1>5, <1>6, <2>1, <2>2, WindowFrame DEF IInv, Shape
<1>11. Decisions'
  <2>1. \A n \in Messages : work'.message = {n} => n = m
    BY <1>4
  <2>2. Len(store[m]) \in Nat
    BY <1>2, LatestIsVersion DEF IInv
  <2> QED
    BY <1>3, <1>4, <1>6, <2>1, <2>2
    DEF IInv, Decisions, DecisionsKept, ReadKept, Archived, Latest, people, Ids
<1>12. Searchable'
  <2>1. \A n \in Messages : PastIndex(n)' => PastIndex(n) \/ n = m
    BY <1>3, <1>4 DEF PastIndex, Archived, Latest
  <2> QED
    BY <1>2, <1>3, <2>1 DEF IInv, Searchable, ArchivedMessages
<1> QED
  BY <1>7, <1>8, <1>9, <1>10, <1>11, <1>12 DEF IInv

\* A version is derived from the one in hand, its decisions with it.
LEMMA DeriveStep ==
  ASSUME IInv, NEW m \in Messages, InHand(m, "think"),
         NEW v \in Version, v.decisions = work.current.decisions, Derive(v)
  PROVE  IInv'
<1>1. /\ work.message = {m} /\ work.step = "think" /\ m \notin run.pending
      /\ errors[m] < MaxAttempts + used.faults /\ run.step \in {"resume", "poll"}
      /\ \A n \in Messages : work.message = {n} <=> n = m
  BY InHandFacts DEF Steps
<1>2. UNCHANGED <<clock, store, errors, search, people, run, missed, used>>
  BY DEF Derive, archive
<1>3. /\ work' \in WorkType /\ work'.step = "save" /\ work'.message = {m}
      /\ work'.base = work.base /\ work'.current = v
  <2>1. work \in WorkType /\ work' = [work EXCEPT !.step = "save", !.current = v]
    BY DEF Derive, IInv, Shape
  <2> QED
    BY <1>1, <2>1 DEF WorkType, Steps
<1>4. ArchivedMessages' = ArchivedMessages /\ \A n \in Messages : Archived(n)' = Archived(n)
  BY <1>2, ArchiveUnchanged
<1>5. Shape'
  BY <1>2, <1>3, <1>4 DEF IInv, Shape, clock, search, people
<1>6. Hand'
  BY <1>1, <1>2, <1>3, <1>4 DEF IInv, Hand, search
<1>7. ErrorsCounted'
  BY <1>1, <1>2, <1>3, <1>4 DEF IInv, ErrorsCounted
<1>8. Window' /\ Clocks'
  <2>1. \A n \in Messages : Waiting(n)' => Waiting(n)
    BY <1>2, <1>4 DEF Waiting, Matched, clock
  <2> QED
    BY <1>1, <1>2, <1>4, <2>1, WindowFrame DEF IInv, Shape
<1>9. Decisions'
  <2>1. \A n \in Messages : work'.message = {n} => n = m
    BY <1>3
  <2>2. /\ work.base <= Len(store[m])
        /\ work.base = Len(store[m]) => work.current.decisions = Latest(m).decisions
    BY <1>1 DEF IInv, Decisions
  <2> QED
    BY <1>2, <1>3, <2>1, <2>2 DEF IInv, Decisions, DecisionsKept, ReadKept, Archived, Latest,
                                  people, Ids
<1>10. Searchable'
  <2>1. \A n \in Messages : PastIndex(n)' => PastIndex(n)
    BY <1>1, <1>2, <1>3 DEF PastIndex, Archived, Latest
  <2> QED
    BY <1>2, <2>1 DEF IInv, Searchable, search
<1> QED
  BY <1>5, <1>6, <1>7, <1>8, <1>9, <1>10 DEF IInv

LEMMA ClassifyOrDraftStep ==
  ASSUME IInv, NEW m \in Messages, Draft(m) \/ \E a \in Answers : Classify(m, a)
  PROVE  IInv'
<1>1. work.current \in Version
  BY DEF IInv, Shape, WorkType
<1>2. CASE Draft(m)
  BY <1>1, <1>2, Derived, DeriveStep DEF Draft
<1>3. ASSUME NEW a \in Answers, Classify(m, a)
      PROVE  IInv'
  <2>1. [work.current EXCEPT !.group = a] \in Version /\ [work.current EXCEPT !.group = a].decisions = work.current.decisions
    BY <1>1, Derived
  <2>2. InHand(m, "think") /\ Derive([work.current EXCEPT !.group = a])
    BY <1>3 DEF Classify
  <2> QED
    BY <2>1, <2>2, DeriveStep
<1> QED
  BY <1>2, <1>3

\* A version is added to an archived message; nothing else of the archive changes.
LEMMA Adding ==
  ASSUME IInv, NEW m \in Messages, Archived(m), NEW v \in Version,
         store' = [store EXCEPT ![m] = Append(@, v)]
  PROVE  /\ store' \in [Messages -> Seq(Version)]
         /\ ArchivedMessages' = ArchivedMessages /\ \A n \in Messages : Archived(n)' = Archived(n)
         /\ Latest(m)' = v /\ Len(store'[m]) = Len(store[m]) + 1 /\ Len(store[m]) \in Nat
         /\ \A n \in Messages \ {m} : store'[n] = store[n] /\ Latest(n)' = Latest(n)
<1>1. store \in [Messages -> Seq(Version)] /\ store[m] \in Seq(Version)
  BY DEF IInv, Shape
<1> DEFINE w == Append(store[m], v)
<1>2. w \in Seq(Version) /\ w # <<>> /\ Len(w) = Len(store[m]) + 1 /\ Last(w) = v
  BY <1>1, Appending
<1>3. store' = [store EXCEPT ![m] = w]
  BY <1>1
<1> HIDE DEF w
<1>4. store' \in [Messages -> Seq(Version)] /\ store'[m] = w /\ \A n \in Messages \ {m} : store'[n] = store[n]
  BY <1>1, <1>2, <1>3
<1>5. \A n \in Messages : Archived(n)' = Archived(n)
  BY <1>2, <1>4 DEF Archived
<1>6. Latest(m)' = v /\ \A n \in Messages \ {m} : Latest(n)' = Latest(n)
  BY <1>2, <1>4 DEF Latest
<1>7. ArchivedMessages' = ArchivedMessages
  BY <1>5 DEF ArchivedMessages
<1> QED
  BY <1>1, <1>2, <1>4, <1>5, <1>6, <1>7

\* What another request read and keeps survives a version that keeps the decisions.
LEMMA ReadSurvives ==
  ASSUME IInv, NEW m \in Messages, Archived(m),
         \A n \in Messages : Archived(n)' = Archived(n) /\ Ids(Latest(n)) \subseteq Ids(Latest(n)'),
         Len(store'[m]) = Len(store[m]) + 1,
         \A n \in Messages \ {m} : store'[n] = store[n],
         used' = used,
         NEW c \in Correctors, correcting'[c] = correcting[c], correcting[c] # <<>>, ReadKept(c)
  PROVE  ReadKept(c)'
<1> DEFINE r == correcting[c]
<1>1. r.message \in Messages /\ r.base \in Nat /\ Len(store[m]) \in Nat
  BY LatestIsVersion DEF IInv, Shape, ReadType
<1>2. Archived(r.message)' /\ (r.saved # 0 => r.saved \in Ids(Latest(r.message)'))
  BY <1>1 DEF ReadKept
<1>3. r.base <= Len(store'[r.message])
  BY <1>1 DEF ReadKept
<1>4. r.saved = 0 /\ r.base = Len(store'[r.message]) => r.current = Latest(r.message)'
  BY <1>1 DEF ReadKept, Latest
<1> QED
  BY <1>2, <1>3, <1>4 DEF ReadKept

LEMMA SavedStep ==
  ASSUME IInv, NEW m \in Messages, InHand(m, "save"), Len(store[m]) = work.base,
         store' = [store EXCEPT ![m] = Append(@, work.current)],
         work' = [work EXCEPT !.step = "think", !.base = @ + 1],
         UNCHANGED <<clock, errors, search, people, run, missed, used>>
  PROVE  IInv'
<1>1. /\ work.message = {m} /\ work.step = "save" /\ m \notin run.pending
      /\ errors[m] < MaxAttempts + used.faults /\ run.step \in {"resume", "poll"}
      /\ \A n \in Messages : work.message = {n} <=> n = m
      /\ work.current \in Version
  BY InHandFacts DEF Steps
<1>2. Archived(m)
  BY <1>1 DEF IInv, Hand, ArchivedMessages
<1>3. /\ store' \in [Messages -> Seq(Version)]
      /\ ArchivedMessages' = ArchivedMessages /\ \A n \in Messages : Archived(n)' = Archived(n)
      /\ Latest(m)' = work.current /\ Len(store'[m]) = Len(store[m]) + 1 /\ Len(store[m]) \in Nat
      /\ \A n \in Messages \ {m} : store'[n] = store[n] /\ Latest(n)' = Latest(n)
  BY <1>1, <1>2, Adding
<1>4. /\ work' \in WorkType /\ work'.step = "think" /\ work'.message = {m}
      /\ work'.base = work.base + 1 /\ work'.current = work.current
  <2>1. work \in WorkType /\ work' = [work EXCEPT !.step = "think", !.base = work.base + 1]
    BY DEF IInv, Shape
  <2>2. work.base + 1 \in Nat
    BY <2>1 DEF WorkType
  <2> QED
    BY <1>1, <2>1, <2>2 DEF WorkType, Steps
<1>5. Shape'
  BY <1>3, <1>4 DEF IInv, Shape, clock, search, people
<1>6. Hand'
  BY <1>1, <1>2, <1>3, <1>4 DEF IInv, Hand, search
<1>7. ErrorsCounted'
  BY <1>1, <1>3, <1>4 DEF IInv, ErrorsCounted
<1>8. Window' /\ Clocks'
  <2>1. \A n \in Messages : Waiting(n)' => Waiting(n)
    BY <1>3 DEF Waiting, Matched, clock
  <2> QED
    BY <1>1, <1>3, <2>1, WindowFrame DEF IInv, Shape
<1>9. Decisions'
  <2>1. Latest(m)'.decisions = Latest(m).decisions
    BY <1>1, <1>3 DEF IInv, Decisions
  <2>2. \A n \in Messages : Latest(n)'.decisions = Latest(n).decisions /\ Ids(Latest(n)') = Ids(Latest(n))
    BY <1>3, <2>1 DEF Ids
  <2>3. DecisionsKept'
    BY <1>3, <2>2 DEF IInv, Decisions, DecisionsKept, people
  <2>4. \A n \in Messages : work'.message = {n} =>
          work'.base <= Len(store'[n]) /\ work'.current.decisions = Latest(n)'.decisions
    <3>1. work'.base = Len(store'[m]) /\ Len(store'[m]) \in Nat /\ work'.current = Latest(m)'
      BY <1>3, <1>4
    <3>2. \A n \in Messages : work'.message = {n} => n = m
      BY <1>4
    <3> QED
      BY <3>1, <3>2
  <2>5. \A c \in Correctors : correcting'[c] # <<>> => ReadKept(c)'
    <3>1. \A c \in Correctors : correcting'[c] # <<>> => ReadKept(c)
      BY DEF IInv, Decisions, people, ReadKept
    <3> QED
      BY <1>2, <1>3, <2>2, <3>1, ReadSurvives DEF people
  <2> QED
    BY <2>3, <2>4, <2>5 DEF Decisions, ReadKept
<1>10. Searchable'
  <2>1. \A n \in Messages : PastIndex(n)' => PastIndex(n)
    BY <1>1, <1>3, <1>4 DEF PastIndex
  <2> QED
    BY <2>1 DEF IInv, Searchable, search
<1> QED
  BY <1>5, <1>6, <1>7, <1>8, <1>9, <1>10 DEF IInv

LEMMA SaveStep ==
  ASSUME IInv, NEW m \in Messages, Save(m)
  PROVE  IInv'
<1>1. InHand(m, "save") /\ UNCHANGED <<clock, search, people, run, missed, used>>
  BY DEF Save
<1>2. CASE /\ Len(store[m]) = work.base
           /\ store' = [store EXCEPT ![m] = Append(@, work.current)]
           /\ work' = [work EXCEPT !.step = "think", !.base = @ + 1]
           /\ UNCHANGED errors
  BY <1>1, <1>2, SavedStep
<1>3. CASE Error(m) /\ UNCHANGED store
  <2>1. Archived(m)
    BY <1>1 DEF IInv, Hand, InHand, ArchivedMessages
  <2>2. /\ errors' \in [Messages -> Nat] /\ work' = NoWork /\ work' \in WorkType
        /\ Hand' /\ ErrorsCounted'
    BY <1>1, <1>3, <2>1, ErrorStep DEF Steps, search
  <2>3. Shape'
    BY <1>1, <1>3, <2>2, ArchiveUnchanged DEF IInv, Shape, clock, search, people
  <2>4. Window' /\ Clocks' /\ Decisions' /\ Searchable'
    BY <1>1, <1>3, <2>2, LetGo DEF Steps
  <2> QED
    BY <2>2, <2>3, <2>4 DEF IInv
<1> QED
  BY <1>2, <1>3 DEF Save

-----------------------------------------------------------------------------
(***************************************************************************)
(* People.                                                                 *)
(***************************************************************************)

\* The run, its message and the journal are beside what people do.
LEMMA PeopleFrame ==
  ASSUME IInv, UNCHANGED <<clock, errors, search, run, work, missed>>,
         used' \in UsedType, used'.faults = used.faults,
         store' \in [Messages -> Seq(Version)], \A n \in Messages : Archived(n)' = Archived(n),
         \A n \in Messages : Archived(n) => Latest(n)'.drafted = Latest(n).drafted,
         correcting' \in [Correctors -> ReadType \cup {<<>>}], kept' \in [Messages -> SUBSET Corrections]
  PROVE  Shape' /\ Hand' /\ ErrorsCounted' /\ Window' /\ Clocks' /\ Searchable'
<1>1. ArchivedMessages' = ArchivedMessages
  BY DEF ArchivedMessages
<1>2. Shape'
  BY <1>1 DEF IInv, Shape, clock, search
<1>3. Hand' /\ ErrorsCounted'
  BY <1>1 DEF IInv, Hand, ErrorsCounted, search
<1>4. Window' /\ Clocks'
  <2>1. \A n \in Messages : Waiting(n)' => Waiting(n)
    BY DEF Waiting, Matched, clock
  <2> QED
    BY <2>1, WindowFrame DEF IInv, Shape
<1>5. Searchable'
  <2>1. \A n \in Messages : PastIndex(n)' => PastIndex(n)
    BY DEF PastIndex
  <2> QED
    BY <2>1 DEF IInv, Searchable, search
<1> QED
  BY <1>2, <1>3, <1>4, <1>5

LEMMA ReadStep ==
  ASSUME IInv, NEW c \in Correctors, NEW m \in Messages, Read(c, m)
  PROVE  IInv'
<1>1. /\ UNCHANGED <<clock, store, errors, search, kept, run, work, missed>> /\ Archived(m)
  BY DEF Read, archive
<1>2. used' \in UsedType /\ used'.corrections = used.corrections + 1 /\ used'.faults = used.faults
      /\ used.corrections \in Nat
  BY Using, Numbers DEF IInv, Shape, Read, UsedType
<1> DEFINE r == [message |-> m, base |-> Len(store[m]), current |-> Latest(m), saved |-> 0]
<1>3. r \in ReadType /\ r # <<>>
  BY <1>1, LatestIsVersion DEF IInv, ReadType
<1>4. correcting' = [correcting EXCEPT ![c] = r]
  BY DEF Read
<1>5. r.message = m /\ r.base = Len(store[m]) /\ r.current = Latest(m) /\ r.saved = 0
  OBVIOUS
<1>6. Len(store[m]) \in Nat
  BY <1>1, LatestIsVersion DEF IInv
<1> HIDE DEF r
<1>7. /\ correcting' \in [Correctors -> ReadType \cup {<<>>}] /\ correcting'[c] = r
      /\ \A d \in Correctors \ {c} : correcting'[d] = correcting[d]
  BY <1>3, <1>4 DEF IInv, Shape
<1>8. /\ \A n \in Messages : Archived(n)' = Archived(n) /\ Latest(n)' = Latest(n)
      /\ store' \in [Messages -> Seq(Version)] /\ kept' \in [Messages -> SUBSET Corrections]
  BY <1>1 DEF IInv, Shape, Archived, Latest
<1>9. Shape' /\ Hand' /\ ErrorsCounted' /\ Window' /\ Clocks' /\ Searchable'
  BY <1>1, <1>2, <1>7, <1>8, PeopleFrame
<1>10. Decisions'
  <2>1. DecisionsKept'
    BY <1>1, <1>8 DEF IInv, Decisions, DecisionsKept
  <2>2. (work.step \in {"think", "save"} =>
           \A n \in Messages : work.message = {n} =>
             /\ work.base <= Len(store[n])
             /\ work.base = Len(store[n]) => work.current.decisions = Latest(n).decisions)'
    BY <1>1, <1>8 DEF IInv, Decisions
  <2>3. \A d \in Correctors : correcting'[d] # <<>> => ReadKept(d)'
    <3>1. ReadKept(c)'
      BY <1>1, <1>2, <1>5, <1>6, <1>7, <1>8 DEF ReadKept
    <3>2. \A d \in Correctors \ {c} : correcting'[d] # <<>> => ReadKept(d)'
      BY <1>1, <1>2, <1>7 DEF IInv, Decisions, ReadKept, Archived, Latest
    <3> QED
      BY <3>1, <3>2
  <2> QED
    BY <2>1, <2>2, <2>3 DEF Decisions
<1> QED
  BY <1>9, <1>10 DEF IInv

\* A request that found the version it read replaced fails, and holds nothing.
LEMMA RefusedStep ==
  ASSUME IInv, NEW c \in Correctors, correcting' = [correcting EXCEPT ![c] = <<>>],
         UNCHANGED <<clock, store, errors, search, kept, run, work, missed, used>>
  PROVE  IInv'
<1>1. correcting' \in [Correctors -> ReadType \cup {<<>>}] /\ correcting'[c] = <<>>
      /\ \A d \in Correctors \ {c} : correcting'[d] = correcting[d]
  BY DEF IInv, Shape
<1>2. /\ \A n \in Messages : Archived(n)' = Archived(n) /\ Latest(n)' = Latest(n)
      /\ store' \in [Messages -> Seq(Version)] /\ kept' \in [Messages -> SUBSET Corrections]
      /\ used' \in UsedType
  BY DEF IInv, Shape, Archived, Latest
<1>3. Shape' /\ Hand' /\ ErrorsCounted' /\ Window' /\ Clocks' /\ Searchable'
  BY <1>1, <1>2, PeopleFrame
<1>4. Decisions'
  BY <1>1 DEF IInv, Decisions, DecisionsKept, ReadKept, Archived, Latest
<1> QED
  BY <1>3, <1>4 DEF IInv

LEMMA RecordedStep ==
  ASSUME IInv, NEW c \in Correctors, Recorded(c)
  PROVE  IInv'
<1> DEFINE r == correcting[c]
<1>1. UNCHANGED <<clock, store, errors, search, run, work, missed, used>> /\ r # <<>> /\ r.saved # 0
  BY DEF Recorded
<1>2. r \in ReadType /\ r.message \in Messages /\ r.saved \in Corrections
  BY <1>1 DEF IInv, Shape, ReadType
<1>3. /\ kept' = [kept EXCEPT ![r.message] = @ \cup {r.saved}]
      /\ correcting' = [correcting EXCEPT ![c] = <<>>]
  BY DEF Recorded
<1>4. Archived(r.message) /\ r.saved \in Ids(Latest(r.message))
  BY <1>1 DEF IInv, Decisions, ReadKept
<1> DEFINE x == r.message
<1> DEFINE id == r.saved
<1> HIDE DEF x, id
<1>5. /\ x \in Messages /\ id \in Corrections /\ Archived(x) /\ id \in Ids(Latest(x))
      /\ kept' = [kept EXCEPT ![x] = @ \cup {id}]
  BY <1>2, <1>3, <1>4 DEF x, id
<1>6. /\ correcting' \in [Correctors -> ReadType \cup {<<>>}] /\ correcting'[c] = <<>>
      /\ \A d \in Correctors \ {c} : correcting'[d] = correcting[d]
  BY <1>3 DEF IInv, Shape
<1>7. /\ kept' \in [Messages -> SUBSET Corrections] /\ kept'[x] = kept[x] \cup {id}
      /\ \A n \in Messages \ {x} : kept'[n] = kept[n]
  BY <1>5 DEF IInv, Shape
<1>8. /\ \A n \in Messages : Archived(n)' = Archived(n) /\ Latest(n)' = Latest(n)
      /\ store' \in [Messages -> Seq(Version)] /\ used' \in UsedType
  BY <1>1 DEF IInv, Shape, Archived, Latest
<1>9. Shape' /\ Hand' /\ ErrorsCounted' /\ Window' /\ Clocks' /\ Searchable'
  BY <1>1, <1>6, <1>7, <1>8, PeopleFrame
<1>10. Decisions'
  <2>1. DecisionsKept'
    BY <1>5, <1>7, <1>8 DEF IInv, Decisions, DecisionsKept, Ids
  <2>2. (work.step \in {"think", "save"} =>
           \A n \in Messages : work.message = {n} =>
             /\ work.base <= Len(store[n])
             /\ work.base = Len(store[n]) => work.current.decisions = Latest(n).decisions)'
    BY <1>1, <1>8 DEF IInv, Decisions
  <2>3. \A d \in Correctors : correcting'[d] # <<>> => ReadKept(d)'
    BY <1>1, <1>6 DEF IInv, Decisions, ReadKept, Archived, Latest
  <2> QED
    BY <2>1, <2>2, <2>3 DEF Decisions
<1> QED
  BY <1>9, <1>10 DEF IInv

\* The version a person's decision is added to holds every earlier one.
LEMMA CorrectedStep ==
  ASSUME IInv, NEW c \in Correctors, NEW to \in Answers,
         correcting[c] # <<>>, correcting[c].saved = 0,
         Len(store[correcting[c].message]) = correcting[c].base,
         store' = [store EXCEPT ![correcting[c].message] = Append(@,
           [correcting[c].current EXCEPT !.decisions = Append(@, [id |-> used.corrections, to |-> to])])],
         correcting' = [correcting EXCEPT ![c].saved = used.corrections],
         UNCHANGED <<clock, errors, search, kept, run, work, missed, used>>
  PROVE  IInv'
<1>a. correcting[c] \in ReadType
  BY DEF IInv, Shape
<1>b. PICK x \in Messages : x = correcting[c].message
  BY <1>a DEF ReadType
<1>c. PICK id \in 0 .. MaxCorrections : id = used.corrections
  BY DEF IInv, Shape, UsedType
<1> DEFINE d == [id |-> id, to |-> to]
<1> DEFINE v == [correcting[c].current EXCEPT !.decisions = Append(@, d)]
<1>1. /\ correcting[c] \in ReadType /\ x \in Messages /\ Archived(x)
      /\ correcting[c].current = Latest(x) /\ id > 0 /\ id \in Corrections
  <2>1. Archived(x) /\ correcting[c].current = Latest(x) /\ id > 0
    BY <1>b, <1>c DEF IInv, Decisions, ReadKept
  <2> QED
    BY <1>a, <1>c, <2>1, Numbers DEF Corrections
<1>2. d \in Decision /\ d.id = id
  BY <1>1 DEF Decision, Corrections
<1>3. Latest(x) \in Version
  BY <1>1, LatestIsVersion DEF IInv
<1>4. v \in Version /\ v.drafted = Latest(x).drafted /\ Ids(Latest(x)) \cup {id} \subseteq Ids(v)
  BY <1>1, <1>2, <1>3, Corrected
<1>5. store' = [store EXCEPT ![x] = Append(@, v)]
  BY <1>b, <1>c
<1> HIDE DEF v, d
<1>6. /\ store' \in [Messages -> Seq(Version)] /\ \A n \in Messages : Archived(n)' = Archived(n)
      /\ Latest(x)' = v /\ Len(store'[x]) = Len(store[x]) + 1 /\ Len(store[x]) \in Nat
      /\ \A n \in Messages \ {x} : store'[n] = store[n] /\ Latest(n)' = Latest(n)
  BY <1>1, <1>4, <1>5, Adding
<1>7. \A n \in Messages : Archived(n) =>
        Ids(Latest(n)) \subseteq Ids(Latest(n)') /\ Latest(n)'.drafted = Latest(n).drafted
  BY <1>4, <1>6
<1>8. /\ correcting' \in [Correctors -> ReadType \cup {<<>>}]
      /\ correcting'[c] = [correcting[c] EXCEPT !.saved = id] /\ correcting'[c] \in ReadType
      /\ \A e \in Correctors \ {c} : correcting'[e] = correcting[e]
  <2>1. [correcting[c] EXCEPT !.saved = id] \in ReadType
    BY <1>1 DEF ReadType
  <2>2. correcting \in [Correctors -> ReadType \cup {<<>>}]
    BY DEF IInv, Shape
  <2>3. correcting' = [correcting EXCEPT ![c] = [correcting[c] EXCEPT !.saved = id]]
    BY <1>c
  <2> QED
    BY <2>1, <2>2, <2>3
<1>9. correcting'[c].message = x /\ correcting'[c].base = Len(store[x]) /\ correcting'[c].saved = id
  BY <1>1, <1>8, <1>b DEF IInv, Decisions, ReadKept, ReadType
<1>10. kept' \in [Messages -> SUBSET Corrections] /\ used' \in UsedType /\ used' = used
  BY DEF IInv, Shape
<1>11. Shape' /\ Hand' /\ ErrorsCounted' /\ Window' /\ Clocks' /\ Searchable'
  BY <1>6, <1>7, <1>8, <1>10, PeopleFrame
<1>12. Decisions'
  <2>1. DecisionsKept'
    BY <1>6, <1>7 DEF IInv, Decisions, DecisionsKept, Ids
  <2>2. (work.step \in {"think", "save"} =>
           \A n \in Messages : work.message = {n} =>
             /\ work.base <= Len(store[n])
             /\ work.base = Len(store[n]) => work.current.decisions = Latest(n).decisions)'
    <3>1. work' = work /\ work.base \in Nat
      BY DEF IInv, Shape, WorkType
    <3>2. \A n \in Messages : work.step \in {"think", "save"} /\ work.message = {n} =>
             /\ work.base <= Len(store[n])
             /\ work.base = Len(store[n]) => work.current.decisions = Latest(n).decisions
      BY DEF IInv, Decisions
    <3> QED
      BY <1>1, <1>6, <3>1, <3>2
  <2>3. \A e \in Correctors : correcting'[e] # <<>> => ReadKept(e)'
    <3>1. ReadKept(c)'
      BY <1>1, <1>4, <1>6, <1>9, <1>10 DEF ReadKept
    <3>2. \A e \in Correctors \ {c} : correcting[e] # <<>> => ReadKept(e)
      BY DEF IInv, Decisions
    <3>3. \A n \in Messages : Archived(n)' = Archived(n) /\ (Archived(n) => Ids(Latest(n)) \subseteq Ids(Latest(n)'))
      BY <1>6, <1>7
    <3>4. \A e \in Correctors \ {c} : correcting'[e] # <<>> => ReadKept(e)'
      BY <1>1, <1>6, <1>8, <1>10, <3>2, <3>3, ReadSurvives
    <3> QED
      BY <3>1, <3>4
  <2> QED
    BY <2>1, <2>2, <2>3 DEF Decisions
<1> QED
  BY <1>11, <1>12 DEF IInv

LEMMA CorrectStep ==
  ASSUME IInv, NEW c \in Correctors, NEW to \in Answers, Correct(c, to)
  PROVE  IInv'
<1>1. CASE correcting' = [correcting EXCEPT ![c] = <<>>] /\ UNCHANGED store
  BY <1>1, RefusedStep DEF Correct
<1>2. CASE ~(correcting' = [correcting EXCEPT ![c] = <<>>] /\ UNCHANGED store)
  BY <1>2, CorrectedStep DEF Correct
<1> QED
  BY <1>1, <1>2

-----------------------------------------------------------------------------
(***************************************************************************)
(* Rebuilding the index, and crashes.                                      *)
(***************************************************************************)

LEMMA ReindexSteps ==
  ASSUME IInv, StartReindex \/ EndReindex \/ \E m \in Messages : Reindex(m)
  PROVE  IInv'
<1>1. UNCHANGED <<clock, store, errors, people, run, work, missed>>
  BY DEF StartReindex, Reindex, EndReindex, archive
<1>2. used' \in UsedType /\ used'.corrections = used.corrections /\ used'.faults = used.faults
  BY Using DEF IInv, Shape, StartReindex, Reindex, EndReindex
<1>3. ArchivedMessages' = ArchivedMessages /\ \A n \in Messages : Archived(n)' = Archived(n)
  BY <1>1, ArchiveUnchanged
<1>4. index' \subseteq ArchivedMessages /\ rebuild' \in [on : BOOLEAN, left : SUBSET Messages]
      /\ rebuild'.left \subseteq ArchivedMessages
  <2>1. index \subseteq ArchivedMessages /\ rebuild \in [on : BOOLEAN, left : SUBSET Messages]
        /\ rebuild.left \subseteq ArchivedMessages
    BY DEF IInv, Shape, Hand
  <2>2. CASE StartReindex
    BY <2>1, <2>2 DEF StartReindex, ArchivedMessages
  <2>3. CASE EndReindex
    BY <2>1, <2>3 DEF EndReindex
  <2>4. ASSUME NEW m \in Messages, Reindex(m)
        PROVE  index' \subseteq ArchivedMessages /\ rebuild' \in [on : BOOLEAN, left : SUBSET Messages]
               /\ rebuild'.left \subseteq ArchivedMessages
    BY <2>1, <2>4 DEF Reindex
  <2> QED
    BY <2>2, <2>3, <2>4
<1>5. Shape'
  BY <1>1, <1>2, <1>3, <1>4 DEF IInv, Shape, clock, people
<1>6. Hand' /\ ErrorsCounted'
  BY <1>1, <1>2, <1>3, <1>4 DEF IInv, Hand, ErrorsCounted
<1>7. Window' /\ Clocks'
  <2>1. \A n \in Messages : Waiting(n)' => Waiting(n)
    BY <1>1, <1>3 DEF Waiting, Matched, clock
  <2> QED
    BY <1>1, <1>3, <2>1, WindowFrame DEF IInv, Shape
<1>8. Decisions'
  BY <1>1, <1>2, DecisionsFrame DEF IInv
<1>9. Searchable'
  <2>1. \A n \in Messages : PastIndex(n)' = PastIndex(n) /\ (PastIndex(n) => n \in ArchivedMessages)
    <3>1. \A n \in Messages : PastIndex(n)' = PastIndex(n)
      BY <1>1 DEF PastIndex, Archived, Latest
    <3>2. \A n \in Messages : PastIndex(n) => n \in ArchivedMessages
      BY DEF IInv, Hand, PastIndex, ArchivedMessages
    <3> QED
      BY <3>1, <3>2
  <2>2. CASE StartReindex
    BY <2>1, <2>2 DEF Searchable, StartReindex, ArchivedMessages
  <2>3. CASE EndReindex
    BY <2>1, <2>3 DEF IInv, Shape, Searchable, EndReindex
  <2>4. ASSUME NEW m \in Messages, Reindex(m)
        PROVE  Searchable'
    BY <2>1, <2>4 DEF IInv, Shape, Searchable, Reindex
  <2> QED
    BY <2>2, <2>3, <2>4
<1> QED
  BY <1>5, <1>6, <1>7, <1>8, <1>9 DEF IInv

LEMMA CrashStep ==
  ASSUME IInv, Crash
  PROVE  IInv'
<1>1. /\ UNCHANGED <<clock, store, errors, index, kept, missed>>
      /\ run' = Idle /\ work' = NoWork /\ correcting' = [c \in Correctors |-> <<>>]
      /\ rebuild' = [on |-> FALSE, left |-> {}] /\ partial' = (partial \/ rebuild.on)
  BY DEF Crash, archive
<1>2. used' \in UsedType /\ used'.corrections = used.corrections /\ used'.faults = used.faults
  BY Using DEF IInv, Shape, Crash
<1>3. ArchivedMessages' = ArchivedMessages /\ \A n \in Messages : Archived(n)' = Archived(n)
  BY <1>1, ArchiveUnchanged
<1>4. Shape'
  BY <1>1, <1>2, <1>3, IdleType, NoWorkType DEF IInv, Shape, clock
<1>5. Hand' /\ ErrorsCounted'
  BY <1>1, <1>2, <1>3 DEF IInv, Hand, ErrorsCounted, Idle, NoWork
<1>6. Clocks'
  BY <1>1 DEF IInv, Clocks, Idle, clock
<1>7. Window'
  <2>1. NothingBehindTheWindow'
    BY <1>1, <1>3 DEF IInv, Window, NothingBehindTheWindow, Matched, clock, NextSince, Horizon
  <2> QED
    BY <1>1, <2>1 DEF Window, Idle
<1>8. Decisions'
  BY <1>1 DEF IInv, Decisions, DecisionsKept, NoWork, Archived, Latest
<1>9. Searchable'
  <2>1. \A n \in Messages : PastIndex(n)' => PastIndex(n)
    BY <1>1 DEF PastIndex, NoWork, Archived, Latest
  <2> QED
    BY <1>1, <2>1 DEF IInv, Searchable
<1> QED
  BY <1>4, <1>5, <1>6, <1>7, <1>8, <1>9 DEF IInv

LEMMA StutterStep ==
  ASSUME IInv, UNCHANGED vars
  PROVE  IInv'
<1>1. UNCHANGED <<now, received, store, errors, lastRun, index, rebuild, run, work,
                  correcting, kept, missed, partial, used>>
  BY DEF vars
<1>2. Shape' /\ Hand' /\ ErrorsCounted' /\ Clocks'
  BY <1>1 DEF IInv, Shape, Hand, ErrorsCounted, Clocks, ArchivedMessages, Archived
<1>3. Window'
  BY <1>1 DEF IInv, Window, NothingBehindTheWindow, Waiting, Matched, ArchivedMessages, Archived,
              Horizon, NextSince
<1>4. Decisions' /\ Searchable'
  BY <1>1 DEF IInv, Decisions, DecisionsKept, ReadKept, Searchable, PastIndex, Archived, Latest
<1> QED
  BY <1>2, <1>3, <1>4 DEF IInv

-----------------------------------------------------------------------------
(***************************************************************************)
(* The results.                                                            *)
(***************************************************************************)

LEMMA RunSteps ==
  ASSUME IInv, RunStep
  PROVE  IInv'
<1>1. CASE List \/ EndPoll \/ EndRun
  BY <1>1, ListStep, EndPollStep, EndRunStep
<1>2. ASSUME NEW m \in Messages, Resume(m) \/ Poll(m) \/ Capture(m) \/ Index(m)
      PROVE  IInv'
  BY <1>2, ResumeStep, PollStep, CaptureStep, IndexStep
<1>3. ASSUME NEW m \in Messages, Draft(m) \/ \E a \in Answers : Classify(m, a)
      PROVE  IInv'
  BY <1>3, ClassifyOrDraftStep
<1>4. ASSUME NEW m \in Messages, ThinkFails(m) \/ Finished(m) \/ Save(m)
      PROVE  IInv'
  BY <1>4, FailsStep, FinishedStep, SaveStep
<1> QED
  BY <1>1, <1>2, <1>3, <1>4 DEF RunStep

LEMMA Inductive ==
  ASSUME IInv, [Next]_vars
  PROVE  IInv'
<1>1. CASE RunStep
  BY <1>1, RunSteps
<1>2. CASE StartRun \/ PollFails \/ Tick \/ Crash \/ StartReindex \/ EndReindex
  BY <1>2, StartRunStep, EndPollStep, TickStep, CrashStep, ReindexSteps
<1>3. ASSUME NEW m \in Messages, Arrive(m) \/ CaptureFails(m) \/ IndexFails(m) \/ Reindex(m)
      PROVE  IInv'
  BY <1>3, ArriveStep, CaptureFailsStep, FailsStep, ReindexSteps
<1>4. ASSUME NEW c \in Correctors, NEW m \in Messages, Read(c, m)
      PROVE  IInv'
  BY <1>4, ReadStep
<1>5. ASSUME NEW c \in Correctors, NEW to \in Answers, Correct(c, to)
      PROVE  IInv'
  BY <1>5, CorrectStep
<1>6. ASSUME NEW c \in Correctors, Recorded(c)
      PROVE  IInv'
  BY <1>6, RecordedStep
<1>7. CASE UNCHANGED vars
  BY <1>7, StutterStep
<1> QED
  BY <1>1, <1>2, <1>3, <1>4, <1>5, <1>6, <1>7 DEF Next

LEMMA Invariance == Spec => []IInv
<1>1. IInv /\ [Next]_vars => IInv'
  BY Inductive
<1> QED
  BY <1>1, Initially, PTL DEF Spec

\* Every state of the pipeline is of its types: in particular a run never takes
\* up more messages than its cap, and a message is never in error more often than
\* the limit and the faults together allow (pipeline.py:28-29, 60-101).
THEOREM PipelineTypeCorrect == Spec => []TypeOK
<1>1. IInv => TypeOK
  <2> SUFFICES ASSUME IInv PROVE TypeOK
    OBVIOUS
  <2>1. errors \in [Messages -> 0 .. MaxAttempts + MaxFaults]
    <3>1. \A m \in Messages : errors[m] \in Nat /\ errors[m] <= MaxAttempts + used.faults
      BY DEF IInv, Shape, ErrorsCounted
    <3>2. used.faults \in 0 .. MaxFaults
      BY DEF IInv, Shape, UsedType
    <3>3. \A m \in Messages : errors[m] \in 0 .. MaxAttempts + MaxFaults
      BY <3>1, <3>2, Numbers
    <3> QED
      BY <3>3 DEF IInv, Shape
  <2>2. {run.pending, run.seen, run.listed} \subseteq SUBSET Messages /\ run.captured \in 0 .. Cap
    BY DEF IInv, Shape, RunType
  <2>3. work.current \in Version /\ work.message \subseteq Messages
    BY DEF IInv, Shape, WorkType
  <2> QED
    BY <2>1, <2>2, <2>3 DEF IInv, Shape, TypeOK, ArchivedMessages
<1> QED
  BY <1>1, Invariance, PTL

\* A correction a person was told is recorded is among the decisions of the latest
\* version ever after, however many runs and other corrections are under way: a
\* version is written only when it extends the one it was derived from
\* (core/store.py:32-45, briefing/__init__.py:51-60).
THEOREM CorrectionsKept == Spec => []DecisionsKept
<1>1. IInv => DecisionsKept
  BY DEF IInv, Decisions
<1> QED
  BY <1>1, Invariance, PTL

\* Drafted mail is in the search index unless a rebuild is under way or was cut
\* short, though runs die between capture and indexing (pipeline.py:51-54).
THEOREM DraftsSearchable == Spec => []DraftedIsSearchable
<1>1. IInv => DraftedIsSearchable
  BY DEF IInv, Searchable, PastIndex, DraftedIsSearchable
<1> QED
  BY <1>1, Invariance, PTL

\* For every day, overlap and offset of the clock that WindowAssumption relates to
\* the length of a run, mail whose capture did not fail stays within the next poll's
\* window until it is archived or ages out of the configured query
\* (pipeline.py:75-99, sources/gmail.py:255-262).
THEOREM NothingFallsBehind == Spec => []NothingBehindTheWindow
<1>1. IInv => NothingBehindTheWindow
  BY DEF IInv, Window
<1> QED
  BY <1>1, Invariance, PTL

\* If the configured query has no age filter that binds, no mail is lost: what is not
\* archived, and whose capture did not fail, is in the next listing.
THEOREM UnfilteredMailIsListed ==
  ASSUME Reach >= MaxTime
  PROVE  Spec => [](\A m \in Messages :
                      received[m] # Never /\ ~Archived(m) /\ m \notin missed =>
                        m \in Mail(NextSince(lastRun, now)))
<1>1. IInv => \A m \in Messages :
                received[m] # Never /\ ~Archived(m) /\ m \notin missed =>
                  m \in Mail(NextSince(lastRun, now))
  <2> SUFFICES ASSUME IInv, NEW m \in Messages,
                      received[m] # Never, ~Archived(m), m \notin missed
               PROVE  m \in Mail(NextSince(lastRun, now))
    OBVIOUS
  <2>1. MaxTime \in Nat /\ now \in 0 .. MaxTime /\ received[m] \in 0 .. MaxTime
    BY CountsAssumption DEF IInv, Shape
  <2>2. Matched(m)
    BY <2>1, WindowAssumption DEF Matched
  <2>3. received[m] >= Horizon(NextSince(lastRun, now))
    BY <2>2 DEF IInv, Window, NothingBehindTheWindow
  <2> QED
    BY <2>2, <2>3 DEF Mail
<1> QED
  BY <1>1, Invariance, PTL

=============================================================================
