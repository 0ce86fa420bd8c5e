---------------------------------- MODULE Chat ----------------------------------
(***************************************************************************)
(* A turn of Jarvis's chat agent (jarvis/agent/__init__.py): the prompt is  *)
(* fitted into the model's context before every call, the tool calls the    *)
(* model makes are run and answered one by one (jarvis/tools), and some of  *)
(* them propose, confirm or retire the notes Conrad teaches (jarvis/notes), *)
(* which the notes page and the expiry of old proposals change as well.     *)
(*                                                                          *)
(* A message is its role, what it costs in the prompt, the ids of the tool  *)
(* calls it declares and the id it answers.  A conversation is a function   *)
(* from the positions of its messages: what is dropped leaves a gap.        *)
(***************************************************************************)
EXTENDS Integers, SequencesExt, FiniteSetsExt

CONSTANTS
  Transcripts,     \* what a client may send: sequences of messages
  Batches,         \* the tool calls a model may make in one answer
  ResultSizes,     \* what a tool's result may cost
  Persona,         \* what the system prompt and the tool schemas cost
  Budget,          \* what the whole prompt may cost
  Tight,           \* what it may cost once the server says it overflows
  Wrap,            \* what a reply cut to nothing but its marker costs
  MaxSteps,        \* max_steps
  MaxCallsPerStep, \* MAX_CALLS_PER_STEP
  UniqueIds,       \* does the server name each call anew
  MaxNotes         \* bound: notes proposed

ASSUME SizesAssumption ==
  /\ {Persona, Budget, Tight, Wrap} \subseteq Nat /\ Tight <= Budget
  /\ ResultSizes \subseteq Nat

ASSUME LimitsAssumption ==
  /\ {MaxSteps, MaxCallsPerStep, MaxNotes} \subseteq Nat
  /\ UniqueIds \in BOOLEAN

VARIABLES
  turn,   \* the turn: its step, what was asked, the steps it took, the calls it
          \* has left to answer, those it ran, and whether it retried a prompt
  msgs,   \* the conversation as the turn carries it
  sent,   \* the last prompt sent
  notes,  \* each note's version and status
  old     \* notes proposed more than a day ago

vars == <<turn, msgs, sent, notes, old>>

Msg(role, size, calls, reply) == [role |-> role, size |-> size, calls |-> calls, reply |-> reply]
Tools == {"look", "read", "propose", "confirm", "retire"}
NoId == <<>>
Id == Seq(Nat)
Message == [role : {"system", "user", "assistant", "tool"}, size : Nat,
            calls : Seq([id : Id, tool : Tools]), reply : Id]
Say(role, size) == Msg(role, size, <<>>, NoId)

\* What a client sends: turns of user and assistant, the rest is left out.
ASSUME TranscriptsAssumption ==
  \A t \in Transcripts :
    t \in Seq({m \in Message : m.role \in {"user", "assistant"} /\ m.calls = <<>>})

ASSUME BatchesAssumption == Batches \subseteq Seq(Tools) \ {<<>>}

NoTurn == [step |-> "idle", kind |-> "none", steps |-> 0, left |-> <<>>, ran |-> {}, retried |-> FALSE]
NoNote == [version |-> 0, status |-> "none"]

Notes == 1 .. MaxNotes

Init ==
  /\ turn = NoTurn /\ msgs = <<>> /\ sent = <<>>
  /\ notes = [n \in Notes |-> NoNote] /\ old = {}

-----------------------------------------------------------------------------
(***************************************************************************)
(* Fitting a prompt.                                                       *)
(***************************************************************************)

Cost(ms) == MapThenSumSet(LAMBDA i : ms[i].size, DOMAIN ms)

IsUser(m) == m.role = "user"
IsTool(m) == m.role = "tool"
HasCalls(m) == m.calls # <<>>

LastUser(ms) == Max({0} \cup {i \in DOMAIN ms : IsUser(ms[i])})
LastTool(ms) == Max({0} \cup {i \in DOMAIN ms : IsTool(ms[i])})
LastCalls(ms) == Max({0} \cup {i \in DOMAIN ms : HasCalls(ms[i])})

Ids(m) == {m.calls[i].id : i \in DOMAIN m.calls}
Answers(m, ids) == IsTool(m) /\ m.reply \in ids

Fresh(ms) == IF LastCalls(ms) = 0 THEN {} ELSE Ids(ms[LastCalls(ms)])

\* Mutant: the last question may go like any other.
DroppableMutQuestion(ms) ==
  {i \in DOMAIN ms : i \notin {1, LastCalls(ms)} /\ ~Answers(ms[i], Fresh(ms))}

Droppable(ms) ==
  {i \in DOMAIN ms : /\ i \notin {1, LastUser(ms), LastCalls(ms)}
                     /\ ~Answers(ms[i], Fresh(ms))}

\* Mutant: the replies of a dropped message stay.
DropMutOrphans(ms) == Restrict(ms, DOMAIN ms \ {Min(Droppable(ms))})

\* The oldest message that is not protected goes, with the replies to its calls.
Drop(ms) ==
  LET d == Min(Droppable(ms))
      ids == Ids(ms[d])
  IN  Restrict(ms, {i \in DOMAIN ms : i # d /\ ~Answers(ms[i], ids)})

\* The last tool result gives way when nothing more can be dropped.
Truncate(ms, budget) ==
  LET t == LastTool(ms)
      over == Cost(ms) - budget
  IN  IF over <= 0 \/ t = 0 THEN ms
      ELSE [ms EXCEPT ![t].size = Max({Wrap} \cup {s \in Wrap .. @ : s + over <= @})]

Shorten(ms, budget) ==
  IF Cost(ms) <= budget \/ Droppable(ms) = {} THEN ms ELSE Drop(ms)

\* Each round drops a message or is the last.
Fit(ms, budget) ==
  LET after[n \in Nat] == IF n = 0 THEN ms ELSE Shorten(after[n - 1], budget)
  IN  Truncate(after[Cardinality(DOMAIN ms)], budget)

\* The conversation and one more message.
Then(ms, m) ==
  LET next == Max({0} \cup DOMAIN ms) + 1
  IN  [i \in DOMAIN ms \cup {next} |-> IF i = next THEN m ELSE ms[i]]

\* What the system prompt and the schemas leave to the transcript.
Room == Max({0, Budget - Persona})

\* The oldest turns of the transcript go until it fits; the newest may not.
Trim(transcript) ==
  LET n == Len(transcript)
      from == Min({Max({1, n})} \cup {i \in 1 .. n : Cost(SubSeq(transcript, i, n)) <= Room})
  IN  SubSeq(transcript, from, n)

TooLong(transcript) == transcript # <<>> /\ Last(transcript).size > Room

-----------------------------------------------------------------------------
(***************************************************************************)
(* Notes: every change is made under one lock.                             *)
(***************************************************************************)

Pending == {n \in Notes : notes[n].status = "pending"}

\* Mutant: a note is moved on whatever it is.
MovedMutAny(n, from, to) ==
  [notes EXCEPT ![n] = [version |-> @.version + 1, status |-> to]]

\* A note that is not where the move starts from is left alone: an error result.
Moved(n, from, to) ==
  IF notes[n].status \notin from THEN notes
  ELSE [notes EXCEPT ![n] = [version |-> @.version + 1, status |-> to]]

Retired(ns) ==
  [n \in Notes |-> IF n \in ns THEN [version |-> notes[n].version + 1, status |-> "retired"]
                   ELSE notes[n]]

Propose(status) ==
  LET unused == {n \in Notes : notes[n] = NoNote}
  IN  notes' = IF unused = {} THEN notes  \* bound
               ELSE [notes EXCEPT ![Min(unused)] = [version |-> 0, status |-> status]]

\* The notes page, from another thread.
RetireNote(n) ==
  /\ notes[n].status \in {"active", "pending"}
  /\ notes' = Moved(n, {"active", "pending"}, "retired")
  /\ UNCHANGED <<turn, msgs, sent, old>>

RetireAllPending ==
  /\ Pending # {}
  /\ notes' = Retired(Pending)
  /\ UNCHANGED <<turn, msgs, sent, old>>

DayPasses ==
  /\ turn.step = "idle" /\ old # Pending
  /\ old' = Pending
  /\ UNCHANGED <<turn, msgs, sent, notes>>

-----------------------------------------------------------------------------
(***************************************************************************)
(* The turn.                                                               *)
(***************************************************************************)

Goto(step) == turn' = [turn EXCEPT !.step = step]

\* What is asked: something plain, a rule to remember, a "yes", or a generation
\* prompt of Open WebUI's own.
Kinds == {"plain", "remember", "yes", "task"}

\* A "yes" to an assistant that just asked about a pending note is pointed out.
Hint(kind, transcript, pending) ==
  IF kind = "yes" /\ Len(transcript) > 1 /\ pending # {} THEN <<Say("system", 1)>> ELSE <<>>

Ask(kind, transcript) ==
  /\ turn.step = "idle"
  /\ LET expired == IF kind = "task" THEN {} ELSE Pending \cap old
     IN  /\ notes' = Retired(expired)
         /\ msgs' = IF TooLong(transcript) THEN <<>>
                    ELSE <<Say("system", Persona)>> \o Trim(transcript)
                           \o Hint(kind, transcript, Pending \ expired)
  /\ turn' = [NoTurn EXCEPT !.step = IF TooLong(transcript) THEN "reply" ELSE "think", !.kind = kind]
  /\ UNCHANGED <<sent, old>>

Send ==
  /\ turn.step = "think"
  /\ msgs' = Fit(msgs, Budget) /\ sent' = msgs'
  /\ turn' = [turn EXCEPT !.step = "wait", !.retried = FALSE]
  /\ UNCHANGED <<notes, old>>

DeadlinePasses ==
  /\ turn.step = "think"
  /\ Goto("force")
  /\ UNCHANGED <<msgs, sent, notes, old>>

\* Mutant: after an overflow the turn goes round again, however often.
OverflowsMutAgain ==
  /\ turn.step = "wait"
  /\ msgs' = Fit(msgs, Tight) /\ sent' = msgs'
  /\ Goto("think")
  /\ UNCHANGED <<notes, old>>

\* The server counts more tokens than the agent did: one retry, fitted tighter.
Overflows ==
  /\ turn.step = "wait" /\ ~turn.retried
  /\ msgs' = Fit(msgs, Tight) /\ sent' = msgs'
  /\ turn' = [turn EXCEPT !.retried = TRUE]
  /\ UNCHANGED <<notes, old>>

\* An answer without calls (a task's calls are ignored), or any error of the model's.
Answered ==
  /\ turn.step = "wait"
  /\ Goto("reply")
  /\ UNCHANGED <<msgs, sent, notes, old>>

Name(batch) ==
  [i \in DOMAIN batch |->
     [id |-> <<IF UniqueIds THEN turn.steps ELSE 0, i>>, tool |-> batch[i]]]

CallsTools(batch) ==
  /\ turn.step = "wait" /\ turn.kind # "task" /\ turn.steps < MaxSteps
  /\ msgs' = Then(msgs, Msg("assistant", Len(batch), Name(batch), NoId))
  /\ turn' = [turn EXCEPT !.step = "tools", !.left = Name(batch), !.ran = {}]
  /\ UNCHANGED <<sent, notes, old>>

OutOfSteps ==
  /\ turn.step = "wait" /\ turn.kind # "task" /\ turn.steps >= MaxSteps
  /\ Goto("force")
  /\ UNCHANGED <<msgs, sent, notes, old>>

Reply(call, size) ==
  /\ msgs' = Then(msgs, Msg("tool", size, <<>>, call.id))
  /\ UNCHANGED <<sent, old>>

\* Mutant: only repeats are skipped.
SkippedMutRepeats(call) == call.tool \in turn.ran

Skipped(call) == call.tool \in turn.ran \/ Cardinality(turn.ran) >= MaxCallsPerStep

Skip ==
  /\ turn.step = "tools" /\ turn.left # <<>> /\ Skipped(Head(turn.left))
  /\ Reply(Head(turn.left), 1)
  /\ turn' = [turn EXCEPT !.left = Tail(@)]
  /\ UNCHANGED notes

\* The model may name any note, and call a note explicit; only Conrad's own words
\* make it so.
Teach(tool) ==
  \/ /\ tool = "propose"
     /\ \E status \in {"pending"} \cup (IF turn.kind = "remember" THEN {"active"} ELSE {}) :
          Propose(status)
  \/ tool = "confirm" /\ \E n \in Notes : notes' = Moved(n, {"pending"}, "active")
  \/ tool = "retire" /\ \E n \in Notes : notes' = Moved(n, {"active", "pending"}, "retired")

\* One call runs: it reads something, or works on notes.
Run ==
  /\ turn.step = "tools" /\ turn.left # <<>> /\ ~Skipped(Head(turn.left))
  /\ LET call == Head(turn.left) IN
       /\ turn' = [turn EXCEPT !.left = Tail(@), !.ran = @ \cup {call.tool}]
       /\ \/ /\ call.tool \in {"look", "read"}
             /\ \E size \in ResultSizes : Reply(call, size)
             /\ UNCHANGED notes
          \/ Teach(call.tool) /\ Reply(call, 1)

EndStep ==
  /\ turn.step = "tools" /\ turn.left = <<>>
  /\ turn' = [turn EXCEPT !.step = "think", !.steps = @ + 1]
  /\ UNCHANGED <<msgs, sent, notes, old>>

\* Time or steps are up: the model is told to answer now, and cannot call tools.
ForceAnswer ==
  /\ turn.step = "force"
  /\ msgs' = Then(msgs, Say("system", 1))
  /\ sent' = Fit(msgs', Budget)
  /\ Goto("reply")
  /\ UNCHANGED <<notes, old>>

\* The reply is streamed, to its end or to where the client leaves: one event.
Finish ==
  /\ turn.step = "reply"
  /\ turn' = NoTurn /\ msgs' = <<>> /\ sent' = <<>>
  /\ UNCHANGED <<notes, old>>

TurnStep ==
  \/ Send \/ DeadlinePasses \/ Overflows \/ Answered \/ OutOfSteps
  \/ \E b \in Batches : CallsTools(b)
  \/ Skip \/ Run \/ EndStep \/ ForceAnswer \/ Finish

Next ==
  \/ TurnStep \/ RetireAllPending \/ DayPasses
  \/ \E n \in Notes : RetireNote(n)
  \/ \E k \in Kinds, t \in Transcripts : Ask(k, t)

Spec == Init /\ [][Next]_vars

\* A turn runs in a thread of its own, and every call it makes has a timeout:
\* weak fairness of TurnStep, enabled all through a turn, every step of which
\* changes turn.  Spelled so, no ENABLED has to fit prompts.
FairSpec == Spec /\ ([]<>(turn.step = "idle") \/ []<><<TRUE>>_turn)

-----------------------------------------------------------------------------
TypeOK ==
  /\ turn.step \in {"idle", "think", "wait", "tools", "force", "reply"}
  /\ turn.steps \in 0 .. MaxSteps /\ Cardinality(turn.ran) <= MaxCallsPerStep
  /\ \A i \in DOMAIN msgs : msgs[i].size \in Nat
  /\ \A n \in Notes : notes[n].version \in 0 .. 2
                      /\ notes[n].status \in {"none", "pending", "active", "retired"}
  /\ old \subseteq Notes

\* Every prompt sent answers each call it declares exactly once, after it, and
\* holds no reply to a call it does not declare, however it was cut to fit
\* (agent/__init__.py:116-118, 216-217).
CallsAnswered ==
  \A i \in DOMAIN sent :
    /\ \A id \in Ids(sent[i]) :
         \E j \in DOMAIN sent :
           /\ i < j
           /\ {k \in DOMAIN sent : IsTool(sent[k]) /\ sent[k].reply = id} = {j}
    /\ IsTool(sent[i]) => \E j \in DOMAIN sent : j < i /\ sent[i].reply \in Ids(sent[j])

\* Cutting a conversation to fit keeps the system prompt, the last question and
\* the newest tool calls with their results (agent/__init__.py:116-117).
ProtectedKept ==
  [][sent' \notin {sent, <<>>} =>
       /\ \A i \in {1, LastUser(msgs)} \cap DOMAIN msgs :
            i \in DOMAIN sent' /\ sent'[i] = msgs[i]
       /\ Fresh(sent') = Fresh(msgs)]_vars

\* A note only moves forward, a version at a time, whichever of the model, the
\* notes page and the expiry move it: a retired one never comes back, and one
\* that is not pending is never confirmed (notes/__init__.py:78-86).
NotesForward ==
  [][\A n \in Notes : notes'[n] # notes[n] =>
       \/ notes[n] = NoNote /\ notes'[n].version = 0
       \/ /\ notes'[n].version = notes[n].version + 1
          /\ <<notes[n].status, notes'[n].status>> \in
               {<<"pending", "active">>, <<"pending", "retired">>, <<"active", "retired">>}]_vars

\* Every turn ends in a reply, whatever the model and the tools do
\* (agent/__init__.py:190-254).
TurnAnswered == turn.step # "idle" ~> turn.step = "idle"

\* Fitted prompts keep inside the budget (agent/__init__.py:114 "Keep the whole
\* prompt inside the budget once tool results have been appended").
PromptFits == Cost(sent) <= Budget

=============================================================================
