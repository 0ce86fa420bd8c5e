------------------------------ MODULE Chat_proofs ------------------------------
(***************************************************************************)
(* What Chat's run checks with conversations a few messages long, proved   *)
(* for any conversations, answers, budgets, limits and notes.              *)
(***************************************************************************)
EXTENDS Chat, Lemmas

Roles == {"system", "user", "assistant", "tool"}
Call == [id : Id, tool : Tools]

\* A conversation: only assistants call, and it starts with the system prompt.
Talk(ms) ==
  /\ \E n \in Nat : DOMAIN ms \subseteq 1 .. n
  /\ \A i \in DOMAIN ms : /\ ms[i] \in Message
                          /\ HasCalls(ms[i]) => ms[i].role = "assistant"
  /\ 1 \in DOMAIN ms => ms[1].role = "system"

\* Messages that are the same but for what they cost.
Alike(m, k) == m.role = k.role /\ m.calls = k.calls /\ m.reply = k.reply

Protected(ms) == {1, LastUser(ms), LastCalls(ms)} \cap DOMAIN ms

\* A conversation and what is left of it.
Keeps(ms, k) ==
  /\ DOMAIN k \subseteq DOMAIN ms
  /\ \A i \in DOMAIN k : Alike(k[i], ms[i])
  /\ \A i \in Protected(ms) : i \in DOMAIN k /\ k[i] = ms[i]

-----------------------------------------------------------------------------
(***************************************************************************)
(* Positions.                                                              *)
(***************************************************************************)

\* The last of some positions, zero if there are none.
LEMMA LastMeans ==
  ASSUME NEW n \in Nat, NEW S \in SUBSET (1 .. n)
  PROVE  /\ Max({0} \cup S) \in Nat
         /\ S = {} => Max({0} \cup S) = 0
         /\ S # {} => Max({0} \cup S) \in S
         /\ \A i \in S : i <= Max({0} \cup S)
<1> DEFINE T == {0} \cup S
<1>1. T \subseteq Nat /\ 0 \in T /\ \A i \in T : i <= n
  OBVIOUS
<1> HIDE DEF T
<1>2. Max(T) \in T /\ \A i \in T : i <= Max(T)
  BY <1>1, MaxProperties
<1>3. S # {} => Max(T) # 0
  <2> SUFFICES ASSUME NEW i \in S
               PROVE  Max(T) # 0
    OBVIOUS
  <2>1. i \in T /\ i > 0
    BY DEF T
  <2> QED
    BY <1>1, <1>2, <2>1
<1>4. T = {0} \cup S
  BY DEF T
<1> QED
  BY <1>1, <1>2, <1>3, <1>4

LEMMA LatestMessages ==
  ASSUME NEW ms, Talk(ms)
  PROVE  /\ LastUser(ms) \in Nat /\ LastCalls(ms) \in Nat /\ LastTool(ms) \in Nat
         /\ LastUser(ms) # 0 => LastUser(ms) \in DOMAIN ms /\ IsUser(ms[LastUser(ms)])
         /\ LastCalls(ms) # 0 => LastCalls(ms) \in DOMAIN ms /\ HasCalls(ms[LastCalls(ms)])
         /\ LastTool(ms) # 0 => LastTool(ms) \in DOMAIN ms /\ IsTool(ms[LastTool(ms)])
         /\ \A i \in DOMAIN ms : /\ i \in Nat /\ i > 0
                                 /\ IsUser(ms[i]) => i <= LastUser(ms)
                                 /\ HasCalls(ms[i]) => i <= LastCalls(ms)
<1>1. PICK n \in Nat : DOMAIN ms \subseteq 1 .. n
  BY DEF Talk
<1> DEFINE U == {i \in DOMAIN ms : IsUser(ms[i])}
           C == {i \in DOMAIN ms : HasCalls(ms[i])}
           T == {i \in DOMAIN ms : IsTool(ms[i])}
<1>2. U \in SUBSET (1 .. n) /\ C \in SUBSET (1 .. n) /\ T \in SUBSET (1 .. n)
  BY <1>1
<1>3. /\ LastUser(ms) = Max({0} \cup U) /\ LastCalls(ms) = Max({0} \cup C)
      /\ LastTool(ms) = Max({0} \cup T)
  BY DEF LastUser, LastCalls, LastTool
<1>4. /\ LastUser(ms) \in Nat /\ (LastUser(ms) # 0 => LastUser(ms) \in U)
      /\ \A i \in U : i <= LastUser(ms)
  <2> HIDE DEF U
  <2>1. /\ Max({0} \cup U) \in Nat /\ (U # {} => Max({0} \cup U) \in U)
        /\ U = {} => Max({0} \cup U) = 0
        /\ \A i \in U : i <= Max({0} \cup U)
    BY <1>2, LastMeans
  <2> QED
    BY <1>3, <2>1
<1>5. /\ LastCalls(ms) \in Nat /\ (LastCalls(ms) # 0 => LastCalls(ms) \in C)
      /\ \A i \in C : i <= LastCalls(ms)
  <2> HIDE DEF C
  <2>1. /\ Max({0} \cup C) \in Nat /\ (C # {} => Max({0} \cup C) \in C)
        /\ C = {} => Max({0} \cup C) = 0
        /\ \A i \in C : i <= Max({0} \cup C)
    BY <1>2, LastMeans
  <2> QED
    BY <1>3, <2>1
<1>6. LastTool(ms) \in Nat /\ (LastTool(ms) # 0 => LastTool(ms) \in T)
  <2> HIDE DEF T
  <2> QED
    BY <1>2, <1>3, LastMeans
<1> QED
  BY <1>1, <1>4, <1>5, <1>6

\* Where the conversation goes on.
LEMMA ThenMeans ==
  ASSUME NEW ms, Talk(ms), NEW m
  PROVE  \E next \in Nat :
           /\ next > 0 /\ next \notin DOMAIN ms /\ \A i \in DOMAIN ms : i < next
           /\ DOMAIN Then(ms, m) = DOMAIN ms \cup {next}
           /\ \A i \in DOMAIN ms : Then(ms, m)[i] = ms[i]
           /\ Then(ms, m)[next] = m
<1>1. PICK n \in Nat : DOMAIN ms \subseteq 1 .. n
  BY DEF Talk
<1> DEFINE last == Max({0} \cup DOMAIN ms)
<1>2. last \in Nat /\ \A i \in DOMAIN ms : i <= last
  BY <1>1, LastMeans
<1>3. Then(ms, m) = [i \in DOMAIN ms \cup {last + 1} |-> IF i = last + 1 THEN m ELSE ms[i]]
  BY DEF Then
<1>4. \A i \in DOMAIN ms : i \in Nat
  BY <1>1
<1> HIDE DEF last
<1>5. /\ last + 1 \in Nat /\ last + 1 > 0
      /\ \A i \in DOMAIN ms : i < last + 1
  BY <1>2, <1>4
<1>6. last + 1 \notin DOMAIN ms
  BY <1>5, <1>2, <1>4
<1> DEFINE next == last + 1
<1>7. /\ next \in Nat /\ next > 0 /\ next \notin DOMAIN ms /\ \A i \in DOMAIN ms : i < next
      /\ DOMAIN Then(ms, m) = DOMAIN ms \cup {next}
      /\ \A i \in DOMAIN ms : Then(ms, m)[i] = ms[i]
      /\ Then(ms, m)[next] = m
  BY <1>3, <1>5, <1>6
<1> HIDE DEF next
<1> QED
  BY <1>7

LEMMA ThenTalks ==
  ASSUME NEW ms, Talk(ms), 1 \in DOMAIN ms, NEW m \in Message, HasCalls(m) => m.role = "assistant"
  PROVE  Talk(Then(ms, m)) /\ 1 \in DOMAIN Then(ms, m)
<1> DEFINE t == Then(ms, m)
<1>1. PICK next \in Nat :
        /\ next > 0 /\ next \notin DOMAIN ms /\ \A i \in DOMAIN ms : i < next
        /\ DOMAIN t = DOMAIN ms \cup {next}
        /\ \A i \in DOMAIN ms : t[i] = ms[i]
        /\ t[next] = m
  BY ThenMeans
<1> HIDE DEF t
<1>2. DOMAIN t \subseteq 1 .. next
  <2>1. \A i \in DOMAIN ms : i \in 1 .. next
    BY <1>1, LatestMessages
  <2> QED
    BY <1>1, <2>1
<1>3. \A i \in DOMAIN t : t[i] \in Message /\ (HasCalls(t[i]) => t[i].role = "assistant")
  BY <1>1 DEF Talk
<1>4. 1 \in DOMAIN t /\ t[1].role = "system"
  BY <1>1 DEF Talk
<1>5. Talk(t)
  BY <1>2, <1>3, <1>4 DEF Talk
<1> QED
  BY <1>4, <1>5 DEF t

-----------------------------------------------------------------------------
(***************************************************************************)
(* What fitting keeps.                                                     *)
(***************************************************************************)

\* What is protected is found again in what is left.
LEMMA KeepsMeans ==
  ASSUME NEW ms, Talk(ms), NEW k, Talk(k), Keeps(ms, k)
  PROVE  /\ LastUser(k) = LastUser(ms) /\ LastCalls(k) = LastCalls(ms)
         /\ Fresh(k) = Fresh(ms)
<1>1. /\ DOMAIN k \subseteq DOMAIN ms
      /\ \A i \in DOMAIN k : /\ IsUser(k[i]) <=> IsUser(ms[i])
                             /\ HasCalls(k[i]) <=> HasCalls(ms[i])
                             /\ i \in Nat /\ i > 0
  BY LatestMessages DEF Keeps, Alike, IsUser, HasCalls
<1>2. /\ LastUser(ms) # 0 => LastUser(ms) \in DOMAIN k /\ k[LastUser(ms)] = ms[LastUser(ms)]
      /\ LastCalls(ms) # 0 => LastCalls(ms) \in DOMAIN k /\ k[LastCalls(ms)] = ms[LastCalls(ms)]
  BY LatestMessages DEF Keeps, Protected
<1>3. LastUser(k) = LastUser(ms)
  <2>1. LastUser(k) <= LastUser(ms)
    <3>1. CASE LastUser(k) = 0
      BY <3>1, LatestMessages
    <3>2. CASE LastUser(k) # 0
      <4>1. LastUser(k) \in DOMAIN ms /\ IsUser(ms[LastUser(k)])
        BY <1>1, <3>2, LatestMessages
      <4> QED
        BY <4>1, LatestMessages
    <3> QED
      BY <3>1, <3>2
  <2>2. LastUser(ms) <= LastUser(k)
    <3>1. CASE LastUser(ms) = 0
      BY <3>1, LatestMessages
    <3>2. CASE LastUser(ms) # 0
      <4>1. LastUser(ms) \in DOMAIN k /\ IsUser(k[LastUser(ms)])
        BY <1>2, <3>2, LatestMessages
      <4> QED
        BY <4>1, LatestMessages
    <3> QED
      BY <3>1, <3>2
  <2> QED
    BY <2>1, <2>2, LatestMessages
<1>4. LastCalls(k) = LastCalls(ms)
  <2>1. LastCalls(k) <= LastCalls(ms)
    <3>1. CASE LastCalls(k) = 0
      BY <3>1, LatestMessages
    <3>2. CASE LastCalls(k) # 0
      <4>1. LastCalls(k) \in DOMAIN ms /\ HasCalls(ms[LastCalls(k)])
        BY <1>1, <3>2, LatestMessages
      <4> QED
        BY <4>1, LatestMessages
    <3> QED
      BY <3>1, <3>2
  <2>2. LastCalls(ms) <= LastCalls(k)
    <3>1. CASE LastCalls(ms) = 0
      BY <3>1, LatestMessages
    <3>2. CASE LastCalls(ms) # 0
      <4>1. LastCalls(ms) \in DOMAIN k /\ HasCalls(k[LastCalls(ms)])
        BY <1>2, <3>2, LatestMessages
      <4> QED
        BY <4>1, LatestMessages
    <3> QED
      BY <3>1, <3>2
  <2> QED
    BY <2>1, <2>2, LatestMessages
<1> QED
  BY <1>2, <1>3, <1>4 DEF Fresh

LEMMA KeepsOn ==
  ASSUME NEW ms, Talk(ms), NEW k, Talk(k), NEW l, Keeps(ms, k), Keeps(k, l)
  PROVE  Keeps(ms, l)
<1>1. LastUser(k) = LastUser(ms) /\ LastCalls(k) = LastCalls(ms)
  BY KeepsMeans
<1>2. \A i \in Protected(ms) : i \in Protected(k) /\ k[i] = ms[i]
  BY <1>1 DEF Keeps, Protected
<1> QED
  BY <1>2 DEF Keeps, Alike

\* The first message that may go.
LEMMA FirstDroppable ==
  ASSUME NEW ms, Talk(ms), Droppable(ms) # {}
  PROVE  /\ Min(Droppable(ms)) \in Droppable(ms)
         /\ \A i \in Droppable(ms) : Min(Droppable(ms)) <= i
<1>1. Droppable(ms) \subseteq Nat
  BY LatestMessages DEF Droppable
<1> HIDE DEF Droppable
<1> QED
  BY <1>1, MinProperties

Dropped(ms, d) == {i \in DOMAIN ms : i # d /\ ~Answers(ms[i], Ids(ms[d]))}

LEMMA DropKeeps ==
  ASSUME NEW ms, Talk(ms), Droppable(ms) # {}
  PROVE  Talk(Drop(ms)) /\ Keeps(ms, Drop(ms))
<1> DEFINE d == Min(Droppable(ms))
           k == Drop(ms)
<1>1. DOMAIN k = Dropped(ms, d) /\ \A i \in DOMAIN k : k[i] = ms[i]
  BY DEF Drop, Restrict, Dropped
<1>2. d \in DOMAIN ms /\ d \notin {1, LastUser(ms), LastCalls(ms)}
  BY FirstDroppable DEF Droppable
<1> HIDE DEF d, k
<1>3. DOMAIN k \subseteq DOMAIN ms
  BY <1>1 DEF Dropped
<1>4. Talk(k)
  BY <1>1, <1>3 DEF Talk
<1>5. \A i \in Protected(ms) : ~IsTool(ms[i]) /\ i # d
  <2> TAKE i \in Protected(ms)
  <2>1. CASE i = 1
    BY <1>2, <2>1 DEF Protected, Talk, IsTool
  <2>2. CASE i = LastUser(ms)
    <3>1. i # 0
      BY LatestMessages DEF Protected
    <3> QED
      BY <1>2, <2>2, <3>1, LatestMessages DEF IsUser, IsTool
  <2>3. CASE i = LastCalls(ms)
    <3>1. i # 0
      BY LatestMessages DEF Protected
    <3>2. i \in DOMAIN ms /\ HasCalls(ms[i])
      BY <2>3, <3>1, LatestMessages
    <3> QED
      BY <1>2, <2>3, <3>2 DEF Talk, IsTool
  <2> QED
    BY <2>1, <2>2, <2>3 DEF Protected
<1>6. \A i \in Protected(ms) : i \in DOMAIN k
  BY <1>1, <1>5 DEF Protected, Dropped, Answers
<1> QED
  BY <1>1, <1>3, <1>4, <1>6 DEF Keeps, Alike, k

\* A result that gives way is a message still.
LEMMA TruncateKeeps ==
  ASSUME NEW ms, Talk(ms), NEW budget
  PROVE  Talk(Truncate(ms, budget)) /\ Keeps(ms, Truncate(ms, budget))
<1> DEFINE t == LastTool(ms)
           over == Cost(ms) - budget
           k == Truncate(ms, budget)
<1>1. CASE k = ms
  BY <1>1 DEF Keeps, Alike, Protected
<1>2. CASE k # ms
  <2> DEFINE fit == {s \in Wrap .. ms[t].size : s + over <= ms[t].size}
             size == Max({Wrap} \cup fit)
  <2>1. t # 0 /\ k = [ms EXCEPT ![t].size = size]
    BY <1>2 DEF Truncate
  <2>2. t \in DOMAIN ms /\ IsTool(ms[t]) /\ ms[t] \in Message /\ ms[t].size \in Nat
    BY <2>1, LatestMessages DEF Talk, Message
  <2>3. size \in Nat
    <3> DEFINE S == {Wrap} \cup fit
               top == IF Wrap <= ms[t].size THEN ms[t].size ELSE Wrap
    <3>1. S \in SUBSET Nat /\ S # {} /\ top \in Nat /\ \A s \in S : s <= top
      BY <2>2, SizesAssumption
    <3> HIDE DEF S, top, fit
    <3>2. Max(S) \in S
      BY <3>1, MaxProperties
    <3> QED
      BY <3>1, <3>2 DEF S
  <2> HIDE DEF size, t, k
  <2>4. DOMAIN k = DOMAIN ms /\ \A i \in DOMAIN ms : i # t => k[i] = ms[i]
    BY <2>1
  <2>5. k[t] = [ms[t] EXCEPT !.size = size]
    BY <2>1, <2>2
  <2>6. k[t] \in Message /\ Alike(k[t], ms[t])
    BY <2>2, <2>3, <2>5 DEF Message, Alike
  <2>7. ~HasCalls(ms[t]) /\ ms[t].role = "tool"
    BY <2>2 DEF Talk, IsTool
  <2>8. Talk(k)
    <3>1. \A i \in DOMAIN k : k[i] \in Message /\ (HasCalls(k[i]) => k[i].role = "assistant")
      BY <2>4, <2>6, <2>7 DEF Talk, Alike, HasCalls
    <3>2. 1 \in DOMAIN k => k[1].role = "system"
      BY <2>4, <2>6, <2>7 DEF Talk, Alike
    <3> QED
      BY <2>4, <3>1, <3>2 DEF Talk
  <2>9. \A i \in Protected(ms) : i # t
    BY <2>7, LatestMessages DEF Protected, Talk, IsUser
  <2> QED
    BY <2>4, <2>6, <2>8, <2>9 DEF Keeps, Alike, Protected, k
<1> QED
  BY <1>1, <1>2

-----------------------------------------------------------------------------
(***************************************************************************)
(* The rounds of fitting.                                                  *)
(***************************************************************************)

\* The first n rounds.
Rounds(g, n, ms, budget) ==
  /\ DOMAIN g = 0 .. n /\ g[0] = ms
  /\ \A i \in 0 .. n - 1 : g[i + 1] = Shorten(g[i], budget)

LEMMA RoundsExist ==
  ASSUME NEW ms, NEW budget
  PROVE  \A n \in Nat : \E g : Rounds(g, n, ms, budget)
<1> DEFINE S == {n \in Nat : \E g : Rounds(g, n, ms, budget)}
<1>1. 0 \in S
  <2> DEFINE g == [i \in 0 .. 0 |-> ms]
  <2>1. Rounds(g, 0, ms, budget)
    BY DEF Rounds
  <2> QED
    BY <2>1
<1>2. ASSUME NEW n \in Nat, n \in S
      PROVE  n + 1 \in S
  <2>1. PICK g : Rounds(g, n, ms, budget)
    BY <1>2
  <2> DEFINE h == [i \in 0 .. n + 1 |-> IF i = n + 1 THEN Shorten(g[n], budget) ELSE g[i]]
  <2>2. DOMAIN h = 0 .. n + 1 /\ h[n + 1] = Shorten(g[n], budget) /\ \A i \in 0 .. n : h[i] = g[i]
    OBVIOUS
  <2> HIDE DEF h
  <2>3. ASSUME NEW i \in 0 .. n
        PROVE  h[i + 1] = Shorten(h[i], budget)
    <3>1. CASE i = n
      BY <2>2, <3>1
    <3>2. CASE i # n
      <4>1. i \in 0 .. n - 1 /\ i + 1 \in 0 .. n
        BY <3>2
      <4> QED
        BY <2>1, <2>2, <4>1 DEF Rounds
    <3> QED
      BY <3>1, <3>2
  <2>4. h[0] = ms /\ (n + 1) - 1 = n
    BY <2>1, <2>2 DEF Rounds
  <2>5. Rounds(h, n + 1, ms, budget)
    BY <2>2, <2>3, <2>4 DEF Rounds
  <2> QED
    BY <2>5
<1> HIDE DEF S
<1>3. \A n \in Nat : n \in S
  BY <1>1, <1>2, NaturalInduction
<1> QED
  BY <1>3 DEF S

LEMMA RoundsAgree ==
  ASSUME NEW ms, NEW budget, NEW g, NEW h, NEW n \in Nat, NEW m \in Nat,
         Rounds(g, n, ms, budget), Rounds(h, m, ms, budget)
  PROVE  \A i \in Nat : i <= n /\ i <= m => g[i] = h[i]
<1> DEFINE S == {i \in Nat : i <= n /\ i <= m => g[i] = h[i]}
<1>1. 0 \in S
  BY DEF Rounds
<1>2. ASSUME NEW i \in Nat, i \in S
      PROVE  i + 1 \in S
  <2> SUFFICES ASSUME i + 1 <= n, i + 1 <= m
               PROVE  g[i + 1] = h[i + 1]
    OBVIOUS
  <2>1. i \in 0 .. n - 1 /\ i \in 0 .. m - 1 /\ g[i] = h[i]
    BY <1>2
  <2> QED
    BY <2>1 DEF Rounds
<1> HIDE DEF S
<1>3. \A i \in Nat : i \in S
  BY <1>1, <1>2, NaturalInduction
<1> QED
  BY <1>3 DEF S

\* Fitting is rounds of shortening, and a cut.
LEMMA FitMeans ==
  ASSUME NEW ms, NEW budget
  PROVE  \E f : /\ f[0] = ms /\ \A n \in Nat : f[n + 1] = Shorten(f[n], budget)
                /\ Fit(ms, budget) = Truncate(f[Cardinality(DOMAIN ms)], budget)
<1> DEFINE Made(f) == f = [n \in Nat |-> IF n = 0 THEN ms ELSE Shorten(f[n - 1], budget)]
           R(n) == CHOOSE g : Rounds(g, n, ms, budget)
           r == [n \in Nat |-> R(n)[n]]
<1>1. \A n \in Nat : Rounds(R(n), n, ms, budget)
  BY RoundsExist
<1>2. r[0] = ms
  BY <1>1 DEF Rounds
<1>3. ASSUME NEW n \in Nat
      PROVE  r[n + 1] = Shorten(r[n], budget)
  <2>1. Rounds(R(n), n, ms, budget) /\ Rounds(R(n + 1), n + 1, ms, budget)
    BY <1>1
  <2>2. r[n] = R(n)[n] /\ r[n + 1] = R(n + 1)[n + 1]
    OBVIOUS
  <2> HIDE DEF R, r
  <2>3. R(n)[n] = R(n + 1)[n]
    BY <2>1, RoundsAgree
  <2>4. n \in 0 .. (n + 1) - 1
    OBVIOUS
  <2>5. R(n + 1)[n + 1] = Shorten(R(n + 1)[n], budget)
    BY <2>1, <2>4 DEF Rounds
  <2> QED
    BY <2>2, <2>3, <2>5
<1>4. r = [n \in Nat |-> r[n]]
  OBVIOUS
<1> HIDE DEF R, r
<1>5. \A n \in Nat : r[n] = IF n = 0 THEN ms ELSE Shorten(r[n - 1], budget)
  <2> TAKE n \in Nat
  <2>1. CASE n = 0
    BY <1>2, <2>1
  <2>2. CASE n # 0
    <3>1. n - 1 \in Nat /\ (n - 1) + 1 = n
      BY <2>2
    <3>2. r[(n - 1) + 1] = Shorten(r[n - 1], budget)
      BY <1>3, <3>1
    <3> QED
      BY <2>2, <3>1, <3>2
  <2> QED
    BY <2>1, <2>2
<1>6. Made(r)
  BY <1>4, <1>5
<1> DEFINE f == CHOOSE f : Made(f)
<1>7. Made(f)
  BY <1>6, Zenon
<1>8. Fit(ms, budget) = Truncate(f[Cardinality(DOMAIN ms)], budget)
  BY DEF Fit
<1> HIDE DEF f
<1>9. f[0] = ms /\ \A n \in Nat : f[n + 1] = Shorten(f[n], budget)
  <2>1. \A n \in Nat : f[n] = IF n = 0 THEN ms ELSE Shorten(f[n - 1], budget)
    BY <1>7
  <2>2. f[0] = ms
    BY <2>1
  <2>3. ASSUME NEW n \in Nat
        PROVE  f[n + 1] = Shorten(f[n], budget)
    <3>1. n + 1 \in Nat /\ n + 1 # 0 /\ (n + 1) - 1 = n
      OBVIOUS
    <3> QED
      BY <2>1, <3>1
  <2> QED
    BY <2>2, <2>3
<1> QED
  BY <1>8, <1>9

LEMMA PositionsCounted ==
  ASSUME NEW ms, Talk(ms)
  PROVE  Cardinality(DOMAIN ms) \in Nat
<1>1. PICK n \in Nat : DOMAIN ms \subseteq 1 .. n
  BY DEF Talk
<1>2. IsFiniteSet(1 .. n)
  BY <1>1, FS_Interval
<1> QED
  BY <1>1, <1>2, FS_Subset, FS_CardinalityType

LEMMA ShortenKeeps ==
  ASSUME NEW ms, Talk(ms), NEW budget
  PROVE  Talk(Shorten(ms, budget)) /\ Keeps(ms, Shorten(ms, budget))
<1>1. Keeps(ms, ms)
  BY DEF Keeps, Alike, Protected
<1> QED
  BY <1>1, DropKeeps DEF Shorten

LEMMA FitKeeps ==
  ASSUME NEW ms, Talk(ms), NEW budget
  PROVE  Talk(Fit(ms, budget)) /\ Keeps(ms, Fit(ms, budget))
<1>1. PICK f : /\ f[0] = ms /\ \A n \in Nat : f[n + 1] = Shorten(f[n], budget)
               /\ Fit(ms, budget) = Truncate(f[Cardinality(DOMAIN ms)], budget)
  BY FitMeans
<1> DEFINE S == {n \in Nat : Talk(f[n]) /\ Keeps(ms, f[n])}
<1>2. 0 \in S
  BY <1>1 DEF Keeps, Alike, Protected
<1>3. ASSUME NEW n \in Nat, n \in S
      PROVE  n + 1 \in S
  <2>1. Talk(f[n + 1]) /\ Keeps(f[n], f[n + 1])
    BY <1>1, <1>3, ShortenKeeps
  <2> QED
    BY <1>3, <2>1, KeepsOn
<1> HIDE DEF S
<1>4. Cardinality(DOMAIN ms) \in S
  BY <1>2, <1>3, PositionsCounted, NaturalInduction
<1>5. Talk(f[Cardinality(DOMAIN ms)]) /\ Keeps(ms, f[Cardinality(DOMAIN ms)])
  BY <1>4 DEF S
<1> QED
  BY <1>1, <1>5, TruncateKeeps, KeepsOn

-----------------------------------------------------------------------------
(***************************************************************************)
(* Calls and their replies.                                                *)
(***************************************************************************)

\* No two messages declare one call.
Distinct(ms) ==
  \A i, j \in DOMAIN ms, id \in Id : id \in Ids(ms[i]) /\ id \in Ids(ms[j]) => i = j

\* Every call declared is answered once, later, but for those still open, which are
\* not answered; every reply is to a call declared before it.
Paired(ms, open) ==
  /\ \A i \in DOMAIN ms : \A id \in Ids(ms[i]) \ open :
       \E j \in DOMAIN ms :
         /\ i < j
         /\ {k \in DOMAIN ms : IsTool(ms[k]) /\ ms[k].reply = id} = {j}
  /\ \A k \in DOMAIN ms : IsTool(ms[k]) =>
       /\ ms[k].reply \notin open
       /\ \E i \in DOMAIN ms : i < k /\ ms[k].reply \in Ids(ms[i])

LEMMA IdsMean ==
  ASSUME NEW m \in Message
  PROVE  Ids(m) \subseteq Id /\ m.reply \in Id /\ (Ids(m) # {} => HasCalls(m))
<1>1. m.calls \in Seq(Call) /\ m.reply \in Id
  BY DEF Message, Call
<1>2. \A i \in DOMAIN m.calls : m.calls[i] \in Call
  BY <1>1
<1>3. Ids(m) # {} => HasCalls(m)
  BY <1>1 DEF Ids, HasCalls
<1> QED
  BY <1>1, <1>2, <1>3 DEF Ids, Call

\* What may go first is no reply: the message that declared its call would have to
\* go before it.
LEMMA FirstIsNoReply ==
  ASSUME NEW ms, Talk(ms), Distinct(ms), Paired(ms, {}), Droppable(ms) # {}
  PROVE  ~IsTool(ms[Min(Droppable(ms))])
<1> DEFINE d == Min(Droppable(ms))
<1>1. d \in Droppable(ms) /\ \A i \in Droppable(ms) : d <= i
  BY FirstDroppable
<1> HIDE DEF d
<1>2. /\ d \in DOMAIN ms /\ d \in Nat
      /\ ~Answers(ms[d], Fresh(ms))
  BY <1>1, LatestMessages DEF Droppable
<1> SUFFICES ASSUME IsTool(ms[d])
             PROVE  FALSE
  BY DEF d
<1>3. PICK i \in DOMAIN ms : i < d /\ ms[d].reply \in Ids(ms[i])
  BY <1>2 DEF Paired
<1>4. i \in Nat /\ HasCalls(ms[i]) /\ ms[i].role = "assistant"
  BY <1>3, IdsMean, LatestMessages DEF Talk
<1>5. i \notin Droppable(ms)
  BY <1>1, <1>2, <1>3, <1>4
<1>6. i \in {1, LastUser(ms), LastCalls(ms)}
  BY <1>4, <1>5 DEF Droppable, Answers, IsTool
<1>7. i # 1 /\ i # LastUser(ms)
  BY <1>4, LatestMessages DEF Talk, IsUser
<1>8. i = LastCalls(ms) /\ i # 0
  BY <1>6, <1>7, LatestMessages
<1>9. ms[d].reply \in Fresh(ms)
  BY <1>3, <1>8 DEF Fresh
<1> QED
  BY <1>2, <1>9 DEF Answers

LEMMA DropPairs ==
  ASSUME NEW ms, Talk(ms), Distinct(ms), Paired(ms, {}), Droppable(ms) # {}
  PROVE  Distinct(Drop(ms)) /\ Paired(Drop(ms), {})
<1> DEFINE d == Min(Droppable(ms))
           k == Drop(ms)
<1>1. DOMAIN k = Dropped(ms, d) /\ \A i \in DOMAIN k : k[i] = ms[i]
  BY DEF Drop, Restrict, Dropped
<1>2. d \in DOMAIN ms /\ ~IsTool(ms[d])
  BY FirstDroppable, FirstIsNoReply DEF Droppable
<1> HIDE DEF d, k
<1>3. DOMAIN k \subseteq DOMAIN ms
  BY <1>1 DEF Dropped
<1>4. Distinct(k)
  BY <1>1, <1>3 DEF Distinct
<1>5. ASSUME NEW i \in DOMAIN k, NEW id \in Ids(k[i])
      PROVE  \E j \in DOMAIN k :
               i < j /\ {l \in DOMAIN k : IsTool(k[l]) /\ k[l].reply = id} = {j}
  <2>1. i \in DOMAIN ms /\ id \in Ids(ms[i]) /\ i # d /\ id \in Id
    BY <1>1, <1>5, IdsMean DEF Dropped, Talk
  <2>2. PICK j \in DOMAIN ms :
          i < j /\ {l \in DOMAIN ms : IsTool(ms[l]) /\ ms[l].reply = id} = {j}
    BY <2>1 DEF Paired
  <2>3. id \notin Ids(ms[d])
    BY <1>2, <2>1 DEF Distinct
  <2>4. IsTool(ms[j]) /\ ms[j].reply = id
    BY <2>2
  <2>5. j \in DOMAIN k
    BY <1>1, <1>2, <2>3, <2>4 DEF Dropped, Answers
  <2>6. {l \in DOMAIN k : IsTool(k[l]) /\ k[l].reply = id} = {j}
    BY <1>1, <1>3, <2>2, <2>4, <2>5
  <2> QED
    BY <2>2, <2>5, <2>6
<1>6. ASSUME NEW l \in DOMAIN k, IsTool(k[l])
      PROVE  \E i \in DOMAIN k : i < l /\ k[l].reply \in Ids(k[i])
  <2>1. l \in DOMAIN ms /\ IsTool(ms[l]) /\ k[l] = ms[l] /\ ~Answers(ms[l], Ids(ms[d]))
    BY <1>1, <1>6 DEF Dropped
  <2>2. PICK i \in DOMAIN ms : i < l /\ ms[l].reply \in Ids(ms[i])
    BY <2>1 DEF Paired
  <2>3. i # d
    BY <2>1, <2>2 DEF Answers
  <2>4. ~IsTool(ms[i])
    BY <2>2, IdsMean DEF Talk, IsTool
  <2>5. i \in DOMAIN k
    BY <1>1, <2>3, <2>4 DEF Dropped, Answers
  <2> QED
    BY <1>1, <2>1, <2>2, <2>5
<1>7. Paired(k, {})
  BY <1>5, <1>6 DEF Paired
<1> QED
  BY <1>4, <1>7 DEF k

LEMMA AlikePairs ==
  ASSUME NEW ms, NEW k, DOMAIN k = DOMAIN ms, \A i \in DOMAIN ms : Alike(k[i], ms[i]),
         Distinct(ms), NEW open, Paired(ms, open)
  PROVE  Distinct(k) /\ Paired(k, open)
<1>1. \A i \in DOMAIN ms : /\ Ids(k[i]) = Ids(ms[i]) /\ k[i].reply = ms[i].reply
                           /\ IsTool(k[i]) <=> IsTool(ms[i])
  BY DEF Alike, Ids, IsTool
<1>2. Distinct(k)
  BY <1>1 DEF Distinct
<1>3. ASSUME NEW i \in DOMAIN k, NEW id \in Ids(k[i]) \ open
      PROVE  \E j \in DOMAIN k :
               i < j /\ {l \in DOMAIN k : IsTool(k[l]) /\ k[l].reply = id} = {j}
  <2>1. {l \in DOMAIN k : IsTool(k[l]) /\ k[l].reply = id}
          = {l \in DOMAIN ms : IsTool(ms[l]) /\ ms[l].reply = id}
    BY <1>1
  <2> QED
    BY <1>1, <1>3, <2>1 DEF Paired
<1>4. ASSUME NEW l \in DOMAIN k, IsTool(k[l])
      PROVE  k[l].reply \notin open /\ \E i \in DOMAIN k : i < l /\ k[l].reply \in Ids(k[i])
  BY <1>1, <1>4 DEF Paired
<1> QED
  BY <1>2, <1>3, <1>4 DEF Paired

LEMMA TruncatePairs ==
  ASSUME NEW ms, Talk(ms), Distinct(ms), Paired(ms, {}), NEW budget
  PROVE  Distinct(Truncate(ms, budget)) /\ Paired(Truncate(ms, budget), {})
<1> DEFINE k == Truncate(ms, budget)
<1>1. DOMAIN k = DOMAIN ms
  BY DEF Truncate
<1>2. \A i \in DOMAIN k : Alike(k[i], ms[i])
  BY TruncateKeeps DEF Keeps
<1> HIDE DEF k
<1> QED
  BY <1>1, <1>2, AlikePairs DEF k

LEMMA FitPairs ==
  ASSUME NEW ms, Talk(ms), Distinct(ms), Paired(ms, {}), NEW budget
  PROVE  Distinct(Fit(ms, budget)) /\ Paired(Fit(ms, budget), {})
<1>1. PICK f : /\ f[0] = ms /\ \A n \in Nat : f[n + 1] = Shorten(f[n], budget)
               /\ Fit(ms, budget) = Truncate(f[Cardinality(DOMAIN ms)], budget)
  BY FitMeans
<1> DEFINE S == {n \in Nat : Talk(f[n]) /\ Distinct(f[n]) /\ Paired(f[n], {})}
<1>2. 0 \in S
  BY <1>1
<1>3. ASSUME NEW n \in Nat, n \in S
      PROVE  n + 1 \in S
  <2>1. Talk(Shorten(f[n], budget))
    BY <1>3, ShortenKeeps
  <2>2. Distinct(Shorten(f[n], budget)) /\ Paired(Shorten(f[n], budget), {})
    BY <1>3, DropPairs DEF Shorten
  <2> QED
    BY <1>1, <2>1, <2>2
<1> HIDE DEF S
<1>4. Cardinality(DOMAIN ms) \in S
  BY <1>2, <1>3, PositionsCounted, NaturalInduction
<1>5. LET k == f[Cardinality(DOMAIN ms)] IN Talk(k) /\ Distinct(k) /\ Paired(k, {})
  BY <1>4 DEF S
<1> QED
  BY <1>1, <1>5, TruncatePairs

-----------------------------------------------------------------------------
(***************************************************************************)
(* Types.                                                                  *)
(***************************************************************************)

Turn == [step : {"idle", "think", "wait", "tools", "force", "reply"}, kind : Kinds \cup {"none"},
         steps : 0 .. MaxSteps, left : Seq(Call), ran : SUBSET Tools, retried : BOOLEAN]

\* The turn, and where it stands.
TurnFits ==
  /\ turn \in Turn
  /\ Cardinality(turn.ran) <= MaxCallsPerStep
  /\ turn.step = "tools" => turn.steps < MaxSteps
  /\ turn.step # "tools" => turn.left = <<>>
  /\ turn.step \in {"think", "wait", "tools", "force"} => 1 \in DOMAIN msgs
  /\ Talk(msgs)

\* A note's version tells how often it was moved.
NotesFit ==
  /\ notes \in [Notes -> [version : 0 .. 2, status : {"none", "pending", "active", "retired"}]]
  /\ \A n \in Notes : /\ notes[n].status \in {"none", "pending"} => notes[n].version = 0
                      /\ notes[n].status = "active" => notes[n].version <= 1
  /\ old \subseteq Notes

\* What a client sends: nothing in it calls or answers.
Plain == {m \in Message : m.calls = <<>> /\ m.role # "tool"}

LEMMA SayPlain ==
  ASSUME NEW role \in {"system", "user", "assistant"}, NEW size \in Nat
  PROVE  Say(role, size) \in Plain /\ Say(role, size).role = role
BY DEF Say, Msg, Plain, Message, NoId, Id

LEMMA TrimPlain ==
  ASSUME NEW t \in Transcripts
  PROVE  Trim(t) \in Seq(Plain)
<1>1. t \in Seq(Plain)
  <2> DEFINE P == {m \in Message : m.role \in {"user", "assistant"} /\ m.calls = <<>>}
  <2>1. t \in Seq(P)
    BY TranscriptsAssumption
  <2>2. \A m \in P : m \in Plain
    BY DEF Plain
  <2> HIDE DEF P
  <2>3. Len(t) \in Nat /\ t \in [1 .. Len(t) -> P]
    BY <2>1
  <2>4. t \in [1 .. Len(t) -> Plain]
    BY <2>2, <2>3
  <2> QED
    BY <2>3, <2>4
<1> DEFINE n == Len(t)
           S == {Max({1, n})} \cup {i \in 1 .. n : Cost(SubSeq(t, i, n)) <= Room}
<1>2. n \in Nat /\ (n > 0 => Max({1, n}) \in 1 .. n) /\ (n = 0 => Max({1, n}) = 1)
  <2>1. n \in Nat
    BY <1>1
  <2>2. Max({1, n}) \in {1, n} /\ 1 <= Max({1, n})
    <3> DEFINE T == {1, n}
               top == IF n > 1 THEN n ELSE 1
    <3>1. T \in SUBSET Nat /\ T # {} /\ 1 \in T /\ top \in Nat /\ \A x \in T : x <= top
      BY <2>1
    <3> HIDE DEF T, top
    <3>2. Max(T) \in T /\ \A x \in T : x <= Max(T)
      BY <3>1, MaxProperties
    <3> QED
      BY <3>1, <3>2 DEF T
  <2> QED
    BY <2>1, <2>2
<1>3. Min(S) \in Nat /\ 1 <= Min(S)
  <2>1. Max({1, n}) \in Nat /\ 1 <= Max({1, n})
    <3>1. CASE n = 0
      BY <1>2, <3>1
    <3>2. CASE n # 0
      <4>1. n > 0
        BY <1>2, <3>2
      <4> HIDE DEF n
      <4> QED
        BY <1>2, <4>1
    <3> QED
      BY <3>1, <3>2
  <2> DEFINE m == Max({1, n})
             T == {i \in 1 .. n : Cost(SubSeq(t, i, n)) <= Room}
  <2>2. S = {m} \cup T /\ T \subseteq 1 .. n
    OBVIOUS
  <2> HIDE DEF S, T, m
  <2>3. m \in Nat /\ 1 <= m
    BY <2>1 DEF m
  <2>4. S \in SUBSET Nat /\ S # {} /\ \A i \in S : 1 <= i
    BY <1>2, <2>2, <2>3
  <2> QED
    BY <2>4, MinProperties
<1>4. Trim(t) = SubSeq(t, Min(S), n)
  BY DEF Trim
<1> HIDE DEF S
<1> QED
  BY <1>1, <1>2, <1>3, <1>4

\* A conversation starts with the system prompt and has no calls yet.
LEMMA AskTalks ==
  ASSUME NEW t \in Transcripts, NEW h \in Seq(Plain)
  PROVE  LET ms == <<Say("system", Persona)>> \o Trim(t) \o h
         IN  /\ Talk(ms) /\ 1 \in DOMAIN ms
             /\ \A i \in DOMAIN ms : ~IsTool(ms[i]) /\ ~HasCalls(ms[i])
<1> DEFINE first == Say("system", Persona)
           x == <<first>> \o Trim(t)
           ms == x \o h
<1>1. first \in Plain /\ first.role = "system"
  BY SayPlain, SizesAssumption
<1> HIDE DEF first
<1>2. x \in Seq(Plain) /\ Len(x) >= 1 /\ x[1] = first
  BY <1>1, TrimPlain, Headed
<1> HIDE DEF x
<1>3. ms \in Seq(Plain) /\ Len(ms) >= 1 /\ ms[1] = first
  BY <1>2
<1> HIDE DEF ms
<1>4. DOMAIN ms = 1 .. Len(ms) /\ Len(ms) \in Nat /\ \A i \in DOMAIN ms : ms[i] \in Plain
  BY <1>3
<1>5. \A i \in DOMAIN ms : ~IsTool(ms[i]) /\ ~HasCalls(ms[i]) /\ ms[i] \in Message
  BY <1>4 DEF IsTool, HasCalls, Plain
<1>6. 1 \in DOMAIN ms
  BY <1>3, <1>4
<1>7. Talk(ms)
  BY <1>1, <1>3, <1>4, <1>5 DEF Talk
<1> QED
  BY <1>5, <1>6, <1>7 DEF ms, x, first

LEMMA HintPlain ==
  ASSUME NEW kind, NEW t, NEW p
  PROVE  Hint(kind, t, p) \in Seq(Plain)
BY SayPlain DEF Hint

LEMMA NamesCalls ==
  ASSUME NEW b \in Batches, turn \in Turn
  PROVE  /\ Name(b) \in Seq(Call) /\ Name(b) # <<>> /\ DOMAIN Name(b) = DOMAIN b
         /\ \A i \in DOMAIN b : Name(b)[i].id = <<IF UniqueIds THEN turn.steps ELSE 0, i>>
         /\ Msg("assistant", Len(b), Name(b), NoId) \in Message
<1>1. b \in Seq(Tools) /\ b # <<>>
  BY BatchesAssumption
<1>2. DOMAIN b = 1 .. Len(b) /\ Len(b) \in Nat /\ \A i \in DOMAIN b : b[i] \in Tools
  BY <1>1
<1>3. (IF UniqueIds THEN turn.steps ELSE 0) \in Nat
  BY LimitsAssumption DEF Turn
<1>4. \A i \in DOMAIN b : <<IF UniqueIds THEN turn.steps ELSE 0, i>> \in Id
  BY <1>2, <1>3 DEF Id
<1>5. Name(b) = [i \in DOMAIN b |->
                  [id |-> <<IF UniqueIds THEN turn.steps ELSE 0, i>>, tool |-> b[i]]]
  BY DEF Name
<1>6. Name(b) \in Seq(Call)
  <2>1. Name(b) \in [1 .. Len(b) -> Call]
    BY <1>2, <1>4, <1>5 DEF Call
  <2> QED
    BY <1>2, <2>1
<1>7. Name(b) # <<>>
  BY <1>1, <1>2, <1>5
<1>8. Msg("assistant", Len(b), Name(b), NoId) \in Message
  BY <1>2, <1>6 DEF Msg, Message, NoId, Id, Call
<1> QED
  BY <1>5, <1>6, <1>7, <1>8

LEMMA ReplyMessage ==
  ASSUME NEW c \in Call, NEW size \in Nat
  PROVE  /\ Msg("tool", size, <<>>, c.id) \in Message
         /\ ~HasCalls(Msg("tool", size, <<>>, c.id)) /\ IsTool(Msg("tool", size, <<>>, c.id))
BY DEF Msg, Message, Call, HasCalls, IsTool

-----------------------------------------------------------------------------
(***************************************************************************)
(* The turn stays in its bounds.                                           *)
(***************************************************************************)

LEMMA ToolsFinite == IsFiniteSet(Tools)
<1>1. /\ IsFiniteSet({"look"}) /\ IsFiniteSet({"read"}) /\ IsFiniteSet({"propose"})
      /\ IsFiniteSet({"confirm"}) /\ IsFiniteSet({"retire"})
  BY FS_Singleton
<1>2. Tools = {"look"} \cup ({"read"} \cup ({"propose"} \cup ({"confirm"} \cup {"retire"})))
  BY DEF Tools
<1> QED
  BY <1>1, <1>2, FS_Union

LEMMA RunsFewer ==
  ASSUME NEW ran \in SUBSET Tools, NEW t \in Tools, t \notin ran,
         ~(Cardinality(ran) >= MaxCallsPerStep)
  PROVE  Cardinality(ran \cup {t}) <= MaxCallsPerStep
<1>1. IsFiniteSet(ran)
  BY ToolsFinite, FS_Subset
<1>2. Cardinality(ran) \in Nat /\ Cardinality(ran \cup {t}) = Cardinality(ran) + 1
  BY <1>1, FS_CardinalityType, FS_AddElement
<1> QED
  BY <1>2, LimitsAssumption

\* The two steps that answer the next call.
Answering(size) ==
  /\ turn.step = "tools" /\ turn.left # <<>>
  /\ size \in Nat /\ Reply(Head(turn.left), size)
  /\ turn'.left = Tail(turn.left)
  /\ turn'.step = turn.step /\ turn'.steps = turn.steps

LEMMA AnswersNext ==
  ASSUME TurnFits, Skip \/ Run
  PROVE  \E size : Answering(size)
<1>1. CASE Skip
  <2>1. Answering(1)
    BY <1>1 DEF Skip, Answering, TurnFits, Turn
  <2> QED
    BY <2>1
<1>2. CASE Run
  <2>1. PICK size \in Nat : Reply(Head(turn.left), size)
    BY <1>2, SizesAssumption DEF Run
  <2>2. Answering(size)
    BY <1>2, <2>1 DEF Run, Answering, TurnFits, Turn
  <2> QED
    BY <2>2
<1> QED
  BY <1>1, <1>2

LEMMA NextCall ==
  ASSUME TurnFits, turn.left # <<>>
  PROVE  Head(turn.left) \in Call /\ Tail(turn.left) \in Seq(Call)
BY DEF TurnFits, Turn

LEMMA TurnFitsStep == TurnFits /\ [Next]_vars => TurnFits'
<1> SUFFICES ASSUME TurnFits, [Next]_vars
             PROVE  TurnFits'
  OBVIOUS
<1>0. turn \in Turn /\ Talk(msgs)
  BY DEF TurnFits
<1>1. ASSUME NEW k \in Kinds, NEW t \in Transcripts, Ask(k, t)
      PROVE  TurnFits'
  <2>1. turn' = [NoTurn EXCEPT !.step = IF TooLong(t) THEN "reply" ELSE "think", !.kind = k]
    BY <1>1 DEF Ask
  <2>2. turn' \in Turn /\ turn'.left = <<>> /\ turn'.step \in {"reply", "think"} /\ turn'.ran = {}
        /\ (turn'.step = "think" => ~TooLong(t))
    <3> DEFINE step == IF TooLong(t) THEN "reply" ELSE "think"
    <3>1. step \in {"reply", "think"} /\ (step = "think" => ~TooLong(t))
      OBVIOUS
    <3> HIDE DEF step
    <3>2. turn' = [step |-> step, kind |-> k, steps |-> 0, left |-> <<>>, ran |-> {},
                   retried |-> FALSE]
      BY <2>1 DEF NoTurn, step
    <3>3. 0 \in 0 .. MaxSteps /\ <<>> \in Seq(Call)
      BY LimitsAssumption
    <3> QED
      BY <3>1, <3>2, <3>3 DEF Turn
  <2>3. Cardinality({}) <= MaxCallsPerStep
    BY FS_EmptySet, LimitsAssumption
  <2>4. Talk(msgs') /\ (~TooLong(t) => 1 \in DOMAIN msgs')
    <3>1. CASE TooLong(t)
      <4>1. msgs' = <<>>
        BY <1>1, <3>1 DEF Ask
      <4> QED
        BY <3>1, <4>1 DEF Talk
    <3>2. CASE ~TooLong(t)
      <4>1. PICK h \in Seq(Plain) : msgs' = <<Say("system", Persona)>> \o Trim(t) \o h
        BY <1>1, <3>2, HintPlain DEF Ask
      <4> QED
        BY <4>1, AskTalks
    <3> QED
      BY <3>1, <3>2
  <2> QED
    BY <2>2, <2>3, <2>4 DEF TurnFits, Talk
<1>2. CASE Send \/ Overflows
  <2>1. PICK budget : msgs' = Fit(msgs, budget)
    BY <1>2 DEF Send, Overflows
  <2>2. 1 \in DOMAIN msgs
    BY <1>2 DEF Send, Overflows, TurnFits
  <2>3. Talk(msgs') /\ 1 \in DOMAIN msgs'
    BY <1>0, <2>1, <2>2, FitKeeps DEF Keeps, Protected
  <2>4. turn' \in Turn /\ turn'.step = "wait" /\ turn'.left = <<>> /\ turn'.ran = turn.ran
    BY <1>2 DEF Send, Overflows, TurnFits, Turn
  <2> QED
    BY <2>3, <2>4 DEF TurnFits, Talk
<1>3. CASE DeadlinePasses \/ Answered \/ OutOfSteps
  <2>1. msgs' = msgs /\ turn' \in Turn /\ turn'.step \in {"force", "reply"} /\ turn'.ran = turn.ran
        /\ turn'.left = <<>> /\ (turn'.step = "force" => 1 \in DOMAIN msgs)
    BY <1>3 DEF DeadlinePasses, Answered, OutOfSteps, Goto, TurnFits, Turn
  <2> QED
    BY <2>1 DEF TurnFits, Talk
<1>4. ASSUME NEW b \in Batches, CallsTools(b)
      PROVE  TurnFits'
  <2>1. /\ turn.step = "wait" /\ turn.steps < MaxSteps
        /\ msgs' = Then(msgs, Msg("assistant", Len(b), Name(b), NoId))
        /\ turn' = [turn EXCEPT !.step = "tools", !.left = Name(b), !.ran = {}]
    BY <1>4 DEF CallsTools
  <2>2. Msg("assistant", Len(b), Name(b), NoId) \in Message /\ Name(b) \in Seq(Call)
    BY <1>0, NamesCalls
  <2>3. Talk(msgs') /\ 1 \in DOMAIN msgs'
    <3>1. 1 \in DOMAIN msgs /\ Msg("assistant", Len(b), Name(b), NoId).role = "assistant"
      BY <2>1 DEF TurnFits, Msg
    <3> QED
      BY <1>0, <2>1, <2>2, <3>1, ThenTalks
  <2>4. turn' \in Turn /\ turn'.step = "tools" /\ turn'.steps < MaxSteps /\ turn'.ran = {}
    BY <1>0, <2>1, <2>2 DEF Turn
  <2>5. Cardinality({}) <= MaxCallsPerStep
    BY FS_EmptySet, LimitsAssumption
  <2> QED
    BY <2>3, <2>4, <2>5 DEF TurnFits, Talk
<1>5. CASE Skip \/ Run
  <2>1. PICK size : Answering(size)
    BY <1>5, AnswersNext
  <2> DEFINE m == Msg("tool", size, <<>>, Head(turn.left).id)
  <2>2. m \in Message /\ ~HasCalls(m) /\ msgs' = Then(msgs, m)
    BY <2>1, NextCall, ReplyMessage DEF Answering, Reply
  <2>3. 1 \in DOMAIN msgs
    BY <2>1 DEF Answering, TurnFits
  <2> HIDE DEF m
  <2>4. Talk(msgs') /\ 1 \in DOMAIN msgs'
    BY <1>0, <2>2, <2>3, ThenTalks
  <2>5. turn' \in Turn /\ Cardinality(turn'.ran) <= MaxCallsPerStep
    <3>1. CASE Skip
      BY <3>1, NextCall DEF Skip, TurnFits, Turn
    <3>2. CASE Run
      <4> DEFINE c == Head(turn.left)
      <4>1. turn' = [turn EXCEPT !.left = Tail(turn.left), !.ran = turn.ran \cup {c.tool}]
            /\ ~Skipped(c) /\ turn.left # <<>>
        BY <3>2 DEF Run
      <4>2. c.tool \in Tools /\ Tail(turn.left) \in Seq(Call)
        BY <4>1, NextCall DEF Call
      <4>3. turn.ran \in SUBSET Tools
        BY <1>0 DEF Turn
      <4> HIDE DEF c
      <4>4. Cardinality(turn.ran \cup {c.tool}) <= MaxCallsPerStep
        BY <4>1, <4>2, <4>3, RunsFewer DEF Skipped
      <4>5. turn' \in Turn /\ turn'.ran = turn.ran \cup {c.tool}
        BY <1>0, <4>1, <4>2 DEF Turn
      <4> QED
        BY <4>4, <4>5
    <3> QED
      BY <1>5, <3>1, <3>2
  <2> QED
    BY <2>1, <2>4, <2>5 DEF TurnFits, Answering, Talk
<1>6. CASE EndStep
  <2>1. turn' = [turn EXCEPT !.step = "think", !.steps = turn.steps + 1] /\ msgs' = msgs
        /\ turn.step = "tools" /\ turn.left = <<>>
    BY <1>6 DEF EndStep
  <2>2. turn.steps + 1 \in 0 .. MaxSteps
    BY <2>1, LimitsAssumption DEF TurnFits, Turn
  <2>3. turn' \in Turn /\ turn'.step = "think" /\ turn'.left = <<>> /\ turn'.ran = turn.ran
    BY <1>0, <2>1, <2>2 DEF Turn
  <2> QED
    BY <2>1, <2>3 DEF TurnFits, Talk
<1>7. CASE ForceAnswer
  <2>1. msgs' = Then(msgs, Say("system", 1)) /\ turn' = [turn EXCEPT !.step = "reply"]
        /\ turn.step = "force"
    BY <1>7 DEF ForceAnswer, Goto
  <2>2. Say("system", 1) \in Message /\ ~HasCalls(Say("system", 1))
    BY SayPlain DEF Plain, HasCalls
  <2>3. Talk(msgs')
    BY <1>0, <2>1, <2>2, ThenTalks DEF TurnFits
  <2>4. turn' \in Turn /\ turn'.step = "reply" /\ turn'.left = <<>> /\ turn'.ran = turn.ran
    BY <2>1 DEF TurnFits, Turn
  <2> QED
    BY <2>3, <2>4 DEF TurnFits, Talk
<1>8. CASE Finish
  <2>1. turn' = NoTurn /\ msgs' = <<>>
    BY <1>8 DEF Finish
  <2>2. NoTurn \in Turn /\ NoTurn.left = <<>> /\ NoTurn.step = "idle" /\ NoTurn.ran = {}
    BY LimitsAssumption DEF NoTurn, Turn
  <2>3. Cardinality({}) <= MaxCallsPerStep
    BY FS_EmptySet, LimitsAssumption
  <2> QED
    BY <2>1, <2>2, <2>3 DEF TurnFits, Talk
<1>9. CASE UNCHANGED <<turn, msgs>>
  BY <1>9 DEF TurnFits, Talk
<1> QED
  BY <1>1, <1>2, <1>3, <1>4, <1>5, <1>6, <1>7, <1>8, <1>9
     DEF Next, TurnStep, vars, RetireNote, RetireAllPending, DayPasses

-----------------------------------------------------------------------------
(***************************************************************************)
(* Notes.                                                                  *)
(***************************************************************************)

\* The ways a note moves.
Confirms(n) == notes' = Moved(n, {"pending"}, "active")
Retires(n) == notes' = Moved(n, {"active", "pending"}, "retired")

LEMMA NotesMove ==
  ASSUME [Next]_vars
  PROVE  \/ notes' = notes
         \/ \E n \in Notes : Confirms(n) \/ Retires(n)
         \/ \E status \in {"pending", "active"} : Propose(status)
         \/ \E ns \in SUBSET Pending : notes' = Retired(ns)
<1>1. ASSUME NEW k \in Kinds, NEW t \in Transcripts, Ask(k, t)
      PROVE  \E ns \in SUBSET Pending : notes' = Retired(ns)
  <2>1. notes' = Retired(IF k = "task" THEN {} ELSE Pending \cap old)
    BY <1>1 DEF Ask
  <2>2. (IF k = "task" THEN {} ELSE Pending \cap old) \in SUBSET Pending
    OBVIOUS
  <2> QED
    BY <2>1, <2>2
<1>2. CASE RetireAllPending
  BY <1>2 DEF RetireAllPending
<1>3. ASSUME NEW n \in Notes, RetireNote(n)
      PROVE  Retires(n)
  BY <1>3 DEF RetireNote, Retires
<1>4. CASE Run
  <2>1. notes' = notes \/ \E tool : Teach(tool)
    BY <1>4 DEF Run
  <2> QED
    BY <2>1 DEF Teach, Confirms, Retires
<1>5. CASE TurnStep /\ ~Run
  BY <1>5 DEF TurnStep, Send, DeadlinePasses, Overflows, Answered, OutOfSteps, CallsTools, Skip,
     EndStep, ForceAnswer, Finish
<1>6. CASE DayPasses \/ UNCHANGED vars
  BY <1>6 DEF DayPasses, vars
<1> QED
  BY <1>1, <1>2, <1>3, <1>4, <1>5, <1>6 DEF Next

\* One note's way: it is proposed, or moves on by one version.
Forward(n) ==
  \/ notes[n] = NoNote /\ notes'[n].version = 0
  \/ /\ notes'[n].version = notes[n].version + 1
     /\ <<notes[n].status, notes'[n].status>> \in
          {<<"pending", "active">>, <<"pending", "retired">>, <<"active", "retired">>}

Fits(note) ==
  /\ note \in [version : 0 .. 2, status : {"none", "pending", "active", "retired"}]
  /\ note.status \in {"none", "pending"} => note.version = 0
  /\ note.status = "active" => note.version <= 1

LEMMA FitsMeans ==
  NotesFit <=> /\ notes = [n \in Notes |-> notes[n]]
               /\ \A n \in Notes : Fits(notes[n])
               /\ old \subseteq Notes
BY DEF NotesFit, Fits

LEMMA NotesStep ==
  ASSUME NotesFit, [Next]_vars
  PROVE  /\ notes' = [n \in Notes |-> notes'[n]]
         /\ \A n \in Notes : Fits(notes'[n]) /\ (notes'[n] # notes[n] => Forward(n))
<1>0. notes = [n \in Notes |-> notes[n]] /\ \A n \in Notes : Fits(notes[n])
  BY FitsMeans
<1>1. CASE notes' = notes
  BY <1>0, <1>1
<1>2. ASSUME NEW n \in Notes, NEW from, NEW to, notes' = Moved(n, from, to),
             \/ from = {"pending"} /\ to = "active"
             \/ from = {"active", "pending"} /\ to = "retired"
      PROVE  /\ notes' = [m \in Notes |-> notes'[m]]
             /\ \A m \in Notes : Fits(notes'[m]) /\ (notes'[m] # notes[m] => Forward(m))
  <2>1. CASE notes[n].status \notin from
    BY <1>0, <1>2, <2>1 DEF Moved
  <2>2. CASE notes[n].status \in from
    <3>1. notes' = [notes EXCEPT ![n] = [version |-> notes[n].version + 1, status |-> to]]
      BY <1>2, <2>2 DEF Moved
    <3>2. /\ notes'[n] = [version |-> notes[n].version + 1, status |-> to]
          /\ \A m \in Notes : m # n => notes'[m] = notes[m]
          /\ notes' = [m \in Notes |-> notes'[m]]
      BY <1>0, <3>1
    <3>3. Fits(notes[n])
      BY <1>0
    <3>4. Fits(notes'[n]) /\ Forward(n)
      <4>1. notes'[n].version = notes[n].version + 1 /\ notes'[n].status = to
        BY <3>2
      <4>2. CASE from = {"pending"} /\ to = "active"
        <5>1. notes[n].status = "pending" /\ notes[n].version = 0
          BY <2>2, <3>3, <4>2 DEF Fits
        <5> QED
          BY <3>2, <4>1, <4>2, <5>1 DEF Fits, Forward
      <4>3. CASE from = {"active", "pending"} /\ to = "retired"
        <5>1. notes[n].status \in {"active", "pending"} /\ notes[n].version \in 0 .. 1
          BY <2>2, <3>3, <4>3 DEF Fits
        <5> QED
          BY <3>2, <4>1, <4>3, <5>1 DEF Fits, Forward
      <4> QED
        BY <1>2, <4>2, <4>3
    <3> QED
      BY <1>0, <3>2, <3>4
  <2> QED
    BY <2>1, <2>2
<1>3. ASSUME NEW status \in {"pending", "active"}, Propose(status)
      PROVE  /\ notes' = [m \in Notes |-> notes'[m]]
             /\ \A m \in Notes : Fits(notes'[m]) /\ (notes'[m] # notes[m] => Forward(m))
  <2> DEFINE unused == {n \in Notes : notes[n] = NoNote}
  <2>1. notes' = IF unused = {} THEN notes
                 ELSE [notes EXCEPT ![Min(unused)] = [version |-> 0, status |-> status]]
    BY <1>3 DEF Propose
  <2>2. CASE unused = {}
    BY <1>0, <2>1, <2>2
  <2>3. CASE unused # {}
    <3>1. unused \in SUBSET Nat
      BY DEF Notes
    <3>2. Min(unused) \in unused
      <4> HIDE DEF unused
      <4> QED
        BY <2>3, <3>1, MinProperties
    <3>3. PICK n \in Notes : n = Min(unused) /\ notes[n] = NoNote
      BY <3>2
    <3> HIDE DEF unused
    <3>4. notes' = [notes EXCEPT ![n] = [version |-> 0, status |-> status]]
      BY <2>1, <2>3, <3>3
    <3>5. /\ notes'[n] = [version |-> 0, status |-> status]
          /\ \A m \in Notes : m # n => notes'[m] = notes[m]
          /\ notes' = [m \in Notes |-> notes'[m]]
      BY <1>0, <3>4
    <3>6. Fits(notes'[n]) /\ Forward(n)
      BY <1>3, <3>3, <3>5 DEF Fits, Forward
    <3> QED
      BY <1>0, <3>5, <3>6
  <2> QED
    BY <2>2, <2>3
<1>4. ASSUME NEW ns \in SUBSET Pending, notes' = Retired(ns)
      PROVE  /\ notes' = [m \in Notes |-> notes'[m]]
             /\ \A m \in Notes : Fits(notes'[m]) /\ (notes'[m] # notes[m] => Forward(m))
  <2>1. notes' = [n \in Notes |-> IF n \in ns
                                  THEN [version |-> notes[n].version + 1, status |-> "retired"]
                                  ELSE notes[n]]
    BY <1>4 DEF Retired
  <2>2. \A n \in Notes : notes'[n] = IF n \in ns
                                     THEN [version |-> notes[n].version + 1, status |-> "retired"]
                                     ELSE notes[n]
    BY <2>1
  <2>3. ASSUME NEW n \in Notes
        PROVE  Fits(notes'[n]) /\ (notes'[n] # notes[n] => Forward(n))
    <3>1. CASE n \in ns
      <4>1. notes[n].status = "pending" /\ notes[n].version = 0
        BY <1>0, <3>1 DEF Pending, Fits
      <4>2. notes'[n] = [version |-> 1, status |-> "retired"]
        BY <2>2, <3>1, <4>1
      <4> QED
        BY <4>1, <4>2 DEF Fits, Forward
    <3>2. CASE n \notin ns
      BY <1>0, <2>2, <3>2
    <3> QED
      BY <3>1, <3>2
  <2> QED
    BY <2>1, <2>3
<1> QED
  BY <1>1, <1>2, <1>3, <1>4, NotesMove DEF Confirms, Retires

LEMMA NotesFitStep == NotesFit /\ [Next]_vars => NotesFit'
<1> SUFFICES ASSUME NotesFit, [Next]_vars
             PROVE  NotesFit'
  OBVIOUS
<1>1. notes' = [n \in Notes |-> notes'[n]] /\ \A n \in Notes : Fits(notes'[n])
  BY NotesStep
<1>2. old' \subseteq Notes
  <2>1. old' = old \/ old' = Pending
    BY DEF Next, TurnStep, vars, Ask, RetireNote, RetireAllPending, DayPasses, Send, DeadlinePasses,
       Overflows, Answered, OutOfSteps, CallsTools, Skip, Run, Reply, EndStep, ForceAnswer, Finish
  <2> QED
    BY <2>1 DEF NotesFit, Pending
<1> QED
  BY <1>1, <1>2 DEF NotesFit, Fits

-----------------------------------------------------------------------------
(***************************************************************************)
(* The theorems about types, notes and protection.                         *)
(***************************************************************************)

LEMMA InitFits == Init => TurnFits /\ NotesFit
<1> SUFFICES ASSUME Init
             PROVE  TurnFits /\ NotesFit
  OBVIOUS
<1>1. Cardinality({}) <= MaxCallsPerStep
  BY FS_EmptySet, LimitsAssumption
<1>2. TurnFits
  BY <1>1, LimitsAssumption DEF Init, TurnFits, NoTurn, Turn, Talk
<1>3. NotesFit
  BY DEF Init, NotesFit, NoNote
<1> QED
  BY <1>2, <1>3

LEMMA Fitting == Spec => [](TurnFits /\ NotesFit)
<1>1. Init => TurnFits /\ NotesFit
  BY InitFits
<1>2. TurnFits /\ NotesFit /\ [Next]_vars => (TurnFits /\ NotesFit)'
  BY TurnFitsStep, NotesFitStep
<1> QED
  BY <1>1, <1>2, PTL DEF Spec

\* A turn counts its steps and the calls it runs up to their limits, and nothing a
\* message is cut to is less than nothing (agent/__init__.py:138-145, 210-226).
THEOREM ChatTypeCorrect == Spec => []TypeOK
<1>1. TurnFits /\ NotesFit => TypeOK
  <2> SUFFICES ASSUME TurnFits, NotesFit
               PROVE  TypeOK
    OBVIOUS
  <2>1. \A i \in DOMAIN msgs : msgs[i].size \in Nat
    BY DEF TurnFits, Talk, Message
  <2> QED
    BY <2>1 DEF TurnFits, NotesFit, Turn, TypeOK
<1> QED
  BY <1>1, Fitting, PTL

\* A note moves forward only, one version at a time, whoever moves it
\* (notes/__init__.py:78-119).
THEOREM NotesOnlyForward == Spec => NotesForward
<1>1. NotesFit =>
        [\A n \in Notes : notes'[n] # notes[n] =>
           \/ notes[n] = NoNote /\ notes'[n].version = 0
           \/ /\ notes'[n].version = notes[n].version + 1
              /\ <<notes[n].status, notes'[n].status>> \in
                   {<<"pending", "active">>, <<"pending", "retired">>, <<"active", "retired">>}]_vars
       \/ ~[Next]_vars
  BY NotesStep DEF Forward
<1> QED
  BY <1>1, Fitting, PTL DEF Spec, NotesForward

\* However a conversation is cut to fit, the prompt sent has its system prompt, its
\* last question and its newest calls (agent/__init__.py:113-145).
THEOREM ProtectedIsKept == Spec => ProtectedKept
<1>1. TurnFits =>
        [sent' \notin {sent, <<>>} =>
           /\ \A i \in {1, LastUser(msgs)} \cap DOMAIN msgs :
                i \in DOMAIN sent' /\ sent'[i] = msgs[i]
           /\ Fresh(sent') = Fresh(msgs)]_vars
       \/ ~[Next]_vars
  <2> SUFFICES ASSUME TurnFits, Next, sent' \notin {sent, <<>>}
               PROVE  /\ \A i \in {1, LastUser(msgs)} \cap DOMAIN msgs :
                           i \in DOMAIN sent' /\ sent'[i] = msgs[i]
                      /\ Fresh(sent') = Fresh(msgs)
    BY DEF vars
  <2>1. Talk(msgs)
    BY DEF TurnFits
  <2>2. CASE Send \/ Overflows
    <3>1. PICK budget : sent' = Fit(msgs, budget)
      BY <2>2 DEF Send, Overflows
    <3> QED
      BY <2>1, <3>1, FitKeeps, KeepsMeans DEF Keeps, Protected
  <2>3. CASE ForceAnswer
    <3> DEFINE ms == Then(msgs, Say("system", 1))
    <3>1. sent' = Fit(ms, Budget) /\ 1 \in DOMAIN msgs
      BY <2>3 DEF ForceAnswer, TurnFits
    <3>2. Say("system", 1) \in Message /\ Say("system", 1).role = "system" /\ ~HasCalls(Say("system", 1))
      BY SayPlain DEF Plain, HasCalls
    <3>3. Talk(ms)
      BY <2>1, <3>1, <3>2, ThenTalks
    <3>4. PICK next \in Nat :
            /\ next > 0 /\ next \notin DOMAIN msgs /\ \A i \in DOMAIN msgs : i < next
            /\ DOMAIN ms = DOMAIN msgs \cup {next}
            /\ \A i \in DOMAIN msgs : ms[i] = msgs[i]
            /\ ms[next] = Say("system", 1)
      BY <2>1, ThenMeans
    <3> HIDE DEF ms
    <3>5. Keeps(ms, msgs)
      <4>1. next # 1 /\ next # LastUser(ms) /\ next # LastCalls(ms)
        BY <3>1, <3>2, <3>3, <3>4, LatestMessages DEF IsUser
      <4> QED
        BY <3>4, <4>1 DEF Keeps, Alike, Protected
    <3>6. LastUser(msgs) = LastUser(ms) /\ Fresh(msgs) = Fresh(ms)
      BY <2>1, <3>3, <3>5, KeepsMeans
    <3>7. Talk(sent') /\ Keeps(ms, sent')
      BY <3>1, <3>3, FitKeeps
    <3>8. Fresh(sent') = Fresh(ms)
      BY <3>3, <3>7, KeepsMeans
    <3> QED
      BY <3>4, <3>6, <3>7, <3>8 DEF Keeps, Protected
  <2>4. Send \/ Overflows \/ ForceAnswer
    BY DEF Next, TurnStep, Ask, RetireNote, RetireAllPending, DayPasses, DeadlinePasses, Answered,
       OutOfSteps, CallsTools, Skip, Run, Reply, EndStep, Finish
  <2> QED
    BY <2>2, <2>3, <2>4
<1> QED
  BY <1>1, Fitting, PTL DEF Spec, ProtectedKept

-----------------------------------------------------------------------------
(***************************************************************************)
(* Every call is answered.                                                 *)
(***************************************************************************)

LEMMA NothingCalled ==
  ASSUME NEW ms, \A i \in DOMAIN ms : ~IsTool(ms[i]) /\ ~HasCalls(ms[i])
  PROVE  Distinct(ms) /\ Paired(ms, {}) /\ \A i \in DOMAIN ms : Ids(ms[i]) = {}
<1>1. \A i \in DOMAIN ms : Ids(ms[i]) = {}
  <2> TAKE i \in DOMAIN ms
  <2>1. ms[i].calls = <<>>
    BY DEF HasCalls
  <2> QED
    BY <2>1 DEF Ids
<1> QED
  BY <1>1 DEF Distinct, Paired

\* A message with new calls leaves them open.
LEMMA CallsPair ==
  ASSUME NEW ms, Talk(ms), Distinct(ms), Paired(ms, {}),
         NEW m, ~IsTool(m), \A i \in DOMAIN ms : Ids(m) \cap Ids(ms[i]) = {}
  PROVE  Distinct(Then(ms, m)) /\ Paired(Then(ms, m), Ids(m))
<1> DEFINE t == Then(ms, m)
<1>1. PICK next \in Nat :
        /\ next > 0 /\ next \notin DOMAIN ms /\ \A i \in DOMAIN ms : i < next
        /\ DOMAIN t = DOMAIN ms \cup {next}
        /\ \A i \in DOMAIN ms : t[i] = ms[i]
        /\ t[next] = m
  BY ThenMeans
<1> HIDE DEF t
<1>2. Distinct(t)
  BY <1>1 DEF Distinct
<1>3. ASSUME NEW i \in DOMAIN t, NEW id \in Ids(t[i]) \ Ids(m)
      PROVE  \E j \in DOMAIN t :
               i < j /\ {k \in DOMAIN t : IsTool(t[k]) /\ t[k].reply = id} = {j}
  <2>1. i \in DOMAIN ms /\ id \in Ids(ms[i])
    BY <1>1, <1>3
  <2>2. PICK j \in DOMAIN ms :
          i < j /\ {k \in DOMAIN ms : IsTool(ms[k]) /\ ms[k].reply = id} = {j}
    BY <2>1 DEF Paired
  <2>3. {k \in DOMAIN t : IsTool(t[k]) /\ t[k].reply = id} = {j}
    BY <1>1, <2>2
  <2> QED
    BY <1>1, <2>2, <2>3
<1>4. ASSUME NEW k \in DOMAIN t, IsTool(t[k])
      PROVE  t[k].reply \notin Ids(m) /\ \E i \in DOMAIN t : i < k /\ t[k].reply \in Ids(t[i])
  <2>1. k \in DOMAIN ms /\ t[k] = ms[k]
    BY <1>1, <1>4
  <2>2. PICK i \in DOMAIN ms : i < k /\ ms[k].reply \in Ids(ms[i])
    BY <1>4, <2>1 DEF Paired
  <2> QED
    BY <1>1, <2>1, <2>2
<1>5. Paired(t, Ids(m))
  BY <1>3, <1>4 DEF Paired
<1> QED
  BY <1>2, <1>5 DEF t

\* A reply closes the call it answers.
LEMMA ReplyPairs ==
  ASSUME NEW ms, Talk(ms), Distinct(ms), NEW open, Paired(ms, open),
         NEW m, IsTool(m), ~HasCalls(m), m.reply \in open,
         \E i \in DOMAIN ms : m.reply \in Ids(ms[i])
  PROVE  Distinct(Then(ms, m)) /\ Paired(Then(ms, m), open \ {m.reply})
<1> DEFINE t == Then(ms, m)
<1>1. PICK next \in Nat :
        /\ next > 0 /\ next \notin DOMAIN ms /\ \A i \in DOMAIN ms : i < next
        /\ DOMAIN t = DOMAIN ms \cup {next}
        /\ \A i \in DOMAIN ms : t[i] = ms[i]
        /\ t[next] = m
  BY ThenMeans
<1> HIDE DEF t
<1>2. Ids(m) = {}
  <2>1. m.calls = <<>>
    BY DEF HasCalls
  <2> QED
    BY <2>1 DEF Ids
<1>3. Distinct(t)
  BY <1>1, <1>2 DEF Distinct
<1>4. ASSUME NEW i \in DOMAIN t, NEW id \in Ids(t[i]) \ (open \ {m.reply})
      PROVE  \E j \in DOMAIN t :
               i < j /\ {k \in DOMAIN t : IsTool(t[k]) /\ t[k].reply = id} = {j}
  <2>1. i \in DOMAIN ms /\ id \in Ids(ms[i])
    BY <1>1, <1>2, <1>4
  <2>2. CASE id = m.reply
    <3>1. \A k \in DOMAIN ms : IsTool(ms[k]) => ms[k].reply # id
      BY <2>2 DEF Paired
    <3>2. {k \in DOMAIN t : IsTool(t[k]) /\ t[k].reply = id} = {next}
      BY <1>1, <2>2, <3>1
    <3> QED
      BY <1>1, <2>1, <3>2
  <2>3. CASE id # m.reply
    <3>1. PICK j \in DOMAIN ms :
            i < j /\ {k \in DOMAIN ms : IsTool(ms[k]) /\ ms[k].reply = id} = {j}
      BY <1>4, <2>1, <2>3 DEF Paired
    <3>2. {k \in DOMAIN t : IsTool(t[k]) /\ t[k].reply = id} = {j}
      BY <1>1, <2>3, <3>1
    <3> QED
      BY <1>1, <3>1, <3>2
  <2> QED
    BY <2>2, <2>3
<1>5. ASSUME NEW k \in DOMAIN t, IsTool(t[k])
      PROVE  /\ t[k].reply \notin open \ {m.reply}
             /\ \E i \in DOMAIN t : i < k /\ t[k].reply \in Ids(t[i])
  <2>1. CASE k = next
    BY <1>1, <2>1
  <2>2. CASE k # next
    <3>1. k \in DOMAIN ms /\ t[k] = ms[k]
      BY <1>1, <2>2
    <3>2. ms[k].reply \notin open /\ \E i \in DOMAIN ms : i < k /\ ms[k].reply \in Ids(ms[i])
      BY <1>5, <3>1 DEF Paired
    <3> QED
      BY <1>1, <3>1, <3>2
  <2> QED
    BY <2>1, <2>2
<1>6. Paired(t, open \ {m.reply})
  BY <1>4, <1>5 DEF Paired
<1> QED
  BY <1>3, <1>6 DEF t

\* The calls of a list that are left, and that no two are one.
OpenIn(left) == {left[i].id : i \in DOMAIN left}
Apart(left) == \A i, j \in DOMAIN left : left[i].id = left[j].id => i = j

LEMMA OpenTail ==
  ASSUME NEW left \in Seq(Call), left # <<>>, Apart(left)
  PROVE  /\ Head(left).id \in OpenIn(left)
         /\ OpenIn(Tail(left)) = OpenIn(left) \ {Head(left).id}
         /\ Apart(Tail(left))
<1> DEFINE n == Len(left)
           rest == Tail(left)
<1>1. n \in Nat \ {0} /\ DOMAIN left = 1 .. n /\ Head(left) = left[1]
  OBVIOUS
<1>2. DOMAIN rest = 1 .. n - 1 /\ \A i \in 1 .. n - 1 : rest[i] = left[i + 1]
  BY <1>1
<1> HIDE DEF n, rest
<1>3. Head(left).id \in OpenIn(left)
  BY <1>1 DEF OpenIn
<1>4. Apart(rest)
  <2> SUFFICES ASSUME NEW i \in DOMAIN rest, NEW j \in DOMAIN rest, rest[i].id = rest[j].id
               PROVE  i = j
    BY DEF Apart
  <2>1. i + 1 \in DOMAIN left /\ j + 1 \in DOMAIN left /\ i \in Nat /\ j \in Nat
    BY <1>1, <1>2
  <2>2. i + 1 = j + 1
    BY <1>2, <2>1 DEF Apart
  <2> QED
    BY <2>1, <2>2
<1>5. ASSUME NEW id \in OpenIn(rest)
      PROVE  id \in OpenIn(left) \ {left[1].id}
  <2>1. PICK i \in DOMAIN rest : id = rest[i].id
    BY <1>5 DEF OpenIn
  <2>2. i \in Nat /\ i + 1 \in DOMAIN left /\ i + 1 # 1 /\ id = left[i + 1].id /\ 1 \in DOMAIN left
    BY <1>1, <1>2, <2>1
  <2> QED
    BY <2>2 DEF OpenIn, Apart
<1>6. ASSUME NEW id \in OpenIn(left) \ {left[1].id}
      PROVE  id \in OpenIn(rest)
  <2>1. PICK i \in DOMAIN left : id = left[i].id
    BY <1>6 DEF OpenIn
  <2>2. i \in 1 .. n /\ i # 1
    BY <1>1, <1>6, <2>1
  <2>3. i - 1 \in 1 .. n - 1 /\ (i - 1) + 1 = i
    BY <1>1, <2>2
  <2>4. rest[i - 1] = left[i]
    BY <1>2, <2>3
  <2> QED
    BY <1>2, <2>1, <2>3, <2>4 DEF OpenIn
<1>7. OpenIn(rest) = OpenIn(left) \ {left[1].id}
  BY <1>5, <1>6
<1> QED
  BY <1>1, <1>3, <1>4, <1>7 DEF rest

\* The step of the turn that names the next calls.
Naming == IF turn.step = "tools" THEN turn.steps + 1 ELSE turn.steps

\* The conversation answers all but the calls left to the turn, each of which it
\* declares, and the calls are named by the steps so far.
TurnPaired ==
  /\ Distinct(msgs) /\ Paired(msgs, OpenIn(turn.left))
  /\ \A i \in DOMAIN msgs : \A id \in Ids(msgs[i]) : id[1] \in 0 .. Naming - 1
  /\ Apart(turn.left)
  /\ \A id \in OpenIn(turn.left) : \E i \in DOMAIN msgs : id \in Ids(msgs[i])
  /\ Paired(sent, {})

LEMMA NothingOpen == OpenIn(<<>>) = {} /\ Apart(<<>>)
BY DEF OpenIn, Apart

LEMMA NothingSaid == Distinct(<<>>) /\ Paired(<<>>, {}) /\ DOMAIN <<>> = {}
BY DEF Distinct, Paired

\* What a conversation with one more message says.
LEMMA ThenSays ==
  ASSUME NEW ms, Talk(ms), NEW m
  PROVE  /\ \A i \in DOMAIN ms : i \in DOMAIN Then(ms, m) /\ Then(ms, m)[i] = ms[i]
         /\ \A i \in DOMAIN Then(ms, m) : i \notin DOMAIN ms => Then(ms, m)[i] = m
         /\ \E i \in DOMAIN Then(ms, m) : Then(ms, m)[i] = m
<1> DEFINE t == Then(ms, m)
<1>1. PICK next \in Nat :
        /\ next > 0 /\ next \notin DOMAIN ms /\ \A i \in DOMAIN ms : i < next
        /\ DOMAIN t = DOMAIN ms \cup {next}
        /\ \A i \in DOMAIN ms : t[i] = ms[i]
        /\ t[next] = m
  BY ThenMeans
<1> HIDE DEF t
<1>2. /\ \A i \in DOMAIN ms : i \in DOMAIN t /\ t[i] = ms[i]
      /\ \A i \in DOMAIN t : i \notin DOMAIN ms => t[i] = m
      /\ \E i \in DOMAIN t : t[i] = m
  BY <1>1
<1> QED
  BY <1>2 DEF t

\* Between two steps of tools nothing is open.
LEMMA ClosedBetween ==
  ASSUME TurnFits, TurnPaired, turn.step # "tools"
  PROVE  /\ turn.left = <<>> /\ Talk(msgs) /\ Distinct(msgs) /\ Paired(msgs, {})
         /\ Naming = turn.steps /\ turn.steps \in Nat
<1>1. turn.left = <<>> /\ Talk(msgs) /\ turn.steps \in Nat
  BY LimitsAssumption DEF TurnFits, Turn
<1>2. Distinct(msgs) /\ Paired(msgs, {})
  BY <1>1, NothingOpen DEF TurnPaired
<1> QED
  BY <1>1, <1>2 DEF Naming

\* The calls of one step have names of their own, none of them used before.
LEMMA NamesNew ==
  ASSUME UniqueIds, turn \in Turn, NEW b \in Batches
  PROVE  /\ Apart(Name(b))
         /\ \A id \in OpenIn(Name(b)) : id[1] = turn.steps
         /\ Ids(Msg("assistant", Len(b), Name(b), NoId)) = OpenIn(Name(b))
<1>1. DOMAIN Name(b) = DOMAIN b /\ \A i \in DOMAIN b : Name(b)[i].id = <<turn.steps, i>>
  BY NamesCalls
<1>2. Apart(Name(b))
  BY <1>1 DEF Apart
<1>3. \A id \in OpenIn(Name(b)) : id[1] = turn.steps
  BY <1>1 DEF OpenIn
<1>4. Ids(Msg("assistant", Len(b), Name(b), NoId)) = OpenIn(Name(b))
  BY DEF Ids, OpenIn, Msg
<1> QED
  BY <1>2, <1>3, <1>4

\* A cut conversation declares no call the whole one does not.
LEMMA KeepsIds ==
  ASSUME NEW ms, NEW k, Keeps(ms, k), NEW i \in DOMAIN k
  PROVE  i \in DOMAIN ms /\ Ids(k[i]) = Ids(ms[i])
BY DEF Keeps, Alike, Ids

LEMMA TurnPairedStep == UniqueIds /\ TurnFits /\ TurnPaired /\ [Next]_vars => TurnPaired'
<1> SUFFICES ASSUME UniqueIds, TurnFits, TurnPaired, [Next]_vars
             PROVE  TurnPaired'
  OBVIOUS
<1>0. turn \in Turn /\ Talk(msgs) /\ turn.steps \in Nat
  BY LimitsAssumption DEF TurnFits, Turn
<1>1. ASSUME NEW k \in Kinds, NEW t \in Transcripts, Ask(k, t)
      PROVE  TurnPaired'
  <2>1. turn'.left = <<>> /\ sent' = sent
    BY <1>1 DEF Ask, NoTurn
  <2>2. \A i \in DOMAIN msgs' : ~IsTool(msgs'[i]) /\ ~HasCalls(msgs'[i])
    <3>1. CASE TooLong(t)
      <4>1. msgs' = <<>>
        BY <1>1, <3>1 DEF Ask
      <4> QED
        BY <4>1
    <3>2. CASE ~TooLong(t)
      <4>1. PICK h \in Seq(Plain) : msgs' = <<Say("system", Persona)>> \o Trim(t) \o h
        BY <1>1, <3>2, HintPlain DEF Ask
      <4> QED
        BY <4>1, AskTalks
    <3> QED
      BY <3>1, <3>2
  <2>3. Distinct(msgs') /\ Paired(msgs', {}) /\ \A i \in DOMAIN msgs' : Ids(msgs'[i]) = {}
    BY <2>2, NothingCalled
  <2> QED
    BY <2>1, <2>3, NothingOpen DEF TurnPaired
<1>2. CASE Send \/ Overflows
  <2>1. PICK budget : msgs' = Fit(msgs, budget) /\ sent' = msgs'
    BY <1>2 DEF Send, Overflows
  <2>2. turn.step # "tools" /\ turn'.step # "tools" /\ turn'.left = turn.left /\ turn'.steps = turn.steps
    BY <1>0, <1>2 DEF Send, Overflows, Turn
  <2>3. turn.left = <<>> /\ Distinct(msgs) /\ Paired(msgs, {})
    BY <2>2, ClosedBetween
  <2>4. Distinct(msgs') /\ Paired(msgs', {}) /\ Keeps(msgs, msgs')
    BY <1>0, <2>1, <2>3, FitPairs, FitKeeps
  <2>5. \A i \in DOMAIN msgs' : \A id \in Ids(msgs'[i]) : id[1] \in 0 .. Naming - 1
    BY <2>4, KeepsIds DEF TurnPaired
  <2> QED
    BY <2>1, <2>2, <2>3, <2>4, <2>5, NothingOpen DEF TurnPaired, Naming
<1>3. CASE DeadlinePasses \/ Answered \/ OutOfSteps
  <2>1. /\ msgs' = msgs /\ sent' = sent /\ turn'.left = turn.left /\ turn'.steps = turn.steps
        /\ turn.step # "tools" /\ turn'.step # "tools"
    BY <1>0, <1>3 DEF DeadlinePasses, Answered, OutOfSteps, Goto, Turn
  <2> QED
    BY <2>1 DEF TurnPaired, Naming
<1>4. ASSUME NEW b \in Batches, CallsTools(b)
      PROVE  TurnPaired'
  <2> DEFINE m == Msg("assistant", Len(b), Name(b), NoId)
  <2>1. /\ turn.step = "wait" /\ msgs' = Then(msgs, m) /\ sent' = sent
        /\ turn'.left = Name(b) /\ turn'.step = "tools" /\ turn'.steps = turn.steps
    BY <1>0, <1>4 DEF CallsTools, Turn
  <2>2. Distinct(msgs) /\ Paired(msgs, {}) /\ Naming = turn.steps
    BY <2>1, ClosedBetween
  <2>3. /\ Apart(Name(b)) /\ Ids(m) = OpenIn(Name(b))
        /\ \A id \in Ids(m) : id[1] = turn.steps
    BY <1>0, NamesNew
  <2>4. ~IsTool(m)
    BY DEF IsTool, Msg
  <2> HIDE DEF m
  <2>5. \A i \in DOMAIN msgs : Ids(m) \cap Ids(msgs[i]) = {}
    <3>1. \A i \in DOMAIN msgs : \A id \in Ids(msgs[i]) : id[1] # turn.steps
      BY <1>0, <2>2 DEF TurnPaired
    <3> QED
      BY <2>3, <3>1
  <2>6. Distinct(msgs') /\ Paired(msgs', Ids(m))
    BY <1>0, <2>1, <2>2, <2>4, <2>5, CallsPair
  <2>7. /\ \A i \in DOMAIN msgs : i \in DOMAIN msgs' /\ msgs'[i] = msgs[i]
        /\ \A i \in DOMAIN msgs' : i \notin DOMAIN msgs => msgs'[i] = m
        /\ \E i \in DOMAIN msgs' : msgs'[i] = m
    BY <1>0, <2>1, ThenSays
  <2>8. \A i \in DOMAIN msgs' : \A id \in Ids(msgs'[i]) : id[1] \in 0 .. turn.steps
    BY <1>0, <2>2, <2>3, <2>7 DEF TurnPaired
  <2>9. Naming' = turn.steps + 1 /\ (turn.steps + 1) - 1 = turn.steps
    BY <1>0, <2>1 DEF Naming
  <2> QED
    BY <2>1, <2>3, <2>6, <2>7, <2>8, <2>9 DEF TurnPaired
<1>5. CASE Skip \/ Run
  <2>1. PICK size : Answering(size)
    BY <1>5, AnswersNext
  <2> DEFINE c == Head(turn.left)
             m == Msg("tool", size, <<>>, c.id)
  <2>2. /\ turn.left # <<>> /\ msgs' = Then(msgs, m) /\ sent' = sent
        /\ turn'.left = Tail(turn.left) /\ turn'.step = turn.step /\ turn'.steps = turn.steps
    BY <2>1 DEF Answering, Reply
  <2>3. IsTool(m) /\ ~HasCalls(m) /\ m.reply = c.id
    BY <2>1, <2>2, NextCall, ReplyMessage DEF Answering, Msg
  <2>4. /\ c.id \in OpenIn(turn.left)
        /\ OpenIn(turn'.left) = OpenIn(turn.left) \ {c.id}
        /\ Apart(turn'.left)
    BY <1>0, <2>2, OpenTail DEF Turn, TurnPaired
  <2> HIDE DEF c, m
  <2>5. Distinct(msgs') /\ Paired(msgs', OpenIn(turn.left) \ {c.id})
    <3>1. \E i \in DOMAIN msgs : m.reply \in Ids(msgs[i])
      BY <2>3, <2>4 DEF TurnPaired
    <3>2. Distinct(msgs) /\ Paired(msgs, OpenIn(turn.left)) /\ m.reply \in OpenIn(turn.left)
      BY <2>3, <2>4 DEF TurnPaired
    <3> QED
      BY <1>0, <2>2, <2>3, <3>1, <3>2, ReplyPairs
  <2>6. /\ \A i \in DOMAIN msgs : i \in DOMAIN msgs' /\ msgs'[i] = msgs[i]
        /\ \A i \in DOMAIN msgs' : i \notin DOMAIN msgs => msgs'[i] = m
        /\ \E i \in DOMAIN msgs' : msgs'[i] = m
    BY <1>0, <2>2, ThenSays
  <2>7. Ids(m) = {}
    <3>1. m.calls = <<>>
      BY <2>3 DEF HasCalls
    <3> QED
      BY <3>1 DEF Ids
  <2>8. Naming' = Naming
    BY <2>2 DEF Naming
  <2>9. \A i \in DOMAIN msgs' : \A id \in Ids(msgs'[i]) : id[1] \in 0 .. Naming - 1
    BY <2>6, <2>7 DEF TurnPaired
  <2>10. \A id \in OpenIn(turn'.left) : \E i \in DOMAIN msgs' : id \in Ids(msgs'[i])
    BY <2>4, <2>6 DEF TurnPaired
  <2> QED
    BY <2>2, <2>4, <2>5, <2>8, <2>9, <2>10 DEF TurnPaired
<1>6. CASE EndStep
  <2>1. /\ turn.step = "tools" /\ turn'.step = "think" /\ turn'.left = turn.left
        /\ turn'.steps = turn.steps + 1 /\ msgs' = msgs /\ sent' = sent
    BY <1>0, <1>6 DEF EndStep, Turn
  <2> QED
    BY <2>1 DEF TurnPaired, Naming
<1>7. CASE ForceAnswer
  <2> DEFINE m == Say("system", 1)
  <2>1. /\ turn.step = "force" /\ msgs' = Then(msgs, m) /\ sent' = Fit(msgs', Budget)
        /\ turn'.step = "reply" /\ turn'.left = turn.left /\ turn'.steps = turn.steps
    BY <1>0, <1>7 DEF ForceAnswer, Goto, Turn
  <2>2. turn.left = <<>> /\ Distinct(msgs) /\ Paired(msgs, {})
    BY <2>1, ClosedBetween
  <2>3. m \in Message /\ ~HasCalls(m) /\ ~IsTool(m) /\ m.calls = <<>>
    BY SayPlain DEF Plain, HasCalls, IsTool
  <2> HIDE DEF m
  <2>4. Ids(m) = {}
    BY <2>3 DEF Ids
  <2>5. Distinct(msgs') /\ Paired(msgs', {})
    BY <1>0, <2>1, <2>2, <2>3, <2>4, CallsPair
  <2>6. Talk(msgs')
    <3>1. 1 \in DOMAIN msgs
      BY <2>1 DEF TurnFits
    <3> QED
      BY <1>0, <2>1, <2>3, <3>1, ThenTalks
  <2>7. Paired(sent', {})
    BY <2>1, <2>5, <2>6, FitPairs
  <2>8. /\ \A i \in DOMAIN msgs : i \in DOMAIN msgs' /\ msgs'[i] = msgs[i]
        /\ \A i \in DOMAIN msgs' : i \notin DOMAIN msgs => msgs'[i] = m
        /\ \E i \in DOMAIN msgs' : msgs'[i] = m
    BY <1>0, <2>1, ThenSays
  <2>9. Naming' = Naming
    BY <2>1 DEF Naming
  <2>10. \A i \in DOMAIN msgs' : \A id \in Ids(msgs'[i]) : id[1] \in 0 .. Naming - 1
    BY <2>4, <2>8 DEF TurnPaired
  <2> QED
    BY <2>1, <2>2, <2>5, <2>7, <2>9, <2>10, NothingOpen DEF TurnPaired
<1>8. CASE Finish
  <2>1. turn'.left = <<>> /\ msgs' = <<>> /\ sent' = <<>>
    BY <1>8 DEF Finish, NoTurn
  <2>2. DOMAIN msgs' = {} /\ OpenIn(turn'.left) = {} /\ Apart(turn'.left)
    BY <2>1, NothingOpen, NothingSaid
  <2>3. Distinct(msgs') /\ Paired(msgs', {}) /\ Paired(sent', {})
    BY <2>1, NothingSaid
  <2> QED
    BY <2>2, <2>3 DEF TurnPaired
<1>9. CASE UNCHANGED <<turn, msgs, sent>>
  BY <1>9 DEF TurnPaired, Naming
<1> QED
  BY <1>1, <1>2, <1>3, <1>4, <1>5, <1>6, <1>7, <1>8, <1>9
     DEF Next, TurnStep, vars, RetireNote, RetireAllPending, DayPasses

\* Every prompt sent answers each call it declares exactly once, after it, and holds
\* no reply without its call, however it was cut: as long as the server names the
\* calls of a turn apart (agent/__init__.py:113-145, 216-228; llm.py:56).
THEOREM EveryCallAnswered == UniqueIds => (Spec => []CallsAnswered)
<1> SUFFICES ASSUME UniqueIds
             PROVE  Spec => []CallsAnswered
  OBVIOUS
<1>1. Init => TurnPaired
  <2> SUFFICES ASSUME Init
               PROVE  TurnPaired
    OBVIOUS
  <2>1. turn.left = <<>> /\ msgs = <<>> /\ sent = <<>>
    BY DEF Init, NoTurn
  <2>2. DOMAIN msgs = {} /\ OpenIn(turn.left) = {} /\ Apart(turn.left)
    BY <2>1, NothingOpen, NothingSaid
  <2>3. Distinct(msgs) /\ Paired(msgs, {}) /\ Paired(sent, {})
    BY <2>1, NothingSaid
  <2> QED
    BY <2>2, <2>3 DEF TurnPaired
<1>2. TurnPaired /\ TurnFits /\ [Next]_vars => TurnPaired'
  BY TurnPairedStep
<1>3. TurnPaired => CallsAnswered
  <2> SUFFICES ASSUME Paired(sent, {})
               PROVE  CallsAnswered
    BY DEF TurnPaired
  <2> QED
    BY DEF Paired, CallsAnswered
<1> QED
  BY <1>1, <1>2, <1>3, Fitting, PTL DEF Spec
=============================================================================
