-------------------------------- MODULE Lemmas --------------------------------
(***************************************************************************)
(* Facts about numbers, finite sets, functions and sequences that several  *)
(* of the proofs need.                                                     *)
(***************************************************************************)
EXTENDS Integers, FiniteSets, SequencesExt, FiniteSetTheorems, TLAPS

\* Every set of naturals has a least element: the library's well-foundedness of
\* <, without the operator it is stated with.
LEMMA LeastNatural ==
  ASSUME NEW S \in SUBSET Nat, S # {}
  PROVE  \E x \in S : \A y \in S : x <= y
<1>1. \E R : IsWellFoundedOn(R, Nat) /\ \A a, b \in Nat : a < b => <<a, b>> \in R
  <2>1. \A a, b \in Nat : a < b => <<a, b>> \in OpToRel(<, Nat)
    BY DEF OpToRel
  <2> QED
    BY <2>1, NatLessThanWellFounded, Zenon
<1>2. PICK R : IsWellFoundedOn(R, Nat) /\ \A a, b \in Nat : a < b => <<a, b>> \in R
  BY <1>1, Zenon
<1>3. S \subseteq Nat
  OBVIOUS
<1>4. PICK x \in S : \A y \in S : ~ (<<y, x>> \in R)
  <2>1. IsWellFoundedOn(R, Nat)
    BY <1>2, Zenon
  <2>2. \E x \in S : \A y \in S : ~ (<<y, x>> \in R)
    BY <2>1, <1>3, WFMin, Zenon
  <2> QED
    BY <2>2, Zenon
<1>5. \A y \in S : ~ (y < x)
  BY <1>2, <1>3, <1>4, Zenon
<1> QED
  BY <1>3, <1>4, <1>5

LEMMA MinProperties ==
  ASSUME NEW S \in SUBSET Nat, S # {}
  PROVE  Min(S) \in S /\ \A y \in S : Min(S) <= y
BY LeastNatural DEF Min

\* A bounded set of naturals has a greatest element.
LEMMA MaxProperties ==
  ASSUME NEW S \in SUBSET Nat, S # {}, NEW n \in Nat, \A x \in S : x <= n
  PROVE  Max(S) \in S /\ \A y \in S : y <= Max(S)
<1> DEFINE B == {m \in Nat : \A x \in S : x <= m}
<1>1. B \in SUBSET Nat /\ B # {}
  OBVIOUS
<1>2. PICK b \in B : \A m \in B : b <= m
  BY <1>1, LeastNatural
<1>3. b \in S
  <2> SUFFICES ASSUME b \notin S
               PROVE  FALSE
    OBVIOUS
  <2>1. \A x \in S : x \in Nat /\ x < b
    BY <1>2
  <2>2. b > 0 /\ b - 1 \in Nat
    <3>1. PICK x \in S : TRUE
      OBVIOUS
    <3> QED
      BY <2>1, <3>1
  <2>3. \A x \in S : x <= b - 1
    BY <2>1
  <2> QED
    BY <1>2, <2>2, <2>3
<1>4. \E x \in S : \A y \in S : y <= x
  BY <1>2, <1>3
<1> QED
  BY <1>4 DEF Max

\* A set of naturals that holds zero and the successor of each of its elements
\* holds them all: induction, as a fact about sets.
LEMMA NaturalInduction ==
  ASSUME NEW S, 0 \in S, \A n \in Nat : n \in S => n + 1 \in S
  PROVE  \A n \in Nat : n \in S
<1> SUFFICES ASSUME Nat \ S # {}
             PROVE  FALSE
  OBVIOUS
<1>1. PICK n \in Nat \ S : \A m \in Nat \ S : n <= m
  BY LeastNatural
<1>2. n - 1 \in Nat /\ n - 1 \in S
  BY <1>1
<1> QED
  BY <1>1, <1>2

\* What a function makes of a finite set is finite, and no larger.
LEMMA ImageFinite ==
  ASSUME NEW f, NEW S, IsFiniteSet(S), S = DOMAIN f
  PROVE  /\ IsFiniteSet({f[x] : x \in S})
         /\ Cardinality({f[x] : x \in S}) <= Cardinality(S)
<1> DEFINE T == {f[x] : x \in S}
<1>1. [x \in S |-> f[x]] \in Surjection(S, T)
  BY DEF Surjection
<1> QED
  BY <1>1, FS_Surjection

\* The elements of a finite set can be listed.
LEMMA ListedSet ==
  ASSUME NEW S, IsFiniteSet(S)
  PROVE  SetToSeq(S) \in Seq(S)
<1>1. PICK f : f \in Bijection(1 .. Cardinality(S), S)
  BY FS_CardinalityType DEF ExistsBijection
<1>2. f \in [1 .. Cardinality(S) -> S] /\ IsInjective(f)
  BY <1>1 DEF Bijection, Injection
<1>3. \E g \in [1 .. Cardinality(S) -> S] : IsInjective(g)
  BY <1>2, Zenon
<1>4. SetToSeq(S) \in [1 .. Cardinality(S) -> S]
  BY <1>3, Zenon DEF SetToSeq
<1>5. Cardinality(S) \in Nat
  BY FS_CardinalityType
<1> QED
  BY <1>4, <1>5

\* What a sequence is with one element more.
LEMMA Appended ==
  ASSUME NEW T, NEW s \in Seq(T), NEW x \in T
  PROVE  /\ Append(s, x) \in Seq(T)
         /\ DOMAIN s = 1 .. Len(s) /\ Len(s) \in Nat
         /\ DOMAIN Append(s, x) = DOMAIN s \cup {Len(s) + 1}
         /\ Len(s) + 1 \notin DOMAIN s
         /\ \A i \in DOMAIN s : Append(s, x)[i] = s[i]
         /\ Append(s, x)[Len(s) + 1] = x
OBVIOUS

\* A set that a function takes one by one into a finite one is no larger.
LEMMA NoLarger ==
  ASSUME NEW S, NEW T, IsFiniteSet(T), NEW f \in [S -> T],
         \A x, y \in S : f[x] = f[y] => x = y
  PROVE  IsFiniteSet(S) /\ Cardinality(S) <= Cardinality(T)
<1>1. f \in Injection(S, T)
  BY DEF Injection, IsInjective
<1> QED
  BY <1>1, FS_Injection

\* One point of a function changes: the points with a property are one more, one
\* less, or as many.
LEMMA CountPut ==
  ASSUME NEW D, IsFiniteSet(D), NEW S \in SUBSET D, NEW T \in SUBSET D, NEW p \in D,
         \A q \in D : q # p => (q \in S <=> q \in T)
  PROVE  /\ IsFiniteSet(S) /\ IsFiniteSet(T)
         /\ Cardinality(S) \in Nat /\ Cardinality(T) \in Nat
         /\ (p \in S <=> p \in T) => Cardinality(T) = Cardinality(S)
         /\ p \in S /\ p \notin T => Cardinality(T) = Cardinality(S) - 1
         /\ p \notin S /\ p \in T => Cardinality(T) = Cardinality(S) + 1
<1>1. IsFiniteSet(S) /\ IsFiniteSet(T)
  BY FS_Subset
<1>2. Cardinality(S) \in Nat /\ Cardinality(T) \in Nat
  BY <1>1, FS_CardinalityType
<1>3. ASSUME p \in S <=> p \in T
      PROVE  S = T
  BY <1>3
<1>4. ASSUME p \in S, p \notin T
      PROVE  Cardinality(T) = Cardinality(S) - 1
  <2>1. T = S \ {p}
    BY <1>4
  <2> QED
    BY <1>1, <1>4, <2>1, FS_RemoveElement
<1>5. ASSUME p \notin S, p \in T
      PROVE  Cardinality(T) = Cardinality(S) + 1
  <2>1. T = S \cup {p}
    BY <1>5
  <2> QED
    BY <1>1, <1>5, <2>1, FS_AddElement
<1> QED
  BY <1>1, <1>2, <1>3, <1>4, <1>5

\* Where the elements of two sequences are when one follows the other.
LEMMA Joined ==
  ASSUME NEW T, NEW s \in Seq(T), NEW t \in Seq(T)
  PROVE  /\ s \o t \in Seq(T) /\ Len(s) \in Nat /\ Len(t) \in Nat
         /\ DOMAIN s = 1 .. Len(s) /\ DOMAIN t = 1 .. Len(t)
         /\ DOMAIN (s \o t) = 1 .. Len(s) + Len(t) /\ Len(s \o t) = Len(s) + Len(t)
         /\ \A i \in 1 .. Len(s) : (s \o t)[i] = s[i]
         /\ \A i \in Len(s) + 1 .. Len(s) + Len(t) : (s \o t)[i] = t[i - Len(s)]
         /\ \A i \in 1 .. Len(t) : (s \o t)[Len(s) + i] = t[i]
<1>1. s \o t \in Seq(T) /\ Len(s \o t) = Len(s) + Len(t) /\ Len(s) \in Nat /\ Len(t) \in Nat
  OBVIOUS
<1>2. DOMAIN s = 1 .. Len(s) /\ DOMAIN t = 1 .. Len(t)
  OBVIOUS
<1>3. DOMAIN (s \o t) = 1 .. Len(s) + Len(t)
  BY <1>1
<1>4. \A i \in 1 .. Len(s) : (s \o t)[i] = s[i]
  BY <1>1
<1>5. \A i \in Len(s) + 1 .. Len(s) + Len(t) : (s \o t)[i] = t[i - Len(s)]
  BY <1>1
<1>6. \A i \in 1 .. Len(t) : (s \o t)[Len(s) + i] = t[i]
  <2> TAKE i \in 1 .. Len(t)
  <2>1. Len(s) + i \in Len(s) + 1 .. Len(s) + Len(t) /\ (Len(s) + i) - Len(s) = i
    BY <1>1
  <2> QED
    BY <1>5, <2>1
<1> QED
  BY <1>1, <1>2, <1>3, <1>4, <1>5, <1>6

\* What f gives at a place is made of what it gives further on, but where it stops.
Rightward(f, a, b, stop, end, head, next) ==
  /\ f = [i \in a .. b |-> f[i]]
  /\ \A i \in a .. b : f[i] = IF i \in stop THEN end[i] ELSE head[i] \o f[next[i]]

\* A recursion that moves right is a function.
LEMMA RightwardExists ==
  ASSUME NEW a \in Nat, NEW b \in Nat, NEW stop, NEW end, NEW head, NEW next,
         \A i \in (a .. b) \ stop : next[i] \in i + 1 .. b
  PROVE  \E f : Rightward(f, a, b, stop, end, head, next)
<1> DEFINE At(f, i) == IF i \in stop THEN end[i] ELSE head[i] \o f[next[i]]
           Good(f, n) == /\ DOMAIN f = {i \in a .. b : b < i + n}
                         /\ \A i \in DOMAIN f : f[i] = At(f, i)
           S == {n \in Nat : \E f : Good(f, n)}
<1>1. 0 \in S
  <2> DEFINE f == [i \in {} |-> <<>>]
  <2>1. Good(f, 0)
    OBVIOUS
  <2> QED
    BY <2>1
<1>2. ASSUME NEW n \in Nat, n \in S
      PROVE  n + 1 \in S
  <2>1. PICK f : Good(f, n)
    BY <1>2
  <2> DEFINE D == {i \in a .. b : b < i + (n + 1)}
             g == [i \in D |-> IF i \in DOMAIN f THEN f[i] ELSE At(f, i)]
  <2>2. DOMAIN f \subseteq D /\ \A i \in D : \A j \in i + 1 .. b : j \in DOMAIN f
    BY <2>1
  <2>3. \A i \in D : g[i] = At(f, i)
    BY <2>1
  <2>4. \A i \in D : i \notin stop => next[i] \in DOMAIN f
    BY <2>2
  <2>5. \A i \in D : At(g, i) = At(f, i)
    BY <2>1, <2>2, <2>4
  <2>6. DOMAIN g = D
    OBVIOUS
  <2> HIDE DEF g, At
  <2>7. Good(g, n + 1)
    BY <2>3, <2>5, <2>6
  <2> HIDE DEF Good
  <2> QED
    BY <2>7
<1> HIDE DEF S
<1>3. b + 1 \in S
  BY <1>1, <1>2, NaturalInduction
<1>4. PICK f : Good(f, b + 1)
  BY <1>3 DEF S
<1>5. DOMAIN f = a .. b
  BY <1>4
<1> DEFINE h == [i \in a .. b |-> f[i]]
<1>6. \A i \in a .. b : At(h, i) = At(f, i)
  <2> TAKE i \in a .. b
  <2>1. i \notin stop => next[i] \in a .. b
    OBVIOUS
  <2> QED
    BY <2>1
<1>7. h = [i \in a .. b |-> h[i]] /\ \A i \in a .. b : h[i] = At(h, i)
  BY <1>4, <1>5, <1>6
<1> HIDE DEF h
<1>8. Rightward(h, a, b, stop, end, head, next)
  BY <1>7 DEF Rightward
<1> QED
  BY <1>8

\* What holds at a place if it holds further on holds everywhere.
LEMMA RightwardInduction ==
  ASSUME NEW a \in Nat, NEW b \in Nat, NEW S,
         \A i \in a .. b : (\A j \in i + 1 .. b : j \in S) => i \in S
  PROVE  \A i \in a .. b : i \in S
<1> DEFINE T == {k \in Nat : \A i \in a .. b : b - i <= k => i \in S}
<1>1. 0 \in T
  <2> SUFFICES ASSUME NEW i \in a .. b, b - i <= 0
               PROVE  i \in S
    OBVIOUS
  <2>1. \A j \in i + 1 .. b : FALSE
    OBVIOUS
  <2> QED
    BY <2>1
<1>2. ASSUME NEW k \in Nat, k \in T
      PROVE  k + 1 \in T
  <2> SUFFICES ASSUME NEW i \in a .. b, b - i <= k + 1
               PROVE  i \in S
    OBVIOUS
  <2>1. \A j \in i + 1 .. b : j \in a .. b /\ b - j <= k
    OBVIOUS
  <2>2. \A j \in i + 1 .. b : j \in S
    BY <1>2, <2>1
  <2> QED
    BY <2>2
<1> HIDE DEF T
<1>3. b \in T
  BY <1>1, <1>2, NaturalInduction
<1>4. \A i \in a .. b : b - i <= b
  OBVIOUS
<1> QED
  BY <1>3, <1>4 DEF T

\* What a sequence is with one element more before it.
LEMMA Headed ==
  ASSUME NEW T, NEW a \in T, NEW s \in Seq(T)
  PROVE  <<a>> \o s \in Seq(T) /\ Len(<<a>> \o s) >= 1 /\ (<<a>> \o s)[1] = a
<1>1. <<a>> \in Seq(T) /\ Len(<<a>>) = 1 /\ <<a>>[1] = a
  OBVIOUS
<1>2. <<a>> \o s \in Seq(T) /\ Len(<<a>> \o s) = 1 + Len(s) /\ Len(s) \in Nat
  OBVIOUS
<1>3. (<<a>> \o s)[1] = a
  BY <1>2
<1> QED
  BY <1>2, <1>3

=============================================================================
