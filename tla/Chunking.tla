-------------------------------- MODULE Chunking --------------------------------
(***************************************************************************)
(* Obi-Wan's chunking (obiwan/chunking.py): the spans of a text that are     *)
(* stored as chunks.  Offsets are 1-based and a span <<s, e>> ends before e.  *)
(* Every other character is a letter.                                      *)
(***************************************************************************)
EXTENDS Integers, SequencesExt

CONSTANTS
  MaxLength,  \* bound: the length of a text
  Limits      \* the values of chunk_chars tried

ASSUME ChunkingAssumption == MaxLength \in Nat /\ Limits \subseteq Nat \ {0}

Characters == {"letter", "space", "tab", "newline"}
Blank == Characters \ {"letter"}

\* The first offset from i on, before e, that holds none of some characters.
Past(text, i, e, characters) ==
  Min({k \in i .. e : k = e \/ text[k] \notin characters})

\* A separator: a newline, blanks, and newlines; its end, or i when none is at i.
SeparatorEnd(text, i) ==
  LET end == Len(text) + 1
      next == Past(text, i + 1, end, {"space", "tab"})
  IN  IF text[i] = "newline" /\ next < end /\ text[next] = "newline"
      THEN Past(text, next, end, {"newline"})
      ELSE i

\* The span without the blanks at its ends; none when it is all blank.
Stripped(text, span) ==
  LET solid == {k \in span[1] .. span[2] - 1 : text[k] \notin Blank}
  IN  IF solid = {} THEN <<>> ELSE << <<Min(solid), Max(solid) + 1>> >>

ParagraphSpans(text) ==
  LET from[i \in 1 .. Len(text) + 1] ==
        LET separators == {k \in i .. Len(text) : SeparatorEnd(text, k) > k}
        IN  IF separators = {} THEN Stripped(text, <<i, Len(text) + 1>>)
            ELSE Stripped(text, <<i, Min(separators)>>)
                   \o from[SeparatorEnd(text, Min(separators))]
  IN  from[1]

\* Mutant: everything after a cut up to the next letter belongs to no piece, and
\* so does the character the cut is at.
SplitLongMutSkips(text, span, limit) ==
  LET from[i \in span[1] .. span[2]] ==
        LET full == Min({i + limit, span[2]})
        IN  IF i = span[2] THEN <<>>
            ELSE << <<i, full>> >> \o from[Min({full + 1, span[2]})]
  IN  from[span[1]]

\* Cut at the last space of the second half of what fits, else where it is full;
\* the spaces after a cut belong to no piece.
SplitLong(text, span, limit) ==
  LET from[i \in span[1] .. span[2]] ==
        LET full == Min({i + limit, span[2]})
            spaces == {k \in i + limit \div 2 .. full - 1 : text[k] = "space" /\ k > i}
            cut == IF full < span[2] /\ spaces # {} THEN Max(spaces) ELSE full
        IN  IF i = span[2] THEN <<>>
            ELSE << <<i, cut>> >> \o from[Past(text, cut, span[2], {"space"})]
  IN  from[span[1]]

\* The paragraphs in turn, the long ones cut.
Pieces(text, limit) ==
  LET spans == ParagraphSpans(text)
      Cut(span) == IF span[2] - span[1] <= limit THEN <<span>> ELSE SplitLong(text, span, limit)
      from[i \in 1 .. Len(spans) + 1] ==
        IF i > Len(spans) THEN <<>> ELSE Cut(spans[i]) \o from[i + 1]
  IN  from[1]

\* Each chunk takes as many of the next pieces as fit, and the gaps between them.
Merged(pieces, limit) ==
  LET from[i \in 1 .. Len(pieces) + 1] ==
        LET last == Max({i} \cup {k \in i .. Len(pieces) : pieces[k][2] - pieces[i][1] <= limit})
        IN  IF i > Len(pieces) THEN <<>>
            ELSE << <<pieces[i][1], pieces[last][2]>> >> \o from[last + 1]
  IN  from[1]

ChunkText(text, limit) == Merged(Pieces(text, limit), limit)

\* The chunks of a text are in order, apart, not empty and within the limit,
\* none can take in the next, and every letter is in one of them.
Covered(text, limit) ==
  LET chunks == ChunkText(text, limit)
  IN  /\ \A i \in DOMAIN chunks :
           /\ chunks[i][1] < chunks[i][2] /\ chunks[i][2] - chunks[i][1] <= limit
           /\ i < Len(chunks) => /\ chunks[i][2] <= chunks[i + 1][1]
                                 /\ chunks[i + 1][2] - chunks[i][1] > limit
      /\ \A k \in DOMAIN text :
           text[k] = "letter" => \E i \in DOMAIN chunks : k \in chunks[i][1] .. chunks[i][2] - 1

=============================================================================
