------------------------------ MODULE Chunker ------------------------------
(***************************************************************************)
(* The chunker of the pipeline, backend/app/services/document_chunker.py:  *)
(* one call of chunk_document on a text.  A text is its sequence of lines, *)
(* a line its number of characters, the blanks around them apart, and      *)
(* whether it opens a section: a heading in Markdown, a definition in      *)
(* code.  A chunk is the interval of lines its text comes from.            *)
(***************************************************************************)
EXTENDS Integers, Sequences, FiniteSets, SequencesExt

CONSTANTS
  ChunkSize,    \* longest chunk (512 characters)
  ChunkOverlap, \* most that chunks have in common (128 characters)
  Texts         \* the texts that are chunked

Categories == {"markdown", "code", "pdf", "generic"}
Line == [lead : Nat, body : Nat, trail : Nat, opens : BOOLEAN]

ASSUME ChunkerAssumption ==
  /\ ChunkSize \in Nat \ {0} /\ ChunkOverlap \in 0..(ChunkSize - 1)
  /\ \A t \in Texts : t \in Seq(Line)

VARIABLES
  text,     \* the text
  category, \* what its file type makes of it
  chunks,   \* the chunks
  chunked   \* whether the call has returned

chunkerVars == <<text, category, chunks, chunked>>

ChunkerInit == text = <<>> /\ category = "generic" /\ chunks = <<>> /\ chunked = FALSE

\* A blank line opens nothing.
Blank(t, i) == t[i].body = 0
Opens(t, i) == t[i].opens /\ ~Blank(t, i)
BlankText(t) == \A i \in 1..Len(t) : Blank(t, i)
Piece(i, j) == [from |-> i, to |-> j]

\* Characters of the lines of p with the line breaks between them; the
\* chunks of Markdown and code are not stripped before they are measured.
Width(t, p) ==
  FoldLeft(LAMBDA n, l : n + l.lead + l.body + l.trail, p.to - p.from, SubSeq(t, p.from, p.to))
Length(t, cat, p) ==
  IF cat \in {"markdown", "code"} THEN Width(t, p) ELSE Width(t, p) - t[p.from].lead - t[p.to].trail
TooLong(t, cat, p) == Length(t, cat, p) > ChunkSize

\* A finite set of numbers as a sequence, the least first.
Ascending(S) ==
  CHOOSE s \in [1..Cardinality(S) -> S] :
    \A a, b \in 1..Cardinality(S) : a < b => s[a] < s[b]

HasText(t, p) == \E i \in p.from..p.to : ~Blank(t, i)
WithText(t, pieces) ==
  LET s == Ascending({k \in 1..Len(pieces) : HasText(t, pieces[k])}) IN
  [k \in 1..Len(s) |-> pieces[s[k]]]

\* Mutant: the section that is open at the end of the text is forgotten.
SectionsClosed(t) ==
  LET Read(acc, i) == IF Opens(t, i) /\ acc.from < i
                      THEN [done |-> Append(acc.done, Piece(acc.from, i - 1)), from |-> i]
                      ELSE acc
  IN FoldLeftDomain(Read, [done |-> <<>>, from |-> 1], t).done

\* Markdown and code, line by line: a line that opens a section closes the
\* chunk before it, unless it is the first line of the text.
Sections(t) ==
  LET Read(acc, i) == IF Opens(t, i) /\ acc.from < i
                      THEN [done |-> Append(acc.done, Piece(acc.from, i - 1)), from |-> i]
                      ELSE acc
      read == FoldLeftDomain(Read, [done |-> <<>>, from |-> 1], t)
  IN Append(read.done, Piece(read.from, Len(t)))

\* PDF: the text is cut at blank lines, and what is blank is dropped.
Paragraphs(t) ==
  LET first == {i \in 1..Len(t) : ~Blank(t, i) /\ (i = 1 \/ Blank(t, i - 1))}
      End(i) == CHOOSE j \in i..Len(t) : /\ \A k \in i..j : ~Blank(t, k)
                                        /\ (j = Len(t) \/ Blank(t, j + 1))
      s == Ascending(first)
  IN [k \in 1..Len(s) |-> Piece(s[k], End(s[k]))]

\* RecursiveCharacterTextSplitter of langchain: it ends a piece before a line
\* where it chooses to, and begins the next one there or so much earlier that
\* the two have no more than the overlap in common, and the next one begins
\* after the one before it.  A line that is too long alone is cut inside;
\* those pieces count as one here.  first[k]: where the piece that goes on
\* with line k begins, 0 if no piece ends before k.
CutAt(first, i, j) ==
  LET s == Ascending({i} \cup {k \in (i + 1)..j : first[k] # 0}) IN
  [k \in 1..Len(s) |-> Piece(IF k = 1 THEN i ELSE first[s[k]],
                             IF k < Len(s) THEN s[k + 1] - 1 ELSE j)]

Splittable(t, cat, p, first) ==
  LET s == CutAt(first, p.from, p.to) IN
  /\ \A k \in 1..Len(s) : s[k].from = s[k].to \/ ~TooLong(t, cat, s[k])
  /\ \A k, l \in 1..Len(s) : k < l =>
       /\ s[k].from < s[l].from
       /\ s[l].from <= s[k].to => Length(t, cat, Piece(s[l].from, s[k].to)) <= ChunkOverlap

\* What is blank is dropped.
SplitText(t, p, first) == WithText(t, CutAt(first, p.from, p.to))

Raw(t, cat) ==
  CASE cat \in {"markdown", "code"} -> Sections(t)
    [] cat = "pdf" -> Paragraphs(t)
    [] cat = "generic" -> <<Piece(1, Len(t))>>

\* What is split: a generic text at once, any other chunk if it is too long.
IsSplit(t, cat, p) == cat = "generic" \/ TooLong(t, cat, p)

\* A piece never begins where the first one does, nor after what it adds.
Firsts(n) == {f \in [2..n -> {0} \cup 2..n] : \A k \in 2..n : f[k] <= k}

(* chunk_document: the strategy of the file type, then the limit on size.   *)
ChunkDocument ==
  /\ ~chunked /\ chunked' = TRUE
  /\ \E t \in Texts, cat \in Categories :
       LET raw == Raw(t, cat) IN
       /\ text' = t /\ category' = cat
       /\ \/ BlankText(t) /\ chunks' = <<>>
          \/ /\ ~BlankText(t)
             /\ \E first \in Firsts(Len(t)) :
                  /\ \A p \in ToSet(raw) : IsSplit(t, cat, p) => Splittable(t, cat, p, first)
                  /\ chunks' = FlattenSeq([k \in 1..Len(raw) |->
                       IF IsSplit(t, cat, raw[k]) THEN SplitText(t, raw[k], first)
                                                  ELSE <<raw[k]>>])

ChunkerSpec == ChunkerInit /\ [][ChunkDocument]_chunkerVars

-----------------------------------------------------------------------------
\* The chunks are the text, in its order: no line with text is in none, none
\* is too long unless it is part of one line, each begins and ends after the
\* one before it, and what two of them repeat is within the overlap
\* ("Number of overlapping characters between consecutive chunks").  A line
\* that opens a section of Markdown or code is the first of its chunk, and in
\* no other.  A blank text has no chunk, and only a blank one ("Returns an
\* empty list when text is empty or blank").
ChunksCoverText ==
  chunked =>
    /\ \A k, l \in 1..Len(chunks) : k < l =>
         /\ chunks[k].from < chunks[l].from /\ chunks[k].to < chunks[l].to
         /\ chunks[l].from <= chunks[k].to =>
              Length(text, category, Piece(chunks[l].from, chunks[k].to)) <= ChunkOverlap
    /\ \A i \in 1..Len(text) :
         ~Blank(text, i) => \E p \in ToSet(chunks) : i \in p.from..p.to
    /\ \A p \in ToSet(chunks) :
         /\ p.from = p.to \/ ~TooLong(text, category, p)
         /\ category \in {"markdown", "code"} =>
              \A i \in p.from..p.to : Opens(text, i) => i = p.from
    /\ BlankText(text) <=> chunks = <<>>
=============================================================================
