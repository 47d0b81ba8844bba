------------------------------ MODULE Chunking ------------------------------
(***************************************************************************)
(* How a section of a document of the knowledge base becomes chunks        *)
(* (app/kb/chunking.py): pure functions, checked over the documents of the *)
(* set Documents, each a sequence of the sections _sections cuts it into.  *)
(* A section is its heading and its lines.  Of a line only its kind is     *)
(* kept (text, blank, the start of a list item, a fence of a code block)   *)
(* and its number, so that a lost or a doubled line shows.                 *)
(***************************************************************************)
EXTENDS Naturals, Sequences, SequencesExt, FiniteSetsExt

CONSTANTS Documents,   \* sequences of [heading, lines], a line [at, kind]
          Presets      \* ChunkParams: [target, min, max, overlap]

ASSUME ChunkParams == \A p \in Presets : p.overlap <= p.target /\ p.target <= p.max /\ p.min <= p.max

\* From start, one step for each element of seq: FoldLeft as a recursive function,
\* which can be followed element by element for a seq of any length.
Stepwise(Step(_, _), start, seq) ==
    LET upTo[n \in 0..Len(seq)] == IF n = 0 THEN start ELSE Step(upTo[n - 1], seq[n])
    IN  upTo[Len(seq)]

-----------------------------------------------------------------------------
(* A text is its lines and the number of tokens carried over from the      *)
(* piece before it; a word is a token.                                     *)

LineTokens == [text |-> 2, item |-> 2, fence |-> 1, blank |-> 0]
LinesTokens(lines) == Stepwise(LAMBDA n, line : n + LineTokens[line.kind], 0, lines)

TextTokens(text) == text.carried + LinesTokens(text.lines)

\* _tail: so many tokens at the end of a text; its fence lines are left out.
Without(kind, lines) ==
    FlattenSeq([i \in DOMAIN lines |-> IF lines[i].kind = kind THEN <<>> ELSE <<lines[i]>>])

TailTokens(text, n) == Min({n, text.carried + LinesTokens(Without("fence", text.lines))})

-----------------------------------------------------------------------------
(* _blocks: where a section may be cut.                                    *)

BlocksLine(acc, line) ==
    LET fence == acc.fence # (line.kind = "fence")
        flush == ~fence /\ line.kind \in {"blank", "item"} /\ acc.buf # <<>>
        buf == IF flush THEN <<>> ELSE acc.buf
    IN  [fence |-> fence,
         blocks |-> IF flush THEN Append(acc.blocks, acc.buf) ELSE acc.blocks,
         buf |-> IF line.kind # "blank" \/ fence THEN Append(buf, line) ELSE buf]

TextBlocks(lines) ==
    LET end == Stepwise(BlocksLine, [fence |-> FALSE, blocks |-> <<>>, buf |-> <<>>], lines)
    IN  IF end.buf # <<>> THEN Append(end.blocks, end.buf) ELSE end.blocks

-----------------------------------------------------------------------------
(* _split: the pieces of a section over the maximum.                       *)

SplitBlock(acc, block, params) ==
    LET buf == acc.buf IN
    IF buf.lines # <<>> /\ TextTokens(buf) + LinesTokens(block) > params.target
    THEN [pieces |-> Append(acc.pieces, buf),
          buf |-> [lines |-> block, carried |-> TailTokens(buf, params.overlap)]]
    ELSE [acc EXCEPT !.buf.lines = @ \o block]

Split(lines, params) ==
    LET whole == [lines |-> lines, carried |-> 0]
        end == Stepwise(LAMBDA acc, block : SplitBlock(acc, block, params),
                        [pieces |-> <<>>, buf |-> [lines |-> <<>>, carried |-> 0]], TextBlocks(lines))
    IN  IF TextTokens(whole) <= params.max THEN <<whole>>
        ELSE IF end.buf.lines # <<>> THEN Append(end.pieces, end.buf) ELSE end.pieces

-----------------------------------------------------------------------------
(* chunk: a small first piece joins the chunk before it.                   *)

Fits(merged, piece, params) ==
    /\ merged # <<>> /\ TextTokens(piece) < params.min
    /\ TextTokens(Last(merged)) + TextTokens(piece) <= params.max

Joined(last, heading, piece) ==
    [headings |-> IF Contains(last.headings, heading) THEN last.headings ELSE Append(last.headings, heading),
     lines |-> last.lines \o piece.lines, carried |-> last.carried + piece.carried]

AddSection(merged, section, params) ==
    LET pieces == Split(section.lines, params)
        alone(piece) == [headings |-> <<section.heading>>, lines |-> piece.lines, carried |-> piece.carried]
        joins == pieces # <<>> /\ Fits(merged, Head(pieces), params)
    IN  IF joins
        THEN Front(merged) \o <<Joined(Last(merged), section.heading, Head(pieces))>>
                           \o [i \in 1..Len(Tail(pieces)) |-> alone(Tail(pieces)[i])]
        ELSE merged \o [i \in DOMAIN pieces |-> alone(pieces[i])]

Chunks(document, params) == Stepwise(LAMBDA merged, s : AddSection(merged, s, params), <<>>, document)

-----------------------------------------------------------------------------
Kept(lines) == Without("blank", lines)
AllLines(parts) == FlattenSeq([i \in DOMAIN parts |-> parts[i].lines])

\* However a document is cut and merged, its chunks together hold every line of
\* it once and in order, and each chunk names the sections its lines are of
\* (chunk, _split; the evaluation's labels rest on the names).
WholeIn(d, chunks) ==
    /\ Kept(AllLines(chunks)) = Kept(AllLines(d))
    /\ \A c \in Range(chunks), s \in Range(d) :
          Range(Kept(c.lines)) \cap Range(Kept(s.lines)) # {} => Contains(c.headings, s.heading)

ASSUME WholeText == \A d \in Documents, p \in Presets : WholeIn(d, Chunks(d, p))

\* The i-th line of a section opens a code block that the j-th closes.
CodeBlock(lines, i, j) ==
    /\ i < j /\ lines[i].kind = "fence" /\ lines[j].kind = "fence"
    /\ Cardinality({k \in 1..i : lines[k].kind = "fence"}) % 2 = 1
    /\ \A k \in i + 1..j - 1 : lines[k].kind # "fence"

\* "Code blocks are never cut in half" (chunking.py:6): the lines from an opening
\* fence to its closing one are in one chunk.
UncutIn(d, chunks) ==
    \A s \in Range(d), c \in Range(chunks) : \A i, j \in DOMAIN s.lines :
        CodeBlock(s.lines, i, j) => (s.lines[i] \in Range(c.lines) <=> s.lines[j] \in Range(c.lines))

ASSUME FencesWhole == \A d \in Documents, p \in Presets : UncutIn(d, Chunks(d, p))

\* No chunk is over the maximum, unless a block that may not be cut is.
FitsIn(d, p, chunks) ==
    \A c \in Range(chunks) :
        \/ TextTokens(c) <= p.max
        \/ \E s \in Range(d) : \E b \in Range(TextBlocks(s.lines)) : TextTokens(c) <= p.overlap + LinesTokens(b)

ASSUME ChunksFit == \A d \in Documents, p \in Presets : FitsIn(d, p, Chunks(d, p))

=============================================================================
