------------------------------ MODULE ReplyChunks ------------------------------
(***************************************************************************)
(* How a reply becomes messages (splitTelegramReply): blocks that render   *)
(* too long are split into pieces of their own kind, and the pieces are    *)
(* packed into chunks.  A letter is a number that tells where it stood in  *)
(* the reply; a part is a sequence of letters: a line of a fence or of a   *)
(* quote, a word of a paragraph.                                           *)
(***************************************************************************)
EXTENDS Naturals, Sequences, FiniteSets, SequencesExt

CONSTANTS
    Limit,     \* TELEGRAM_TEXT_LIMIT
    Tags,      \* letters that the tags around a fence or a quote take
    Shapes     \* the replies: sequences of [kind, lines], a line being the
               \* lengths of its parts

VARIABLES
    reply,     \* blocks: [kind, lines], with letters
    next,      \* the block to be split next
    pieces,    \* expandedBlocks: [kind, parts]
    chunks,    \* chunks that are complete
    current    \* the pieces of the chunk being filled

vars == <<reply, next, pieces, chunks, current>>

Join == 2      \* the empty line between two blocks

\* The letters of a shape: block, line, part and place make the number.
Lettered(shape) ==
    [b \in DOMAIN shape |->
        [kind |-> shape[b].kind,
         lines |-> [l \in DOMAIN shape[b].lines |->
            [p \in DOMAIN shape[b].lines[l] |->
                [i \in 1 .. shape[b].lines[l][p] |-> 1000 * b + 100 * l + 10 * p + i]]]]]

Piece(kind, parts) == [kind |-> kind, parts |-> parts]
Letters(piece) == FlattenSeq(piece.parts)

\* renderMarkdownBlock(...).length: parts are joined by one letter.
Width(piece) ==
    (IF piece.kind = "paragraph" THEN 0 ELSE Tags)
    + Len(Letters(piece))
    + (IF piece.parts = <<>> THEN 0 ELSE Len(piece.parts) - 1)

Fits(kind, parts) == Width(Piece(kind, parts)) <= Limit

-----------------------------------------------------------------------------
(* splitOversizeBlock *)

\* A part that fits nowhere, cut by findLongestRenderablePrefix.
Slices(kind, part) ==
    LET room == IF kind = "paragraph" THEN Limit ELSE Limit - Tags
        n == (Len(part) + room - 1) \div room
    IN  [k \in 1 .. n |->
           Piece(kind, <<SubSeq(part, (k - 1) * room + 1,
                                IF k * room < Len(part) THEN k * room ELSE Len(part))>>)]

Pushed(out, kind, parts) == IF parts = <<>> THEN out ELSE Append(out, Piece(kind, parts))

\* Mutant: the piece is begun again without what was pushed.
LineBegunAgain(kind, acc, line) ==
    IF Fits(kind, Append(acc.parts, line)) THEN [acc EXCEPT !.parts = Append(@, line)]
    ELSE [out |-> Pushed(acc.out, kind, acc.parts) \o Slices(kind, line), parts |-> acc.parts]

\* splitFenceCodeLines and splitBlockquoteLines: a line that does not fit is cut
\* into pieces of its own; current.pop() has dropped the line before it.
AddLine(kind, acc, line) ==
    IF Fits(kind, Append(acc.parts, line)) THEN [acc EXCEPT !.parts = Append(@, line)]
    ELSE [out |-> Pushed(acc.out, kind, IF acc.parts = <<>> THEN <<>> ELSE Front(acc.parts))
                    \o Slices(kind, line),
          parts |-> <<>>]

\* Mutant: a word too long for any piece is left out.
LongWordDropped(acc, word) ==
    CASE Fits("paragraph", Append(acc.parts, word)) -> [acc EXCEPT !.parts = Append(@, word)]
      [] Fits("paragraph", <<word>>) ->
            [out |-> Pushed(acc.out, "paragraph", acc.parts), parts |-> <<word>>]
      [] OTHER -> [out |-> Pushed(acc.out, "paragraph", acc.parts), parts |-> <<>>]

\* splitParagraphByWords, one word of a line.
AddWord(acc, word) ==
    CASE Fits("paragraph", Append(acc.parts, word)) -> [acc EXCEPT !.parts = Append(@, word)]
      [] Fits("paragraph", <<word>>) ->
            [out |-> Pushed(acc.out, "paragraph", acc.parts), parts |-> <<word>>]
      [] OTHER -> [out |-> Pushed(acc.out, "paragraph", acc.parts)
                             \o Slices("paragraph", word),
                   parts |-> <<>>]

SplitLines(block) ==
    LET acc == FoldLeft(LAMBDA a, line : AddLine(block.kind, a, line),
                        [out |-> <<>>, parts |-> <<>>], FlattenSeq(block.lines))
    IN  Pushed(acc.out, block.kind, acc.parts)

SplitWords(block) ==
    LET Line(words) == LET acc == FoldLeft(AddWord, [out |-> <<>>, parts |-> <<>>], words)
                       IN  Pushed(acc.out, "paragraph", acc.parts)
    IN  FoldLeft(LAMBDA out, words : out \o Line(words), <<>>, block.lines)

SplitOversize(block) ==
    CASE Fits(block.kind, FlattenSeq(block.lines)) ->
            <<Piece(block.kind, FlattenSeq(block.lines))>>
      [] block.kind = "paragraph" -> SplitWords(block)
      [] OTHER -> SplitLines(block)

-----------------------------------------------------------------------------
(* renderBlocksToChunks *)

ChunkWidth(chunk) ==
    FoldLeft(LAMBDA n, piece : n + Width(piece), 0, chunk)
    + (IF chunk = <<>> THEN 0 ELSE Join * (Len(chunk) - 1))

SplitBlock ==
    /\ next <= Len(reply)
    /\ pieces' = pieces \o SplitOversize(reply[next])
    /\ next' = next + 1
    /\ UNCHANGED <<reply, chunks, current>>

\* Mutant: the empty line between two pieces is not counted.
PackUncounted ==
    /\ next > Len(reply) /\ pieces # <<>>
    /\ LET piece == Head(pieces)
           Narrow(chunk) == FoldLeft(LAMBDA n, p : n + Width(p), 0, chunk)
       IN  IF Width(piece) = 0 THEN UNCHANGED <<chunks, current>>
           ELSE IF Narrow(Append(current, piece)) <= Limit
           THEN /\ current' = Append(current, piece)
                /\ UNCHANGED chunks
           ELSE /\ chunks' = IF current = <<>> THEN chunks ELSE Append(chunks, current)
                /\ current' = <<piece>>
    /\ pieces' = Tail(pieces)
    /\ UNCHANGED <<reply, next>>

PackPiece ==
    /\ next > Len(reply) /\ pieces # <<>>
    /\ LET piece == Head(pieces)
       IN  IF Width(piece) = 0 THEN UNCHANGED <<chunks, current>>
           ELSE IF ChunkWidth(Append(current, piece)) <= Limit
           THEN /\ current' = Append(current, piece)
                /\ UNCHANGED chunks
           ELSE /\ chunks' = IF current = <<>> THEN chunks ELSE Append(chunks, current)
                /\ current' = <<piece>>
    /\ pieces' = Tail(pieces)
    /\ UNCHANGED <<reply, next>>

PushLast ==
    /\ next > Len(reply) /\ pieces = <<>> /\ current # <<>>
    /\ chunks' = Append(chunks, current)
    /\ current' = <<>>
    /\ UNCHANGED <<reply, next, pieces>>

Done == next > Len(reply) /\ pieces = <<>> /\ current = <<>>

Stop == Done /\ UNCHANGED vars

Init ==
    /\ reply \in {Lettered(shape) : shape \in Shapes}
    /\ next = 1 /\ pieces = <<>> /\ chunks = <<>> /\ current = <<>>

Next == SplitBlock \/ PackPiece \/ PushLast \/ Stop

Spec == Init /\ [][Next]_vars

-----------------------------------------------------------------------------
(* Properties *)

Sent == FlattenSeq([c \in DOMAIN chunks |->
            FlattenSeq([p \in DOMAIN chunks[c] |-> Letters(chunks[c][p])])])

\* Telegram takes every chunk: none renders longer than the limit, whatever
\* splitting and packing made of it.
ChunksFit == \A c \in DOMAIN chunks : ChunkWidth(chunks[c]) <= Limit

\* The reader meets the letters in the order of the reply, none twice, however
\* lines and words were cut, pushed and packed.
InOrder == \A i \in 1 .. Len(Sent) - 1 : Sent[i] < Sent[i + 1]

LettersOf(kinds) ==
    UNION {ToSet(FlattenSeq(FlattenSeq(reply[b].lines))) :
             b \in {b \in DOMAIN reply : reply[b].kind \in kinds}}

\* Nothing of a paragraph is lost between the words of its lines, the pieces and
\* the chunks, a word longer than a whole message included.  Of a fence that is
\* too long a line is lost at every cut: the line that fitted is popped, and the
\* one that did not is sent.
ParagraphsKept == Done => LettersOf({"paragraph"}) \subseteq ToSet(Sent)

\* What the user reads of a reply: chunks that Telegram takes, in the order of
\* the reply, none missing of a paragraph (splitTelegramReply).
ChunksRead == ChunksFit /\ InOrder /\ ParagraphsKept
=============================================================================
