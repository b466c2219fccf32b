------------------------------- MODULE Chunking -------------------------------
(***************************************************************************)
(* chunk_text: the loop that cuts a normalized text into overlapping chunks *)
(* of at most MaxChars characters, ending at a space where it can.          *)
(*                                                                          *)
(* A text is its length and the positions of its spaces; which characters   *)
(* the words are made of makes no difference.  Positions are Python's: a    *)
(* negative one counts from the end of the text.                            *)
(***************************************************************************)
EXTENDS Integers

CONSTANTS
    MaxChars,   \* maximum_chars: 1200 in the code
    Overlap,    \* overlap_chars: 200 in the code
    MaxLen      \* bound on the length of a text

\* chunk_text raises invalid_chunk_bounds otherwise.
ASSUME BoundsAssumption ==
    /\ MaxChars \in Nat /\ Overlap \in Nat /\ MaxLen \in Nat
    /\ Overlap < MaxChars

VARIABLES
    text,      \* the text
    start,     \* where the next chunk starts
    kept,      \* the positions of the words' characters in the chunks so far
    running    \* the loop has not ended

vars == <<text, start, kept, running>>

-----------------------------------------------------------------------------
(* Texts *)

\* normalize_text: words separated by single spaces.
Text == {t \in [len : 0..MaxLen, spaces : SUBSET (1..MaxLen - 2)] :
            \A p \in t.spaces : p < t.len - 1 /\ p + 1 \notin t.spaces}

\* The positions of the characters of words.
Letters(t) == {p \in 0..(t.len - 1) : p \notin t.spaces}

\* The texts the loop was written for: a word and the spaces around it fit in
\* what a chunk adds to its overlap.
ShortWords(t) ==
    \A p \in 0..t.len :
        p + MaxChars - Overlap <= t.len + 1 =>
            \E q \in t.spaces : p <= q /\ q < p + MaxChars - Overlap - 1

-----------------------------------------------------------------------------
(* Python's slices *)

Position(i, len) ==
    IF i > len THEN len
    ELSE IF i >= 0 THEN i
    ELSE IF i + len > 0 THEN i + len
    ELSE 0

\* The letters of text[from:to]; strip only takes spaces away.
Slice(from, to) ==
    {p \in Letters(text) : Position(from, text.len) <= p /\ p < Position(to, text.len)}

SpacesIn(from, to) ==
    {p \in text.spaces : Position(from, text.len) <= p /\ p < Position(to, text.len)}

\* text.rfind(" ", from, to)
LastSpace(from, to) ==
    IF SpacesIn(from, to) = {} THEN -1
    ELSE CHOOSE p \in SpacesIn(from, to) : \A q \in SpacesIn(from, to) : q <= p

-----------------------------------------------------------------------------
(* The loop *)

WindowEnd == IF start + MaxChars < text.len THEN start + MaxChars ELSE text.len

\* Mutant of ChunkEnd: the first space of the window instead of the last.
ChunkEndFirst ==
    LET spaces == SpacesIn(start + 1, WindowEnd) IN
    IF WindowEnd < text.len /\ spaces # {}
    THEN CHOOSE p \in spaces : \A q \in spaces : p <= q
    ELSE WindowEnd

\* Where a chunk ends: at the last space of its window, if there is one.
ChunkEnd ==
    IF WindowEnd < text.len /\ LastSpace(start, WindowEnd) > start
    THEN LastSpace(start, WindowEnd)
    ELSE WindowEnd

Init ==
    /\ text \in Text
    /\ start = 0
    /\ kept = {}
    /\ running = TRUE

\* Mutant of Iterate: the next chunk skips the overlap instead of repeating it.
IterateSkipping ==
    /\ running
    /\ start < text.len
    /\ kept' = kept \cup Slice(start, ChunkEnd)
    /\ IF ChunkEnd = text.len
       THEN running' = FALSE /\ UNCHANGED start
       ELSE start' = ChunkEnd + Overlap /\ UNCHANGED running
    /\ UNCHANGED text

\* One turn of the loop: cut a chunk, then stop at the end of the text or go
\* back by the overlap.
Iterate ==
    /\ running
    /\ start < text.len
    /\ kept' = kept \cup Slice(start, ChunkEnd)
    /\ IF ChunkEnd = text.len
       THEN running' = FALSE /\ UNCHANGED start
       ELSE start' = ChunkEnd - Overlap /\ UNCHANGED running
    /\ UNCHANGED text

\* The loop's condition fails: chunk_text returns what it has.
Return ==
    /\ running
    /\ start >= text.len
    /\ running' = FALSE
    /\ UNCHANGED <<text, start, kept>>

Next == Iterate \/ Return

Spec == Init /\ [][Next]_vars /\ WF_vars(Next)

-----------------------------------------------------------------------------
(* Properties *)

TypeOK ==
    /\ text \in Text
    /\ start \in Int
    /\ kept \subseteq Letters(text)
    /\ running \in BOOLEAN

\* When the loop ends, every character of every word is in some chunk: nothing
\* of the document is lost (chunking.py:19-30).  On a text with long words this
\* needs that its first chunk cannot end one short of the overlap: the next would
\* start at -1, be empty, and end a whole chunk later.
NothingLost ==
    ~running /\ (ShortWords(text) \/ Overlap - 1 \notin text.spaces) =>
        kept = Letters(text)

\* Each chunk of a text of short words starts after the one before it
\* (chunking.py:30).
ChunksAdvance ==
    [][ShortWords(text) => start' >= start /\ (running' => start' > start)]_vars

\* The next chunk would start no later than this one.  Only one such step back
\* is harmless: to -1, from where rfind's -1 does not end the chunk.
Stuck ==
    /\ running
    /\ start < text.len
    /\ ChunkEnd # text.len
    /\ ChunkEnd - Overlap <= start
    /\ ChunkEnd - Overlap # -1

\* On any text, a loop that has once failed to advance never ends: it cuts the
\* same chunk again, or, from a negative start, an end of -1 (chunking.py:22-30).
StuckForGood == [](Stuck => []running)

\* chunk_text returns (chunking.py:19).  BUILD_SPEC.md:92 has it create bounded
\* chunks; a loop that does not end appends chunks until memory runs out.
Terminates == <>~running
=============================================================================
