---------------------------- MODULE ChunkingProofs ----------------------------
(***************************************************************************)
(* chunk_text for every text, chunk size and overlap: what it returns has   *)
(* lost nothing, on short words it advances, and once stuck it is for good. *)
(***************************************************************************)
EXTENDS Chunking, WellFoundedInduction, TLAPS

\* A non-empty set of numbers up to a bound has a greatest one.
LEMMA Greatest ==
    ASSUME NEW n \in Nat, NEW S \in SUBSET (0..n), S # {}
    PROVE  \E p \in S : \A q \in S : q <= p
<1> DEFINE T == {n - p : p \in S}
<1> DEFINE Less == OpToRel(<, Nat)
<1>0. \A p \in S : p \in Nat /\ p <= n /\ n - p \in Nat
  OBVIOUS
<1>1. T \subseteq Nat /\ T # {}
  BY <1>0, Zenon
<1>2. PICK x \in T : \A y \in T : ~ (<<y, x>> \in Less)
  <2>1. IsWellFoundedOn(Less, Nat)
    BY NatLessThanWellFounded
  <2> HIDE DEF T, Less
  <2> QED  BY <1>1, <2>1, WFMin
<1>3. \A y \in T : ~ (y < x)
  BY <1>1, <1>2 DEF OpToRel
<1>4. PICK p \in S : x = n - p
  BY Zenon
<1>5. ASSUME NEW q \in S PROVE q <= p
  <2>1. n - q \in T
    BY Zenon
  <2>2. ~ (n - q < n - p)
    BY <2>1, <1>3, <1>4
  <2> HIDE DEF T
  <2> QED  BY <2>2, <1>0
<1> QED  BY <1>5

\* Where rfind finds a space in a window that has one: at its last space.
LEMMA LastSpaceIsLast ==
    ASSUME TypeOK, NEW from \in Int, NEW to \in Int, SpacesIn(from, to) # {}
    PROVE  /\ LastSpace(from, to) \in SpacesIn(from, to)
           /\ \A q \in SpacesIn(from, to) : q <= LastSpace(from, to)
<1>1. SpacesIn(from, to) \in SUBSET (0..MaxLen)
  BY BoundsAssumption DEF TypeOK, Text, SpacesIn
<1>2. \E p \in SpacesIn(from, to) : \A q \in SpacesIn(from, to) : q <= p
  BY <1>1, Greatest, BoundsAssumption
<1> QED  BY <1>2, Zenon DEF LastSpace

\* The same of the next window, after a step.
LEMMA NextLastSpaceIsLast ==
    ASSUME TypeOK', WindowEnd' \in Int, SpacesIn(start, WindowEnd)' # {}
    PROVE  /\ LastSpace(start, WindowEnd)' \in SpacesIn(start, WindowEnd)'
           /\ \A q \in SpacesIn(start, WindowEnd)' : q <= LastSpace(start, WindowEnd)'
<1>1. SpacesIn(start, WindowEnd)' \in SUBSET (0..MaxLen)
  BY BoundsAssumption DEF TypeOK, Text, SpacesIn
<1>2. \E p \in SpacesIn(start, WindowEnd)' : \A q \in SpacesIn(start, WindowEnd)' : q <= p
  BY <1>1, Greatest, BoundsAssumption
<1> QED  BY <1>2, Zenon DEF LastSpace

\* Every letter up to where the next chunk starts is in a chunk, and all of
\* them when the loop has ended.
Covered ==
    /\ start \in Nat
    /\ start <= text.len
    /\ \A p \in Letters(text) : p < start => p \in kept
    /\ start = text.len /\ running => text.len = 0
    /\ ~running => kept = Letters(text)

\* What holds on the way.  Only a text longer than one chunk has a second one,
\* and the loop never goes back further than the overlap from rfind's -1.
IInv ==
    /\ TypeOK
    /\ start >= -1 - Overlap
    /\ running /\ start # 0 => text.len > MaxChars
    /\ ShortWords(text) => Covered
    /\ Overlap - 1 \notin text.spaces => Stuck \/ Covered

LEMMA TextFacts ==
    ASSUME TypeOK
    PROVE  /\ text \in Text /\ text.len \in Nat /\ text.len <= MaxLen
           /\ text.spaces \subseteq Nat
           /\ \A p \in text.spaces : p < text.len
BY BoundsAssumption DEF TypeOK, Text

\* Where a chunk may end.
LEMMA ChunkEndRange ==
    ASSUME IInv, start < text.len
    PROVE  /\ ChunkEnd \in Int /\ -1 <= ChunkEnd /\ ChunkEnd <= text.len
           /\ ChunkEnd # text.len => WindowEnd = start + MaxChars /\ WindowEnd < text.len
           /\ \/ ChunkEnd = WindowEnd
              \/ ChunkEnd = -1 /\ start < -1
              \/ ChunkEnd \in SpacesIn(start, WindowEnd) /\ start < ChunkEnd
<1>1. /\ text.len \in Nat /\ start \in Int /\ start >= -1 - Overlap
      /\ WindowEnd \in Int /\ WindowEnd <= text.len /\ -1 <= WindowEnd
      /\ WindowEnd # text.len => WindowEnd = start + MaxChars /\ WindowEnd < text.len
  BY TextFacts, BoundsAssumption DEF IInv, TypeOK, WindowEnd
<1>2. CASE SpacesIn(start, WindowEnd) = {}
  <2>1. LastSpace(start, WindowEnd) = -1
    BY <1>2 DEF LastSpace
  <2> QED  BY <2>1, <1>1 DEF ChunkEnd
<1>3. CASE SpacesIn(start, WindowEnd) # {}
  <2>1. LastSpace(start, WindowEnd) \in SpacesIn(start, WindowEnd)
    BY <1>1, <1>3, LastSpaceIsLast DEF IInv
  <2>2. LastSpace(start, WindowEnd) \in Nat /\ LastSpace(start, WindowEnd) < text.len
    BY <2>1, TextFacts DEF SpacesIn, IInv
  <2> QED  BY <2>1, <2>2, <1>1 DEF ChunkEnd
<1> QED  BY <1>2, <1>3

\* On short words, a window that does not reach the end of the text ends its
\* chunk beyond the overlap, so the next chunk starts later than this one.
LEMMA ShortWordsAdvance ==
    ASSUME IInv, Covered, ShortWords(text), start < text.len, ChunkEnd # text.len
    PROVE  start + Overlap < ChunkEnd
<1>1. /\ text.len \in Nat /\ start \in Nat
      /\ WindowEnd = start + MaxChars /\ WindowEnd < text.len
  BY TextFacts, ChunkEndRange DEF IInv, Covered
<1> DEFINE p == start + Overlap + 1
<1>2. p \in 0..text.len /\ p + MaxChars - Overlap <= text.len + 1
  BY <1>1, BoundsAssumption
<1>3. PICK q \in text.spaces : p <= q /\ q < p + MaxChars - Overlap - 1
  BY <1>2 DEF ShortWords
<1>4. q \in Nat /\ start + Overlap < q /\ q < WindowEnd
  BY <1>3, <1>1, BoundsAssumption, TextFacts DEF IInv
<1>5. Position(start, text.len) = start /\ Position(WindowEnd, text.len) = WindowEnd
  BY <1>1, BoundsAssumption DEF Position
<1>6. q \in SpacesIn(start, WindowEnd)
  BY <1>4, <1>5, <1>1, BoundsAssumption DEF SpacesIn
<1>7. /\ LastSpace(start, WindowEnd) \in SpacesIn(start, WindowEnd)
      /\ q <= LastSpace(start, WindowEnd)
  BY <1>6, <1>1, LastSpaceIsLast, BoundsAssumption DEF IInv
<1>8. LastSpace(start, WindowEnd) \in Nat
  BY <1>7, TextFacts DEF SpacesIn, IInv
<1>9. ChunkEnd = LastSpace(start, WindowEnd)
  BY <1>7, <1>8, <1>4, <1>1, BoundsAssumption DEF ChunkEnd
<1> QED  BY <1>9, <1>8, <1>7, <1>4, <1>1, BoundsAssumption

\* A loop that is not stuck advances, unless its chunk ends one short of the
\* overlap.
LEMMA UnstuckAdvances ==
    ASSUME IInv, Covered, ~Stuck, Overlap - 1 \notin text.spaces,
           running, start < text.len, ChunkEnd # text.len
    PROVE  start + Overlap < ChunkEnd
<1>1. start \in Nat /\ ChunkEnd \in Int /\ WindowEnd = start + MaxChars
  BY ChunkEndRange DEF Covered
<1>2. ChunkEnd # Overlap - 1
  <2>1. ChunkEnd = WindowEnd \/ ChunkEnd \in text.spaces
    BY ChunkEndRange, <1>1 DEF SpacesIn
  <2> QED  BY <2>1, <1>1, BoundsAssumption
<1> QED  BY <1>1, <1>2, BoundsAssumption DEF Stuck

\* What one turn of the loop does where everything so far is covered and the
\* chunk ends beyond the overlap.
LEMMA CutEffect ==
    ASSUME IInv, Covered, Iterate,
           ChunkEnd # text.len => start + Overlap < ChunkEnd
    PROVE  Covered' /\ start' >= start /\ (running' => start' > start)
<1>1. running /\ start < text.len /\ text' = text /\ kept' = kept \cup Slice(start, ChunkEnd)
  BY DEF Iterate
<1>2. /\ text.len \in Nat /\ start \in Nat
      /\ ChunkEnd \in Nat /\ start < ChunkEnd /\ ChunkEnd <= text.len
  BY <1>1, ChunkEndRange, TextFacts, BoundsAssumption DEF IInv, Covered
<1>3. Letters(text)' = Letters(text) /\ \A p \in Letters(text) : p \in Nat /\ p < text.len
  BY <1>1, <1>2 DEF Letters
<1>4. Slice(start, ChunkEnd) = {p \in Letters(text) : start <= p /\ p < ChunkEnd}
  BY <1>2 DEF Slice, Position
<1>5. \A p \in Letters(text) : p < ChunkEnd => p \in kept'
  BY <1>1, <1>2, <1>3, <1>4 DEF Covered
<1>6. kept' \subseteq Letters(text)
  BY <1>1, <1>4 DEF IInv, TypeOK
<1>7. CASE ChunkEnd = text.len
  <2>1. running' = FALSE /\ start' = start
    BY <1>7 DEF Iterate
  <2>2. kept' = Letters(text)
    BY <1>3, <1>5, <1>6, <1>7
  <2> QED  BY <2>1, <2>2, <1>1, <1>2, <1>3 DEF Covered
<1>8. CASE ChunkEnd # text.len
  <2>1. running' = running /\ start' = ChunkEnd - Overlap
    BY <1>8 DEF Iterate
  <2>2. start' \in Nat /\ start < start' /\ start' < text.len
    BY <2>1, <1>8, <1>2, BoundsAssumption
  <2>3. \A p \in Letters(text) : p < start' => p \in kept'
    BY <2>1, <1>5, <1>2, <1>3, BoundsAssumption
  <2> QED  BY <2>1, <2>2, <2>3, <1>1, <1>2, <1>3 DEF Covered
<1> QED  BY <1>7, <1>8

\* The loop's other end: an empty text, or one that is covered nowhere.
LEMMA ReturnEffect ==
    ASSUME IInv, Covered, Return
    PROVE  Covered' /\ start' = start /\ ~running'
<1>1. text.len = 0 /\ Letters(text) = {}
  BY TextFacts DEF IInv, Covered, Return, Letters
<1>2. text' = text /\ start' = start /\ kept' = kept /\ running' = FALSE
  BY DEF Return
<1>3. kept = {} /\ Letters(text)' = Letters(text)
  BY <1>1, <1>2 DEF IInv, TypeOK, Letters
<1> QED  BY <1>1, <1>2, <1>3 DEF Covered

\* A stuck loop's chunk ends at the last space of its window or at rfind's -1,
\* and the chunk after it ends in the same place.
LEMMA StuckStep ==
    ASSUME IInv, TypeOK', Stuck, Next
    PROVE  Stuck'
<1>1. /\ running /\ start < text.len /\ ChunkEnd # text.len
      /\ ChunkEnd - Overlap <= start /\ ChunkEnd - Overlap # -1
      /\ text.len \in Nat /\ start \in Int /\ start >= -1 - Overlap
  BY TextFacts DEF Stuck, IInv, TypeOK
<1>2. text' = text /\ running' = TRUE /\ start' = ChunkEnd - Overlap
  <2>1. Iterate
    BY <1>1 DEF Next, Return
  <2> QED  BY <2>1, <1>1 DEF Iterate
<1>3. /\ ChunkEnd \in Int /\ ChunkEnd < text.len
      /\ WindowEnd = start + MaxChars /\ WindowEnd < text.len
  BY <1>1, ChunkEndRange
<1>4. start' \in Int /\ start' <= start /\ start' < text.len /\ start' # -1
  BY <1>1, <1>2, <1>3, BoundsAssumption
<1>5. text.len > MaxChars
  BY <1>1, <1>3, BoundsAssumption DEF IInv
<1>6. CASE start' >= 0
  <2>1. start \in Nat /\ ChunkEnd \in SpacesIn(start, WindowEnd) /\ start < ChunkEnd
    BY <1>6, <1>4, <1>1, <1>2, <1>3, ChunkEndRange, BoundsAssumption
  <2>2. \A q \in SpacesIn(start, WindowEnd) : q <= ChunkEnd
    <3>1. ChunkEnd = LastSpace(start, WindowEnd)
      BY <2>1, <1>1, <1>3, BoundsAssumption DEF ChunkEnd
    <3> QED  BY <3>1, <2>1, <1>3, LastSpaceIsLast DEF IInv
  <2>3. WindowEnd' = start' + MaxChars /\ WindowEnd' <= WindowEnd /\ ChunkEnd < WindowEnd'
    BY <1>1, <1>2, <1>3, <1>4, BoundsAssumption DEF WindowEnd
  <2>4. WindowEnd' \in Int /\ WindowEnd' < text.len
    BY <2>3, <1>3, <1>4, <1>1, BoundsAssumption
  <2>0. WindowEnd \in Int /\ WindowEnd >= 0 /\ start' + MaxChars >= 0
    BY <2>1, <1>2, <1>3, <1>4, <1>6, BoundsAssumption
  <2>5. start' < ChunkEnd
    BY <2>1, <1>1, <1>2, <1>3, BoundsAssumption
  <2>6. /\ Position(start, text.len) = start
        /\ Position(WindowEnd, text.len) = WindowEnd
        /\ Position(start', text.len) = start'
        /\ Position(WindowEnd', text.len) = WindowEnd'
    BY <2>0, <2>1, <2>3, <2>4, <1>1, <1>3, <1>4, <1>6 DEF Position
  <2>7. ChunkEnd \in SpacesIn(start', WindowEnd')
    BY <2>1, <2>3, <2>5, <2>6, <2>4, <1>3, <1>4 DEF SpacesIn
  <2>8. \A q \in SpacesIn(start', WindowEnd') : q \in Nat /\ q <= ChunkEnd
    <3> SUFFICES ASSUME NEW q \in SpacesIn(start', WindowEnd') PROVE q \in Nat /\ q <= ChunkEnd
      OBVIOUS
    <3>1. q \in text.spaces /\ q \in Nat /\ q < WindowEnd
      BY <2>3, <2>4, <2>6, <1>3, TextFacts DEF SpacesIn, IInv
    <3>2. CASE start <= q
      BY <3>1, <3>2, <2>6, <2>2 DEF SpacesIn
    <3>3. CASE q < start
      BY <3>1, <3>3, <2>1, <1>3
    <3> QED  BY <3>1, <3>2, <3>3, <2>1
  <2>9. SpacesIn(start, WindowEnd)' = SpacesIn(start', WindowEnd')
    BY <1>2 DEF SpacesIn
  <2>10. LastSpace(start, WindowEnd)' = ChunkEnd
    <3>1. SpacesIn(start, WindowEnd)' # {}
      BY <2>7, <2>9
    <3>2. /\ LastSpace(start, WindowEnd)' \in SpacesIn(start', WindowEnd')
          /\ ChunkEnd <= LastSpace(start, WindowEnd)'
      BY <3>1, <2>4, <2>7, <2>9, NextLastSpaceIsLast
    <3>3. LastSpace(start, WindowEnd)' \in Nat /\ LastSpace(start, WindowEnd)' <= ChunkEnd
      BY <3>2, <2>8
    <3> QED  BY <3>2, <3>3, <1>3
  <2>11. ChunkEnd' = ChunkEnd
    BY <2>10, <2>5, <2>4, <1>2 DEF ChunkEnd
  <2> QED  BY <2>11, <1>1, <1>2, <1>4, <1>6, BoundsAssumption DEF Stuck
<1>7. CASE start' < -1
  <2>1. WindowEnd' = start' + MaxChars /\ WindowEnd' < MaxChars /\ WindowEnd' >= -1
    <3>1. start' >= -1 - Overlap
      BY <1>1, <1>2, ChunkEndRange, BoundsAssumption
    <3>2. start' + MaxChars < text.len
      BY <1>7, <1>5, <1>4, <1>1, BoundsAssumption
    <3> QED  BY <3>1, <3>2, <1>2, <1>4, <1>7, BoundsAssumption DEF WindowEnd
  <2>2. start' >= -1 - Overlap /\ start' + text.len > start' + MaxChars
    BY <1>1, <1>2, <1>4, <1>5, ChunkEndRange, BoundsAssumption
  <2>3. SpacesIn(start, WindowEnd)' = {}
    <3>1. Position(WindowEnd, text.len)' <= Position(start, text.len)'
      BY <2>1, <2>2, <1>1, <1>2, <1>4, <1>5, <1>7, BoundsAssumption DEF Position
    <3>2. Position(WindowEnd, text.len)' \in Int /\ Position(start, text.len)' \in Int
      BY <2>1, <1>1, <1>2, <1>4, BoundsAssumption DEF Position
    <3>3. \A q \in text.spaces : q \in Nat
      BY TextFacts DEF IInv
    <3> QED  BY <3>1, <3>2, <3>3, <1>2 DEF SpacesIn
  <2>4. LastSpace(start, WindowEnd)' = -1
    BY <2>3 DEF LastSpace
  <2>5. ChunkEnd' = -1
    <3>1. WindowEnd' < text.len
      BY <2>1, <2>2, <1>5, <1>1, <1>2, <1>4, BoundsAssumption
    <3> QED  BY <3>1, <2>4, <1>2, <1>7 DEF ChunkEnd
  <2>6. Overlap # 0
    BY <1>1, <1>2, <1>7, <2>2, BoundsAssumption
  <2> QED  BY <2>5, <2>2, <2>6, <1>1, <1>2, <1>4, BoundsAssumption DEF Stuck
<1> QED  BY <1>4, <1>6, <1>7

\* IInv is kept by every turn of the loop.
LEMMA IterateKeeps ==
    ASSUME IInv, Iterate
    PROVE  IInv'
<1>1. running /\ start < text.len /\ text' = text /\ kept' = kept \cup Slice(start, ChunkEnd)
  BY DEF Iterate
<1>2. /\ text.len \in Nat /\ start \in Int /\ start >= -1 - Overlap
      /\ ChunkEnd \in Int /\ -1 <= ChunkEnd /\ ChunkEnd <= text.len
  BY <1>1, TextFacts, ChunkEndRange DEF IInv, TypeOK
<1>3. /\ running' \in BOOLEAN /\ start' \in Int /\ start' >= -1 - Overlap
      /\ running' /\ start' # 0 => text.len > MaxChars
  <2>1. CASE ChunkEnd = text.len
    BY <2>1, <1>2 DEF Iterate
  <2>2. CASE ChunkEnd # text.len
    <3>1. running' /\ start' = ChunkEnd - Overlap
      BY <2>2, <1>1 DEF Iterate
    <3>2. text.len > MaxChars
      <4>1. CASE start = 0
        BY <4>1, <2>2, <1>1, <1>2, ChunkEndRange, BoundsAssumption
      <4>2. CASE start # 0
        BY <4>2, <1>1 DEF IInv
      <4> QED  BY <4>1, <4>2
    <3> QED  BY <3>1, <3>2, <1>2, BoundsAssumption
  <2> QED  BY <2>1, <2>2
<1>4. Letters(text)' = Letters(text) /\ ShortWords(text)' = ShortWords(text)
  BY <1>1 DEF Letters, ShortWords
<1>5. TypeOK'
  <2>1. kept' \subseteq Letters(text)
    BY <1>1 DEF IInv, TypeOK, Slice
  <2> QED  BY <2>1, <1>1, <1>3, <1>4 DEF IInv, TypeOK
<1>6. ShortWords(text) => Covered'
  <2>1. ASSUME ShortWords(text) PROVE Covered'
    BY <2>1, <1>1, ShortWordsAdvance, CutEffect DEF IInv
  <2> QED  BY <2>1
<1>7. Overlap - 1 \notin text.spaces => Stuck' \/ Covered'
  <2>1. CASE Stuck
    BY <2>1, <1>5, StuckStep DEF Next
  <2>2. ASSUME ~Stuck, Overlap - 1 \notin text.spaces PROVE Covered'
    BY <2>2, <1>1, UnstuckAdvances, CutEffect DEF IInv
  <2> QED  BY <2>1, <2>2
<1> QED  BY <1>1, <1>3, <1>4, <1>5, <1>6, <1>7 DEF IInv

\* And by its end.
LEMMA ReturnKeeps ==
    ASSUME IInv, Return
    PROVE  IInv'
<1>1. text' = text /\ start' = start /\ kept' = kept /\ running' = FALSE /\ ~Stuck
  BY TextFacts DEF Return, Stuck, IInv, TypeOK
<1>2. Letters(text)' = Letters(text) /\ ShortWords(text)' = ShortWords(text)
  BY <1>1 DEF Letters, ShortWords
<1>3. TypeOK'
  BY <1>1, <1>2 DEF IInv, TypeOK
<1>4. Covered => Covered'
  BY ReturnEffect
<1> QED  BY <1>1, <1>2, <1>3, <1>4 DEF IInv

LEMMA InitHolds == Init => IInv
<1>1. Init => TypeOK
  BY DEF Init, TypeOK
<1>2. Init => Covered
  BY BoundsAssumption, TextFacts, <1>1 DEF Init, Covered, Letters
<1> QED  BY <1>1, <1>2, BoundsAssumption DEF Init, IInv

LEMMA StutterKeeps ==
    ASSUME IInv, UNCHANGED vars
    PROVE  IInv'
<1>1. /\ text' = text /\ start' = start /\ kept' = kept /\ running' = running
  BY DEF vars
<1>2. /\ Letters(text)' = Letters(text) /\ ShortWords(text)' = ShortWords(text)
      /\ TypeOK' /\ (Covered => Covered')
  BY <1>1 DEF Letters, ShortWords, TypeOK, IInv, Covered
<1>3. Stuck => Stuck'
  <2>1. Stuck' = Stuck
    BY <1>1 DEF Stuck, ChunkEnd, WindowEnd, LastSpace, SpacesIn, Position
  <2> QED  BY <2>1
<1> QED  BY <1>1, <1>2, <1>3 DEF IInv

\* IInv holds in every reachable state.
LEMMA Invariance == Spec => []IInv
<1>1. IInv /\ [Next]_vars => IInv'
  BY IterateKeeps, ReturnKeeps, StutterKeeps DEF Next
<1> QED  BY <1>1, InitHolds, PTL DEF Spec

\* The loop keeps to its types, on every text (chunking.py:14-31).
THEOREM TypeCorrect == Spec => []TypeOK
<1>1. IInv => TypeOK
  BY DEF IInv
<1> QED  BY <1>1, Invariance, PTL

\* When chunk_text returns, every character of every word is in some chunk: of a
\* text of short words, and of any text with no space just before the overlap's
\* length.
THEOREM ChunksCoverTheText == Spec => []NothingLost
<1>1. IInv => NothingLost
  BY DEF IInv, NothingLost, Covered, Stuck
<1> QED  BY <1>1, Invariance, PTL

\* A chunk the loop may cut spans fewer than MaxChars positions from its first
\* letter to its last.
ChunkIsBounded ==
    running /\ start < text.len =>
        \A p, q \in Slice(start, ChunkEnd) : q - p < MaxChars

\* Every chunk the loop may cut is bounded, on any text and from any start the
\* loop reaches, below zero too, where the slice is taken from the end of the text
\* (BUILD_SPEC.md:92; chunking.py:20-25).
THEOREM ChunksAreBounded == Spec => []ChunkIsBounded
<1>1. ASSUME IInv, start < text.len, running,
             NEW p \in Slice(start, ChunkEnd), NEW q \in Slice(start, ChunkEnd)
      PROVE  q - p < MaxChars
  <2>1. /\ text.len \in Nat /\ start \in Int /\ start >= -1 - Overlap
        /\ p \in Nat /\ q \in Nat /\ q < text.len
        /\ Position(start, text.len) <= p /\ q < Position(ChunkEnd, text.len)
    BY <1>1, TextFacts DEF IInv, TypeOK, Slice, Letters
  <2>2. CASE start >= 0
    <3>1. ChunkEnd \in Int /\ ChunkEnd <= start + MaxChars /\ 0 <= ChunkEnd
      <4>1. WindowEnd \in Nat /\ WindowEnd <= start + MaxChars
        BY <2>1, <2>2, <1>1, BoundsAssumption DEF WindowEnd
      <4>2. \A r \in SpacesIn(start, WindowEnd) : r \in Nat /\ r < WindowEnd
        BY <2>1, <2>2, <4>1, <1>1, TextFacts, BoundsAssumption
        DEF IInv, SpacesIn, Position, WindowEnd
      <4>3. \/ ChunkEnd = WindowEnd
            \/ ChunkEnd = -1 /\ start < -1
            \/ ChunkEnd \in SpacesIn(start, WindowEnd)
        BY <1>1, ChunkEndRange
      <4>4. CASE ChunkEnd = WindowEnd
        BY <4>4, <4>1
      <4>5. CASE ChunkEnd = -1 /\ start < -1
        BY <4>5, <2>1, <2>2
      <4>6. CASE ChunkEnd \in SpacesIn(start, WindowEnd)
        <5>1. ChunkEnd \in Nat /\ ChunkEnd < WindowEnd
          BY <4>6, <4>2
        <5> QED  BY <5>1, <4>1, <2>1, BoundsAssumption
      <4> QED  BY <4>3, <4>4, <4>5, <4>6
    <3>2. Position(start, text.len) = start /\ Position(ChunkEnd, text.len) <= ChunkEnd
      BY <1>1, <2>1, <2>2, <3>1, BoundsAssumption DEF Position
    <3>3. Position(ChunkEnd, text.len) \in Int
      BY <2>1, <3>1 DEF Position
    <3> QED  BY <2>1, <2>2, <3>1, <3>2, <3>3, BoundsAssumption
  <2>3. CASE start < 0
    <3>1. text.len > MaxChars /\ start >= -MaxChars
      BY <1>1, <2>1, <2>3, BoundsAssumption DEF IInv
    <3>2. Position(start, text.len) = start + text.len
      BY <2>1, <2>3, <3>1, BoundsAssumption DEF Position
    <3> QED  BY <2>1, <2>3, <3>1, <3>2, BoundsAssumption
  <2> QED  BY <2>1, <2>2, <2>3
<1>2. IInv => ChunkIsBounded
  BY <1>1, Zenon DEF ChunkIsBounded
<1> QED  BY <1>2, Invariance, PTL

\* Each chunk of a text of short words starts after the one before it, so there
\* are at most as many chunks as characters: chunk_text ends.
THEOREM StartsIncrease == Spec => ChunksAdvance
<1> DEFINE Advance == ShortWords(text) => start' >= start /\ (running' => start' > start)
<1>1. ASSUME IInv, Iterate PROVE Advance
  <2>1. running /\ start < text.len
    BY <1>1 DEF Iterate
  <2> QED  BY <2>1, <1>1, ShortWordsAdvance, CutEffect DEF IInv
<1>2. ASSUME IInv, Return PROVE Advance
  BY <1>2, ReturnEffect DEF IInv, Covered
<1>3. IInv /\ [Next]_vars => [Advance]_vars
  BY <1>1, <1>2 DEF Next
<1> QED  BY <1>3, Invariance, PTL DEF ChunksAdvance, Spec

\* A loop that fails to advance once never ends: every later chunk ends where
\* that one did.
THEOREM StuckLoopsForEver == Spec => StuckForGood
<1>1. IInv /\ IInv' /\ Stuck /\ [Next]_vars => Stuck'
  <2>1. ASSUME Stuck, UNCHANGED vars PROVE Stuck'
    BY <2>1 DEF vars, Stuck, ChunkEnd, WindowEnd, LastSpace, SpacesIn, Position
  <2> QED  BY <2>1, StuckStep DEF IInv
<1>2. Stuck => running
  BY DEF Stuck
<1> QED  BY <1>1, <1>2, Invariance, PTL DEF StuckForGood, Spec
=============================================================================
