--------------------------- MODULE PositionProofs ---------------------------
(***************************************************************************)
(* Proofs about the cursor of PositionWalk and the span of SpanWalk, for   *)
(* every alphabet and every set of files.                                  *)
(*                                                                         *)
(* TypeOK is not inductive: nothing in it keeps `row -= 1` and `col -= 1`  *)
(* of prev_mut() from wrapping below zero.  It is inductive together with  *)
(* PositionInv, which ties row and column to the text: a newline under the *)
(* cursor makes the row at least 1, and a character that is no newline has *)
(* a column of at least 1 unless it is the first of the file.              *)
(*                                                                         *)
(* Of a span it is inductive that its ends are positions of the file in    *)
(* order.                                                                  *)
(***************************************************************************)
EXTENDS SpanWalk, PositionLemmas

(***************************************************************************)
(* Every step of the walk leads from a valid position to a valid position. *)
(***************************************************************************)
IInv == TypeOK /\ PositionInv

LEMMA IInvIsAt == IInv <=> file \in Seq(Char) \ {<<>>} /\ At(file, pos)
BY DEF IInv, TypeOK, PositionInv, At

LEMMA IInvInductive ==
    /\ Init => IInv
    /\ IInv /\ [Next]_vars => IInv'
<1>1. Init => IInv
  BY StartIsAt, IInvIsAt, FilesAssumption DEF Init
<1>2. ASSUME IInv, [Next]_vars PROVE IInv'
  <2>1. file \in Seq(Char) \ {<<>>} /\ At(file, pos)
    BY <1>2, IInvIsAt
  <2>2. CASE StepNext
    <3>1. At(file, next_of(file, pos)) /\ file' = file /\ pos' = next_of(file, pos)
      BY <2>1, <2>2, NextIsAt DEF StepNext
    <3> QED
      BY <2>1, <3>1
         DEF IInv, TypeOK, PositionInv, At, RowIsRight, ColIsRight, newlines_through
  <2>3. CASE StepPrev
    <3>1. At(file, prev_of(file, pos)) /\ file' = file /\ pos' = prev_of(file, pos)
      BY <2>1, <2>3, PrevIsAt DEF StepPrev
    <3> QED
      BY <2>1, <3>1
         DEF IInv, TypeOK, PositionInv, At, RowIsRight, ColIsRight, newlines_through
  <2>4. CASE UNCHANGED vars
    BY <1>2, <2>4
       DEF vars, IInv, TypeOK, PositionInv, RowIsRight, ColIsRight, newlines_through
  <2> QED
    BY <1>2, <2>2, <2>3, <2>4 DEF Next
<1> QED
  BY <1>1, <1>2

(***************************************************************************)
(* Rows, columns and offsets stay in range: no `usize` subtraction of      *)
(* prev_mut() (position.rs:180-189) ever goes below zero, for every file.  *)
(***************************************************************************)
THEOREM WalkTypeOK == Spec => []TypeOK
<1>1. IInv => TypeOK
  BY DEF IInv
<1> QED
  BY <1>1, IInvInductive, PTL DEF Spec

(***************************************************************************)
(* However a position was reached, its row and column are those of its     *)
(* offset.                                                                 *)
(***************************************************************************)
THEOREM WalkPositionInv == Spec => []PositionInv
<1>1. IInv => PositionInv
  BY DEF IInv
<1> QED
  BY <1>1, IInvInductive, PTL DEF Spec

(***************************************************************************)
(* prev() undoes next() and next() undoes prev(), for every file and every *)
(* reachable position.                                                     *)
(***************************************************************************)
THEOREM WalkDoublyLinked == Spec => []DoublyLinked
<1>1. IInv => DoublyLinked
  <2> SUFFICES ASSUME IInv PROVE DoublyLinked
    OBVIOUS
  <2>1. file \in Seq(Char) \ {<<>>} /\ At(file, pos)
    BY IInvIsAt
  <2>2. pos.byte_offset \in Nat /\ Len(file) \in Nat /\ pos.byte_offset < Len(file)
    BY <2>1 DEF At, PositionType
  <2>3. ASSUME has_next(file, pos) PROVE prev_of(file, next_of(file, pos)) = pos
    <3> DEFINE q == next_of(file, pos)
    <3>1. At(file, q) /\ q.byte_offset = pos.byte_offset + 1
      BY <2>1, <2>3, NextIsAt
    <3>2. has_prev(file, q)
      BY <2>2, <3>1 DEF has_prev
    <3>3. At(file, prev_of(file, q)) /\ prev_of(file, q).byte_offset = q.byte_offset - 1
      BY <2>1, <3>1, <3>2, PrevIsAt
    <3> HIDE DEF q
    <3>4. prev_of(file, q).byte_offset = pos.byte_offset
      BY <2>2, <3>1, <3>3
    <3> QED
      BY <2>1, <3>3, <3>4, AtIsUnique DEF q
  <2>4. ASSUME has_prev(file, pos) PROVE next_of(file, prev_of(file, pos)) = pos
    <3> DEFINE q == prev_of(file, pos)
    <3>1. At(file, q) /\ q.byte_offset = pos.byte_offset - 1
      BY <2>1, <2>4, PrevIsAt
    <3>2. has_next(file, q)
      BY <2>2, <3>1 DEF has_next
    <3>3. At(file, next_of(file, q)) /\ next_of(file, q).byte_offset = q.byte_offset + 1
      BY <2>1, <3>1, <3>2, NextIsAt
    <3> HIDE DEF q
    <3>4. next_of(file, q).byte_offset = pos.byte_offset
      BY <2>2, <3>1, <3>3
    <3> QED
      BY <2>1, <3>3, <3>4, AtIsUnique DEF q
  <2> QED
    BY <2>3, <2>4 DEF DoublyLinked
<1> QED
  BY <1>1, IInvInductive, PTL DEF Spec
(***************************************************************************)
(* get_line() is the whole line around the cursor, its ends with their own *)
(* rows and columns, wherever in whatever file the cursor is.              *)
(***************************************************************************)
THEOREM WalkGetLine == Spec => []GetLineIsTheLine
<1>1. IInv => GetLineIsTheLine
  <2> SUFFICES ASSUME IInv PROVE GetLineIsTheLine
    OBVIOUS
  <2>1. file \in Seq(Char) \ {<<>>} /\ At(file, pos)
    BY IInvIsAt
  <2> DEFINE line == get_line(file, pos)
  <2>2. IsLine(file, line) /\ pos.byte_offset \in offsets(line)
    BY <2>1, GetLineIsLine
  <2> HIDE DEF line
  <2>3. /\ line.start.byte_offset \in Nat /\ line.end.byte_offset \in Nat
        /\ pos.byte_offset \in line.start.byte_offset..line.end.byte_offset
    BY <2>2 DEF IsLine, At, PositionType, offsets
  <2> QED
    BY <2>2, <2>3 DEF IsLine, At, GetLineIsTheLine, line
<1> QED
  BY <1>1, IInvInductive, PTL DEF Spec
-----------------------------------------------------------------------------
(***************************************************************************)
(* The operations keep the ends of a span in order.                        *)
(***************************************************************************)
LEMMA CombineIsSpan ==
    ASSUME NEW f, NEW a, NEW b, IsSpan(f, a), IsSpan(f, b)
    PROVE  /\ IsSpan(f, combine(a, b))
           /\ offsets(combine(a, b)) = Chars!Min(offsets(a) \cup offsets(b))
                                          .. Chars!Max(offsets(a) \cup offsets(b))
<1> DEFINE a1 == a.start.byte_offset
           a2 == a.end.byte_offset
           b1 == b.start.byte_offset
           b2 == b.end.byte_offset
           c == combine(a, b)
           all == offsets(a) \cup offsets(b)
<1>1. /\ a1 \in Nat /\ a2 \in Nat /\ b1 \in Nat /\ b2 \in Nat
      /\ a1 <= a2 /\ b1 <= b2
  BY DEF IsSpan, At, PositionType
<1>2. /\ c = [start |-> min(a.start, b.start), end |-> max(a.end, b.end)]
      /\ c.start \in {a.start, b.start} /\ c.end \in {a.end, b.end}
      /\ c.start.byte_offset <= a1 /\ c.start.byte_offset <= b1
      /\ a2 <= c.end.byte_offset /\ b2 <= c.end.byte_offset
  <2>1. min(a.start, b.start) \in {a.start, b.start}
          /\ min(a.start, b.start).byte_offset <= a1
          /\ min(a.start, b.start).byte_offset <= b1
    BY <1>1 DEF min
  <2>2. max(a.end, b.end) \in {a.end, b.end}
          /\ a2 <= max(a.end, b.end).byte_offset
          /\ b2 <= max(a.end, b.end).byte_offset
    BY <1>1 DEF max
  <2> QED
    BY <2>1, <2>2 DEF combine
<1> HIDE DEF c
<1>3. c.start.byte_offset \in {a1, b1} /\ c.end.byte_offset \in {a2, b2}
  BY <1>2
<1>4. c.start.byte_offset <= c.end.byte_offset
  BY <1>1, <1>2, <1>3
<1>5. IsSpan(f, c)
  BY <1>2, <1>4 DEF IsSpan
<1>6. all = (a1..a2) \cup (b1..b2)
  BY DEF offsets
<1> HIDE DEF all
<1>7. Chars!Min(all) = c.start.byte_offset
  <2>1. /\ c.start.byte_offset \in all
        /\ \A y \in all : c.start.byte_offset <= y
    BY <1>1, <1>2, <1>3, <1>6
  <2>2. \A x \in all : (\A y \in all : x <= y) => x = c.start.byte_offset
    BY <1>1, <1>3, <1>6, <2>1
  <2> QED
    BY <2>1, <2>2 DEF Chars!Min
<1>8. Chars!Max(all) = c.end.byte_offset
  <2>1. /\ c.end.byte_offset \in all
        /\ \A y \in all : c.end.byte_offset >= y
    BY <1>1, <1>2, <1>3, <1>6
  <2>2. \A x \in all : (\A y \in all : x >= y) => x = c.end.byte_offset
    BY <1>1, <1>3, <1>6, <2>1
  <2> QED
    BY <2>1, <2>2 DEF Chars!Max
<1>9. offsets(c) = c.start.byte_offset..c.end.byte_offset
  BY DEF offsets
<1> QED
  BY <1>5, <1>7, <1>8, <1>9 DEF c, all

LEMMA SinglePositionIsSpan ==
    ASSUME NEW f, NEW p, At(f, p)
    PROVE  /\ IsSpan(f, from_single_position(p))
           /\ offsets(from_single_position(p)) = {p.byte_offset}
<1>1. p.byte_offset \in Nat
  BY DEF At, PositionType
<1>2. p.byte_offset..p.byte_offset = {p.byte_offset}
  BY <1>1
<1> QED
  BY <1>1, <1>2 DEF from_single_position, IsSpan, offsets

(***************************************************************************)
(* The ends of the span are positions of the file, in order.               *)
(***************************************************************************)
SpanIInv == IInv /\ IsSpan(file, span)

LEMMA SpanIInvInductive ==
    /\ SpanInit => SpanIInv
    /\ SpanIInv /\ [SpanNext]_span_vars => SpanIInv'
<1>1. SpanInit => SpanIInv
  BY IInvInductive, IInvIsAt, SinglePositionIsSpan DEF SpanInit, SpanIInv
<1>2. ASSUME SpanIInv, [SpanNext]_span_vars PROVE SpanIInv'
  <2>1. IInv /\ IsSpan(file, span) /\ file \in Seq(Char) \ {<<>>} /\ At(file, pos)
    BY <1>2, IInvIsAt DEF SpanIInv
  <2>2. IInv'
    <3>1. [Next]_vars
      BY <1>2 DEF SpanNext, span_vars, Walk, ExtendToPosition, Combine, Intersect
    <3> QED
      BY <2>1, <3>1, IInvInductive
  <2>3. file' = file
    BY <1>2 DEF SpanNext, span_vars, Walk, Next, StepNext, StepPrev,
                ExtendToPosition, Combine, Intersect, vars
  <2>4. IsSpan(file, span')
    <3>1. CASE UNCHANGED span
      BY <2>1, <3>1
    <3>2. CASE ExtendToPosition
      BY <2>1, <3>2, SinglePositionIsSpan, CombineIsSpan
         DEF ExtendToPosition, extend_to_position
    <3>3. ASSUME NEW other \in spans(file), Combine(other) \/ Intersect(other)
          PROVE  IsSpan(file, span')
      <4>1. IsSpan(file, other)
        BY <2>1, SpansAreSpans
      <4>2. CASE Combine(other)
        BY <2>1, <4>1, <4>2, CombineIsSpan DEF Combine
      <4>3. CASE Intersect(other)
        BY <2>1, <4>1, <4>3, IntersectIsSpan DEF Intersect
      <4> QED
        BY <3>3, <4>2, <4>3
    <3> QED
      BY <1>2, <3>1, <3>2, <3>3 DEF SpanNext, span_vars, Walk
  <2> QED
    BY <2>2, <2>3, <2>4 DEF SpanIInv, IsSpan, At, RowIsRight, ColIsRight, newlines_through
<1> QED
  BY <1>1, <1>2

(***************************************************************************)
(* What is asked of a span is answered from its two ends as its text       *)
(* answers it, for every file and every way the span was built.            *)
(***************************************************************************)
THEOREM SpanAnswersAgree == SpanSpec => []AnswersAgree
<1>1. SpanIInv => AnswersAgree
  <2> SUFFICES ASSUME SpanIInv PROVE AnswersAgree
    OBVIOUS
  <2> DEFINE a == span.start.byte_offset
             b == span.end.byte_offset
  <2>1. file \in Seq(Char) \ {<<>>} /\ IsSpan(file, span)
    BY IInvIsAt DEF SpanIInv
  <2>2. /\ a \in Nat /\ b \in Nat /\ a <= b
        /\ span.start.row = Cardinality(newlines_through(file, a))
        /\ span.end.row = Cardinality(newlines_through(file, b))
    BY <2>1 DEF IsSpan, At, PositionType, RowIsRight
  <2>3. ASSUME NEW other \in spans(file)
        PROVE  has_subset(span, other) <=> offsets(other) \subseteq offsets(span)
    <3> DEFINE c == other.start.byte_offset
               d == other.end.byte_offset
    <3>1. c \in Nat /\ d \in Nat /\ c <= d
      BY <2>1, SpansAreSpans DEF IsSpan, At, PositionType
    <3>2. has_subset(span, other) <=> a <= c /\ d <= b
      <4>1. min(other.start, span.start).byte_offset = a <=> a <= c
        BY <2>2, <3>1 DEF min
      <4>2. max(other.end, span.end).byte_offset = b <=> d <= b
        BY <2>2, <3>1 DEF max
      <4> QED
        BY <4>1, <4>2 DEF has_subset, same_span, combine
    <3>3. c..d \subseteq a..b <=> a <= c /\ d <= b
      BY <2>2, <3>1
    <3> QED
      BY <3>2, <3>3 DEF offsets
  <2>4. is_multiline(span) <=> \E o \in offsets(span) \ {a} : file[o + 1] = LF
    <3> DEFINE upto(o) == newlines_through(file, o)
    <3>1. IsFiniteSet(upto(b)) /\ upto(a) \in SUBSET upto(b)
      <4>1. IsFiniteSet(upto(b))
        BY <2>2, NewlinesStep
      <4>2. 0..a \subseteq 0..b
        BY <2>2
      <4> QED
        BY <4>1, <4>2 DEF newlines_through
    <3>2. Cardinality(upto(a)) = Cardinality(upto(b)) <=> upto(a) = upto(b)
      BY <3>1, FS_Subset
    <3>3. upto(a) # upto(b) <=> \E o \in (a..b) \ {a} : file[o + 1] = LF
      BY <2>2 DEF newlines_through
    <3> QED
      BY <2>2, <3>2, <3>3 DEF is_multiline, offsets
  <2>5. is_single_char(span) <=> Cardinality(offsets(span)) = 2
    <3>1. Cardinality(a..b) = b - a + 1
      <4>1. a \in Int /\ b \in Int /\ ~(a > b)
        BY <2>2
      <4> QED
        BY <4>1, FS_Interval
    <3> QED
      BY <2>2, <3>1 DEF is_single_char, offsets
  <2> QED
    BY <2>3, <2>4, <2>5 DEF AnswersAgree
<1> QED
  BY <1>1, SpanIInvInductive, PTL DEF SpanSpec

\* intersect() keeps the characters that the two spans share.
LEMMA IntersectShares ==
    ASSUME NEW other, IsSpan(file, span), IsSpan(file, other), Intersect(other)
    PROVE  Chars!Share(offsets(other))
<1>1. UNCHANGED file /\ overlap(span, other) /\ offsets(span)' = offsets(intersect(span, other))
  BY DEF Intersect, vars, offsets
<1>2. PICK f, a : f = file /\ a = span
  OBVIOUS
<1>3. IsSpan(f, a) /\ IsSpan(f, other) /\ overlap(a, other)
  BY <1>1, <1>2
<1>4. offsets(intersect(a, other)) = offsets(a) \cap offsets(other)
  BY <1>3, IntersectOffsets
<1>5. PICK o \in offsets(a) : o \in offsets(other)
  BY <1>3, IntersectIsSpan
<1>6. offsets(a) \cap offsets(other) # {}
  BY <1>5
<1> QED
  BY <1>1, <1>2, <1>4, <1>6 DEF Chars!Share

(***************************************************************************)
(* A span implements the interval of its characters: extending it and      *)
(* combining it include a range, intersecting it shares one, and to walk   *)
(* on leaves it as it is.                                                  *)
(***************************************************************************)
THEOREM SpanImplementsInterval == SpanSpec => ImplementsInterval
<1>1. SpanInit => Chars!Init
  <2> SUFFICES ASSUME SpanInit PROVE Chars!Init
    OBVIOUS
  <2>1. SpanIInv
    BY SpanIInvInductive
  <2>2. file \in Seq(Char) \ {<<>>} /\ At(file, pos) /\ span = from_single_position(pos)
    BY <2>1, IInvIsAt DEF SpanIInv, SpanInit
  <2>3. offsets(span) = {pos.byte_offset}
    BY <2>2, SinglePositionIsSpan
  <2>4. Len(file) \in Nat \ {0} /\ pos.byte_offset \in 0..Len(file) - 1
    BY <2>2 DEF At, PositionType
  <2> QED
    BY <2>3, <2>4 DEF Chars!Init
<1>2. SpanIInv /\ [SpanNext]_span_vars => [Chars!Next]_Chars!vars
  <2> SUFFICES ASSUME SpanIInv, [SpanNext]_span_vars PROVE [Chars!Next]_Chars!vars
    OBVIOUS
  <2>1. file \in Seq(Char) \ {<<>>} /\ At(file, pos) /\ IsSpan(file, span)
    BY IInvIsAt DEF SpanIInv
  <2>2. ASSUME NEW other, IsSpan(file, other)
        PROVE  offsets(other) \in Chars!Ranges
    <3>1. /\ other.start.byte_offset \in 0..Len(file) - 1
          /\ other.end.byte_offset \in 0..Len(file) - 1
          /\ other.start.byte_offset <= other.end.byte_offset
      BY <2>1, <2>2 DEF IsSpan, At, PositionType
    <3>2. offsets(other) # {}
      BY <3>1 DEF offsets
    <3> QED
      BY <3>1, <3>2 DEF offsets, Chars!Ranges
  <2>3. CASE ExtendToPosition
    <3> DEFINE here == from_single_position(pos)
    <3>1. IsSpan(file, here)
      BY <2>1, SinglePositionIsSpan
    <3>2. UNCHANGED file /\ span' = combine(here, span)
      BY <2>3 DEF ExtendToPosition, extend_to_position, vars
    <3> HIDE DEF here
    <3>3. Chars!Include(offsets(here))
      <4>1. offsets(here) \cup offsets(span) = offsets(span) \cup offsets(here)
        OBVIOUS
      <4>2. offsets(span)' = offsets(combine(here, span))
        BY <3>2 DEF offsets
      <4>3. offsets(combine(here, span))
              = Chars!Min(offsets(here) \cup offsets(span))
                   .. Chars!Max(offsets(here) \cup offsets(span))
        BY <2>1, <3>1, CombineIsSpan
      <4> QED
        BY <4>1, <4>2, <4>3 DEF Chars!Include
    <3> QED
      BY <2>2, <3>1, <3>2, <3>3 DEF Chars!Next
  <2>4. ASSUME NEW other \in spans(file), Combine(other)
        PROVE  Chars!Next
    <3>1. IsSpan(file, other)
      BY <2>1, SpansAreSpans
    <3>2. UNCHANGED file /\ offsets(span)' = offsets(combine(span, other))
      BY <2>4 DEF Combine, vars, offsets
    <3>3. Chars!Include(offsets(other))
      BY <2>1, <3>1, <3>2, CombineIsSpan DEF Chars!Include
    <3> QED
      BY <2>2, <3>1, <3>2, <3>3 DEF Chars!Next
  <2>5. ASSUME NEW other \in spans(file), Intersect(other)
        PROVE  Chars!Next
    <3>1. IsSpan(file, other)
      BY <2>1, SpansAreSpans
    <3>2. Chars!Share(offsets(other))
      BY <2>1, <2>5, <3>1, IntersectShares
    <3> QED
      BY <2>2, <3>1, <3>2, <2>5 DEF Chars!Next, Intersect, vars
  <2>6. CASE UNCHANGED span /\ UNCHANGED file
    BY <2>6 DEF offsets, Chars!vars
  <2>7. Walk => UNCHANGED span /\ UNCHANGED file
    BY DEF Walk, Next, StepNext, StepPrev
  <2> QED
    BY <2>3, <2>4, <2>5, <2>6, <2>7 DEF SpanNext, span_vars, vars
<1> QED
  BY <1>1, <1>2, SpanIInvInductive, PTL DEF SpanSpec, ImplementsInterval, Chars!Spec
=============================================================================
