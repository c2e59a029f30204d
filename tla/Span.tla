-------------------------------- MODULE Span --------------------------------
(***************************************************************************)
(* Spans: ranges of a file, both ends included                             *)
(* (compiler-lib/src/asciifile/span.rs).  A span is never empty.           *)
(*                                                                         *)
(* Positions are ordered by their byte offset alone (position.rs:24-36);   *)
(* all positions a span is built from belong to one file.                  *)
(***************************************************************************)
EXTENDS Position

\* Ord for Position, and std::cmp::min and max over it.
min(a, b) == IF b.byte_offset < a.byte_offset THEN b ELSE a
max(a, b) == IF b.byte_offset < a.byte_offset THEN a ELSE b

\* Span::new swaps its arguments where needed.
new_span(a, b) == [start |-> min(a, b), end |-> max(a, b)]

from_single_position(p) == [start |-> p, end |-> p]

offsets(span) == span.start.byte_offset .. span.end.byte_offset

\* The positions of the file, in order: what iterating over it yields.
positions(file) == LET walk == iter(file, at_file_start(file))
                   IN  {walk[k] : k \in DOMAIN walk}

spans(file) == {new_span(a, b) : a \in positions(file), b \in positions(file)}

combine(a, b) == [start |-> min(a.start, b.start), end |-> max(a.end, b.end)]

extend_to_position(span, p) == combine(from_single_position(p), span)

\* Equal positions are those with equal offsets (position.rs:310-314).
same_span(a, b) == /\ a.start.byte_offset = b.start.byte_offset
                   /\ a.end.byte_offset = b.end.byte_offset

\* Mutant: the two spans are swapped.
IsSubset(span, other) == same_span(combine(other, span), other)

has_subset(span, other) == same_span(combine(other, span), span)

len(span) == span.end.byte_offset + 1 - span.start.byte_offset
is_single_char(span) == span.end.byte_offset - span.start.byte_offset = 1
is_multiline(span) == span.start.row # span.end.row

\* Span::intersect is None exactly if the spans do not overlap.
overlap(a, b) == ~(\/ b.start.byte_offset > a.end.byte_offset
                   \/ a.start.byte_offset > b.end.byte_offset)

\* Mutant: what overlaps is taken to reach to the end of both.
IntersectToTheEnd(a, b) == [start |-> max(a.start, b.start), end |-> max(a.end, b.end)]

intersect(a, b) == [start |-> max(a.start, b.start), end |-> min(a.end, b.end)]

\* Mutant: another line follows although the span ends with this one.
LineAfterEvenAtEnd(file, span, line) ==
    /\ span.end.byte_offset >= line.end.byte_offset
    /\ has_next(file, line.end)

(***************************************************************************)
(* LineIterator: the line it starts with, and the line after `line`, if    *)
(* the span goes on behind it and the file has a character there.          *)
(***************************************************************************)
first_line(file, span) == get_line(file, span.start)

has_line_after(file, span, line) ==
    /\ span.end.byte_offset > line.end.byte_offset
    /\ has_next(file, line.end)

line_after(file, line) == get_line(file, next_of(file, line.end))

\* LineNumberIterator: the number printed in front of a line.
line_number(p) == p.row + 1

\* Mutant: a line is numbered by its end.
NumberedByEnd(line) == line_number(line.end)

numbered(line) == line_number(line.start)
=============================================================================
