------------------------------ MODULE SpanWalk ------------------------------
(***************************************************************************)
(* A span that is built while a cursor walks the file, as the lexer does   *)
(* for a token (lexer.rs:628-638), and that is combined with other spans,  *)
(* as the parser does for a node, or cut to a line, as the diagnostics do  *)
(* (asciifile/span.rs).                                                    *)
(***************************************************************************)
EXTENDS PositionWalk, Span

VARIABLE span

span_vars == <<vars, span>>

SpanInit == Init /\ span = from_single_position(pos)

\* Span::from_positions is this step for each of the positions.
ExtendToPosition == /\ span' = extend_to_position(span, pos)
                    /\ UNCHANGED vars

Combine(other) == /\ span' = combine(span, other)
                  /\ UNCHANGED vars

Intersect(other) == /\ overlap(span, other)
                    /\ span' = intersect(span, other)
                    /\ UNCHANGED vars

Walk == Next /\ UNCHANGED span

SpanNext == \/ Walk
            \/ ExtendToPosition
            \/ \E other \in spans(file) : Combine(other) \/ Intersect(other)

SpanSpec == SpanInit /\ [][SpanNext]_span_vars

Chars == INSTANCE Interval WITH length <- Len(file), chars <- offsets(span)
-----------------------------------------------------------------------------
(***************************************************************************)
(* A span behaves like the set of its characters: whatever it is combined  *)
(* with, in whatever order, it becomes the smallest range around both, and *)
(* an intersection is exactly what is shared (span.rs:148-175).            *)
(***************************************************************************)
ImplementsInterval == Chars!Spec

(***************************************************************************)
(* The questions about a span, answered from its two ends alone, agree     *)
(* with its text: has_subset with all of its characters, is_multiline with *)
(* a newline anywhere but at its start, although a newline belongs to the  *)
(* row it opens (span.rs:112-154).  The end of a span is inclusive, so     *)
(* is_single_char says yes to the spans of two characters (span.rs:100).   *)
(***************************************************************************)
AnswersAgree ==
    /\ \A other \in spans(file) :
           has_subset(span, other) <=> offsets(other) \subseteq offsets(span)
    /\ is_multiline(span) <=>
           \E o \in offsets(span) \ {span.start.byte_offset} : file[o + 1] = LF
    /\ is_single_char(span) <=> Cardinality(offsets(span)) = 2
=============================================================================
