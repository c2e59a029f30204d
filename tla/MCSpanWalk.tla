----------------------------- MODULE MCSpanWalk -----------------------------
(***************************************************************************)
(* PositionWalk and SpanWalk on every file of at most MaxLen characters    *)
(* over a letter and the newline: all placements of the newlines that fit. *)
(***************************************************************************)
EXTENDS SpanWalk

CONSTANTS MaxLen

MCFiles == UNION {[1..n -> Char] : n \in 1..MaxLen}
=============================================================================
