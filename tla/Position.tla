------------------------------ MODULE Position ------------------------------
(***************************************************************************)
(* A position in an ASCII file (compiler-lib/src/asciifile/position.rs).   *)
(*                                                                         *)
(* The code describes `Position` as a doubly linked list over the          *)
(* characters of a file: a position carries its row, its column and its    *)
(* byte offset, and next()/prev() recompute all three from the character   *)
(* they step over.  There is no position behind the last character: the    *)
(* `None` (or `Err`) of next() and prev() is modelled by the predicates    *)
(* has_next and has_prev, and the operators that return a position are     *)
(* only applied where these hold.                                          *)
(*                                                                         *)
(* A newline character is counted to the row it opens: it has column 0 of  *)
(* the NEXT row, so the visible characters of every row but the first      *)
(* start at column 1.                                                      *)
(*                                                                         *)
(* A file is a non-empty sequence of characters; the byte at offset o is   *)
(* element o + 1.  This module has no variables: PositionWalk, Span and    *)
(* the modules above them use its operators.                               *)
(***************************************************************************)
EXTENDS Integers, Sequences, FiniteSets

CONSTANTS Char,      \* the ASCII characters the model distinguishes
          LF         \* the newline character '\n'

ASSUME LFAssumption == LF \in Char

(***************************************************************************)
(* The Position struct.  The `file` field is a parameter of the operators. *)
(***************************************************************************)
PositionType == [row : Nat, col : Nat, byte_offset : Nat]

chr(file, p) == file[p.byte_offset + 1]

(***************************************************************************)
(* The first position.  A file that starts with a newline starts in row 1, *)
(* because the newline action is applied before the newline itself.        *)
(***************************************************************************)
at_file_start(file) ==
    [row |-> IF file[1] = LF THEN 1 ELSE 0, col |-> 0, byte_offset |-> 0]

\* Mutant: the column is not reset by a newline.
ColumnNotReset(p, c) ==
    [row |-> IF c = LF THEN p.row + 1 ELSE p.row,
     col |-> p.col + 1, byte_offset |-> p.byte_offset + 1]

(***************************************************************************)
(* consume_char_mut: the position reached by stepping onto character c.    *)
(***************************************************************************)
consume_char(p, c) ==
    IF c = LF
    THEN [row |-> p.row + 1, col |-> 0, byte_offset |-> p.byte_offset + 1]
    ELSE [row |-> p.row, col |-> p.col + 1, byte_offset |-> p.byte_offset + 1]

has_next(file, p) == p.byte_offset + 1 < Len(file)
has_prev(file, p) == p.byte_offset # 0
is_last(file, p)  == ~has_next(file, p)

next_of(file, p) == consume_char(p, file[p.byte_offset + 2])

(***************************************************************************)
(* str::rfind('\n').unwrap_or(0) over the first n characters of the file.  *)
(***************************************************************************)
newlines_before(file, n) == {i \in 0..n - 1 : file[i + 1] = LF}

rfind_newline_or_0(file, n) ==
    LET nls == newlines_before(file, n)
    IN  IF nls = {} THEN 0 ELSE CHOOSE i \in nls : \A j \in nls : j <= i

\* Mutant: the column reconstructed behind a newline is one too large.
PrevColumnOffByOne(file, p) ==
    [row |-> IF chr(file, p) = LF THEN p.row - 1 ELSE p.row,
     col |-> IF chr(file, p) = LF
             THEN p.byte_offset - rfind_newline_or_0(file, p.byte_offset)
             ELSE p.col - 1,
     byte_offset |-> p.byte_offset - 1]

(***************************************************************************)
(* prev_mut.  Stepping back over a newline must reconstruct the column     *)
(* from the newline before it.  row and col are `usize`: the code          *)
(* subtracts without a check, and PositionWalk shows that it may.          *)
(***************************************************************************)
prev_of(file, p) ==
    IF chr(file, p) = LF
    THEN [row |-> p.row - 1,
          col |-> p.byte_offset - rfind_newline_or_0(file, p.byte_offset) - 1,
          byte_offset |-> p.byte_offset - 1]
    ELSE [row |-> p.row, col |-> p.col - 1, byte_offset |-> p.byte_offset - 1]

(***************************************************************************)
(* The position k steps ahead of p and the position k steps before p, for  *)
(* as many steps as the file has: PositionIterator and                     *)
(* ReversePositionIterator follow exactly these chains.                    *)
(***************************************************************************)
iter(file, p) ==
    LET walk[k \in 0..Len(file) - 1 - p.byte_offset] ==
            IF k = 0 THEN p ELSE next_of(file, walk[k - 1])
    IN  walk

reverse_iter(file, p) ==
    LET walk[k \in 0..p.byte_offset] ==
            IF k = 0 THEN p ELSE prev_of(file, walk[k - 1])
    IN  walk

(***************************************************************************)
(* The index of the first element of a chain that satisfies `found`.       *)
(***************************************************************************)
FirstIndex(walk, found(_)) ==
    CHOOSE k \in DOMAIN walk :
        found(walk[k]) /\ \A j \in DOMAIN walk : j < k => ~found(walk[j])

(***************************************************************************)
(* get_line: the first and the last position of the line around p.  The    *)
(* start is found by walking back until the character before it is a       *)
(* newline (or there is none), the end by walking ahead to a newline (or   *)
(* to the end of the file).                                                *)
(***************************************************************************)
line_start(file, p) ==
    LET back == reverse_iter(file, p)
        opens_line(q) == has_prev(file, q) => chr(file, prev_of(file, q)) = LF
    IN  back[FirstIndex(back, opens_line)]

\* Mutant: the line stops in front of its newline.
LineEndsBeforeNewline(file, p) ==
    LET ahead == iter(file, p)
        closes_line(q) == is_last(file, q) \/ chr(file, next_of(file, q)) = LF
    IN  ahead[FirstIndex(ahead, closes_line)]

line_end(file, p) ==
    LET ahead == iter(file, p)
        closes_line(q) == chr(file, q) = LF \/ is_last(file, q)
    IN  ahead[FirstIndex(ahead, closes_line)]

get_line(file, p) == [start |-> line_start(file, p), end |-> line_end(file, p)]
-----------------------------------------------------------------------------
(***************************************************************************)
(* Where a position at offset o has to be, counted from the text alone.    *)
(***************************************************************************)
newlines_through(file, o) == {i \in 0..o : file[i + 1] = LF}

RowIsRight(file, p) == p.row = Cardinality(newlines_through(file, p.byte_offset))

ColIsRight(file, p) ==
    LET nls == newlines_through(file, p.byte_offset)
    IN  IF nls = {} THEN p.col = p.byte_offset
        ELSE \E nl \in nls : /\ \A i \in nls : i <= nl
                             /\ p.col = p.byte_offset - nl
=============================================================================
