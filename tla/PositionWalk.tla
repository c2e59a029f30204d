---------------------------- MODULE PositionWalk ----------------------------
(***************************************************************************)
(* A cursor that walks a file with next_mut() and prev_mut(), in any order *)
(* a caller may choose (asciifile/position.rs, asciifile/iter.rs).         *)
(*                                                                         *)
(* The lexer walks forward only; get_line() walks back from wherever an    *)
(* error was found, so rows and columns computed on the way back have to   *)
(* agree with those computed on the way there.                             *)
(***************************************************************************)
EXTENDS Position

CONSTANT Files       \* the files that are walked

ASSUME FilesAssumption == Files \subseteq Seq(Char) \ {<<>>}

VARIABLES file,      \* the file; chosen once
          pos        \* the current Position

vars == <<file, pos>>

Init == /\ file \in Files
        /\ pos = at_file_start(file)

(***************************************************************************)
(* next_mut and prev_mut that succeed.  The failing calls return the       *)
(* position unchanged and are stuttering steps.                            *)
(***************************************************************************)
StepNext == /\ has_next(file, pos)
            /\ pos' = next_of(file, pos)
            /\ UNCHANGED file

\* Mutant: prev_mut() does not stop at the start of the file.
StepPrevUnguarded == pos' = prev_of(file, pos) /\ UNCHANGED file

StepPrev == /\ has_prev(file, pos)
            /\ pos' = prev_of(file, pos)
            /\ UNCHANGED file

Next == StepNext \/ StepPrev

Spec == Init /\ [][Next]_vars
-----------------------------------------------------------------------------
(***************************************************************************)
(* The position is a valid one: its offset lies in the file and neither    *)
(* `row -= 1` nor `col -= 1` has wrapped around below zero.                *)
(***************************************************************************)
TypeOK == /\ file \in Seq(Char) \ {<<>>}
          /\ pos \in PositionType
          /\ pos.byte_offset < Len(file)

(***************************************************************************)
(* Whatever mix of next() and prev() led here, the row is the number of    *)
(* newlines up to and including this character and the column its distance *)
(* from the last of them.  prev_mut() keeps no trace of the line it enters *)
(* backwards: it recomputes the column from the text (position.rs:172-191).*)
(***************************************************************************)
PositionInv == RowIsRight(file, pos) /\ ColIsRight(file, pos)

(***************************************************************************)
(* The list is doubly linked: prev() undoes next() and next() undoes       *)
(* prev(), rows and columns included (position.rs:3-6).                    *)
(***************************************************************************)
DoublyLinked ==
    /\ has_next(file, pos) => prev_of(file, next_of(file, pos)) = pos
    /\ has_prev(file, pos) => next_of(file, prev_of(file, pos)) = pos

(***************************************************************************)
(* get_line() returns the whole line and nothing but the line: the         *)
(* position lies in it, a newline is at most its last character, and       *)
(* neither end could be moved outwards (position.rs:241-263).  Its ends    *)
(* carry the rows and columns of those characters.                         *)
(***************************************************************************)
GetLineIsTheLine ==
    LET line == get_line(file, pos)
        s == line.start.byte_offset
        e == line.end.byte_offset
    IN  /\ s <= pos.byte_offset /\ pos.byte_offset <= e
        /\ \A i \in s..e - 1 : file[i + 1] # LF
        /\ s = 0 \/ file[s] = LF
        /\ e = Len(file) - 1 \/ file[e + 1] = LF
        /\ RowIsRight(file, line.start) /\ ColIsRight(file, line.start)
        /\ RowIsRight(file, line.end) /\ ColIsRight(file, line.end)
=============================================================================
