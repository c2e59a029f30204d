----------------------------- MODULE Diagnostics -----------------------------
(***************************************************************************)
(* The diagnostics object (compiler-lib/src/diagnostics.rs): it counts the *)
(* messages of each level and writes each message with the source lines it *)
(* is about, the faulty part of every line underlined.                     *)
(*                                                                         *)
(* A message is written by a chain of writes to a terminal or a pipe, each *)
(* of which may fail; the first failure ends the message, and emit()       *)
(* swallows the error.  Wording and padding are left out; what is kept of  *)
(* a source line is its number, the terminal cells of its underline and    *)
(* the styles its parts are written in.                                    *)
(***************************************************************************)
EXTENDS Span, FiniteSetsExt, ColorOutput

CONSTANTS
    Tab,             \* '\t', printed as TAB_WIDTH spaces
    CR,              \* '\r', printed as nothing
    Control,         \* the control characters that are printed escaped
    TAB_WIDTH,
    ESCAPE_WIDTH,    \* the width of an escaped control character
    Files,           \* the files messages are about
    Levels,          \* the levels messages are emitted at
    None,            \* no span; no further line
    MaxMessages      \* bound on the number of messages

ASSUME DiagnosticsAssumption ==
    /\ Files \subseteq Seq(Char) \ {<<>>}
    /\ Levels \subseteq {"error", "warning", "info"}
    /\ {TAB_WIDTH, ESCAPE_WIDTH, MaxMessages} \subseteq Nat
    /\ None \notin [start : PositionType, end : PositionType]

VARIABLES
    file,            \* the file under compilation; chosen once
    message_count,   \* messages per level (message_count)
    level,           \* the level and the span of the message being written
    span,
    line_to_emit,    \* LineIterator's state: the line to be written next
    rows,            \* the lines written for this message
    screen,          \* the terminal: see ColorOutput
    pc               \* where write() is: "idle" outside of it, "panicked"

vars == <<file, message_count, level, span, line_to_emit, rows, screen, pc>>

Spans == spans(file)
-----------------------------------------------------------------------------
(***************************************************************************)
(* render_char: the number of terminal cells a character takes.            *)
(***************************************************************************)
rendered_width(c) == CASE c = Tab         -> TAB_WIDTH
                       [] c \in {CR, LF}  -> 0
                       [] c \in Control   -> ESCAPE_WIDTH
                       [] OTHER           -> 1

(***************************************************************************)
(* len_printed_before: the cells printed before the first position with    *)
(* column col, walking from the start of the line.  Nothing stops the walk *)
(* at the end of the line.                                                 *)
(***************************************************************************)
len_printed_before(line, col) ==
    LET walk == iter(file, line.start)
        hits == {k \in DOMAIN walk : walk[k].col = col}
        n    == IF hits = {} THEN Cardinality(DOMAIN walk) ELSE Min(hits)
        actual_column[k \in 0..n] ==
            IF k = 0 THEN 0
            ELSE actual_column[k - 1] + rendered_width(chr(file, walk[k - 1]))
    IN  actual_column[n]

\* Mutant: the line has to be longer than the column.
ColumnBeforeEndOnly(line, col) == col < Cardinality(offsets(line))

\* It returns None if the line is shorter than the column.
column_in_line(line, col) == col <= Cardinality(offsets(line))

\* Mutant: every character counts as one cell at the end of the underline.
LastCharIsOneCell(line, part) ==
    [lower |-> len_printed_before(line, part.start.col),
     upper |-> len_printed_before(line, part.end.col) + 1]

(***************************************************************************)
(* get_actual_columns: the cells of the underline, lower bound included,   *)
(* upper bound excluded.                                                   *)
(***************************************************************************)
get_actual_columns(line, part) ==
    [lower |-> len_printed_before(line, part.start.col),
     upper |-> len_printed_before(line, part.end.col)
                   + rendered_width(chr(file, part.end))]

columns_exist(line, part) == /\ column_in_line(line, part.start.col)
                             /\ column_in_line(line, part.end.col)

\* `unwrap()` finds the columns, `end_term_pos - start_term_pos` does not wrap.
width_exists(line, part) ==
    /\ columns_exist(line, part)
    /\ LET cols == get_actual_columns(line, part) IN cols.lower <= cols.upper

\* The line written last and the part of the span in it.
CurrentLine == Last(rows).line
FaultyPart  == intersect(span, CurrentLine)
-----------------------------------------------------------------------------
(***************************************************************************)
(* What each part of a message does to the terminal.                       *)
(***************************************************************************)
HIGHLIGHT_COLOR == "Cyan"

color(l) == CASE l = "error"   -> "Red"
              [] l = "warning" -> "Yellow"
              [] l = "info"    -> "Cyan"

In(c, part) == <<New, Color(c), Bold, Text(part), Drop>>

description == <<New, Color(color(level)), Bold, Text("level"),
                 Color("default"), Text("message"), Drop>>

spaces == In(HIGHLIGHT_COLOR, "gutter")

number == In(HIGHLIGHT_COLOR, "number")

\* render(): each character in its own colour, from the start to the end.
render(line) ==
    LET chars == SubSeq(file, line.start.byte_offset + 1, line.end.byte_offset + 1)
        color_of(c) == IF c \in Control THEN HIGHLIGHT_COLOR ELSE "default"
    IN  <<New>> \o [i \in 1..2 * Len(chars) |-> IF i % 2 = 1
                                             THEN Color(color_of(chars[(i + 1) \div 2]))
                                             ELSE Text("source")]
                \o <<Text("end of line"), Drop>>

\* What write() does next; write_code()'s own guard spans several steps.
NextCalls ==
    CASE pc = "description" -> description
      [] pc = "gutter"      -> <<New>> \o spaces \o <<Text("end of line")>>
      [] pc = "line"        -> IF line_to_emit = None THEN <<Drop>>
                               ELSE number \o render(line_to_emit)
      [] pc = "underline"   -> spaces \o In(color(level), "underline")
      [] pc = "end"         -> <<Text("end of message")>>
-----------------------------------------------------------------------------
Init == /\ file \in Files
        /\ message_count = [l \in Levels |-> 0]
        /\ level = None
        /\ span = None
        /\ line_to_emit = None
        /\ rows = <<>>
        /\ screen = fresh
        /\ pc = "idle"

Emitted == MapThenSumSet(LAMBDA l : message_count[l], Levels)

(***************************************************************************)
(* emit(): count the message, then start to write it.                      *)
(***************************************************************************)
Emit(l, s) ==
    /\ pc = "idle"
    /\ Emitted < MaxMessages
    /\ message_count' = [message_count EXCEPT ![l] = @ + 1]
    /\ level' = l
    /\ span' = s
    /\ screen' = [screen EXCEPT !.texts = {}]
    /\ pc' = "description"
    /\ UNCHANGED <<file, line_to_emit, rows>>

(***************************************************************************)
(* write() and write_description(): a message without a span has no code.  *)
(***************************************************************************)
WriteDescription ==
    /\ pc = "description"
    /\ screen' = run(screen, NextCalls)
    /\ pc' = IF span = None THEN "end" ELSE "gutter"
    /\ UNCHANGED <<file, message_count, level, span, line_to_emit, rows>>

\* write_code(): the empty line above the code; the line iterator is made.
WriteGutter ==
    /\ pc = "gutter"
    /\ line_to_emit' = first_line(file, span)
    /\ screen' = run(screen, NextCalls)
    /\ pc' = "line"
    /\ UNCHANGED <<file, message_count, level, span, rows>>

(***************************************************************************)
(* One turn of write_code()'s loop up to the columns of the underline: the *)
(* iterator moves on, the line and its number are written.                 *)
(***************************************************************************)
WriteLine ==
    /\ pc = "line"
    /\ line_to_emit # None
    /\ rows' = Append(rows, [line |-> line_to_emit, number |-> numbered(line_to_emit),
                             lower |-> 0, width |-> 0])
    /\ line_to_emit' = IF has_line_after(file, span, line_to_emit)
                       THEN line_after(file, line_to_emit) ELSE None
    /\ screen' = run(screen, NextCalls)
    /\ pc' = IF overlap(span, line_to_emit) THEN "underline" ELSE "line"
    /\ UNCHANGED <<file, message_count, level, span>>

\* Mutant: the width is subtracted without a check.
UncheckedWidth ==
    /\ pc = "underline"
    /\ LET cols == get_actual_columns(CurrentLine, FaultyPart)
       IN  rows' = [rows EXCEPT ![Len(rows)].lower = cols.lower,
                                ![Len(rows)].width = cols.upper - cols.lower]
    /\ screen' = run(screen, NextCalls)
    /\ pc' = "line"
    /\ UNCHANGED <<file, message_count, level, span, line_to_emit>>

\* The second half of the turn.
WriteUnderline ==
    /\ pc = "underline"
    /\ width_exists(CurrentLine, FaultyPart)
    /\ LET cols == get_actual_columns(CurrentLine, FaultyPart)
       IN  rows' = [rows EXCEPT ![Len(rows)].lower = cols.lower,
                                ![Len(rows)].width = cols.upper - cols.lower]
    /\ screen' = run(screen, NextCalls)
    /\ pc' = "line"
    /\ UNCHANGED <<file, message_count, level, span, line_to_emit>>

\* The width is usize, and the columns are unwrapped.  A release build lets
\* the width wrap and panics at the `repeat` of that length.
PanicAtUnderline ==
    /\ pc = "underline"
    /\ ~ width_exists(CurrentLine, FaultyPart)
    /\ \/ screen' = unwound(screen, <<>>)
       \/ screen' = unwound(screen, spaces \o <<New, Color(color(level)), Bold>>)
    /\ pc' = "panicked"
    /\ UNCHANGED <<file, message_count, level, span, line_to_emit, rows>>

\* Mutant: the loop ends at the end of the file only.
EndAtEofOnly ==
    /\ pc = "line"
    /\ line_to_emit = None
    /\ is_last(file, CurrentLine.end)
    /\ screen' = run(screen, NextCalls)
    /\ pc' = "end"
    /\ UNCHANGED <<file, message_count, level, span, line_to_emit, rows>>

\* The loop ends with the iterator, and write_code() returns.
EndOfCode ==
    /\ pc = "line"
    /\ line_to_emit = None
    /\ screen' = run(screen, NextCalls)
    /\ pc' = "end"
    /\ UNCHANGED <<file, message_count, level, span, line_to_emit, rows>>

\* Nothing of a message is left when emit() has returned.
Forget == /\ level' = None
          /\ span' = None
          /\ line_to_emit' = None
          /\ rows' = <<>>
          /\ pc' = "idle"
          /\ UNCHANGED <<file, message_count>>

\* write()'s last newline; emit() returns.
WriteEnd ==
    /\ pc = "end"
    /\ screen' = run(screen, NextCalls)
    /\ Forget

(***************************************************************************)
(* Any of the writes fails: `?` leaves write() and drops the guards,       *)
(* `ok()` in emit() drops the error.                                       *)
(***************************************************************************)
WriteFails ==
    /\ pc \notin {"idle", "panicked"}
    /\ pc = "underline" => width_exists(CurrentLine, FaultyPart)
    /\ \E n \in writes(NextCalls) : screen' = failed(screen, NextCalls, n)
    /\ Forget

(***************************************************************************)
(* write_statistics(): one line in bold, whose failure is ignored.         *)
(***************************************************************************)
errored == "error" \in Levels /\ message_count["error"] > 0

WriteStatistics ==
    /\ pc = "idle"
    /\ screen' = run(screen, <<New, Bold, Color(IF errored THEN color("error") ELSE "Green"),
                               Text("statistics"), Drop>>)
    /\ UNCHANGED <<file, message_count, level, span, line_to_emit, rows, pc>>

Write == \/ WriteDescription \/ WriteGutter \/ WriteLine \/ WriteUnderline
         \/ PanicAtUnderline \/ EndOfCode \/ WriteEnd

Next == \/ \E l \in Levels, s \in Spans \cup {None} : Emit(l, s)
        \/ Write
        \/ WriteFails
        \/ WriteStatistics

Spec == Init /\ [][Next]_vars

(***************************************************************************)
(* The program is sequential: a statement of write() that can be executed  *)
(* is executed.  Nothing forces a write to fail.                           *)
(***************************************************************************)
FairSpec == Spec /\ WF_vars(Write)
-----------------------------------------------------------------------------
(***************************************************************************)
(* The lines printed are the lines of the span, each once and in order:    *)
(* the first holds the start of the span, each begins where the one before *)
(* it ended, the iterator continues behind the last, and when the message  *)
(* is complete the last holds the end of the span (span.rs:251-275).  Its  *)
(* number counts the newlines up to its first character, so that an empty  *)
(* line, whose first character is its newline, has the number of the line  *)
(* behind it (position.rs:119).                                            *)
(***************************************************************************)
RowsAreTheLinesOfTheSpan ==
    LET line(i) == rows[i].line
        last == line(Len(rows))
    IN  /\ pc \in {"line", "underline"} =>
               (rows = <<>> => line_to_emit = first_line(file, span))
        /\ pc # "idle" /\ rows # <<>> =>
               /\ span.start.byte_offset \in offsets(line(1))
               /\ \A i \in 1..Len(rows) - 1 :
                      line(i + 1).start.byte_offset = line(i).end.byte_offset + 1
               /\ line_to_emit # None =>
                      line_to_emit.start.byte_offset = last.end.byte_offset + 1
               /\ pc = "end" => span.end.byte_offset \in offsets(last)
               /\ \A i \in DOMAIN rows :
                      rows[i].number =
                          1 + Cardinality(newlines_through(file, line(i).start.byte_offset))

(***************************************************************************)
(* The terminal cells of the characters at offsets from..to of a line that *)
(* starts at offset s, counted from the text.                              *)
(***************************************************************************)
cells(from, to) ==
    LET upto[o \in from - 1..to] ==
            IF o = from - 1 THEN 0 ELSE upto[o - 1] + rendered_width(file[o + 1])
    IN  upto[to]

UnderlineOf(row) ==
    LET part == offsets(row.line) \cap offsets(span)
    IN  /\ row.lower = cells(row.line.start.byte_offset, Min(part) - 1)
        /\ row.width = cells(Min(part), Max(part))

(***************************************************************************)
(* The part of the span in this line ends in the newline of the first line *)
(* of the file.  Columns are not monotone there: the newline has column 0, *)
(* like the first character of that line.                                  *)
(***************************************************************************)
EndsInFirstNewline(line) ==
    LET last == Max(offsets(line) \cap offsets(span))
    IN  file[last + 1] = LF /\ \A i \in 1..last : file[i] # LF

(***************************************************************************)
(* Every underline covers exactly the terminal cells of the part of the    *)
(* span in its line, tabs, escapes and invisible characters included       *)
(* (diagnostics.rs:346-431), wherever the faulty part does not end in the  *)
(* first newline of the file.                                              *)
(***************************************************************************)
UnderlineIsExact ==
    pc \in {"line", "end"} =>
        \A i \in DOMAIN rows :
            EndsInFirstNewline(rows[i].line) \/ UnderlineOf(rows[i])

(***************************************************************************)
(* Only there can the subtraction wrap, and the `unwrap()` on the columns  *)
(* never fails (diagnostics.rs:274-277).                                   *)
(***************************************************************************)
PanicOnlyAtFirstNewline ==
    pc = "panicked" => /\ EndsInFirstNewline(rows[Len(rows)].line)
                       /\ span.start.col > 0

(***************************************************************************)
(* emit() comes back: the line iterator reaches the end of the span.       *)
(***************************************************************************)
EmitReturns == pc # "idle" ~> pc \in {"idle", "panicked"}

(***************************************************************************)
(* "start_term_pos - end_term_pos >= 0, guranteed by monotony of columns"  *)
(* (diagnostics.rs:270): a message is written without a panic.             *)
(***************************************************************************)
ColumnsAreMonotone == pc # "panicked"

(***************************************************************************)
(* "you do not forget to reset the terminal colors" (color.rs:3): a guard  *)
(* resets the terminal under the guards around it, yet every text appears  *)
(* in the style its own guard was asked for, never in one that is left     *)
(* over, and the terminal is plain whenever emit() has returned, also      *)
(* after a failed write or a panic.                                        *)
(***************************************************************************)
ColoursAreKeptApart ==
    /\ \A text \in screen.texts : text.style = text.spec
    /\ pc \in {"idle", "panicked"} => screen.guards = <<>> /\ screen.terminal = Plain
=============================================================================
