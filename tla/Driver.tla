-------------------------------- MODULE Driver --------------------------------
(***************************************************************************)
(* The command line (compiler-cli/src/main.rs): one command on one file,   *)
(* from opening the file to the exit status, with the messages that are    *)
(* counted and told on the way (compiler-lib/src/diagnostics.rs).          *)
(*                                                                         *)
(* Every write to stdout or stderr may fail: the reader of a pipe may be   *)
(* gone, a disk full.  The lexer is reduced to the items it returns, the   *)
(* parser to the place where it stops, the printers to the number of their *)
(* writes; the other modules say what they do.  The panics they end in are *)
(* kept: that of module Lexer and that of module Diagnostics.              *)
(***************************************************************************)
EXTENDS Integers, Sequences, FiniteSets

Commands == {"echo", "--lextest", "--parsetest", "--print-ast", "--debug-dumpast", "--check"}

(***************************************************************************)
(* What comes of the lexer, item by item: a token, whitespace or a         *)
(* comment, the warning about a comment, or a fault.  There is an error    *)
(* that is reported; an unclosed comment that begins behind other text of  *)
(* the first line and reaches its newline, whose report panics behind its  *)
(* description (diagnostics.rs:277); and the opening of a comment at the   *)
(* end of the file, where the lexer panics (lexer.rs:628).                 *)
(***************************************************************************)
Faults == {"error", "unclosed", "opening"}

Items == {"token", "blank", "warned"} \cup Faults

CONSTANTS
    Files,           \* the files: see FilesAssumption
    Lookahead        \* tokens the parser looks at behind the one it rejects

(***************************************************************************)
(* io is "ok", or how setup_io fails; wrong is the number of the first     *)
(* item no program goes on with, behind the last one for a file that ends  *)
(* too early, 0 for a program.  The comments that panic end the file.  A   *)
(* file of a special file system may be read and not mapped; a directory   *)
(* is opened and neither read nor mapped.                                  *)
(***************************************************************************)
FilesAssumption ==
    /\ Files \subseteq [io : {"ok", "missing", "directory", "unmappable", "not ascii"},
                        items : Seq(Items), wrong : Nat]
    /\ \A f \in Files :
           /\ \/ f.wrong \in {0, Len(f.items) + 1}
              \/ f.wrong \in DOMAIN f.items /\ f.items[f.wrong] = "token"
           /\ \A i \in DOMAIN f.items :
                  f.items[i] \in {"unclosed", "opening"} => i = Len(f.items)
    /\ Lookahead \in Nat

ASSUME FilesAssumption

VARIABLES
    command, file,   \* chosen once
    pc,              \* where the command is
    read,            \* items taken from the lexer
    stdout,          \* the numbers of what is written, in order
    written,         \* writes tried so far
    lost,            \* a write to stdout has failed
    due,             \* the last one has, and has not said so yet
    errors, warnings,    \* message_count
    stderr,          \* what is told
    status           \* the exit status; -1 while the command runs

messages == <<errors, warnings, stderr>>
output == <<stdout, written, lost, due>>
vars == <<command, file, pc, read, output, messages, status>>

Init == /\ command \in Commands
        /\ file \in Files
        /\ pc = "setup"
        /\ read = 0
        /\ stdout = <<>>
        /\ written = 0
        /\ lost = FALSE
        /\ due = FALSE
        /\ errors = 0
        /\ warnings = 0
        /\ stderr = <<>>
        /\ status = -1

At(where) == pc = where /\ status = -1
Exit(code) == status' = code /\ UNCHANGED pc
Goto(where) == pc' = where /\ UNCHANGED status

-----------------------------------------------------------------------------
(***************************************************************************)
(* Writing number n to stdout.  What is behind the last newline waits in   *)
(* the library's line buffer, and nothing in the program flushes it.  When *)
(* a newline flushes the buffer in vain, the library the program is built  *)
(* with (rust-toolchain: nightly-2018-10-14) reports that write as done    *)
(* and fails at the next one.  So a failed write may succeed for its       *)
(* caller; it then shows at the next write, and if there is none, the      *)
(* buffer is written at the exit of the process, which ignores the error.  *)
(***************************************************************************)
Writes(n) == /\ ~due
             /\ stdout' = Append(stdout, n)
             /\ written' = written + 1
             /\ UNCHANGED <<lost, due>>

LosesUnnoticed == /\ ~due
                  /\ lost' = TRUE /\ due' = TRUE
                  /\ written' = written + 1
                  /\ UNCHANGED stdout

Loses == /\ lost' = TRUE /\ due' = FALSE
         /\ written' = written + 1
         /\ UNCHANGED stdout

\* The write returns Ok.
Succeeds(n) == Writes(n) \/ LosesUnnoticed

(***************************************************************************)
(* A message to stderr, which is not buffered.  It counts even if it       *)
(* cannot be written.  A token and the opening of a comment are in one     *)
(* line, so neither a syntax error nor a warning has a span that panics.   *)
(***************************************************************************)
Tells(message) == stderr' \in {stderr, Append(stderr, message)}

Error == errors' = errors + 1 /\ Tells("error") /\ UNCHANGED warnings
Warning == warnings' = warnings + 1 /\ Tells("warning") /\ UNCHANGED errors

(***************************************************************************)
(* The error of a command is printed at the end; if that fails main panics *)
(* with status 101 instead of 1.                                           *)
(***************************************************************************)
ExitWithError ==
    /\ At("failed")
    /\ \/ stderr' = Append(stderr, "failure") /\ Exit(1)
       \/ Exit(101) /\ UNCHANGED stderr
    /\ UNCHANGED <<command, file, read, output, errors, warnings>>

\* write_statistics, and exit(1).
ExitWithStatistics ==
    /\ At("statistics")
    /\ Tells(IF errors > 0 THEN "aborted" ELSE "finished")
    /\ Exit(1)
    /\ UNCHANGED <<command, file, read, output, errors, warnings>>

-----------------------------------------------------------------------------
(***************************************************************************)
(* cmd_echo copies the file as it is; setup_io opens it, maps it, an empty *)
(* one too, and refuses what is not ASCII.                                 *)
(***************************************************************************)
Setup == /\ At("setup")
         /\ Goto(IF command = "echo" THEN IF file.io = "missing" THEN "failed" ELSE "echo"
                 ELSE IF file.io # "ok" THEN "failed"
                 ELSE IF command = "--lextest" THEN "lex" ELSE "parse")
         /\ UNCHANGED <<command, file, read, output, messages>>

Copied == written = Len(file.items)

Echo == /\ At("echo")
        /\ \/ file.io = "directory" /\ Goto("failed") /\ UNCHANGED output
           \/ file.io # "directory" /\ Copied /\ Exit(0) /\ UNCHANGED output
           \/ file.io # "directory" /\ ~Copied
              /\ \/ Succeeds(written + 1) /\ UNCHANGED <<pc, status>>
                 \/ Loses /\ Goto("failed")
        /\ UNCHANGED <<command, file, read, messages>>

item == file.items[read + 1]
Takes(expected) == read < Len(file.items) /\ item \in expected /\ read' = read + 1

(***************************************************************************)
(* The lexer comes to a fault: it panics before it returns; the error is   *)
(* reported and the statistics follow; or the report panics when its       *)
(* description is written, unless a write fails in between.                *)
(***************************************************************************)
Fault == \/ item = "opening" /\ Exit(101) /\ UNCHANGED messages
         \/ item # "opening" /\ Error /\ Goto("statistics")
         \/ item = "unclosed" /\ Error /\ stderr' # stderr /\ Exit(101)

(***************************************************************************)
(* cmd_lextest: one token to a line, up to the first error.                *)
(***************************************************************************)
\* Mutant: the error of a write is ignored.
LextestIgnores ==
    /\ At("lex")
    /\ Takes({"token"})
    /\ Succeeds(read + 1) \/ Loses
    /\ UNCHANGED <<command, file, pc, status, messages>>

LextestToken ==
    /\ At("lex")
    /\ Takes({"token"})
    /\ \/ Succeeds(read + 1) /\ UNCHANGED <<pc, status>>
       \/ Loses /\ Goto("failed")
    /\ UNCHANGED <<command, file, messages>>

\* Mutant: lexing goes on behind an error.
LextestGoesOn == /\ At("lex")
                 /\ Takes(Faults)
                 /\ Error
                 /\ UNCHANGED <<command, file, pc, status, output>>

LextestError == /\ At("lex")
                /\ Takes(Faults)
                /\ Fault
                /\ UNCHANGED <<command, file, output>>

\* Mutant: the end of an empty file is not noticed.
EndAfterItem == /\ At("lex")
                /\ read > 0 /\ read = Len(file.items)
                /\ \/ Succeeds(read + 1) /\ Exit(0)
                   \/ Loses /\ Goto("failed")
                /\ UNCHANGED <<command, file, read, messages>>

LextestEnd == /\ At("lex")
              /\ read = Len(file.items)
              /\ \/ Succeeds(read + 1) /\ Exit(0)
                 \/ Loses /\ Goto("failed")
              /\ UNCHANGED <<command, file, read, messages>>

-----------------------------------------------------------------------------
(***************************************************************************)
(* The parser asks the filtered lexer for tokens: a lexical error ends the *)
(* command while the parser waits, a comment with a warning does not.      *)
(***************************************************************************)
TokensBehind(n) == Cardinality({i \in (n + 1)..read : file.items[i] = "token"})

Wanted == file.wrong = 0 \/ read < file.wrong \/ TokensBehind(file.wrong) < Lookahead

ParserPulls == /\ At("parse") /\ Wanted
               /\ Takes({"token"})
               /\ UNCHANGED <<command, file, pc, status, output, messages>>

LexicalError == /\ At("parse") /\ Wanted
                /\ Takes(Faults)
                /\ Fault
                /\ UNCHANGED <<command, file, output>>

\* What both loops do not see: the lexer returns it, the filter drops it.
Dropped == /\ \/ At("lex")
              \/ At("parse") /\ Wanted
           /\ \/ Takes({"blank"}) /\ UNCHANGED messages
              \/ Takes({"warned"}) /\ Warning
           /\ UNCHANGED <<command, file, pc, status, output>>

SyntaxError == /\ At("parse")
               /\ file.wrong # 0
               /\ \/ read = Len(file.items)
                  \/ read >= file.wrong /\ file.items[read] = "token"
               /\ Error
               /\ Goto("statistics")
               /\ UNCHANGED <<command, file, read, output>>

(***************************************************************************)
(* The program is parsed.  The checker of --check is not implemented and   *)
(* panics.                                                                 *)
(***************************************************************************)
Parsed == /\ At("parse")
          /\ file.wrong = 0 /\ read = Len(file.items)
          /\ CASE command = "--parsetest" -> Exit(0)
               [] command = "--check"     -> Exit(101)
               [] OTHER                   -> Goto("print")
          /\ UNCHANGED <<command, file, read, output, messages>>

-----------------------------------------------------------------------------
(***************************************************************************)
(* The printers.  --print-ast ignores a write that fails; --debug-dumpast, *)
(* which writes at least the line of the root, returns the error of that   *)
(* line and panics at the others.                                          *)
(***************************************************************************)
Pieces == IF command = "--print-ast" THEN Len(file.items) ELSE Len(file.items) + 1

PrintPiece == /\ At("print")
              /\ written < Pieces
              /\ Succeeds(written + 1)
              /\ UNCHANGED <<command, file, pc, read, messages, status>>

PrettyPrintLoses == /\ At("print") /\ command = "--print-ast"
                    /\ written < Pieces
                    /\ Loses
                    /\ UNCHANGED <<command, file, pc, read, messages, status>>

\* Mutant: the closure ignores the error of a child.
DumpIgnores == /\ At("print") /\ command = "--debug-dumpast"
               /\ written < Pieces
               /\ Loses
               /\ IF written = 0 THEN Goto("failed") ELSE UNCHANGED <<pc, status>>
               /\ UNCHANGED <<command, file, read, messages>>

DumpFails == /\ At("print") /\ command = "--debug-dumpast"
             /\ written < Pieces
             /\ Loses
             /\ IF written = 0 THEN Goto("failed") ELSE Exit(101)
             /\ UNCHANGED <<command, file, read, messages>>

Printed == /\ At("print")
           /\ written = Pieces
           /\ Exit(0)
           /\ UNCHANGED <<command, file, read, output, messages>>

-----------------------------------------------------------------------------
Next == \/ Setup \/ Echo \/ ExitWithError \/ ExitWithStatistics
        \/ LextestToken \/ LextestError \/ LextestEnd \/ Dropped
        \/ ParserPulls \/ LexicalError \/ SyntaxError \/ Parsed
        \/ PrintPiece \/ PrettyPrintLoses \/ DumpFails \/ Printed

Spec == Init /\ [][Next]_vars

\* A sequential program goes on while it can.
FairSpec == Spec /\ WF_vars(Next)
-----------------------------------------------------------------------------
TypeOK == /\ command \in Commands
          /\ file \in Files
          /\ pc \in {"setup", "echo", "lex", "parse", "print", "failed", "statistics"}
          /\ read \in 0..Len(file.items)
          /\ stdout \in Seq(Nat)
          /\ written \in Nat
          /\ lost \in BOOLEAN /\ due \in BOOLEAN
          /\ errors \in Nat /\ warnings \in Nat
          /\ stderr \in Seq({"error", "warning", "failure", "aborted", "finished"})
          /\ status \in {-1, 0, 1, 101}

Exited == status # -1

HasLexicalError == \E i \in DOMAIN file.items : file.items[i] \in Faults

\* What the command asks of the file holds.
Right == CASE command = "echo"      -> file.io \notin {"missing", "directory"}
           [] command = "--lextest" -> file.io = "ok" /\ ~HasLexicalError
           [] OTHER                 -> file.io = "ok" /\ ~HasLexicalError /\ file.wrong = 0

\* The numbers up to n of the full output, and the last one of it.
OutputBefore(n) == IF command = "--lextest"
                   THEN {i \in 1..n : i = Len(file.items) + 1 \/ file.items[i] = "token"}
                   ELSE 1..n

LastPiece == CASE command = "echo"      -> Len(file.items)
               [] command = "--lextest" -> Len(file.items) + 1
               [] command \in {"--print-ast", "--debug-dumpast"} -> Pieces
               [] OTHER                 -> 0

Shown(s) == {s[i] : i \in DOMAIN s}

\* The panics of the lexer and of a report, at the item taken last.
AtPanickingComment == read > 0 /\ file.items[read] \in {"unclosed", "opening"}

OnlyWarned == \A i \in DOMAIN stderr : stderr[i] = "warning"

(***************************************************************************)
(* What can be concluded from the exit status (main.rs:92-118, 128-137,    *)
(* 170-311):                                                               *)
(*  - the status 0: the file is what the command asks for and all of the   *)
(*    output is out, up to its last piece, which may have been in the      *)
(*    buffer; only --print-ast says so of an output with other holes;      *)
(*  - a file that is right and no failed write lead to the status 0, for   *)
(*    --print-ast whatever writes fail, but for --check;                   *)
(*  - a panic (101) is that of the missing checker, that of a comment on   *)
(*    which the lexer or its report panics, or comes of a failure that     *)
(*    could not be told or not be returned, and then of no error: nothing  *)
(*    but warnings was told.                                               *)
(***************************************************************************)
ExitStatusTells ==
    Exited =>
        /\ status = 0 =>
              /\ Right /\ command # "--check"
              /\ command # "--print-ast" => OutputBefore(LastPiece - 1) \subseteq Shown(stdout)
        /\ Right /\ command # "--check" /\ (lost => command = "--print-ast") => status = 0
        /\ status = 101 =>
              \/ command = "--check" /\ Right
              \/ AtPanickingComment
              \/ (file.io # "ok" \/ lost) /\ OnlyWarned

(***************************************************************************)
(* What has come to stdout is the beginning of the full output, without a  *)
(* hole but for --print-ast, and nothing follows a write that failed: the  *)
(* tokens in front of the first lexical error and the end of the file only *)
(* behind all of them; nothing of a tree unless the whole file was right   *)
(* (main.rs:206-311).                                                      *)
(***************************************************************************)
StdoutIsABeginning ==
    /\ \A i, j \in DOMAIN stdout : i < j => stdout[i] < stdout[j]
    /\ stdout # <<>> /\ command # "--print-ast" =>
           Shown(stdout) = OutputBefore(stdout[Len(stdout)])
    /\ stdout # <<>> /\ command \in {"--print-ast", "--debug-dumpast"} => Right
    /\ status = 0 /\ ~lost /\ command = "--lextest" =>
           stdout[Len(stdout)] = Len(file.items) + 1

(***************************************************************************)
(* The first error is the only one: it leads to the statistics, or its     *)
(* report panics.  The statistics are the last to be told, of a            *)
(* compilation that is aborted: "n errors" and "finished successfully" are *)
(* never said (diagnostics.rs:126-154, main.rs:185-190, 285-291).          *)
(***************************************************************************)
OneError ==
    /\ errors <= 1
    /\ pc = "statistics" => errors = 1
    /\ errors = 1 => pc = "statistics" \/ status = 101
    /\ \A i \in DOMAIN stderr :
           /\ stderr[i] # "finished"
           /\ stderr[i] = "aborted" => errors = 1 /\ i = Len(stderr)
           /\ stderr[i] = "error" => \A j \in (i + 1)..Len(stderr) : stderr[j] = "aborted"

(***************************************************************************)
(* Every command ends, with whatever file and whatever fails.              *)
(***************************************************************************)
CommandEnds == <>Exited
=============================================================================
