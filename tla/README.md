# A TLA+ model of comprakt's MiniJava compiler front end

comprakt is a compiler for MiniJava written in Rust. At this commit it consists
of a front end: a file is split into characters with positions, lexed, parsed
into a syntax tree, and printed again; errors are reported with the source lines
they are about. This directory models that front end in TLA+, checks it with TLC
on small instances, and proves some of its properties with TLAPS.

## 1. The system

| component | code | state it keeps | operations |
|---|---|---|---|
| positions and lines | `asciifile/position.rs`, `iter.rs`, `file.rs` | row, column, offset of a cursor | `next`, `prev`, `get_line`, iterators |
| spans | `asciifile/span.rs` | first and last position | `new`, `combine`, `intersect`, `lines().numbered()` |
| diagnostics | `diagnostics.rs` | message counts, the terminal | `emit`, `write_statistics` |
| colour output | `color.rs` | the terminal's style | guards that set it and reset it when made and dropped |
| lexer | `lexer.rs` | cursor into the file | one handler per kind of token |
| string table | `strtab.rs` | set of interned strings | `intern` |
| token stream | `spantracker.rs`, `utils.rs` | lookahead buffer, span of the last token | `next`, `peek`, `peek_nth`, `prev_span` |
| expression parser | `parser.rs:528-743` | operand and operator stacks, the call stack | `parse_expression` and what it calls |
| statement parser | `parser.rs:288-526` | the call stack | `parse` down to `parse_statement` |
| pretty printer | `print/pretty.rs` | indentation, whether the next write indents | `print` |
| visitor, structure printer | `visitor.rs`, `print/structure.rs` | indentation | `for_each_child`, `print` |
| lexer test output | `print/lextest.rs` | - | the line of a token |
| driver | `compiler-cli/src/main.rs`, `context.rs` | message counts, exit status | the six commands, their early exits |
| semantic analysis | `sem.rs` | - | `check` is `unimplemented!()` |

The parts are connected by calls: the parser pulls tokens through the token
stream, which pulls them out of the lexer on demand; the lexer interns strings
and emits warnings while it runs ahead of the parser; the driver's filter in
between drops blanks and comments and ends the process at the first lexical
error (`main.rs:180-190`). There are no threads. What is hard to test is hence
not concurrency but

* sequences of calls: positions walked back and forth, peeking and consuming
  mixed, two stacks shared by three loops and re-entered through parentheses;
* boundaries: the newline that belongs to the row it opens, the last character,
  lookahead beyond the end of the file, comments that end with the file;
* what is relied upon and written only in comments: columns are monotone, the
  next character exists, only valid RPN is built;
* lookahead that runs the lexer, with its warnings and its exit, ahead of the
  parser;
* writes that fail in the middle of a message, a list of tokens or a tree, each
  treated in its own way: passed on, ignored, or unwrapped;
* two printers that list the children of every node by hand, one of which has to
  print what the parser reads back as the same program;
* guards on the terminal that nest, where the inner one resets what the outer one
  has set.

`PROJECT.json` lists these hazards at their lines, with the properties that
cover them.

### What makes each component correct

* Positions: row and column are those of the text, however one got there; `next`
  and `prev` are inverse; `get_line` is the whole line and nothing else.
* Diagnostics: every line of the span is printed once, in order, with the faulty
  cells underlined; no panic while an error is reported; `emit` returns.
* Colour output: every text has the style its own guard was asked for, and the
  terminal is plain after every message, complete or not.
* Lexer: the tokens tile the file, each is a longest lexeme; errors and warnings
  are reported where they are; equal symbols are equal texts; lexing ends.
* Token stream: it cannot be told from a cursor without a buffer.
* Parser: it returns for every input, trips no assertion, builds the tree the
  grammar gives, and accepts nothing else; an error is at the first wrong token.
* Pretty printer: its output is read back as the same tree and printed the same
  again; its braces align.
* Structure printer: a dump shows every node of the tree, in order, at its depth.
* Driver: what the exit status says of the file and the output holds, whichever
  write fails; a panic has one of three causes; one error, and the statistics
  behind it; every command ends.

## 2. The modules

| module | stands for | role |
|---|---|---|
| `Position` | `position.rs`, `iter.rs` | operators: `next_of`, `prev_of`, `get_line`, ... |
| `PositionWalk` | a cursor using them | state machine: `StepNext`, `StepPrev` |
| `Span` | `span.rs` | operators: construction, combination, intersection, queries, line iterator |
| `Interval` | what a span promises | abstract specification |
| `SpanWalk` | a span built along a walk | state machine; implements `Interval` |
| `ColorOutput` | `color.rs` | operators: the guards, functions as lists of what they do to the terminal |
| `Diagnostics` | `diagnostics.rs` | state machine: `emit` and every write of a message; extends `ColorOutput` |
| `Lexer` | `lexer.rs`, `strtab.rs` | state machine: one action per handler |
| `TokenCursor` | what the parser relies on | abstract specification |
| `TokenStream` | `spantracker.rs`, `utils.rs` | state machine; implements `TokenCursor` |
| `ExprParser` | `parser.rs:528-743` | state machine with an explicit call stack |
| `Parser` | `parser.rs:288-526` | state machine: classes, members, types, statements; extends `ExprParser` |
| `ExprRules` | `tasksheets/sheet2/sll_grammar.md:51-84` | the rules of expressions as operators on sets; what it is to be closed under them |
| `ExprGrammar` | the same | the reference: all expressions up to a length with their trees, built with these rules |
| `Rules` | `sll_grammar.md:13-49` | the rules of programs and statements, in the same form |
| `Grammar` | the same | the reference: all programs and statements up to a length with their trees |
| `Ast` | `ast.rs` | operators: which nodes there are, and sets of trees closed under parts |
| `PrettyPrinter` | `print/pretty.rs` | state machine: one action per arm of the match and per call of the writer |
| `StructurePrinter` | `print/structure.rs`, `visitor.rs` | state machine: the visit of a tree, with failing writes |
| `PrintAst` | `main.rs:206-240` | composition: print, parse, print again; or dump |
| `Driver` | `main.rs`, `context.rs` | state machine: the six commands |
| `MC*` | - | the inputs TLC enumerates |
| `*Proofs` | - | theorems |

`Span` extends `Position`, `Diagnostics` extends `Span` and `ColorOutput`; `TokenStream`
instantiates `TokenCursor` with the refinement mapping
`consumed == pulled - Len(buffer)`, `SpanWalk` instantiates `Interval` with the
offsets of the span's characters; `ExprRules` extends `ExprParser` and `Rules`
extends `Parser` for the tree constructors, and `ExprGrammar` and `Grammar` build
languages with their rules. `PrintAst` extends `PrettyPrinter` and instantiates
`Parser` and `StructurePrinter`. Operators prefixed by a comment `Mutant:` are not
part of the model: each is a wrong version of the definition after it, used to show
that a property can fail.

### Positions

A file is a non-empty sequence of characters and a position a record
`[row, col, byte_offset]`. The `None` of `next()` and `prev()` is a predicate
(`has_next`, `has_prev`). A newline has column 0 of the row *behind* it, so
`prev_of` has to find the newline before in order to know the column; the
subtractions of the code are subtractions of integers here, and `TypeOK` says
that none of them goes below zero.

### Spans

A span is a record of two positions, and everything asked about it is answered
from these. `SpanWalk` keeps one while its cursor walks the file: it is extended
to the cursor (the lexer's loops, `from_positions`), combined with any other span
(the parser's nodes) or intersected with one (the diagnostics). `Interval` is
what is meant: a non-empty set of characters without gaps.

### Diagnostics

A message goes through the states `description`, `gutter`, `line`, `underline`,
`end`, in the order of the writes of `Message::write`; `WriteFails` may happen in
each, as every write is followed by `?`. Of a printed line the number and the
terminal cells of the underline are kept. The subtraction of line 277 is checked
where the code would overflow: a debug build panics there, a release build wraps
around and panics in `"^".repeat`; both are the state `panicked`.

What a function does to the terminal is a list of calls (`New`, `Color`, `Bold`,
`Text`, `Drop`), and `run` performs it: making a guard and dropping one both reset
the terminal, and nothing restores the style of the guard around it. A write that
fails, and a panic, leave through the guards that are alive (`failed`,
`unwound`).

### Lexer

`input` is the offset of the cursor. Each handler is one action and reads ahead
with `lex_while_multiple`, whose loop is written as the first offset that fails
its predicate. `strtab` maps a string to a number that stands for the address of
its `Rc<str>`. The lexer stops at its first error, as all its callers do.

### Token stream

Tokens are numbered; `fatal` says that a lexical error follows the last one, in
which case the driver's filter exits as soon as a call needs a token the lexer
cannot give (`Exit`). In `TokenCursor` there is no buffer: a cursor that looks at
tokens, consumes them, and exits when a call has to see beyond the last good
token.

### Expression parser

The functions of the recursive descent are places (`at`) of the running
activation of `parse_binary_expression`; a recursive call pushes its locals on
`callers`, one of the four places that wait for an expression. Each action
consumes the tokens and makes the change of one step of the code: one unary
operator, one operand, one reduction, one postfix operation. A sequence of
`omnomnom`s in a row is one action (`omnomnom(<<...>>)`), and the action of its
failure (`Unexpected`) consumes the tokens up to the wrong one, as the code does.
Trees are kept in Polish notation, which makes them sequences over a finite set
of constructors. `Init` enters the parser by `return Expression ;`, the shortest
statement around an expression, which is how the expressions are checked and
proved about by themselves.

### Statement parser

`Parser` adds the functions above expressions as further places and further
reasons to wait: `parse_type` (called by members, parameters and declarations),
`parse_block` and `parse_statement_or_local_var`, whose flag
`allow_local_var_decl` is the place it was entered at. A call as the last step of
a function (the block of a statement, the arm of an `else`, the body of a
`while`) goes on in place of its caller, keeping what has been built; all others
suspend it. A statement that waits for an expression looks for the token behind
it by itself, so `NoEndOfExpression` is left to the places of the expression
parser. `ParseNext` is the next-state relation of both.

Names are left out of these trees: an identifier is one of two tokens, `String`,
which the main method asks for, and all others. Lists end with the token that
closes them, so that trees stay unambiguous.

### Printers

`PrettyPrinter` descends with an explicit list `todo` of nodes and calls of the
writer. Its output is a sequence of words, blanks, tabs and newlines, so a blank
that is missing shows: words that touch are one word to `Lexed`, and `- -` without
its blank is a decrement. Classes and members carry names, as the printer sorts
by them; the map of classes and the order of the members (methods before fields,
each by name) are `Sorts` and `less`. Variables, parameters and fields share one
name, and trees carry no spans. The loop over the statements of a block is a list of
rounds (`Rounds`), each of which prints a line or, of an empty statement, nothing.

`Ast` says what a tree is for both printers: records as the enums and structs of
`ast.rs` have them, and `Forest`, a set of such nodes that contains the parts of its
nodes. TLC checks by an assumption of `MCPrintAst` that the trees of the runs are one
(`TreesAreAForest`); the proofs ask for nothing else.

`StructurePrinter` visits a tree as `for_each_child` enumerates it and prints a
line per node: `todo` holds what is still to be visited, and `add(-2)` behind the
children of a node. The first line returns an error when its write fails; the lines of
children are written in a closure that unwraps (`structure.rs:116`), so there a
failure is a panic.

`PrintAst` is `cmd_printast` with either. For `--print-ast` it goes on as the
idempotence tests do: the text is lexed, `Parser` reads it, and the tree it builds
is printed again. The trees of `Parser` and of the printer differ in notation;
`Polish` translates one into the other, and the names are taken from the text.

### Driver

One command on one file. The other components are reduced to what the driver
sees of them: the lexer to what comes of it (token, blank, warning, fault), the
parser to the item it stops at (`wrong`) and how far it looks ahead behind it
(`Lookahead`), the printers to the number of their writes. There are three faults:
an error that is reported; an unclosed comment whose report panics behind its
description (finding 1); the opening of a comment at the end of the file, on which
the lexer panics (finding 2). Only an unclosed comment can have a span that begins
in the first line and reaches its newline: a token, an unexpected character and
the opening that is warned about stand in one line.

Every write may fail; what becomes of the failure is the code's: `--lextest` and
`echo` return it, `--print-ast` ignores it, `--debug-dumpast` returns that of the
first line and panics at the others, a message is counted whether or not it can be
told, and `main` panics with status 101 if it cannot tell the failure of a command.
`--check` ends in the `unimplemented!()` of `sem.rs`.

Nothing in the program flushes standard output, which the standard library
buffers by lines. What `cmd_echo` copies from behind the last newline waits in the
buffer until the process exits, where an error is ignored. In the library of the
compiler that `rust-toolchain` names, `LineWriter::write` also takes a write as
done when the flush at its newline fails, and reports the error at the next write;
so the last line of `--lextest` and of a dump can be lost in the same way (a later
library would report it at once, which the model allows too). `LosesUnnoticed` is
such a write: it succeeds, its piece is lost, and the next write fails (`due`). A
piece that is retried and arrives after all is one that `Writes` has written. A
write the library retries at the exit in vain is lost like one it never wrote.
`ExitStatusTells` hence promises the output of a successful command only up to its
last piece, and of `--print-ast` nothing.

## 3. The runs

| run | inputs | distinct states | shows |
|---|---|---|---|
| `span_walk` | all files of up to 7 characters over newline and another one, all walks and all spans | 36,362 | rows, columns and lines are right after any walk; spans implement `Interval` and answer as their text does |
| `diagnostics` | all files of up to 4 characters over two alphabets, all spans, two messages, failing writes | 169,329 | lines, underlines and numbers; colours; `emit` returns |
| `diagnostics_columns` | the same, one message | violated | finding 1 |
| `token_stream` | up to 5 tokens of two kinds, with and without an error, lookahead up to 2 | 4,411 | refinement of the cursor, lookahead bound |
| `lexer` | all files over four alphabets, 4 to 7 characters | 193,265 | tiling, longest match, errors, warnings, symbols |
| `lexer_panic` | files of up to 3 characters | violated | finding 2 |
| `expr_parser` | all beginnings of expressions of up to 8 tokens with every next token; all expressions of up to 7 tokens over one operator per level | 657,473 | trees and errors against the grammar; termination |
| `expr_parser_unary` | expressions of up to 4 tokens | violated | finding 3 |
| `parser` | one method with a body of up to 7 tokens (11 where statements only nest), two members, two classes; all beginnings of the shorter ones with every next token | 662,356 | trees and errors against the grammar; termination |
| `print_ast` | one method with expressions nested twice or statements nested three times; two members of all kinds, two classes, in any order of two names | 274,027 | the text is the program and is printed the same again; the dump is the tree |
| `print_ast_else` | the same | violated | finding 4 |
| `driver` | every command on every list of up to 4 items with the syntax error anywhere and either panicking comment at the end, and on unreadable files; every write may fail, at once or unnoticed | 184,347 | exit status, output and messages agree; the command ends |

**Bounds.** The file of the position walk holds three lines with empty ones
among them, so the line before, the first line and the last line all differ. Four
characters are enough for a span over three lines, for an underline that starts
behind a tab, and for the first line to end within the span. The stream's
lookahead of 2 is the largest `n` the parser passes to `peek_nth`; a file of five
tokens is longer than the buffer can become. The lexer's alphabets are chosen
for handlers that compete for the same characters; seven characters hold a
comment with an opening in it. Expressions of eight tokens hold a call within a
call, an index of a new array and a further dimension; seven tokens hold three
binary operators, hence every pair of neighbours on the stack below a third.
A body of seven tokens holds a declaration of an array with a value, or two
statements; eleven are the shortest nesting of two `if`s with one `else`
(`if (a) if (a) ; else ;`), where it matters to which of them it belongs. The
conditions and values are expressions of `ExprGrammar` of the lengths that fit.
What `BuildsTheTree` and `BuildsTheProgram` call `Derivable` is in these runs what
the rules derive up to the length of the files (`MCDerivable`).
Bodies, members and classes vary one at a time: their parsers meet only at the
call stack. The trees that are printed are those a parser can build
(`Unambiguous`: no `if` that would take the `else` of the one around it); a second
level of expressions makes every kind of node an operand of every other, three
levels of statements make the ifs and whiles between which an `else` can move, and
two names in either order make both sorts do something. A file of four items
holds a warning, an error and tokens on both sides of either.

**Fairness.** The program is sequential and each specification steps whenever
the code does: weak fairness of the whole next-state relation (`Lexer`,
`ExprParser`, `Parser`, `PrintAst`, `Driver`) or of the writes (`Diagnostics`) says only that a running function
goes on running. It is never assumed that a write fails or that a caller calls
again; `TokenStream` and `SpanWalk` have safety properties only.

**Deadlock.** The specifications of functions that return (`Lexer`,
`ExprParser`, `Parser`, `PrintAst`, `Driver`, `Diagnostics` after its last message) stop there, and their
configurations say so. For them the liveness property says that they stop in a
final state.

**Types.** The type invariants are conjuncts of the proved invariants (section 5)
and are not checked by the runs once more, but for `TypeOK` of `PositionWalk`, which
says that no subtraction goes below zero. The printers have none to check by
themselves: the proofs show the types they need from `Forest`.

## 4. Where the code and its comments differ

1. `diagnostics.rs:270` relies on the monotony of columns. The newline that ends
   the first line has column 0, so an error whose span starts later in the first
   line and reaches that newline makes the width of the underline negative: the
   compiler panics while it reports, for example, an unclosed comment behind
   other text in line 1. `PanicOnlyAtFirstNewline` shows that nothing else makes
   it panic.
2. `lexer.rs:603-605` takes the next character to exist. A file that ends in
   `/*` has none. `ErrorIsRight` shows, and `LexerErrorIsRight` proves, that only
   such files panic. In the driver this and the panic of 1 end a command with
   status 101 and without statistics (`ExitStatusTells`).
3. `parser.rs:598` applies unary operators in the order they were read, against
   `sll_grammar.md:60`: `-!x` becomes `!(-x)`. `BuildsTheTree` shows that all
   else is built as the grammar says.
4. `print/pretty.rs:224` does not print an empty `else`. Where it kept a later
   `else` away from an inner `if`, the printed program is another one: `if (a) if
   (b) ; else ; else c;` is printed with one `else`, which is then read as that of
   the inner `if`, against the idempotence that `integration.rs:188` tests.
   `ReadsBack` and `PrintsTheSameAgain` show that nothing else moves.

Two smaller ones are part of what the passing runs say, so that the rest of the
answers stays checked: `is_single_char` (`span.rs:100`) is true for spans of two
characters, as if the end of a span were exclusive (`AnswersAgree`), and the number
of an empty line, whose first character is its newline, is one too many against
`position.rs:109-111` (`RowsAreTheLinesOfTheSpan`).

## 5. What is proved

The proofs hold for every value of the constants under the named assumptions of
the modules (`LFAssumption`, `FilesAssumption`, `StreamAssumption`,
`LexerAssumption`, `DiagnosticsAssumption`): files of any length, any lookahead,
any set of token sequences, any letters, digits, blanks and keywords that do not
overlap with the operators, any width of a tab and of an escaped character, any
number of messages. The assumptions say that constants have their types, that a
file in which positions are taken is not empty and that `None` is no span.

* `PositionLemmas`, `PositionProofs`: `WalkTypeOK`, `WalkPositionInv`,
  `WalkDoublyLinked`. `PositionInv` and the type invariant are inductive
  together. Stepping back is the interesting case: the row of the position behind
  is one newline less, which needs the cardinality of the newlines up to an offset
  to change by exactly one, and its column is the distance to the newline `rfind`
  finds, which is shown to be the greatest of those before the offset. All else
  rests on what this gives: the position at an offset is unique (`AtIsUnique`), and
  an iterator visits every offset once (`IterVisits`, `ReverseIterVisits`).
  `WalkGetLine`: the loops of `get_line` stop at the last newline before and the
  first one behind, so what is between them is one line.
* `PositionProofs`, on spans: `SpanAnswersAgree`, `SpanImplementsInterval`. The
  invariant `SpanIInv` says that both ends of the span are positions of the file,
  in order. Two spans are equal when their offsets are, which makes every
  construction, combination and intersection that of the sets of characters: a step
  of `SpanWalk` is the step of `Interval` with the same name.
* `DiagnosticsProofs`: `DiagnosticsIInv`, and from it `DiagnosticsLines`,
  `DiagnosticsUnderlines`, `DiagnosticsPanic`, `DiagnosticsColours`. The inductive
  invariant has four parts. `LinesInv` says what the state between two writes
  means: the lines printed are the first ones of the span, and the next one is the
  line behind them. `UnderlinesInv` compares the code's count of cells, which is
  taken character by character, with a difference of two prefix sums over the file
  (`CellsAreADifference`), since the underline of one line is what the offsets of
  its ends say. `PanicOnlyAtFirstNewline` is the case where the difference is
  negative. `ColourInv` follows the guards in an abstraction of the terminal, the
  number of guards alive and whether the innermost one is known to be plain
  (`Fits`): each list of calls leads from one abstract state to another (`Brings`),
  and the prefix of it that is performed before a write fails leads to one from
  which dropping the guards leaves the terminal plain.
* `LexerProofs`: `LexerTypeOK`, `LexerTiling`, `LexerMaximalMunch`,
  `LexerErrorIsRight`, `LexerWarnings`, `LexerSymbols`. The loop of every handler
  stops at the longest lexeme of its kind (one lemma per handler), and the first
  character, for comments the first two, rules out the lexemes of the other
  kinds: with this each step of the lexer is one of five (lemma `Steps`), and the
  invariants are shown for these five only. `Tiling`, `MaximalMunch` and
  `ErrorIsRight` carry themselves; `SymbolsAreTexts` needs `Interned`, that the
  table is finite and one to one and that every token's symbol is still the one of
  its text; `WarningsAreRight` needs that no error has been returned while lexing
  goes on.
* `TokenStreamProofs`: `StreamBuffer`, `StreamPrevSpan`, `StreamLazy`,
  `StreamImplementsCursor`. The inductive invariant is `BufferInv` (the buffer
  is the segment of the file between what was consumed and what was pulled) with
  the types. Filling the buffer preserves it and does not change `consumed`,
  hence maps to a stutter or to the step of the cursor that returns the same
  token.
* `ParserProofs`, on expressions: `ParserTypeOK`, `ParserAssertionsHold`,
  `ParserPrecedence`. The assertions need a strengthening, `StackInv`: at every
  place of every activation the operand stack is exactly one longer than the
  operator stack, or as long, depending on whether an operand is due; the same
  holds of the suspended activations in `callers`. Then a reduction always finds
  two operands and one operand is left at the end. `PrecedenceInv` needs only
  that an operator is pushed when the top does not bind before it.
  `ParserProgress`: `ProgressInv` speaks of activations that return; the
  strengthening, `Progress`, adds that only an activation that waits for an operand
  may have consumed nothing yet. Each action does one of four things to the call
  stack (stay, call, return, call again for the next argument), and each of these
  preserves `Progress`.
* `ParserProofs`, on trees: `ParserBuildsTheTree`. Its hypothesis, `IsLanguage`, is
  about the grammar and says nothing of the code: `Derivable` is any assignment of sets of
  phrases (tokens with a tree) to the nonterminals that the rules do not lead out of.
  There are such languages (all phrases are one), and the expressions of the grammar are
  the phrases that are in all of them, so what the theorem says of each it says of the
  least one; no recursion is needed to state it. The inductive invariant, `Built`, says
  of every activation, running or suspended, that what it has read since it began is
  the beginning of an expression: operands with their operators behind them, each operand
  of a level that its operator takes on the left (`Operands`), then unary operators,
  then the tokens of a postfix expression (`Begun`), which for a suspended activation
  become one with whatever it waits for. A reduction is right since the operator on the
  stack takes on its right what has been reduced so far (`LastOperand`), and that needs
  `PrecedenceInv`, that the operators climb.
* `ParserProofs`, on whole programs: `ProgramTypes`, `ProgramAssertionsHold`,
  `ProgramPrecedence`, `ParserReturnsConsume`. The lemmas about expressions are
  stated for any set of functions that includes theirs (`Includes`), hence hold
  when statements call them. Every handler of a class, member, type or statement
  is shown to do one of five things (`Handled`: go on, call, return, fail,
  accept), and the invariant is shown for these five. It adds to that of the
  expressions who can have called whom (`Called`, `Nested`): what returns was
  called, and an expression calls nothing but expressions, without which a type
  could return into an argument list. `ReturnsConsume` is a property of a step:
  `Progress` gives it, where the places that may have consumed nothing yet
  (`Fresh`) now include a type, a block and a statement, and a call may begin where
  its caller did.
* `ParserProofs`, on the trees of whole programs: `ParserBuildsTheProgram`, for every
  language that is closed under the rules of programs (`IsProgramLanguage`), in the
  sense above. To `Built` the inductive invariant adds `WellBegun`, which says of every
  activation above the expressions what may come behind it (`Reached`): behind what a
  method body has read, any rest of a block leads to a phrase that any rest of the
  members follows, and so on up to the end of the file; what has been read of a nested
  statement is what can be put in front of a statement without changing whether that
  ends with an `if` that is left open (`BeginsStatement`). A suspended activation
  (`Awaits`) gets there with whatever its callee may return, which for the arm of an
  `if` depends on the token ahead (`Arms`): the statement may be one that ends with an
  open `if` only if no `else` follows. This is why an `else` goes to the innermost
  `if`, and it cannot be said of a single activation: an open statement is passed
  outwards through any number of `if`s and `while`s, and each of them relies on the
  token that the innermost has seen. The handlers of expressions touch nothing of it,
  since all that is between them and the statement that has called them are expressions
  (`Expecting`).
* `PrinterProofs`: `PrinterIndentation`, `DumpShowsEveryNode`, for any `Forest`.
  The code recurses over a tree and needs no induction over it here, since the
  invariants speak of what is left to do. That of the pretty printer (`PrintInv`) is
  that the items of `todo` lead from the present level to 0 (`Leads`: there are
  levels between them, each a natural number); an arm of the match replaces a node by
  items that can be done at any level and lead back to it (`Steady`), and items that
  lead from one level to another can be put behind each other (`LeadsConcat`). That
  of the dump (`DumpInv`) is about the lines whose nodes are not done (`Shape`): the
  stack of these lines, one inside the other and two columns apart, and for each of
  them the mark in `todo` where its `add(-2)` is. Between two marks are the children
  of a line that have not been visited (`Remaining`), above the last line the others
  are shown (`Written`). `IndentationBalances` and `DumpIsTheTree` are parts of the
  properties `BracesAlign` and `DumpShowsTheTree` that the run checks.
* `DriverProofs`: `DriverTypeOK`, `DriverExitStatus`, `DriverStdout`,
  `DriverOneError`. That status 0 means a right file is decided long before the
  exit: the inductive invariant says what is known at each place of the command
  (`Place`: what has been read without a fault, whether a write was lost and is
  `due`), that nothing but warnings has been told before the failure or the panic
  (`Told`), and that the numbers written are those of the tokens read so far, but
  for the last one while its failure is due (`Written`).

Model-checked only: all liveness properties, which are out of the prover's
reach; `ErrorIsReal` and `SyntaxErrorIsReal`, that what is refused begins
nothing the rules derive, which takes an induction over derivations; `ReadsBack`
and `PrintsTheSameAgain`, which are about what the parser makes of a printed
tree; of `BracesAlign`, that each closing brace stands below the line of its
opening one; of `DumpShowsTheTree`, that the kinds of the nodes shown are those
of the tree in its Polish notation. All but liveness need induction over data,
and `tlapm` loses its arithmetic in a module that declares a recursive operator.

## 6. What is left out, and the plan

Left out for good:

* the wording, padding and layout of messages, of dumps and of the lines of
  `--lextest`; the contents of the keyword table;
* failing terminal controls: `color.rs` ignores their result, and what the
  terminal shows afterwards is not the program's doing;
* memory mapping and the parsing of the command line, which are libraries', and
  the check for ASCII, of which the driver's model keeps the failure;
* a visit that its callback stops: `for_each_child` offers it, and ignores the
  callback's wish among the parameters of a method (`visitor.rs:115`), but its only
  caller never stops by a result;
* `sem.rs`, which is not implemented; the tests' code generator and `mjtest-rs`,
  which are no part of the compiler.

The plan, in order:

1. Spans of the trees: what `spanned!` and `Span::combine` give every node, as
   the numbers of its first and last token; each node contains its children, and
   an array access ends before its bracket (`parser.rs:639`).
2. Proofs: that the composition of `TokenStream` and the parser implements the
   parser over a plain cursor.
