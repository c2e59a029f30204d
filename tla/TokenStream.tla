----------------------------- MODULE TokenStream -----------------------------
(***************************************************************************)
(* SpanTracker over MultiPeekable (compiler-lib/src/spantracker.rs,        *)
(* compiler-lib/src/utils.rs): the token stream between lexer and parser.  *)
(*                                                                         *)
(* Looking ahead pulls tokens out of the lexer into a buffer; consuming    *)
(* takes them from its front.  The lexer runs exactly when the buffer is   *)
(* too short for a call.                                                   *)
(***************************************************************************)
EXTENDS Integers, Sequences

CONSTANTS
    Kind,            \* TokenKind
    EOF,             \* Err(EOF), and the absent prev_span
    MaxTokens,       \* bound on the number of tokens of a file
    MaxAhead         \* largest n the parser passes to peek_nth()

ASSUME StreamAssumption ==
    /\ MaxTokens \in Nat
    /\ MaxAhead \in Nat
    /\ EOF \notin Nat

VARIABLES
    input,           \* what the lexer would yield, without comments and blanks
    fatal,           \* whether a lexical error follows
    pulled,          \* how many tokens the lexer has yielded
    buffer,          \* MultiPeekable.buffer
    prev_span,       \* SpanTracker.prev_span
    asked,           \* how far ahead the last call looked
    ret,             \* what it returned
    exited           \* the lexer has met the error and ended the process

vars == <<input, fatal, pulled, buffer, prev_span, asked, ret, exited>>

\* Every token that was pulled and is not in the buffer has been consumed.
consumed == pulled - Len(buffer)

Cursor == INSTANCE TokenCursor

Init == /\ input \in Cursor!Inputs
        /\ fatal \in BOOLEAN
        /\ pulled = 0
        /\ buffer = <<>>
        /\ prev_span = EOF
        /\ asked = 0
        /\ ret = EOF
        /\ exited = FALSE

(***************************************************************************)
(* peek_multiple(n): the `for _ in buffer.len()..n` loop pulls the tokens  *)
(* the buffer lacks, stopping early at the end of the file.                *)
(***************************************************************************)
\* Mutant: the loop does not count what the buffer already holds.
AllMissing(n) == n

missing(n) == IF n <= Len(buffer) THEN 0 ELSE n - Len(buffer)
left == Len(input) - pulled

pull(n) == IF missing(n) <= left THEN missing(n) ELSE left

\* Mutant: the items are put in front of those already buffered.
FilledAtFront(n) == [i \in 1..pull(n) |-> Cursor!token(pulled + i)] \o buffer

filled(n) == buffer \o [i \in 1..pull(n) |-> Cursor!token(pulled + i)]

\* The loop asks for one token more than the lexer has.
lexes_error(n) == fatal /\ missing(n) > left

\* Mutant: the last buffered token stands in for one that is not there.
GetOrLast(buf, n) == IF buf = <<>> THEN EOF
                     ELSE IF n < Len(buf) THEN buf[n + 1] ELSE buf[Len(buf)]

\* slice::get(n)
get(buf, n) == IF n < Len(buf) THEN buf[n + 1] ELSE EOF

\* Mutant: the span is remembered when the token enters the buffer.
NextRemembersPulled ==
    /\ ~exited
    /\ ~lexes_error(1)
    /\ asked' = 0
    /\ LET buf == filled(1)
       IN  IF buf = <<>>
           THEN /\ ret' = EOF
                /\ UNCHANGED <<pulled, buffer, prev_span>>
           ELSE /\ ret' = Head(buf)
                /\ prev_span' = buf[Len(buf)].span
                /\ buffer' = Tail(buf)
                /\ pulled' = pulled + pull(1)
    /\ UNCHANGED <<input, fatal, exited>>

(***************************************************************************)
(* peek_nth(n); peek(), eof() and peek_span() are peek_nth(0).             *)
(***************************************************************************)
PeekNth(n) ==
    /\ ~exited
    /\ ~lexes_error(n + 1)
    /\ buffer' = filled(n + 1)
    /\ pulled' = pulled + pull(n + 1)
    /\ asked' = n
    /\ ret' = get(filled(n + 1), n)
    /\ UNCHANGED <<input, fatal, prev_span, exited>>

(***************************************************************************)
(* SpanTracker::next: peek, then remove the front of the buffer and        *)
(* remember its span.  At the end of the file the `?` leaves before that.  *)
(***************************************************************************)
NextToken ==
    /\ ~exited
    /\ ~lexes_error(1)
    /\ asked' = 0
    /\ LET buf == filled(1)
       IN  IF buf = <<>>
           THEN /\ ret' = EOF
                /\ UNCHANGED <<pulled, buffer, prev_span>>
           ELSE /\ ret' = Head(buf)
                /\ prev_span' = Head(buf).span
                /\ buffer' = Tail(buf)
                /\ pulled' = pulled + pull(1)
    /\ UNCHANGED <<input, fatal, exited>>

(***************************************************************************)
(* The lexer meets the lexical error while a call fills the buffer: the    *)
(* error is reported and the process exits, whatever is still buffered.    *)
(***************************************************************************)
Exit(n) ==
    /\ ~exited
    /\ lexes_error(n + 1)
    /\ asked' = n
    /\ exited' = TRUE
    /\ buffer' = filled(n + 1)
    /\ pulled' = pulled + pull(n + 1)
    /\ UNCHANGED <<input, fatal, prev_span, ret>>

Next == \/ NextToken
        \/ \E n \in 0..MaxAhead : PeekNth(n)
        \/ \E n \in 0..MaxAhead : Exit(n)

Spec == Init /\ [][Next]_vars
-----------------------------------------------------------------------------
TypeOK == /\ input \in Cursor!Inputs
          /\ fatal \in BOOLEAN
          /\ pulled \in 0..Len(input)
          /\ buffer \in Seq(Cursor!Token)
          /\ prev_span \in Nat \cup {EOF}
          /\ asked \in 0..MaxAhead
          /\ ret \in Cursor!Token \cup {EOF}
          /\ exited \in BOOLEAN

(***************************************************************************)
(* The buffer holds the tokens pulled last, in the order of the file: no   *)
(* mix of peeking and consuming loses, repeats or reorders a token         *)
(* (utils.rs:59-80).                                                       *)
(***************************************************************************)
BufferInv ==
    /\ Len(buffer) <= pulled
    /\ \A i \in 1..Len(buffer) : buffer[i] = Cursor!token(consumed + i)

(***************************************************************************)
(* prev_span() is the span of the token consumed last, never of one that   *)
(* was only looked at: the end of every node of the tree is taken from it  *)
(* (spantracker.rs:26-32, parser.rs:184-191).                              *)
(***************************************************************************)
PrevSpanInv == prev_span = IF consumed = 0 THEN EOF ELSE Cursor!token(consumed).span

(***************************************************************************)
(* Tokens are lexed on demand: never more than MaxAhead + 1 tokens beyond  *)
(* those the parser has consumed.  A lexical error hence ends the process  *)
(* only if the parser has come as close as that to it.                     *)
(***************************************************************************)
LazyInv == Len(buffer) <= MaxAhead + 1

(***************************************************************************)
(* The parser sees the cursor: the buffer shows nowhere in what the calls  *)
(* return, in prev_span() or in when the process exits.                    *)
(***************************************************************************)
ImplementsCursor == Cursor!CursorSpec
=============================================================================
