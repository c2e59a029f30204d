----------------------------- MODULE TokenCursor -----------------------------
(***************************************************************************)
(* What the parser relies on when it reads tokens: a cursor over the       *)
(* tokens of the file.  It can ask for the next token, look at the n-th    *)
(* token ahead without moving, and ask for the span of the token it        *)
(* consumed last.                                                          *)
(*                                                                         *)
(* The file may end in a lexical error instead of an end of file.  Tokens  *)
(* are lexed on demand and a lexical error ends the process                *)
(* (compiler-cli/src/main.rs), so a call that has to see beyond the last   *)
(* good token does not return.                                             *)
(***************************************************************************)
EXTENDS Integers, Sequences

CONSTANTS
    Kind,            \* TokenKind
    EOF,             \* Err(EOF), and the absent prev_span
    MaxTokens,       \* bound on the number of tokens of a file
    MaxAhead         \* largest n the parser passes to peek_nth()

VARIABLES
    input,           \* the tokens of the file; chosen once
    fatal,           \* a lexical error follows the tokens; chosen once
    consumed,        \* how many tokens next() has returned
    prev_span,       \* span of the last of them
    asked,           \* how far ahead the last call looked
    ret,             \* what it returned
    exited           \* the process has ended with a lexical error

cursorVars == <<input, fatal, consumed, prev_span, asked, ret, exited>>

Token == [kind : Kind, span : Nat]

\* A file is the sequence of the kinds of its tokens.
Inputs == UNION {[1..n -> Kind] : n \in 0..MaxTokens}

\* The i-th token has the i-th span: spans are disjoint and increase.
token(i) == [kind |-> input[i], span |-> i]

CursorInit == /\ input \in Inputs
              /\ fatal \in BOOLEAN
              /\ consumed = 0
              /\ prev_span = EOF
              /\ asked = 0
              /\ ret = EOF
              /\ exited = FALSE

\* The token n + 1 places ahead, EOF behind the last.
ahead(n) == IF consumed + n < Len(input) THEN token(consumed + n + 1) ELSE EOF

\* Seeing n + 1 tokens ahead means to lex behind the last good token.
hits_error(n) == fatal /\ consumed + n >= Len(input)

CursorPeek(n) == /\ ~exited
                 /\ ~hits_error(n)
                 /\ asked' = n
                 /\ ret' = ahead(n)
                 /\ UNCHANGED <<input, fatal, consumed, prev_span, exited>>

CursorNext == /\ ~exited
              /\ ~hits_error(0)
              /\ asked' = 0
              /\ ret' = ahead(0)
              /\ IF consumed < Len(input)
                 THEN /\ consumed' = consumed + 1
                      /\ prev_span' = token(consumed + 1).span
                 ELSE UNCHANGED <<consumed, prev_span>>
              /\ UNCHANGED <<input, fatal, exited>>

CursorExit(n) == /\ ~exited
                 /\ hits_error(n)
                 /\ asked' = n
                 /\ exited' = TRUE
                 /\ UNCHANGED <<input, fatal, consumed, prev_span, ret>>

CursorStep == \/ CursorNext
              \/ \E n \in 0..MaxAhead : CursorPeek(n) \/ CursorExit(n)

CursorSpec == CursorInit /\ [][CursorStep]_cursorVars
=============================================================================
