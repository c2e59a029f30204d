------------------------------- MODULE MCLexer -------------------------------
(***************************************************************************)
(* Lexer on every file of bounded length over four small alphabets, each   *)
(* chosen for handlers that compete for the same characters.               *)
(***************************************************************************)
EXTENDS Lexer

CONSTANTS CommentLen, OperatorLen, WordLen, MixedLen

StringsOver(S, n) == UNION {[1..k -> S] : k \in 0..n}

MCKeywords == {<<"i", "f">>, <<"d", "o">>}

\* Comments, nested and overlapping delimiters, division, `*=` and `/=`.
CommentFiles == StringsOver({"/", "*", "i", "="}, CommentLen)

\* Shifts, comparisons and assignments that are prefixes of each other.
OperatorFiles == StringsOver({">", "<", "=", "!"}, OperatorLen)

\* Keywords, words that contain them, literals and leading zeros.
WordFiles == StringsOver({"i", "f", "1", "0", " "}, WordLen)

\* Everything at once, with characters that start no token.
MixedFiles == StringsOver({"i", "f", "0", " ", "&", "|", "/", "*", "$"}, MixedLen)

MCFiles == CommentFiles \cup OperatorFiles \cup WordFiles \cup MixedFiles
==============================================================================
