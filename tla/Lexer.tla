-------------------------------- MODULE Lexer --------------------------------
(***************************************************************************)
(* The lexer (compiler-lib/src/lexer.rs) and the string table it fills     *)
(* (compiler-lib/src/strtab.rs).                                           *)
(*                                                                         *)
(* Every call of next() turns the input at the cursor into one token, or   *)
(* into an error; one action per lex_* handler.  Every caller stops at the *)
(* first error (compiler-cli/src/main.rs:185-189, 282-290).  A span is     *)
(* kept as its two byte offsets, a character as a string of length one.    *)
(***************************************************************************)
EXTENDS Integers, Sequences, FiniteSets, FiniteSetsExt

CONSTANTS
    Letters,         \* 'a'..='z' | 'A'..='Z' | '_'
    Digits1,         \* '1'..='9'
    Blanks,          \* the characters is_minijava_whitespace accepts
    Keywords,        \* the words Keyword::try_from accepts
    Files            \* the files that are lexed

VARIABLES
    file,            \* the file, a sequence of characters; chosen once
    input,           \* offset of the next character; Len(file) at its end
    tokens,          \* the tokens returned so far
    strtab,          \* StringTable.entries: the address of each string
    warnings,        \* offsets of the "/*" warned about
    error,           \* the error returned, or NoError
    status           \* "lexing", "eof", "error" or "panicked"

vars == <<file, input, tokens, strtab, warnings, error, status>>

(***************************************************************************)
(* The operators, by length as in lex_operator (lexer.rs:524-586).         *)
(***************************************************************************)
OperatorCharacters ==
    {"!", "(", ")", "*", "+", ",", "-", ".", "/", ":", ";", "<", "=", ">", "?", "%",
     "&", "[", "]", "^", "{", "}", "~", "|"}

LongOperators ==
    {<<">", ">", ">", "=">>,
     <<"<", "<", "=">>, <<">", ">", "=">>, <<">", ">", ">">>,
     <<"!", "=">>, <<"*", "=">>, <<"+", "+">>, <<"+", "=">>, <<"-", "=">>,
     <<"-", "-">>, <<"/", "=">>, <<"<", "<">>, <<"<", "=">>, <<"=", "=">>,
     <<">", "=">>, <<">", ">">>, <<"%", "=">>, <<"&", "=">>, <<"&", "&">>,
     <<"^", "=">>, <<"|", "=">>, <<"|", "|">>}

Operators == LongOperators \cup {<<c>> : c \in OperatorCharacters}

ASSUME LexerAssumption ==
    /\ (Letters \cup Digits1 \cup Blanks) \cap (OperatorCharacters \cup {"0"}) = {}
    /\ Letters \cap (Digits1 \cup Blanks) = {} /\ Digits1 \cap Blanks = {}
    /\ \A w \in Keywords : w # <<>> /\ \A i \in DOMAIN w : w[i] \in Letters
    /\ Files \subseteq Seq(STRING)

-----------------------------------------------------------------------------
(***************************************************************************)
(* Reading ahead (asciifile/iter.rs).  at(o) is the character at offset o; *)
(* peek_at_most is shortened at the end of the file, matches is not.       *)
(***************************************************************************)
at(o) == file[o + 1]

text(from, to) == SubSeq(file, from + 1, to + 1)

peek_at_most(o, n) == text(o, Min({o + n, Len(file)}) - 1)

matches(o, wanted) == peek_at_most(o, Len(wanted)) = wanted

(***************************************************************************)
(* lex_while_multiple: where its loop stops, which is the first offset     *)
(* that fails the predicate, or the end of the file.                       *)
(***************************************************************************)
lex_while_multiple(failing) == IF failing = {} THEN Len(file) ELSE Min(failing)

lex_while(from, chars) == lex_while_multiple({o \in from..Len(file) - 1 : at(o) \notin chars})

(***************************************************************************)
(* StringTable::intern: a string that is new gets an address of its own.   *)
(***************************************************************************)
\* Mutant: every call inserts.
InternAlwaysNew(s) == [t \in DOMAIN strtab \cup {s} |->
                          IF t = s THEN Cardinality(DOMAIN strtab) + Len(tokens) + 1
                                   ELSE strtab[t]]

interned(s) == IF s \in DOMAIN strtab THEN strtab
               ELSE [t \in DOMAIN strtab \cup {s} |->
                        IF t = s THEN Cardinality(DOMAIN strtab) + 1 ELSE strtab[t]]

NoSymbol == 0
NoError == [kind |-> "none", start |-> 0, end |-> 0]

\* Mutant: the last character of the token is not consumed.
ReturnsBeforeEnd(kind, start, end, symbol) ==
    /\ tokens' = Append(tokens, [kind |-> kind, start |-> start, end |-> end,
                                 symbol |-> symbol])
    /\ input' = end
    /\ UNCHANGED <<file, error, status>>

\* The handler returns the token start..end and leaves the cursor behind it.
Returns(kind, start, end, symbol) ==
    /\ tokens' = Append(tokens, [kind |-> kind, start |-> start, end |-> end,
                                 symbol |-> symbol])
    /\ input' = end + 1
    /\ UNCHANGED <<file, error, status>>

Fails(kind, start, end) ==
    /\ error' = [kind |-> kind, start |-> start, end |-> end]
    /\ status' = "error"
    /\ UNCHANGED <<file, tokens, strtab>>

ReturnsSymbol(kind, start, end) ==
    /\ strtab' = interned(text(start, end))
    /\ Returns(kind, start, end, strtab'[text(start, end)])
    /\ UNCHANGED warnings

Peeked == status = "lexing" /\ input < Len(file)
-----------------------------------------------------------------------------
(***************************************************************************)
(* The handlers.  lex_token chooses one by the next character.             *)
(***************************************************************************)
lex_identifier_or_keyword ==
    /\ Peeked /\ at(input) \in Letters
    /\ LET end == lex_while(input, Letters \cup Digits1 \cup {"0"}) - 1
       IN  IF text(input, end) \in Keywords
           THEN /\ Returns("Keyword", input, end, NoSymbol)
                /\ UNCHANGED <<strtab, warnings>>
           ELSE ReturnsSymbol("Identifier", input, end)

lex_integer_literal ==
    /\ Peeked /\ at(input) \in Digits1
    /\ LET end == lex_while(input, Digits1 \cup {"0"}) - 1
       IN  ReturnsSymbol("IntegerLiteral", input, end)

lex_zero_integer_literal ==
    /\ Peeked /\ at(input) = "0"
    /\ ReturnsSymbol("IntegerLiteral", input, input)

lex_whitespace ==
    /\ Peeked /\ at(input) \in Blanks
    /\ LET end == lex_while(input, Blanks) - 1
       IN  Returns("Whitespace", input, end, NoSymbol)
    /\ UNCHANGED <<strtab, warnings>>

(***************************************************************************)
(* lex_comment.  The opening is consumed before lex_while_multiple looks   *)
(* at the next character, which the code takes to exist.  Every character  *)
(* of the body is looked at as the start of a further opening, and warned  *)
(* about while the body is being read.                                     *)
(***************************************************************************)
Opening == <<"/", "*">>
Closing == <<"*", "/">>

\* Mutant: the last character of the body is not looked at.
OpeningsButLast(from, to) == {o \in from..to - 1 : peek_at_most(o, 2) = Opening}

openings(from, to) == {o \in from..to : peek_at_most(o, 2) = Opening}

\* Mutant: lex_while_multiple(2, _) peeks exactly two characters.
TwoCharactersExist(o) == o + 1 < Len(file)

\* The peek().unwrap() lex_while_multiple starts with.
next_character_exists(o) == o < Len(file)

lex_comment ==
    /\ Peeked /\ matches(input, Opening)
    /\ LET body == input + 2
           stop == lex_while_multiple({o \in body..Len(file) - 1 :
                                          peek_at_most(o, 2) = Closing})
       IN  /\ warnings' = warnings \cup openings(body, stop - 1)
           /\ \/ /\ ~next_character_exists(body)
                 /\ status' = "panicked"
                 /\ input' = body
                 /\ UNCHANGED <<file, tokens, strtab, error>>
              \/ /\ next_character_exists(body) /\ stop = Len(file)
                 /\ Fails("UnclosedComment", input, stop - 1)
                 /\ input' = stop
              \/ /\ next_character_exists(body) /\ stop < Len(file)
                 /\ Returns("Comment", input, stop + 1, NoSymbol)
                 /\ UNCHANGED strtab

(***************************************************************************)
(* lex_operator tries four characters first, then three, two and one.      *)
(***************************************************************************)
\* Mutant: no operators of one character.
LongOperatorLengths == {n \in 2..4 : \E op \in Operators :
                                        Len(op) = n /\ peek_at_most(input, n) = op}

operator_lengths == {n \in 1..4 : \E op \in Operators :
                                     Len(op) = n /\ peek_at_most(input, n) = op}

OtherCharacter == /\ Peeked
                  /\ at(input) \notin Letters \cup Digits1 \cup Blanks \cup {"0"}
                  /\ ~matches(input, Opening)

\* Mutant: the shortest operator is tried first.
LexShortestOperator ==
    /\ OtherCharacter
    /\ operator_lengths # {}
    /\ Returns("Operator", input, input + Min(operator_lengths) - 1, NoSymbol)
    /\ UNCHANGED <<strtab, warnings>>

lex_operator ==
    /\ OtherCharacter
    /\ operator_lengths # {}
    /\ Returns("Operator", input, input + Max(operator_lengths) - 1, NoSymbol)
    /\ UNCHANGED <<strtab, warnings>>

\* The character that is no operator is not consumed.
unexpected_character ==
    /\ OtherCharacter
    /\ operator_lengths = {}
    /\ Fails("UnexpectedCharacter", input, input)
    /\ UNCHANGED <<input, warnings>>

\* Mutant: the end of an empty file is not noticed.
EndAfterToken ==
    /\ status = "lexing" /\ input = Len(file) /\ tokens # <<>>
    /\ status' = "eof"
    /\ UNCHANGED <<file, input, tokens, strtab, warnings, error>>

\* peek() is None.
end_of_input ==
    /\ status = "lexing" /\ input = Len(file)
    /\ status' = "eof"
    /\ UNCHANGED <<file, input, tokens, strtab, warnings, error>>

Init == /\ file \in Files
        /\ input = 0
        /\ tokens = <<>>
        /\ strtab = <<>>
        /\ warnings = {}
        /\ error = NoError
        /\ status = "lexing"

Next == \/ lex_identifier_or_keyword \/ lex_integer_literal
        \/ lex_zero_integer_literal \/ lex_whitespace \/ lex_comment
        \/ lex_operator \/ unexpected_character \/ end_of_input

Spec == Init /\ [][Next]_vars

\* cmd_lextest iterates the lexer to its end or its first error; a parser
\* may stop earlier, at a syntax error.
FairSpec == Spec /\ WF_vars(Next)
-----------------------------------------------------------------------------
Kinds == {"Keyword", "Operator", "Identifier", "IntegerLiteral", "Comment", "Whitespace"}

TypeOK ==
    /\ file \in Files
    /\ input \in 0..Len(file)
    /\ tokens \in Seq([kind : Kinds, start : Nat, end : Nat, symbol : Nat])
    /\ \A s \in DOMAIN strtab : strtab[s] \in Nat \ {NoSymbol}
    /\ warnings \subseteq 0..Len(file) - 1
    /\ error = NoError \/ error.kind \in {"UnclosedComment", "UnexpectedCharacter"}
    /\ status \in {"lexing", "eof", "error", "panicked"}

(***************************************************************************)
(* The tokens tile the file: nothing is skipped and nothing is read twice, *)
(* blanks and comments included, whatever handlers follow each other.      *)
(***************************************************************************)
Tiling ==
    LET begin(i) == IF i = 1 THEN 0 ELSE tokens[i - 1].end + 1
        n == Len(tokens)
    IN  /\ \A i \in 1..n : tokens[i].start = begin(i) /\ tokens[i].start <= tokens[i].end
        /\ status \in {"lexing", "eof"} => input = begin(n + 1)
        /\ status = "eof" => input = Len(file)
        /\ status = "error" => error.start = begin(n + 1)

(***************************************************************************)
(* The lexemes of the language, from the shape of the text alone.          *)
(***************************************************************************)
AllIn(s, S) == \A i \in DOMAIN s : s[i] \in S

IsWord(s) == s # <<>> /\ s[1] \in Letters /\ AllIn(s, Letters \cup Digits1 \cup {"0"})

IsComment(s) ==
    LET pair(i) == SubSeq(s, i, i + 1)
        n == Len(s)
    IN  /\ n >= 4 /\ pair(1) = Opening /\ pair(n - 1) = Closing
        /\ \A i \in 3..n - 2 : pair(i) # Closing

IsLexeme(kind, s) ==
    CASE kind = "Keyword"        -> s \in Keywords
      [] kind = "Identifier"     -> IsWord(s) /\ s \notin Keywords
      [] kind = "IntegerLiteral" -> s = <<"0">> \/ (/\ s # <<>> /\ s[1] \in Digits1
                                                   /\ AllIn(s, Digits1 \cup {"0"}))
      [] kind = "Whitespace"     -> s # <<>> /\ AllIn(s, Blanks)
      [] kind = "Operator"       -> s \in Operators
      [] kind = "Comment"        -> IsComment(s)

(***************************************************************************)
(* Maximal munch: each token is a lexeme of its kind, and no longer text   *)
(* that starts there is a lexeme of any kind.  The operators, the keywords *)
(* inside of longer words, literals with a leading zero and comments all   *)
(* find the longest lexeme by a different handler (lexer.rs:427-598).      *)
(***************************************************************************)
MaximalMunch ==
    \A i \in DOMAIN tokens :
        LET t == tokens[i]
        IN  /\ IsLexeme(t.kind, text(t.start, t.end))
            /\ \A end \in t.end + 1..Len(file) - 1, kind \in Kinds :
                   ~IsLexeme(kind, text(t.start, end))

(***************************************************************************)
(* An error is reported exactly where the file goes on with something that *)
(* is no lexeme: a character no lexeme starts with, or a comment that no   *)
(* text up to the end of the file closes; its span says which.  Only where *)
(* the file ends with the opening of a comment the lexer panics instead.   *)
(***************************************************************************)
ErrorIsRight ==
    LET starts_lexeme(end) == \E kind \in Kinds : IsLexeme(kind, text(error.start, end))
    IN  /\ status = "error" =>
               \/ /\ error.kind = "UnexpectedCharacter"
                  /\ error.end = error.start
                  /\ ~\E end \in error.start..Len(file) - 1 : starts_lexeme(end)
               \/ /\ error.kind = "UnclosedComment"
                  /\ text(error.start, error.start + 1) = Opening
                  /\ error.end = Len(file) - 1
                  /\ \A o \in error.start + 2..Len(file) - 2 : text(o, o + 1) # Closing
        /\ status = "panicked" => text(Len(file) - 2, Len(file) - 1) = Opening

(***************************************************************************)
(* The warnings are the comment openings inside of comments, those of a    *)
(* comment that turned out to be unclosed included (lexer.rs:487-495).     *)
(***************************************************************************)
WarningsAreRight ==
    LET bodies == {[from |-> tokens[i].start + 2, to |-> tokens[i].end - 2] :
                       i \in {j \in DOMAIN tokens : tokens[j].kind = "Comment"}}
                  \cup (IF error.kind = "UnclosedComment"
                        THEN {[from |-> error.start + 2, to |-> error.end - 1]} ELSE {})
    IN  warnings = UNION {{o \in b.from..b.to : text(o, o + 1) = Opening} : b \in bodies}

(***************************************************************************)
(* Two tokens carry the same symbol exactly if they have the same text: a  *)
(* symbol handed out earlier is never given to another string              *)
(* (strtab.rs:23-30).                                                      *)
(***************************************************************************)
SymbolsAreTexts ==
    \A i, j \in {k \in DOMAIN tokens : tokens[k].symbol # NoSymbol} :
        tokens[i].symbol = tokens[j].symbol
            <=> text(tokens[i].start, tokens[i].end) = text(tokens[j].start, tokens[j].end)

(***************************************************************************)
(* Lexing ends: every handler consumes a character or reports an error.    *)
(***************************************************************************)
LexingEnds == <>(status # "lexing")

(***************************************************************************)
(* "the code assumes that the next character is guaranteed to exist and is *)
(* consumed by the caller" (lexer.rs:603-605): lex_while_multiple is never *)
(* called at the end of the file.                                          *)
(***************************************************************************)
NextCharacterExists == status # "panicked"
=============================================================================
