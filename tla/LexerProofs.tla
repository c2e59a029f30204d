------------------------------ MODULE LexerProofs ------------------------------
(***************************************************************************)
(* Proofs about Lexer, for every set of files, letters, digits, blanks and *)
(* keywords that LexerAssumption allows.                                   *)
(*                                                                         *)
(* The argument: each handler's loop stops at the longest lexeme of its    *)
(* kind (the *IsLongest lemmas), and the first character rules out the     *)
(* lexemes of the other kinds.  So every step of the lexer is one of five  *)
(* (lemma Steps): it appends a longest lexeme, fails at a character, fails *)
(* at a comment that is not closed, panics, or finds the end.  The         *)
(* invariants are then shown for these five and not for the handlers.      *)
(***************************************************************************)
EXTENDS Lexer, SequenceTheorems, FiniteSetTheorems, WellFoundedInduction, TLAPS

(***************************************************************************)
(* The least of some numbers is one of them, and so is the greatest of     *)
(* some numbers up to four.                                                *)
(***************************************************************************)
LEMMA MinIs ==
    ASSUME NEW S \in SUBSET Nat, S # {}
    PROVE  Min(S) \in S /\ \A x \in S : Min(S) <= x
<1>1. PICK m \in S : \A y \in S : ~(<<y, m>> \in OpToRel(<, Nat))
  BY WFMin, NatLessThanWellFounded
<1>2. \A y \in S : ~(y < m)
  BY <1>1 DEF OpToRel
<1>3. \A y \in S : m <= y
  BY <1>2
<1> QED
  BY <1>3 DEF Min

LEMMA MaxOfFour ==
    ASSUME NEW S \in SUBSET (1..4), S # {}
    PROVE  Max(S) \in S /\ \A x \in S : x <= Max(S)
<1>1. \A x \in S : x = 1 \/ x = 2 \/ x = 3 \/ x = 4
  OBVIOUS
<1>2. \E m \in S : \A y \in S : m >= y
  <2>1. CASE 4 \in S
    BY <1>1, <2>1
  <2>2. CASE 4 \notin S /\ 3 \in S
    BY <1>1, <2>2
  <2>3. CASE 4 \notin S /\ 3 \notin S /\ 2 \in S
    BY <1>1, <2>3
  <2>4. CASE 4 \notin S /\ 3 \notin S /\ 2 \notin S
    <3>1. PICK x \in S : TRUE
      OBVIOUS
    <3>2. x = 1 /\ \A y \in S : x >= y
      BY <1>1, <2>4
    <3> QED
      BY <3>2
  <2> QED
    BY <2>1, <2>2, <2>3, <2>4
<1>3. \A y \in S : Max(S) >= y
  BY <1>2 DEF Max
<1>4. Max(S) \in S
  BY <1>2 DEF Max
<1> QED
  BY <1>1, <1>3, <1>4

LEMMA MinOfTwo ==
    ASSUME NEW a \in Nat, NEW b \in Nat
    PROVE  Min({a, b}) = IF a <= b THEN a ELSE b
  BY MinIs

-----------------------------------------------------------------------------
(***************************************************************************)
(* The characters; three are named for the provers, which know of no       *)
(* string that it is one.                                                  *)
(***************************************************************************)
Character == STRING \cup {"0", "/", "*"}

LEMMA FileIs == \A f \in Files : f \in Seq(Character) /\ Len(f) \in Nat
<1> SUFFICES ASSUME NEW f \in Files PROVE f \in Seq(Character) /\ Len(f) \in Nat
  OBVIOUS
<1>1. f \in Seq(STRING)
  BY LexerAssumption
<1>2. STRING \subseteq Character
  BY Zenon DEF Character
<1>3. f \in Seq(Character)
  BY <1>1, <1>2, SeqMonotonic, Zenon
<1> QED
  BY <1>3, LenProperties

(***************************************************************************)
(* The text between two offsets of a file.                                 *)
(***************************************************************************)
LEMMA TextIs ==
    ASSUME file \in Seq(Character), NEW from \in Nat, NEW to \in Int,
           from <= to + 1, to < Len(file)
    PROVE  /\ text(from, to) \in Seq(Character)
           /\ Len(text(from, to)) = to - from + 1
           /\ DOMAIN text(from, to) = 1..(to - from + 1)
           /\ \A i \in 1..(to - from + 1) : text(from, to)[i] = at(from + i - 1)
           /\ from <= to => text(from, to)[1] = at(from)
<1>1. \A i \in (from + 1)..(to + 1) : file[i] \in Character
  BY ElementOfSeq, LenProperties
<1>2. Len(file) \in Nat
  BY LenProperties
<1>3. /\ text(from, to) \in Seq(Character)
      /\ Len(text(from, to)) = to - from + 1
      /\ \A i \in 1..(to - from + 1) : text(from, to)[i] = file[from + 1 + i - 1]
  BY <1>1, SubSeqProperties DEF text
<1>4. DOMAIN text(from, to) = 1..(to - from + 1)
  BY <1>3, LenProperties
<1>5. \A i \in 1..(to - from + 1) : text(from, to)[i] = at(from + i - 1)
  BY <1>3 DEF at
<1>6. from <= to => text(from, to)[1] = at(from)
  BY <1>5
<1> QED
  BY <1>3, <1>4, <1>5, <1>6

(***************************************************************************)
(* What is looked at ahead is shorter than asked for only at the end.      *)
(***************************************************************************)
LEMMA PeekIs ==
    ASSUME file \in Seq(Character), NEW o \in 0..Len(file), NEW n \in Nat
    PROVE  peek_at_most(o, n) = text(o, IF o + n <= Len(file) THEN o + n - 1 ELSE Len(file) - 1)
<1>1. Len(file) \in Nat /\ o + n \in Nat
  BY LenProperties
<1> QED
  BY <1>1, MinOfTwo DEF peek_at_most

LEMMA PeekLength ==
    ASSUME file \in Seq(Character), NEW o \in 0..Len(file), NEW n \in Nat,
           Len(peek_at_most(o, n)) = n
    PROVE  o + n <= Len(file) /\ peek_at_most(o, n) = text(o, o + n - 1)
<1>1. Len(file) \in Nat
  BY LenProperties
<1>2. CASE o + n <= Len(file)
  BY <1>2, PeekIs
<1>3. CASE o + n > Len(file)
  <2>1. peek_at_most(o, n) = text(o, Len(file) - 1)
    BY <1>1, <1>3, PeekIs
  <2>2. Len(text(o, Len(file) - 1)) = Len(file) - o
    <3>1. /\ o \in Nat /\ Len(file) - 1 \in Int /\ o <= (Len(file) - 1) + 1
          /\ Len(file) - 1 < Len(file)
      BY <1>1
    <3>2. Len(text(o, Len(file) - 1)) = (Len(file) - 1) - o + 1
      BY <3>1, TextIs
    <3> QED
      BY <1>1, <3>1, <3>2
  <2> QED
    BY <1>1, <1>3, <2>1, <2>2
<1> QED
  BY <1>1, <1>2, <1>3

(***************************************************************************)
(* A pair of characters is seen ahead, or in a text, where it is.          *)
(***************************************************************************)
PairAt(o, a, b) == o + 1 < Len(file) /\ at(o) = a /\ at(o + 1) = b

LEMMA Pairs ==
    ASSUME NEW C, NEW s \in Seq(C), NEW a \in C, NEW b \in C
    PROVE  s = <<a, b>> <=> Len(s) = 2 /\ s[1] = a /\ s[2] = b
<1>1. <<a, b>> \in Seq(C) /\ Len(<<a, b>>) = 2 /\ <<a, b>>[1] = a /\ <<a, b>>[2] = b
  OBVIOUS
<1>2. ASSUME Len(s) = 2, s[1] = a, s[2] = b PROVE s = <<a, b>>
  <2>1. \A i \in 1..Len(s) : s[i] = <<a, b>>[i]
    BY <1>2
  <2> QED
    BY <1>1, <1>2, <2>1, SeqEqual
<1> QED
  BY <1>1, <1>2

LEMMA PeekPair ==
    ASSUME file \in Seq(Character), NEW o \in 0..Len(file),
           NEW a \in Character, NEW b \in Character
    PROVE  /\ peek_at_most(o, 2) = <<a, b>> <=> PairAt(o, a, b)
           /\ o + 1 < Len(file) => (text(o, o + 1) = <<a, b>> <=> PairAt(o, a, b))
<1>1. Len(file) \in Nat
  BY LenProperties
<1>2. o + 1 < Len(file) => (text(o, o + 1) = <<a, b>> <=> PairAt(o, a, b))
  <2> SUFFICES ASSUME o + 1 < Len(file)
               PROVE  text(o, o + 1) = <<a, b>> <=> PairAt(o, a, b)
    OBVIOUS
  <2>1. /\ text(o, o + 1) \in Seq(Character) /\ Len(text(o, o + 1)) = 2
        /\ text(o, o + 1)[1] = at(o) /\ text(o, o + 1)[2] = at(o + 1)
    <3>1. /\ o \in Nat /\ o + 1 \in Int /\ o <= o + 1 + 1 /\ o + 1 < Len(file)
          /\ (o + 1) - o + 1 = 2 /\ 2 \in 1..((o + 1) - o + 1) /\ o + 2 - 1 = o + 1
          /\ 1 \in 1..((o + 1) - o + 1) /\ o + 1 - 1 = o
      BY <1>1
    <3> DEFINE n == (o + 1) - o + 1
    <3>2. /\ text(o, o + 1) \in Seq(Character) /\ Len(text(o, o + 1)) = n
          /\ \A i \in 1..n : text(o, o + 1)[i] = at(o + i - 1)
      BY <3>1, TextIs
    <3> QED
      BY <3>1, <3>2
  <2> QED
    BY <2>1, Pairs DEF PairAt
<1>3. CASE o + 1 < Len(file)
  <2>1. o + 2 <= Len(file) /\ o + 2 - 1 = o + 1 /\ 2 \in Nat
    BY <1>1, <1>3
  <2>2. peek_at_most(o, 2) = text(o, o + 1)
    BY <2>1, PeekIs
  <2> QED
    BY <1>2, <1>3, <2>2
<1>4. CASE ~(o + 1 < Len(file))
  <2>1. peek_at_most(o, 2) = <<a, b>> => Len(peek_at_most(o, 2)) = 2
    OBVIOUS
  <2>2. Len(peek_at_most(o, 2)) = 2 => o + 2 <= Len(file)
    BY PeekLength
  <2>3. peek_at_most(o, 2) # <<a, b>>
    BY <1>1, <1>4, <2>1, <2>2
  <2> QED
    BY <1>4, <2>3 DEF PairAt
<1> QED
  BY <1>2, <1>3, <1>4

-----------------------------------------------------------------------------
(***************************************************************************)
(* The loop of lex_while_multiple stops at the first offset that fails.    *)
(***************************************************************************)
LEMMA StopIs ==
    ASSUME file \in Seq(Character), NEW from \in 0..Len(file),
           NEW F \in SUBSET (from..Len(file) - 1)
    PROVE  /\ lex_while_multiple(F) \in from..Len(file)
           /\ \A o \in from..lex_while_multiple(F) - 1 : o \notin F
           /\ lex_while_multiple(F) < Len(file) => lex_while_multiple(F) \in F
<1>1. Len(file) \in Nat
  BY LenProperties
<1>2. CASE F = {}
  BY <1>1, <1>2 DEF lex_while_multiple
<1>3. CASE F # {}
  <2>1. F \in SUBSET Nat
    BY <1>1
  <2>2. Min(F) \in F /\ \A o \in F : Min(F) <= o
    BY <1>3, <2>1, MinIs
  <2>3. lex_while_multiple(F) = Min(F)
    BY <1>3 DEF lex_while_multiple
  <2>4. Min(F) \in from..Len(file) - 1
    BY <2>2
  <2>5. \A o \in from..Min(F) - 1 : o \notin F
    BY <1>1, <2>2, <2>4
  <2> QED
    BY <1>1, <2>2, <2>3, <2>4, <2>5
<1> QED
  BY <1>2, <1>3

LEMMA WhileIs ==
    ASSUME file \in Seq(Character), NEW from \in 0..Len(file), NEW chars,
           from < Len(file), at(from) \in chars
    PROVE  /\ lex_while(from, chars) \in (from + 1)..Len(file)
           /\ \A o \in from..lex_while(from, chars) - 1 : at(o) \in chars
           /\ lex_while(from, chars) < Len(file) => at(lex_while(from, chars)) \notin chars
<1> DEFINE F == {o \in from..Len(file) - 1 : at(o) \notin chars}
           stop == lex_while_multiple(F)
<1>1. Len(file) \in Nat
  BY LenProperties
<1>2. stop \in from..Len(file) /\ (\A o \in from..stop - 1 : o \notin F)
      /\ (stop < Len(file) => stop \in F)
  BY StopIs
<1>3. lex_while(from, chars) = stop
  BY DEF lex_while
<1> HIDE DEF stop
<1>4. stop # from
  BY <1>1, <1>2
<1> QED
  BY <1>1, <1>2, <1>3, <1>4

-----------------------------------------------------------------------------
(***************************************************************************)
(* The lexemes, kind by kind, and what they start with.                    *)
(***************************************************************************)
Alphanumeric == Letters \cup Digits1 \cup {"0"}
IsLiteral(s) == s = <<"0">> \/ (s # <<>> /\ s[1] \in Digits1 /\ AllIn(s, Digits1 \cup {"0"}))
IsBlank(s) == s # <<>> /\ AllIn(s, Blanks)

LEMMA LexemeIs ==
    ASSUME NEW s
    PROVE  /\ IsLexeme("Keyword", s) <=> s \in Keywords
           /\ IsLexeme("Identifier", s) <=> IsWord(s) /\ s \notin Keywords
           /\ IsLexeme("IntegerLiteral", s) <=> IsLiteral(s)
           /\ IsLexeme("Whitespace", s) <=> IsBlank(s)
           /\ IsLexeme("Operator", s) <=> s \in Operators
           /\ IsLexeme("Comment", s) <=> IsComment(s)
  BY DEF IsLexeme, IsLiteral, IsBlank

LEMMA NoLexeme ==
    ASSUME NEW s,
           s \notin Keywords, ~IsWord(s), ~IsLiteral(s), ~IsBlank(s),
           s \notin Operators, ~IsComment(s)
    PROVE  \A kind \in Kinds : ~IsLexeme(kind, s)
  BY LexemeIs DEF Kinds

LEMMA PairIs == \A t, a, b : t = <<a, b>> => t[1] = a /\ t[2] = b
  OBVIOUS

LEMMA LongOperatorIs ==
    \A op \in LongOperators : Len(op) \in 2..4 /\ op[1] \in OperatorCharacters
<1>1. \A a, b : Len(<<a, b>>) = 2 /\ <<a, b>>[1] = a
  OBVIOUS
<1>2. \A a, b, c : Len(<<a, b, c>>) = 3 /\ <<a, b, c>>[1] = a
  OBVIOUS
<1>3. \A a, b, c, d : Len(<<a, b, c, d>>) = 4 /\ <<a, b, c, d>>[1] = a
  OBVIOUS
<1>4. \A op \in LongOperators : Len(op) = 2 \/ Len(op) = 3 \/ Len(op) = 4
  BY <1>1, <1>2, <1>3 DEF LongOperators
<1>5. \A op \in LongOperators :
          \/ op[1] = "<" \/ op[1] = ">" \/ op[1] = "!" \/ op[1] = "*" \/ op[1] = "+"
          \/ op[1] = "-" \/ op[1] = "/" \/ op[1] = "=" \/ op[1] = "%" \/ op[1] = "&"
          \/ op[1] = "^" \/ op[1] = "|"
  BY <1>1, <1>2, <1>3 DEF LongOperators
<1>6. {"<", ">", "!", "*", "+", "-", "/", "=", "%", "&", "^", "|"} \subseteq OperatorCharacters
  BY DEF OperatorCharacters
<1> QED
  BY <1>4, <1>5, <1>6

LEMMA OperatorIs ==
    ASSUME NEW op \in Operators
    PROVE  /\ Len(op) \in 1..4
           /\ op[1] \notin Letters \cup Digits1 \cup Blanks \cup {"0"}
           /\ ~(Len(op) >= 2 /\ op[1] = "/" /\ op[2] = "*")
<1>1. CASE op \in LongOperators
  <2>1. Len(op) \in 2..4
    BY <1>1, LongOperatorIs
  <2>2. op[1] \in OperatorCharacters
    BY <1>1, LongOperatorIs
  <2>3. ~(op[1] = "/" /\ op[2] = "*")
    BY <1>1 DEF LongOperators
  <2>4. "0" \notin OperatorCharacters
    BY DEF OperatorCharacters
  <2> QED
    BY <2>1, <2>2, <2>3, <2>4, LexerAssumption
<1>2. ASSUME NEW c \in OperatorCharacters, op = <<c>>
      PROVE  /\ Len(op) \in 1..4
             /\ op[1] \notin Letters \cup Digits1 \cup Blanks \cup {"0"}
             /\ ~(Len(op) >= 2 /\ op[1] = "/" /\ op[2] = "*")
  <2>1. Len(op) = 1 /\ op[1] = c
    BY <1>2
  <2>2. "0" \notin OperatorCharacters
    BY DEF OperatorCharacters
  <2> QED
    BY <2>1, <2>2, LexerAssumption
<1> QED
  BY <1>1, <1>2 DEF Operators

LEMMA Classes ==
    /\ Letters \cap Digits1 = {} /\ Letters \cap Blanks = {} /\ Digits1 \cap Blanks = {}
    /\ \A c \in Letters \cup Digits1 \cup Blanks : c \notin {"0", "/", "*"}
<1>1. "/" \in OperatorCharacters /\ "*" \in OperatorCharacters
  BY DEF OperatorCharacters
<1> QED
  BY <1>1, LexerAssumption

(***************************************************************************)
(* A text that starts like no word, no literal and no blank can only be an *)
(* operator or a comment; and so on for each of them.                      *)
(***************************************************************************)
LEMMA FirstOf ==
    ASSUME NEW s \in Seq(Character), s # <<>>
    PROVE  /\ s \in Keywords \/ IsWord(s) => s[1] \in Letters /\ AllIn(s, Alphanumeric)
           /\ IsLiteral(s) => s[1] \in Digits1 \cup {"0"}
           /\ IsBlank(s) => s[1] \in Blanks /\ AllIn(s, Blanks)
           /\ s \in Operators => s[1] \notin Letters \cup Digits1 \cup Blanks \cup {"0"}
           /\ IsComment(s) => s[1] = "/" /\ s[2] = "*" /\ Len(s) >= 4
<1>1. Len(s) \in Nat /\ Len(s) >= 1 /\ DOMAIN s = 1..Len(s) /\ 1 \in DOMAIN s
  BY EmptySeq, LenProperties
<1>2. s \in Keywords => s[1] \in Letters /\ AllIn(s, Alphanumeric)
  BY <1>1, LexerAssumption DEF AllIn, Alphanumeric
<1>3. IsWord(s) => s[1] \in Letters /\ AllIn(s, Alphanumeric)
  BY DEF IsWord, Alphanumeric
<1>4. IsLiteral(s) => s[1] \in Digits1 \cup {"0"}
  BY DEF IsLiteral
<1>5. IsBlank(s) => s[1] \in Blanks /\ AllIn(s, Blanks)
  BY <1>1 DEF IsBlank, AllIn
<1>6. s \in Operators => s[1] \notin Letters \cup Digits1 \cup Blanks \cup {"0"}
  BY OperatorIs
<1>7. ASSUME IsComment(s) PROVE s[1] = "/" /\ s[2] = "*" /\ Len(s) >= 4
  <2>1. Len(s) >= 4 /\ SubSeq(s, 1, 2) = <<"/", "*">>
    BY <1>7 DEF IsComment, Opening
  <2>2. \A i \in 1..2 : s[i] \in Character
    BY <1>1, <2>1, ElementOfSeq
  <2>3. \A i \in 1..(2 - 1 + 1) : SubSeq(s, 1, 2)[i] = s[1 + i - 1]
    BY <2>2, SubSeqProperties
  <2>4. SubSeq(s, 1, 2)[1] = s[1] /\ SubSeq(s, 1, 2)[2] = s[2]
    BY <2>3
  <2>5. SubSeq(s, 1, 2)[1] = "/" /\ SubSeq(s, 1, 2)[2] = "*"
    BY <2>1, PairIs, Zenon
  <2> QED
    BY <2>1, <2>4, <2>5
<1> QED
  BY <1>2, <1>3, <1>4, <1>5, <1>6, <1>7

-----------------------------------------------------------------------------
(***************************************************************************)
(* What each handler returns is a lexeme, and no longer text is one.       *)
(***************************************************************************)
Longest(kind, start, end) ==
    /\ IsLexeme(kind, text(start, end))
    /\ \A e \in end + 1..Len(file) - 1, k \in Kinds : ~IsLexeme(k, text(start, e))

LEMMA AllInText ==
    ASSUME file \in Seq(Character), NEW start \in Nat, NEW end \in Nat,
           start <= end, end < Len(file), NEW chars
    PROVE  /\ text(start, end) \in Seq(Character) /\ text(start, end) # <<>>
           /\ Len(text(start, end)) = end - start + 1
           /\ text(start, end)[1] = at(start)
           /\ AllIn(text(start, end), chars) <=> \A o \in start..end : at(o) \in chars
<1>1. Len(file) \in Nat
  BY LenProperties
<1> DEFINE s == text(start, end)
           n == end - start + 1
<1>2. /\ s \in Seq(Character) /\ Len(s) = n /\ DOMAIN s = 1..n
      /\ \A i \in 1..n : s[i] = at(start + i - 1)
      /\ s[1] = at(start)
  <2>1. start \in Nat /\ end \in Int /\ start <= end + 1 /\ end < Len(file)
    OBVIOUS
  <2> QED
    BY <2>1, TextIs
<1> HIDE DEF s
<1>3. s # <<>>
  BY <1>2
<1>4. ASSUME \A o \in start..end : at(o) \in chars PROVE AllIn(s, chars)
  <2>1. ASSUME NEW i \in 1..n PROVE s[i] \in chars
    <3>1. start + i - 1 \in start..end
      OBVIOUS
    <3> QED
      BY <1>2, <1>4, <3>1
  <2> QED
    BY <1>2, <2>1 DEF AllIn
<1>5. ASSUME AllIn(s, chars), NEW o \in start..end PROVE at(o) \in chars
  <2>1. o - start + 1 \in 1..n /\ start + (o - start + 1) - 1 = o
    OBVIOUS
  <2>2. s[o - start + 1] = at(o)
    BY <1>2, <2>1
  <2> QED
    BY <1>2, <1>5, <2>1, <2>2 DEF AllIn
<1> QED
  BY <1>2, <1>3, <1>4, <1>5 DEF s

LEMMA WordIsLongest ==
    ASSUME file \in Seq(Character), NEW start \in 0..Len(file), start < Len(file),
           at(start) \in Letters
    PROVE  LET end == lex_while(start, Letters \cup Digits1 \cup {"0"}) - 1
           IN  /\ end \in start..Len(file) - 1
               /\ Longest(IF text(start, end) \in Keywords THEN "Keyword" ELSE "Identifier",
                          start, end)
<1> DEFINE stop == lex_while(start, Alphanumeric)
           end == stop - 1
<1>1. Len(file) \in Nat /\ start \in Nat
  BY LenProperties
<1>2. at(start) \in Alphanumeric
  BY DEF Alphanumeric
<1>3. /\ stop \in (start + 1)..Len(file)
      /\ \A o \in start..stop - 1 : at(o) \in Alphanumeric
      /\ stop < Len(file) => at(stop) \notin Alphanumeric
  BY <1>2, WhileIs
<1> HIDE DEF stop
<1>4. end \in Nat /\ start <= end /\ end < Len(file) /\ end \in start..Len(file) - 1
  BY <1>1, <1>3
<1>5. IsWord(text(start, end))
  <2>1. /\ text(start, end) # <<>> /\ text(start, end)[1] = at(start)
        /\ AllIn(text(start, end), Alphanumeric)
    BY <1>1, <1>3, <1>4, AllInText
  <2> QED
    BY <2>1 DEF IsWord, Alphanumeric
<1>6. IsLexeme(IF text(start, end) \in Keywords THEN "Keyword" ELSE "Identifier", text(start, end))
  BY <1>5, LexemeIs
<1>7. ASSUME NEW e \in end + 1..Len(file) - 1
      PROVE  \A k \in Kinds : ~IsLexeme(k, text(start, e))
  <2>1. e \in Nat /\ start <= e /\ e < Len(file) /\ stop \in start..e /\ stop < Len(file)
    BY <1>1, <1>3, <1>7
  <2>2. /\ text(start, e) \in Seq(Character) /\ text(start, e) # <<>>
        /\ text(start, e)[1] \in Letters
        /\ ~AllIn(text(start, e), Alphanumeric)
    BY <1>1, <1>3, <2>1, AllInText
  <2>3. /\ text(start, e)[1] \notin Digits1 \cup {"0"}
        /\ text(start, e)[1] \notin Blanks
        /\ text(start, e)[1] # "/"
    BY <2>2, Classes
  <2>4. /\ text(start, e) \notin Keywords /\ ~IsWord(text(start, e))
        /\ ~IsLiteral(text(start, e)) /\ ~IsBlank(text(start, e))
        /\ text(start, e) \notin Operators /\ ~IsComment(text(start, e))
    BY <2>2, <2>3, FirstOf
  <2> QED
    BY <2>4, NoLexeme
<1>8. Longest(IF text(start, end) \in Keywords THEN "Keyword" ELSE "Identifier", start, end)
  BY <1>6, <1>7, Zenon DEF Longest
<1> QED
  BY <1>4, <1>8, Zenon DEF Alphanumeric, stop

LEMMA LiteralIsLongest ==
    ASSUME file \in Seq(Character), NEW start \in 0..Len(file), start < Len(file),
           at(start) \in Digits1
    PROVE  LET end == lex_while(start, Digits1 \cup {"0"}) - 1
           IN  end \in start..Len(file) - 1 /\ Longest("IntegerLiteral", start, end)
<1> DEFINE Digits == Digits1 \cup {"0"}
           stop == lex_while(start, Digits)
           end == stop - 1
<1>1. Len(file) \in Nat /\ start \in Nat
  BY LenProperties
<1>2. /\ stop \in (start + 1)..Len(file)
      /\ \A o \in start..stop - 1 : at(o) \in Digits
      /\ stop < Len(file) => at(stop) \notin Digits
  BY WhileIs
<1> HIDE DEF stop
<1>3. end \in Nat /\ start <= end /\ end < Len(file) /\ end \in start..Len(file) - 1
  BY <1>1, <1>2
<1>4. IsLexeme("IntegerLiteral", text(start, end))
  <2>1. /\ text(start, end) # <<>> /\ text(start, end)[1] = at(start)
        /\ AllIn(text(start, end), Digits)
    BY <1>1, <1>2, <1>3, AllInText
  <2> QED
    BY <2>1, LexemeIs DEF IsLiteral
<1>5. ASSUME NEW e \in end + 1..Len(file) - 1
      PROVE  \A k \in Kinds : ~IsLexeme(k, text(start, e))
  <2>1. e \in Nat /\ start <= e /\ e < Len(file) /\ stop \in start..e /\ stop < Len(file)
    BY <1>1, <1>2, <1>5
  <2>2. /\ text(start, e) \in Seq(Character) /\ text(start, e) # <<>>
        /\ text(start, e)[1] \in Digits1
        /\ ~AllIn(text(start, e), Digits)
    BY <1>1, <1>2, <2>1, AllInText
  <2>3. /\ text(start, e)[1] \notin Letters
        /\ text(start, e)[1] \notin Blanks
        /\ text(start, e)[1] # "/" /\ text(start, e)[1] # "0"
    BY <2>2, Classes
  <2>4. text(start, e) # <<"0">>
    BY <2>3
  <2>5. /\ text(start, e) \notin Keywords /\ ~IsWord(text(start, e))
        /\ ~IsBlank(text(start, e))
        /\ text(start, e) \notin Operators /\ ~IsComment(text(start, e))
    BY <2>2, <2>3, FirstOf
  <2>6. ~IsLiteral(text(start, e))
    BY <2>2, <2>4 DEF IsLiteral
  <2> QED
    BY <2>5, <2>6, NoLexeme
<1>6. Longest("IntegerLiteral", start, end)
  BY <1>4, <1>5, Zenon DEF Longest
<1> QED
  BY <1>3, <1>6, Zenon DEF stop

LEMMA ZeroIsLongest ==
    ASSUME file \in Seq(Character), NEW start \in 0..Len(file), start < Len(file),
           at(start) = "0"
    PROVE  Longest("IntegerLiteral", start, start)
<1>1. Len(file) \in Nat /\ start \in Nat
  BY LenProperties
<1>2. IsLexeme("IntegerLiteral", text(start, start))
  <2>1. /\ text(start, start) \in Seq(Character) /\ Len(text(start, start)) = 1
        /\ text(start, start)[1] = "0"
    <3>1. start <= start /\ start - start + 1 = 1
      BY <1>1
    <3> QED
      BY <1>1, <3>1, AllInText
  <2>2. "0" \in Character
    BY DEF Character
  <2>3. <<"0">> \in Seq(Character) /\ Len(<<"0">>) = 1 /\ <<"0">>[1] = "0"
    BY <2>2
  <2>4. \A i \in 1..Len(text(start, start)) : text(start, start)[i] = <<"0">>[i]
    BY <2>1, <2>3
  <2>5. text(start, start) = <<"0">>
    BY <2>1, <2>3, <2>4, SeqEqual
  <2> QED
    BY <2>5, LexemeIs DEF IsLiteral
<1>3. ASSUME NEW e \in start + 1..Len(file) - 1
      PROVE  \A k \in Kinds : ~IsLexeme(k, text(start, e))
  <2>1. e \in Nat /\ start <= e /\ e < Len(file) /\ start < e
    BY <1>1, <1>3
  <2>2. /\ text(start, e) \in Seq(Character) /\ text(start, e) # <<>>
        /\ Len(text(start, e)) = e - start + 1
        /\ text(start, e)[1] = "0"
    BY <1>1, <2>1, AllInText
  <2>3. "0" \notin Letters \cup Digits1 \cup Blanks /\ "0" # "/"
    BY Classes
  <2>4. text(start, e) # <<"0">>
    <3>1. Len(<<"0">>) = 1
      OBVIOUS
    <3>2. e - start + 1 # 1
      BY <1>1, <2>1
    <3> QED
      BY <2>2, <3>1, <3>2
  <2>5. /\ text(start, e) \notin Keywords /\ ~IsWord(text(start, e))
        /\ ~IsBlank(text(start, e))
        /\ text(start, e) \notin Operators /\ ~IsComment(text(start, e))
    BY <2>2, <2>3, FirstOf
  <2>6. ~IsLiteral(text(start, e))
    BY <2>2, <2>3, <2>4 DEF IsLiteral
  <2> QED
    BY <2>5, <2>6, NoLexeme
<1> QED
  BY <1>2, <1>3, Zenon DEF Longest

LEMMA BlankIsLongest ==
    ASSUME file \in Seq(Character), NEW start \in 0..Len(file), start < Len(file),
           at(start) \in Blanks
    PROVE  LET end == lex_while(start, Blanks) - 1
           IN  end \in start..Len(file) - 1 /\ Longest("Whitespace", start, end)
<1> DEFINE stop == lex_while(start, Blanks)
           end == stop - 1
<1>1. Len(file) \in Nat /\ start \in Nat
  BY LenProperties
<1>2. /\ stop \in (start + 1)..Len(file)
      /\ \A o \in start..stop - 1 : at(o) \in Blanks
      /\ stop < Len(file) => at(stop) \notin Blanks
  BY WhileIs
<1> HIDE DEF stop
<1>3. end \in Nat /\ start <= end /\ end < Len(file) /\ end \in start..Len(file) - 1
  BY <1>1, <1>2
<1>4. IsLexeme("Whitespace", text(start, end))
  <2>1. text(start, end) # <<>> /\ AllIn(text(start, end), Blanks)
    BY <1>1, <1>2, <1>3, AllInText
  <2> QED
    BY <2>1, LexemeIs DEF IsBlank
<1>5. ASSUME NEW e \in end + 1..Len(file) - 1
      PROVE  \A k \in Kinds : ~IsLexeme(k, text(start, e))
  <2>1. e \in Nat /\ start <= e /\ e < Len(file) /\ stop \in start..e /\ stop < Len(file)
    BY <1>1, <1>2, <1>5
  <2>2. /\ text(start, e) \in Seq(Character) /\ text(start, e) # <<>>
        /\ text(start, e)[1] \in Blanks
        /\ ~AllIn(text(start, e), Blanks)
    BY <1>1, <1>2, <2>1, AllInText
  <2>3. /\ text(start, e)[1] \notin Letters
        /\ text(start, e)[1] \notin Digits1 \cup {"0"}
        /\ text(start, e)[1] # "/"
    BY <2>2, Classes
  <2>4. /\ text(start, e) \notin Keywords /\ ~IsWord(text(start, e))
        /\ ~IsLiteral(text(start, e)) /\ ~IsBlank(text(start, e))
        /\ text(start, e) \notin Operators /\ ~IsComment(text(start, e))
    BY <2>2, <2>3, FirstOf
  <2> QED
    BY <2>4, NoLexeme
<1>6. Longest("Whitespace", start, end)
  BY <1>4, <1>5, Zenon DEF Longest
<1> QED
  BY <1>3, <1>6, Zenon DEF stop

(***************************************************************************)
(* Behind a character that starts no word, literal, blank or comment only  *)
(* an operator is a lexeme, and lex_operator finds all of those.           *)
(***************************************************************************)
LEMMA OnlyOperators ==
    ASSUME file \in Seq(Character), input \in 0..Len(file), OtherCharacter,
           NEW e \in input..Len(file) - 1, NEW k \in Kinds, IsLexeme(k, text(input, e))
    PROVE  /\ text(input, e) \in Operators
           /\ e - input + 1 \in operator_lengths
<1>1. Len(file) \in Nat /\ input \in Nat /\ e \in Nat /\ input <= e /\ e < Len(file)
  BY LenProperties
<1>2. /\ text(input, e) \in Seq(Character) /\ text(input, e) # <<>>
      /\ Len(text(input, e)) = e - input + 1
      /\ text(input, e)[1] = at(input)
      /\ e - input + 1 \in Nat
  BY <1>1, AllInText
<1>3. at(input) \notin Letters \cup Digits1 \cup Blanks \cup {"0"}
  BY DEF OtherCharacter
<1>4. ~IsComment(text(input, e))
  <2> SUFFICES ASSUME IsComment(text(input, e)) PROVE FALSE
    OBVIOUS
  <2>1. /\ text(input, e)[1] = "/" /\ text(input, e)[2] = "*" /\ Len(text(input, e)) >= 4
    BY <1>2, FirstOf
  <2>2. text(input, e)[2] = at(input + 1)
    <3>1. 2 \in 1..(e - input + 1) /\ input + 2 - 1 = input + 1
      BY <1>1, <1>2, <2>1
    <3>2. \A i \in 1..(e - input + 1) : text(input, e)[i] = at(input + i - 1)
      BY <1>1, TextIs
    <3> QED
      BY <3>1, <3>2
  <2>3. PairAt(input, "/", "*")
    BY <1>1, <1>2, <2>1, <2>2 DEF PairAt
  <2>4. "/" \in Character /\ "*" \in Character
    BY DEF Character
  <2>5. peek_at_most(input, 2) = <<"/", "*">>
    BY <2>3, <2>4, PeekPair
  <2>6. Len(Opening) = 2 /\ Opening = <<"/", "*">>
    BY DEF Opening
  <2> QED
    BY <2>5, <2>6 DEF OtherCharacter, matches
<1>5. text(input, e) \in Operators
  BY <1>2, <1>3, <1>4, FirstOf, LexemeIs DEF Kinds
<1>6. e - input + 1 \in 1..4
  BY <1>2, <1>5, OperatorIs
<1>7. peek_at_most(input, e - input + 1) = text(input, e)
  <2>1. input + (e - input + 1) <= Len(file) /\ input + (e - input + 1) - 1 = e
    BY <1>1
  <2> QED
    BY <1>2, <2>1, PeekIs
<1> QED
  BY <1>2, <1>5, <1>6, <1>7 DEF operator_lengths

LEMMA OperatorIsLongest ==
    ASSUME file \in Seq(Character), input \in 0..Len(file), OtherCharacter,
           operator_lengths # {}
    PROVE  LET end == input + Max(operator_lengths) - 1
           IN  end \in input..Len(file) - 1 /\ Longest("Operator", input, end)
<1> DEFINE n == Max(operator_lengths)
           end == input + n - 1
<1>1. Len(file) \in Nat /\ input \in Nat
  BY LenProperties
<1>2. operator_lengths \in SUBSET (1..4)
  BY DEF operator_lengths
<1>3. n \in operator_lengths /\ \A x \in operator_lengths : x <= n
  BY <1>2, MaxOfFour
<1> HIDE DEF n
<1>4. n \in Nat /\ n >= 1 /\ Len(peek_at_most(input, n)) = n /\ peek_at_most(input, n) \in Operators
  BY <1>2, <1>3 DEF operator_lengths
<1>5. input + n <= Len(file) /\ text(input, end) \in Operators
  BY <1>4, PeekLength
<1>6. end \in input..Len(file) - 1
  BY <1>1, <1>4, <1>5
<1>7. IsLexeme("Operator", text(input, end))
  BY <1>5, LexemeIs
<1>8. ASSUME NEW e \in end + 1..Len(file) - 1, NEW k \in Kinds
      PROVE  ~IsLexeme(k, text(input, e))
  <2>1. e \in input..Len(file) - 1 /\ e - input + 1 > n
    BY <1>1, <1>4, <1>6, <1>8
  <2>2. ~(e - input + 1 <= n)
    BY <1>1, <1>4, <2>1
  <2> QED
    BY <1>3, <2>1, <2>2, OnlyOperators
<1>9. Longest("Operator", input, end)
  BY <1>7, <1>8, Zenon DEF Longest
<1> QED
  BY <1>6, <1>9, Zenon DEF n

(***************************************************************************)
(* A comment by the offsets of its delimiters.                             *)
(***************************************************************************)
LEMMA PairInText ==
    ASSUME NEW s \in Seq(Character), NEW i \in 1..Len(s) - 1,
           NEW a \in Character, NEW b \in Character
    PROVE  SubSeq(s, i, i + 1) = <<a, b>> <=> s[i] = a /\ s[i + 1] = b
<1>1. Len(s) \in Nat /\ i \in Int /\ i + 1 \in Int /\ i <= i + 1 /\ (i + 1) - i + 1 = 2
  BY LenProperties
<1>2. \A j \in i..i + 1 : s[j] \in Character
  BY <1>1, ElementOfSeq
<1> DEFINE t == SubSeq(s, i, i + 1)
<1>3. /\ t \in Seq(Character)
      /\ Len(t) = (IF i <= i + 1 THEN (i + 1) - i + 1 ELSE 0)
      /\ \A j \in 1..(i + 1) - i + 1 : t[j] = s[i + j - 1]
  BY <1>1, <1>2, SubSeqProperties
<1> HIDE DEF t
<1>4. Len(t) = 2 /\ t[1] = s[i] /\ t[2] = s[i + 1]
  <2>1. 1 \in 1..(i + 1) - i + 1 /\ 2 \in 1..(i + 1) - i + 1 /\ i + 1 - 1 = i /\ i + 2 - 1 = i + 1
    BY <1>1
  <2> QED
    BY <1>1, <1>3, <2>1
<1>5. t = <<a, b>> <=> Len(t) = 2 /\ t[1] = a /\ t[2] = b
  BY <1>3, Pairs
<1> QED
  BY <1>4, <1>5 DEF t

LEMMA CommentIs ==
    ASSUME file \in Seq(Character), NEW start \in Nat, NEW end \in Nat,
           start <= end, end < Len(file)
    PROVE  IsComment(text(start, end)) <=>
               /\ end >= start + 3
               /\ PairAt(start, "/", "*") /\ PairAt(end - 1, "*", "/")
               /\ \A o \in start + 2..end - 2 : ~PairAt(o, "*", "/")
<1> DEFINE s == text(start, end)
           n == end - start + 1
<1>1. Len(file) \in Nat /\ n \in Nat
  BY LenProperties
<1>0. end \in Int /\ start <= end + 1
  OBVIOUS
<1>2. s \in Seq(Character) /\ Len(s) = n
  BY <1>0, TextIs
<1>3. \A i \in 1..n : s[i] = at(start + i - 1)
  BY <1>0, TextIs
<1> HIDE DEF s
<1>4. "/" \in Character /\ "*" \in Character
  BY DEF Character
<1>5. ASSUME NEW i \in 1..n - 1, NEW a \in Character, NEW b \in Character
      PROVE  SubSeq(s, i, i + 1) = <<a, b>> <=> PairAt(start + i - 1, a, b)
  <2>1. i \in 1..n /\ i + 1 \in 1..n /\ start + (i + 1) - 1 = (start + i - 1) + 1
        /\ (start + i - 1) + 1 < Len(file)
    BY <1>1
  <2>2. s[i] = at(start + i - 1) /\ s[i + 1] = at((start + i - 1) + 1)
    BY <1>3, <2>1
  <2>3. SubSeq(s, i, i + 1) = <<a, b>> <=> s[i] = a /\ s[i + 1] = b
    <3>1. i \in 1..Len(s) - 1
      BY <1>2
    <3> QED
      <4>1. \A t \in Seq(Character) : \A j \in 1..Len(t) - 1 :
                SubSeq(t, j, j + 1) = <<a, b>> <=> t[j] = a /\ t[j + 1] = b
        BY PairInText
      <4> QED
        BY <1>2, <3>1, <4>1
  <2> QED
    BY <2>1, <2>2, <2>3 DEF PairAt
<1>6. IsComment(s) <=> /\ n >= 4
                       /\ SubSeq(s, 1, 1 + 1) = <<"/", "*">>
                       /\ SubSeq(s, n - 1, (n - 1) + 1) = <<"*", "/">>
                       /\ \A i \in 3..n - 2 : SubSeq(s, i, i + 1) # <<"*", "/">>
  BY <1>2 DEF IsComment, Opening, Closing
<1>7. CASE n >= 4
  <2>1. 1 \in 1..n - 1 /\ n - 1 \in 1..n - 1 /\ 3..n - 2 \subseteq 1..n - 1
        /\ start + 1 - 1 = start /\ start + (n - 1) - 1 = end - 1
    BY <1>1, <1>7
  <2>2. SubSeq(s, 1, 1 + 1) = <<"/", "*">> <=> PairAt(start, "/", "*")
    BY <1>4, <1>5, <2>1
  <2>3. SubSeq(s, n - 1, (n - 1) + 1) = <<"*", "/">> <=> PairAt(end - 1, "*", "/")
    BY <1>4, <1>5, <2>1
  <2>4. ASSUME \A i \in 3..n - 2 : SubSeq(s, i, i + 1) # <<"*", "/">>,
               NEW o \in start + 2..end - 2
        PROVE  ~PairAt(o, "*", "/")
    <3>1. PICK i \in 3..n - 2 : start + i - 1 = o
      <4>1. o - start + 1 \in 3..n - 2 /\ start + (o - start + 1) - 1 = o
        BY <1>1
      <4> QED
        BY <4>1
    <3>2. SubSeq(s, i, i + 1) # <<"*", "/">>
      BY <2>4
    <3> QED
      BY <1>4, <1>5, <2>1, <3>1, <3>2
  <2>5. ASSUME \A o \in start + 2..end - 2 : ~PairAt(o, "*", "/"), NEW i \in 3..n - 2
        PROVE  SubSeq(s, i, i + 1) # <<"*", "/">>
    <3>1. start + i - 1 \in start + 2..end - 2
      BY <1>1
    <3> QED
      BY <1>4, <1>5, <2>1, <2>5, <3>1
  <2> QED
    BY <1>1, <1>6, <1>7, <2>2, <2>3, <2>4, <2>5 DEF s
<1>8. CASE ~(n >= 4)
  BY <1>1, <1>6, <1>8 DEF s
<1> QED
  BY <1>7, <1>8

(***************************************************************************)
(* The two pairs of characters that lex_comment looks for.                 *)
(***************************************************************************)
LEMMA DelimitersAt ==
    ASSUME file \in Seq(Character), NEW o \in 0..Len(file)
    PROVE  /\ peek_at_most(o, 2) = Opening <=> PairAt(o, "/", "*")
           /\ peek_at_most(o, 2) = Closing <=> PairAt(o, "*", "/")
           /\ matches(o, Opening) <=> PairAt(o, "/", "*")
           /\ o + 1 < Len(file) => (text(o, o + 1) = Opening <=> PairAt(o, "/", "*"))
           /\ o + 1 < Len(file) => (text(o, o + 1) = Closing <=> PairAt(o, "*", "/"))
<1>1. "/" \in Character /\ "*" \in Character
  BY DEF Character
<1>2. Len(Opening) = 2
  BY DEF Opening
<1> QED
  BY <1>1, <1>2, PeekPair DEF Opening, Closing, matches

comment_stop == lex_while_multiple({o \in input + 2..Len(file) - 1 :
                                       peek_at_most(o, 2) = Closing})

LEMMA CommentStops ==
    ASSUME file \in Seq(Character), input \in 0..Len(file), matches(input, Opening)
    PROVE  /\ PairAt(input, "/", "*")
           /\ input + 2 <= Len(file)
           /\ comment_stop \in input + 2..Len(file)
           /\ \A o \in input + 2..comment_stop - 1 : ~PairAt(o, "*", "/")
           /\ comment_stop < Len(file) => PairAt(comment_stop, "*", "/")
<1>1. Len(file) \in Nat /\ input \in Nat
  BY LenProperties
<1>2. PairAt(input, "/", "*")
  BY DelimitersAt
<1>3. input + 2 <= Len(file) /\ input + 2 \in 0..Len(file)
  BY <1>1, <1>2 DEF PairAt
<1> DEFINE F == {o \in input + 2..Len(file) - 1 : peek_at_most(o, 2) = Closing}
<1>4. F \in SUBSET (input + 2..Len(file) - 1)
  OBVIOUS
<1>5. \A o \in input + 2..Len(file) - 1 : o \in F <=> PairAt(o, "*", "/")
  BY <1>1, DelimitersAt
<1>6. comment_stop = lex_while_multiple(F)
  BY DEF comment_stop
<1> HIDE DEF F
<1>7. /\ comment_stop \in input + 2..Len(file)
      /\ \A o \in input + 2..comment_stop - 1 : o \notin F
      /\ comment_stop < Len(file) => comment_stop \in F
  BY <1>3, <1>4, <1>6, StopIs
<1>8. \A o \in input + 2..comment_stop - 1 : ~PairAt(o, "*", "/")
  BY <1>1, <1>5, <1>7
<1>9. comment_stop < Len(file) => PairAt(comment_stop, "*", "/")
  BY <1>1, <1>5, <1>7
<1> QED
  BY <1>2, <1>3, <1>7, <1>8, <1>9

LEMMA CommentIsLongest ==
    ASSUME file \in Seq(Character), input \in 0..Len(file), matches(input, Opening),
           comment_stop < Len(file)
    PROVE  comment_stop + 1 \in input..Len(file) - 1 /\ Longest("Comment", input, comment_stop + 1)
<1>1. Len(file) \in Nat /\ input \in Nat
  BY LenProperties
<1>2. /\ PairAt(input, "/", "*") /\ comment_stop \in input + 2..Len(file)
      /\ \A o \in input + 2..comment_stop - 1 : ~PairAt(o, "*", "/")
      /\ PairAt(comment_stop, "*", "/")
  BY CommentStops
<1> DEFINE stop == comment_stop
           end == stop + 1
<1>3. /\ stop \in Nat /\ input + 2 <= stop /\ end < Len(file) /\ end \in Nat
      /\ end \in input..Len(file) - 1
  BY <1>1, <1>2 DEF PairAt
<1> HIDE DEF stop
<1>4. IsComment(text(input, end))
  <2>1. end >= input + 3 /\ end - 1 = stop /\ end - 2 = stop - 1 /\ input <= end
    BY <1>1, <1>3
  <2>2. PairAt(end - 1, "*", "/") /\ \A o \in input + 2..end - 2 : ~PairAt(o, "*", "/")
    BY <1>2, <2>1 DEF stop
  <2> QED
    BY <1>1, <1>2, <1>3, <2>1, <2>2, CommentIs
<1>5. IsLexeme("Comment", text(input, end))
  BY <1>4, LexemeIs
<1>6. ASSUME NEW e \in end + 1..Len(file) - 1
      PROVE  \A k \in Kinds : ~IsLexeme(k, text(input, e))
  <2>1. e \in Nat /\ input <= e /\ e < Len(file) /\ stop \in input + 2..e - 2
        /\ 2 \in 1..e - input + 1 /\ input + 2 - 1 = input + 1
    BY <1>1, <1>3, <1>6
  <2>2. /\ text(input, e) \in Seq(Character) /\ text(input, e) # <<>>
        /\ text(input, e)[1] = at(input)
        /\ Len(text(input, e)) = e - input + 1
    BY <1>1, <2>1, AllInText
  <2>3. text(input, e)[2] = at(input + 1)
    BY <1>1, <2>1, TextIs
  <2>4. text(input, e)[1] = "/" /\ text(input, e)[2] = "*" /\ Len(text(input, e)) >= 2
    BY <1>1, <1>2, <2>1, <2>2, <2>3 DEF PairAt
  <2>5. ~IsComment(text(input, e))
    BY <1>1, <1>2, <2>1, CommentIs DEF stop
  <2>6. text(input, e) \notin Operators
    BY <2>4, OperatorIs
  <2>7. text(input, e)[1] \notin Letters \cup Digits1 \cup {"0"} \cup Blanks
    BY <2>4, Classes
  <2>8. /\ text(input, e) \notin Keywords /\ ~IsWord(text(input, e))
        /\ ~IsLiteral(text(input, e)) /\ ~IsBlank(text(input, e))
    BY <2>2, <2>7, FirstOf
  <2> QED
    BY <2>5, <2>6, <2>8, NoLexeme
<1>7. Longest("Comment", input, end)
  BY <1>5, <1>6, Zenon DEF Longest
<1> QED
  BY <1>3, <1>7, Zenon DEF stop

-----------------------------------------------------------------------------
(***************************************************************************)
(* A call of the lexer returns the longest lexeme at the cursor, fails in  *)
(* one of two ways, panics, or finds the end of the file.                  *)
(***************************************************************************)
Warned(from, to) == {o \in from..to : PairAt(o, "/", "*")}

TokenStep(kind, end, symbol) ==
    /\ status = "lexing" /\ kind \in Kinds /\ end \in input..Len(file) - 1
    /\ Longest(kind, input, end)
    /\ Returns(kind, input, end, symbol)
    /\ \/ symbol = NoSymbol /\ strtab' = strtab
       \/ /\ strtab' = interned(text(input, end))
          /\ symbol = strtab'[text(input, end)]
    /\ warnings' = warnings \cup (IF kind = "Comment" THEN Warned(input + 2, end - 2) ELSE {})

UnexpectedStep ==
    /\ status = "lexing" /\ input < Len(file)
    /\ Fails("UnexpectedCharacter", input, input)
    /\ \A e \in input..Len(file) - 1, k \in Kinds : ~IsLexeme(k, text(input, e))
    /\ UNCHANGED <<input, warnings>>

UnclosedStep ==
    /\ status = "lexing" /\ input + 2 < Len(file)
    /\ PairAt(input, "/", "*")
    /\ \A o \in input + 2..Len(file) - 1 : ~PairAt(o, "*", "/")
    /\ Fails("UnclosedComment", input, Len(file) - 1)
    /\ input' = Len(file)
    /\ warnings' = warnings \cup Warned(input + 2, Len(file) - 2)

PanicStep ==
    /\ status = "lexing" /\ input + 2 = Len(file)
    /\ PairAt(input, "/", "*")
    /\ status' = "panicked" /\ input' = input + 2
    /\ UNCHANGED <<file, tokens, strtab, error, warnings>>

LEMMA OpeningsAreWarned ==
    ASSUME file \in Seq(Character), NEW from \in Nat, NEW to \in Int, to < Len(file)
    PROVE  openings(from, to) = Warned(from, to)
<1>1. Len(file) \in Nat
  BY LenProperties
<1>2. \A o \in from..to : peek_at_most(o, 2) = Opening <=> PairAt(o, "/", "*")
  BY <1>1, DelimitersAt
<1> QED
  BY <1>2 DEF openings, Warned

LEMMA CommentSteps ==
    ASSUME file \in Seq(Character), input \in 0..Len(file), lex_comment
    PROVE  \/ \E end : TokenStep("Comment", end, NoSymbol)
           \/ UnclosedStep
           \/ PanicStep
<1> DEFINE stop == comment_stop
<1>1. Len(file) \in Nat /\ input \in Nat /\ status = "lexing" /\ matches(input, Opening)
  BY LenProperties DEF lex_comment, Peeked
<1>2. /\ PairAt(input, "/", "*") /\ input + 2 <= Len(file)
      /\ stop \in input + 2..Len(file)
      /\ \A o \in input + 2..stop - 1 : ~PairAt(o, "*", "/")
  BY <1>1, CommentStops
<1>3. /\ warnings' = warnings \cup openings(input + 2, stop - 1)
      /\ \/ /\ ~next_character_exists(input + 2)
            /\ status' = "panicked"
            /\ input' = input + 2
            /\ UNCHANGED <<file, tokens, strtab, error>>
         \/ /\ next_character_exists(input + 2) /\ stop = Len(file)
            /\ Fails("UnclosedComment", input, stop - 1)
            /\ input' = stop
         \/ /\ next_character_exists(input + 2) /\ stop < Len(file)
            /\ Returns("Comment", input, stop + 1, NoSymbol)
            /\ UNCHANGED strtab
  BY Zenon DEF lex_comment, comment_stop
<1>4. openings(input + 2, stop - 1) = Warned(input + 2, stop - 1)
  <2>1. input + 2 \in Nat /\ stop - 1 \in Int /\ stop - 1 < Len(file)
    BY <1>1, <1>2
  <2> QED
    BY <2>1, OpeningsAreWarned
<1>5. CASE ~next_character_exists(input + 2)
  <2>1. input + 2 = Len(file) /\ stop = input + 2
    BY <1>1, <1>2, <1>5 DEF next_character_exists
  <2>2. Warned(input + 2, stop - 1) = {}
    BY <1>1, <2>1 DEF Warned
  <2>3. warnings' = warnings
    BY <1>3, <1>4, <2>2
  <2> QED
    BY <1>1, <1>2, <1>3, <1>5, <2>1, <2>3 DEF PanicStep
<1>6. CASE next_character_exists(input + 2) /\ stop = Len(file)
  <2>1. input + 2 < Len(file)
    BY <1>6 DEF next_character_exists
  <2>2. Warned(input + 2, stop - 1) = Warned(input + 2, Len(file) - 2)
    BY <1>1, <1>6 DEF Warned, PairAt
  <2>3. Fails("UnclosedComment", input, Len(file) - 1) /\ input' = Len(file)
    BY <1>1, <1>3, <1>6
  <2> QED
    BY <1>1, <1>2, <1>3, <1>4, <1>6, <2>1, <2>2, <2>3 DEF UnclosedStep
<1>7. CASE next_character_exists(input + 2) /\ stop < Len(file)
  <2>1. stop + 1 \in input..Len(file) - 1 /\ Longest("Comment", input, stop + 1)
    BY <1>1, <1>7, CommentIsLongest
  <2>2. (stop + 1) - 2 = stop - 1
    BY <1>1, <1>2
  <2>3. Returns("Comment", input, stop + 1, NoSymbol) /\ UNCHANGED strtab
    BY <1>1, <1>2, <1>3, <1>7
  <2>4. TokenStep("Comment", stop + 1, NoSymbol)
    BY <1>1, <1>3, <1>4, <2>1, <2>2, <2>3 DEF TokenStep, Kinds
  <2> QED
    BY <2>4
<1> QED
  BY <1>2, <1>3, <1>5, <1>6, <1>7

LEMMA Steps ==
    ASSUME file \in Seq(Character), input \in 0..Len(file), [Next]_vars
    PROVE  \/ \E kind, end, symbol : TokenStep(kind, end, symbol)
           \/ UnexpectedStep \/ UnclosedStep \/ PanicStep
           \/ end_of_input
           \/ UNCHANGED vars
<1>1. Len(file) \in Nat
  BY LenProperties
<1>2. ASSUME NEW kind \in Kinds \ {"Comment"}, NEW end \in input..Len(file) - 1, Peeked,
             Longest(kind, input, end), UNCHANGED warnings,
             \/ Returns(kind, input, end, NoSymbol) /\ UNCHANGED strtab
             \/ ReturnsSymbol(kind, input, end)
      PROVE  \E symbol : TokenStep(kind, end, symbol)
  <2>1. warnings' = warnings \cup (IF kind = "Comment" THEN Warned(input + 2, end - 2) ELSE {})
    BY <1>2
  <2>2. CASE Returns(kind, input, end, NoSymbol) /\ UNCHANGED strtab
    BY <1>2, <2>1, <2>2 DEF TokenStep, Peeked
  <2>3. CASE ReturnsSymbol(kind, input, end)
    <3>1. TokenStep(kind, end, strtab'[text(input, end)])
      BY <1>2, <2>1, <2>3 DEF TokenStep, Peeked, ReturnsSymbol
    <3> QED
      BY <3>1
  <2> QED
    BY <1>2, <2>2, <2>3
<1>3. CASE lex_identifier_or_keyword
  <2> DEFINE end == lex_while(input, Letters \cup Digits1 \cup {"0"}) - 1
             kind == IF text(input, end) \in Keywords THEN "Keyword" ELSE "Identifier"
  <2>1. Peeked /\ at(input) \in Letters /\ input < Len(file)
    BY <1>3 DEF lex_identifier_or_keyword, Peeked
  <2>2. end \in input..Len(file) - 1 /\ Longest(kind, input, end)
    BY <2>1, WordIsLongest
  <2>3. /\ UNCHANGED warnings
        /\ \/ Returns(kind, input, end, NoSymbol) /\ UNCHANGED strtab
           \/ ReturnsSymbol(kind, input, end)
    <3>1. CASE text(input, end) \in Keywords
      BY <1>3, <3>1 DEF lex_identifier_or_keyword
    <3>2. CASE text(input, end) \notin Keywords
      BY <1>3, <3>2 DEF lex_identifier_or_keyword, ReturnsSymbol
    <3> QED
      BY <3>1, <3>2
  <2>4. kind \in Kinds \ {"Comment"}
    BY DEF Kinds
  <2> HIDE DEF end, kind
  <2> QED
    BY <1>2, <2>1, <2>2, <2>3, <2>4
<1>4. CASE lex_integer_literal
  <2> DEFINE end == lex_while(input, Digits1 \cup {"0"}) - 1
  <2>1. Peeked /\ at(input) \in Digits1 /\ input < Len(file)
    BY <1>4 DEF lex_integer_literal, Peeked
  <2>2. end \in input..Len(file) - 1 /\ Longest("IntegerLiteral", input, end)
    BY <2>1, LiteralIsLongest
  <2>3. UNCHANGED warnings /\ ReturnsSymbol("IntegerLiteral", input, end)
    BY <1>4 DEF lex_integer_literal, ReturnsSymbol
  <2>4. "IntegerLiteral" \in Kinds \ {"Comment"}
    BY DEF Kinds
  <2> HIDE DEF end
  <2> QED
    BY <1>2, <2>1, <2>2, <2>3, <2>4
<1>5. CASE lex_zero_integer_literal
  <2>1. Peeked /\ at(input) = "0" /\ input < Len(file) /\ input \in input..Len(file) - 1
    BY <1>1, <1>5 DEF lex_zero_integer_literal, Peeked
  <2>2. Longest("IntegerLiteral", input, input)
    BY <2>1, ZeroIsLongest
  <2>3. UNCHANGED warnings /\ ReturnsSymbol("IntegerLiteral", input, input)
    BY <1>5 DEF lex_zero_integer_literal, ReturnsSymbol
  <2>4. "IntegerLiteral" \in Kinds \ {"Comment"}
    BY DEF Kinds
  <2> QED
    BY <1>2, <2>1, <2>2, <2>3, <2>4
<1>6. CASE lex_whitespace
  <2> DEFINE end == lex_while(input, Blanks) - 1
  <2>1. Peeked /\ at(input) \in Blanks /\ input < Len(file)
    BY <1>6 DEF lex_whitespace, Peeked
  <2>2. end \in input..Len(file) - 1 /\ Longest("Whitespace", input, end)
    BY <2>1, BlankIsLongest
  <2>3. UNCHANGED warnings /\ Returns("Whitespace", input, end, NoSymbol) /\ UNCHANGED strtab
    BY <1>6 DEF lex_whitespace
  <2>4. "Whitespace" \in Kinds \ {"Comment"}
    BY DEF Kinds
  <2> HIDE DEF end
  <2> QED
    BY <1>2, <2>1, <2>2, <2>3, <2>4
<1>7. CASE lex_comment
  BY <1>7, CommentSteps
<1>8. CASE lex_operator
  <2> DEFINE end == input + Max(operator_lengths) - 1
  <2>1. OtherCharacter /\ Peeked /\ operator_lengths # {}
    BY <1>8 DEF lex_operator, OtherCharacter
  <2>2. end \in input..Len(file) - 1 /\ Longest("Operator", input, end)
    BY <2>1, OperatorIsLongest
  <2>3. UNCHANGED warnings /\ Returns("Operator", input, end, NoSymbol) /\ UNCHANGED strtab
    BY <1>8 DEF lex_operator
  <2>4. "Operator" \in Kinds \ {"Comment"}
    BY DEF Kinds
  <2> HIDE DEF end
  <2> QED
    BY <1>2, <2>1, <2>2, <2>3, <2>4
<1>9. CASE unexpected_character
  <2>1. OtherCharacter /\ operator_lengths = {}
    BY <1>9 DEF unexpected_character
  <2>2. \A e \in input..Len(file) - 1, k \in Kinds : ~IsLexeme(k, text(input, e))
    BY <2>1, OnlyOperators
  <2> QED
    BY <1>9, <2>1, <2>2 DEF unexpected_character, UnexpectedStep, OtherCharacter, Peeked
<1> QED
  BY <1>3, <1>4, <1>5, <1>6, <1>7, <1>8, <1>9 DEF Next

-----------------------------------------------------------------------------
(***************************************************************************)
(* The inductive invariant.  Tiling, MaximalMunch and ErrorIsRight carry   *)
(* themselves; that two tokens share a symbol only if they share a text    *)
(* needs the table the symbols come from (Interned), and that a warning    *)
(* belongs to a comment needs to know that no error was returned yet.      *)
(***************************************************************************)
Token == [kind : Kinds, start : Nat, end : Nat, symbol : Nat]

Types ==
    /\ file \in Files
    /\ input \in 0..Len(file)
    /\ tokens \in Seq(Token)
    /\ warnings \subseteq 0..Len(file) - 1
    /\ status \in {"lexing", "eof", "error", "panicked"}
    /\ error = NoError \/ error.kind \in {"UnclosedComment", "UnexpectedCharacter"}
    /\ status # "error" => error = NoError

Interned ==
    LET strings == DOMAIN strtab
    IN  /\ IsFiniteSet(strings)
        /\ \A s \in strings : strtab[s] \in 1..Cardinality(strings)
        /\ \A s, t \in strings : strtab[s] = strtab[t] => s = t
        /\ \A i \in DOMAIN tokens :
               tokens[i].symbol # NoSymbol =>
                   /\ text(tokens[i].start, tokens[i].end) \in strings
                   /\ strtab[text(tokens[i].start, tokens[i].end)] = tokens[i].symbol

IInv == Types /\ Interned /\ Tiling /\ MaximalMunch /\ ErrorIsRight /\ WarningsAreRight

(***************************************************************************)
(* The tokens after one is appended.                                       *)
(***************************************************************************)
LEMMA TokenAppended ==
    ASSUME Types, NEW kind, NEW end, NEW symbol,
           TokenStep(kind, end, symbol), symbol \in Nat
    PROVE  /\ tokens' \in Seq(Token) /\ Len(tokens') = Len(tokens) + 1
           /\ Len(tokens) \in Nat
           /\ DOMAIN tokens = 1..Len(tokens) /\ DOMAIN tokens' = 1..(Len(tokens) + 1)
           /\ \A i \in 1..Len(tokens) : tokens'[i] = tokens[i] /\ tokens[i] \in Token
           /\ tokens'[Len(tokens) + 1] =
                  [kind |-> kind, start |-> input, end |-> end, symbol |-> symbol]
           /\ file' = file /\ input' = end + 1 /\ error' = error /\ status' = status
           /\ end \in Nat /\ input \in Nat /\ input <= end /\ end < Len(file) /\ Len(file) \in Nat
<1>1. Len(file) \in Nat /\ input \in Nat
  BY FileIs DEF Types
<1>2. end \in Nat /\ kind \in Kinds /\ input <= end /\ end < Len(file)
  BY <1>1 DEF TokenStep
<1> DEFINE t == [kind |-> kind, start |-> input, end |-> end, symbol |-> symbol]
<1>3. t \in Token
  BY <1>1, <1>2 DEF Token
<1>4. tokens' = Append(tokens, t) /\ tokens \in Seq(Token)
  BY DEF TokenStep, Returns, Types
<1> HIDE DEF t
<1>5. /\ tokens' \in Seq(Token) /\ Len(tokens') = Len(tokens) + 1
      /\ \A i \in 1..Len(tokens) : tokens'[i] = tokens[i]
      /\ tokens'[Len(tokens) + 1] = t
  BY <1>3, <1>4, AppendProperties
<1>6. /\ Len(tokens) \in Nat /\ DOMAIN tokens = 1..Len(tokens)
      /\ DOMAIN tokens' = 1..(Len(tokens) + 1)
      /\ \A i \in 1..Len(tokens) : tokens[i] \in Token
  BY <1>4, <1>5, LenProperties, ElementOfSeq
<1> QED
  BY <1>1, <1>2, <1>5, <1>6 DEF t, TokenStep, Returns

(***************************************************************************)
(* The string table.                                                       *)
(***************************************************************************)
LEMMA InternedIs ==
    ASSUME IsFiniteSet(DOMAIN strtab), NEW s,
           \A t \in DOMAIN strtab : strtab[t] \in 1..Cardinality(DOMAIN strtab),
           \A t, u \in DOMAIN strtab : strtab[t] = strtab[u] => t = u
    PROVE  /\ DOMAIN interned(s) = DOMAIN strtab \cup {s}
           /\ IsFiniteSet(DOMAIN strtab \cup {s})
           /\ \A t \in DOMAIN strtab : interned(s)[t] = strtab[t]
           /\ \A t \in DOMAIN strtab \cup {s} : interned(s)[t] \in 1..Cardinality(DOMAIN strtab \cup {s})
           /\ \A t, u \in DOMAIN strtab \cup {s} : interned(s)[t] = interned(s)[u] => t = u
<1> DEFINE strings == DOMAIN strtab
<1>1. Cardinality(strings) \in Nat
  BY FS_CardinalityType
<1>2. CASE s \in strings
  <2>1. strings \cup {s} = strings /\ interned(s) = strtab
    BY <1>2 DEF interned
  <2> QED
    BY <2>1
<1>3. CASE s \notin strings
  <2>1. /\ IsFiniteSet(strings \cup {s})
        /\ Cardinality(strings \cup {s}) = Cardinality(strings) + 1
    BY <1>3, FS_AddElement
  <2>2. interned(s) = [t \in strings \cup {s} |->
                          IF t = s THEN Cardinality(strings) + 1 ELSE strtab[t]]
    BY <1>3 DEF interned
  <2>3. /\ DOMAIN interned(s) = strings \cup {s}
        /\ interned(s)[s] = Cardinality(strings) + 1
        /\ \A t \in strings : interned(s)[t] = strtab[t]
    BY <1>3, <2>2
  <2> QED
    BY <1>1, <1>3, <2>1, <2>3
<1> QED
  BY <1>2, <1>3

LEMMA TokenInterned ==
    ASSUME Types, Interned, NEW kind, NEW end, NEW symbol, TokenStep(kind, end, symbol)
    PROVE  Interned' /\ symbol \in Nat
<1> DEFINE strings == DOMAIN strtab
           s == text(input, end)
<1>1. /\ IsFiniteSet(strings)
      /\ \A t \in strings : strtab[t] \in 1..Cardinality(strings)
      /\ \A t, u \in strings : strtab[t] = strtab[u] => t = u
      /\ \A i \in DOMAIN tokens :
             tokens[i].symbol # NoSymbol =>
                 /\ text(tokens[i].start, tokens[i].end) \in strings
                 /\ strtab[text(tokens[i].start, tokens[i].end)] = tokens[i].symbol
  BY DEF Interned
<1>3. CASE symbol = NoSymbol /\ strtab' = strtab
  <2>1. symbol \in Nat
    BY <1>3 DEF NoSymbol
  <2>2. \A i \in DOMAIN tokens' :
            tokens'[i].symbol # NoSymbol => i \in DOMAIN tokens /\ tokens'[i] = tokens[i]
    <3>1. /\ Len(tokens) \in Nat
          /\ DOMAIN tokens = 1..Len(tokens) /\ DOMAIN tokens' = 1..(Len(tokens) + 1)
          /\ \A i \in 1..Len(tokens) : tokens'[i] = tokens[i]
          /\ tokens'[Len(tokens) + 1] =
                 [kind |-> kind, start |-> input, end |-> end, symbol |-> symbol]
      BY <2>1, TokenAppended
    <3>2. tokens'[Len(tokens) + 1].symbol = symbol
      BY <3>1
    <3>3. \A i \in DOMAIN tokens' : i \in DOMAIN tokens \/ i = Len(tokens) + 1
      BY <3>1
    <3> QED
      BY <1>3, <3>1, <3>2, <3>3
  <2>3. file' = file
    BY <2>1, TokenAppended
  <2>4. \A i \in DOMAIN tokens' :
             tokens'[i].symbol # NoSymbol =>
                 /\ text(tokens[i].start, tokens[i].end)' \in strings
                 /\ strtab[text(tokens[i].start, tokens[i].end)'] = tokens'[i].symbol
    BY <1>1, <2>2, <2>3 DEF text
  <2> QED
    BY <1>1, <1>3, <2>1, <2>4 DEF Interned
<1>4. CASE strtab' = interned(s) /\ symbol = strtab'[s]
  <2>1. /\ DOMAIN strtab' = strings \cup {s}
        /\ IsFiniteSet(DOMAIN strtab')
        /\ \A t \in strings : strtab'[t] = strtab[t]
        /\ \A t \in DOMAIN strtab' : strtab'[t] \in 1..Cardinality(DOMAIN strtab')
        /\ \A t, u \in DOMAIN strtab' : strtab'[t] = strtab'[u] => t = u
    <3>1. /\ DOMAIN interned(s) = DOMAIN strtab \cup {s}
          /\ IsFiniteSet(DOMAIN strtab \cup {s})
          /\ \A t \in DOMAIN strtab : interned(s)[t] = strtab[t]
          /\ \A t \in DOMAIN strtab \cup {s} :
                interned(s)[t] \in 1..Cardinality(DOMAIN strtab \cup {s})
          /\ \A t, u \in DOMAIN strtab \cup {s} : interned(s)[t] = interned(s)[u] => t = u
      <4> HIDE DEF s
      <4> QED
        BY <1>1, InternedIs
    <3> HIDE DEF s
    <3> QED
      BY <1>4, <3>1
  <2>2. symbol \in Nat
    BY <1>4, <2>1, FS_CardinalityType
  <2>3. ASSUME NEW i \in DOMAIN tokens', tokens'[i].symbol # NoSymbol
        PROVE  /\ text(tokens[i].start, tokens[i].end)' \in DOMAIN strtab'
               /\ strtab'[text(tokens[i].start, tokens[i].end)'] = tokens'[i].symbol
    <3>0. /\ Len(tokens) \in Nat /\ file' = file
          /\ DOMAIN tokens = 1..Len(tokens) /\ DOMAIN tokens' = 1..(Len(tokens) + 1)
          /\ \A j \in 1..Len(tokens) : tokens'[j] = tokens[j]
          /\ tokens'[Len(tokens) + 1] =
                 [kind |-> kind, start |-> input, end |-> end, symbol |-> symbol]
      BY <2>2, TokenAppended
    <3>1. i \in DOMAIN tokens \/ i = Len(tokens) + 1
      BY <2>3, <3>0
    <3>2. file' = file
      BY <3>0
    <3>3. CASE i \in DOMAIN tokens
      <4>1. tokens'[i] = tokens[i]
        BY <3>0, <3>3
      <4>2. text(tokens[i].start, tokens[i].end)' = text(tokens[i].start, tokens[i].end)
        BY <3>2, <4>1 DEF text
      <4> QED
        BY <1>1, <2>1, <2>3, <3>3, <4>1, <4>2
    <3>4. CASE i = Len(tokens) + 1
      <4>1. tokens'[i].start = input /\ tokens'[i].end = end /\ tokens'[i].symbol = symbol
        BY <3>0, <3>4
      <4>2. text(tokens[i].start, tokens[i].end)' = s
        BY <3>2, <4>1 DEF text
      <4> QED
        BY <1>4, <2>1, <4>1, <4>2
    <3> QED
      BY <3>1, <3>3, <3>4
  <2> QED
    BY <2>1, <2>2, <2>3 DEF Interned
<1> QED
  BY <1>3, <1>4 DEF TokenStep

-----------------------------------------------------------------------------
(***************************************************************************)
(* The types, by the kind of step.                                         *)
(***************************************************************************)
LEMMA TypesNext == Types /\ Interned /\ [Next]_vars => Types'
<1> SUFFICES ASSUME Types, Interned, [Next]_vars PROVE Types'
  OBVIOUS
<1>1. /\ file \in Files /\ file \in Seq(Character) /\ Len(file) \in Nat
      /\ input \in 0..Len(file) /\ input \in Nat /\ tokens \in Seq(Token)
      /\ warnings \subseteq 0..Len(file) - 1
  BY FileIs DEF Types
<1>2. \A from \in Nat, to \in Int : to < Len(file) => Warned(from, to) \subseteq 0..Len(file) - 1
  BY <1>1 DEF Warned
<1>3. ASSUME NEW kind, NEW end, NEW symbol, TokenStep(kind, end, symbol) PROVE Types'
  <2>1. symbol \in Nat
    BY <1>3, TokenInterned
  <2>2. /\ tokens' \in Seq(Token) /\ file' = file /\ input' = end + 1
        /\ error' = error /\ status' = status /\ end \in Nat /\ end < Len(file)
    BY <1>3, <2>1, TokenAppended
  <2>3. warnings' \subseteq 0..Len(file) - 1
    <3>1. end - 2 \in Int /\ end - 2 < Len(file) /\ input + 2 \in Nat
      BY <1>1, <2>2
    <3>2. Warned(input + 2, end - 2) \subseteq 0..Len(file) - 1
      BY <1>2, <3>1
    <3> QED
      BY <1>1, <1>3, <3>2 DEF TokenStep
  <2> QED
    BY <1>1, <2>2, <2>3 DEF Types
<1>4. CASE UnexpectedStep
  BY <1>1, <1>4 DEF UnexpectedStep, Fails, Types
<1>5. CASE UnclosedStep
  <2>1. Warned(input + 2, Len(file) - 2) \subseteq 0..Len(file) - 1
    BY <1>1, <1>2
  <2>2. warnings' \subseteq 0..Len(file) - 1
    BY <1>1, <1>5, <2>1 DEF UnclosedStep
  <2> QED
    BY <1>1, <1>5, <2>2 DEF UnclosedStep, Fails, Types
<1>6. CASE PanicStep
  BY <1>1, <1>6 DEF PanicStep, Types
<1>7. CASE end_of_input
  BY <1>1, <1>7 DEF end_of_input, Types
<1>8. CASE UNCHANGED vars
  BY <1>8 DEF vars, Types
<1> QED
  BY <1>1, <1>3, <1>4, <1>5, <1>6, <1>7, <1>8, Steps

LEMMA InternedNext == Types /\ Interned /\ [Next]_vars => Interned'
<1> SUFFICES ASSUME Types, Interned, [Next]_vars PROVE Interned'
  OBVIOUS
<1>1. file \in Seq(Character) /\ input \in 0..Len(file)
  BY FileIs DEF Types
<1>2. ASSUME NEW kind, NEW end, NEW symbol, TokenStep(kind, end, symbol) PROVE Interned'
  BY <1>2, TokenInterned
<1>3. ASSUME UNCHANGED <<file, tokens, strtab>> PROVE Interned'
  <2>1. \A i \in DOMAIN tokens :
            text(tokens[i].start, tokens[i].end)' = text(tokens[i].start, tokens[i].end)
    BY <1>3 DEF text
  <2> QED
    BY <1>3, <2>1 DEF Interned
<1>4. UnexpectedStep \/ UnclosedStep \/ PanicStep \/ end_of_input \/ UNCHANGED vars
          => UNCHANGED <<file, tokens, strtab>>
  BY DEF UnexpectedStep, UnclosedStep, PanicStep, Fails, end_of_input, vars
<1> QED
  BY <1>1, <1>2, <1>3, <1>4, Steps

(***************************************************************************)
(* Nothing is skipped and nothing is read twice.                           *)
(***************************************************************************)
begin(i) == IF i = 1 THEN 0 ELSE tokens[i - 1].end + 1

LEMMA TilingIs ==
    Tiling <=>
        /\ \A i \in 1..Len(tokens) : tokens[i].start = begin(i) /\ tokens[i].start <= tokens[i].end
        /\ status \in {"lexing", "eof"} => input = begin(Len(tokens) + 1)
        /\ status = "eof" => input = Len(file)
        /\ status = "error" => error.start = begin(Len(tokens) + 1)
  BY DEF Tiling, begin

LEMMA TilingNext == Types /\ Interned /\ Tiling /\ [Next]_vars => Tiling'
<1> SUFFICES ASSUME Types, Interned, Tiling, [Next]_vars PROVE Tiling'
  OBVIOUS
<1>1. file \in Seq(Character) /\ input \in 0..Len(file)
  BY FileIs DEF Types
<1>0. PICK n \in Nat : n = Len(tokens)
  BY LenProperties DEF Types
<1>2. /\ \A i \in 1..n : tokens[i].start = begin(i) /\ tokens[i].start <= tokens[i].end
      /\ status \in {"lexing", "eof"} => input = begin(n + 1)
      /\ status = "eof" => input = Len(file)
      /\ status = "error" => error.start = begin(n + 1)
  BY <1>0, TilingIs
<1>3. ASSUME NEW kind, NEW end, NEW symbol, TokenStep(kind, end, symbol) PROVE Tiling'
  <2>1. symbol \in Nat
    BY <1>3, TokenInterned
  <2>2. /\ n \in Nat /\ Len(tokens') = n + 1
        /\ \A i \in 1..n : tokens'[i] = tokens[i]
        /\ tokens'[n + 1] = [kind |-> kind, start |-> input, end |-> end, symbol |-> symbol]
        /\ input' = end + 1 /\ status' = status /\ input <= end
    BY <1>0, <1>3, <2>1, TokenAppended
  <2>3. status = "lexing"
    BY <1>3 DEF TokenStep
  <2>4. ASSUME NEW i \in 1..(n + 1) PROVE begin(i)' = begin(i)
    <3>1. i # 1 => i - 1 \in 1..n
      BY <2>2
    <3>2. i # 1 => tokens'[i - 1] = tokens[i - 1]
      BY <2>2, <3>1
    <3> QED
      BY <3>2 DEF begin
  <2>5. begin(n + 2)' = end + 1
    <3>1. n + 2 # 1 /\ (n + 2) - 1 = n + 1
      BY <1>0
    <3>2. tokens'[n + 1].end = end
      BY <2>2
    <3> QED
      BY <3>1, <3>2 DEF begin
  <2>6. \A i \in 1..(n + 1) : tokens'[i].start = begin(i)' /\ tokens'[i].start <= tokens'[i].end
    <3>1. tokens'[n + 1].start = begin(n + 1)' /\ tokens'[n + 1].start <= tokens'[n + 1].end
      <4>1. n + 1 \in 1..(n + 1)
        BY <1>0
      <4>2. begin(n + 1)' = begin(n + 1) /\ input = begin(n + 1)
        BY <1>2, <2>3, <2>4, <4>1
      <4>3. tokens'[n + 1].start = input /\ tokens'[n + 1].end = end
        BY <2>2
      <4> QED
        BY <2>2, <4>2, <4>3
    <3>2. ASSUME NEW i \in 1..n
          PROVE  tokens'[i].start = begin(i)' /\ tokens'[i].start <= tokens'[i].end
      <4>1. i \in 1..(n + 1)
        BY <2>2
      <4> QED
        BY <1>2, <2>2, <2>4, <4>1
    <3>3. \A i \in 1..(n + 1) : i \in 1..n \/ i = n + 1
      BY <1>0
    <3> QED
      BY <3>1, <3>2, <3>3
  <2>7. (n + 1) + 1 = n + 2
    BY <2>2
  <2>8. Tiling' <=>
          /\ \A i \in 1..Len(tokens') :
                tokens'[i].start = begin(i)' /\ tokens'[i].start <= tokens'[i].end
          /\ status' \in {"lexing", "eof"} => input' = begin(Len(tokens) + 1)'
          /\ status' = "eof" => input' = Len(file')
          /\ status' = "error" => error'.start = begin(Len(tokens) + 1)'
    BY DEF Tiling, begin
  <2>9. begin(Len(tokens) + 1)' = begin(n + 2)'
    BY <2>2, <2>7 DEF begin
  <2> QED
    BY <2>2, <2>3, <2>5, <2>6, <2>8, <2>9
<1>4. ASSUME UNCHANGED <<tokens, file>>,
             \/ UNCHANGED <<input, error, status>>
             \/ status = "lexing" /\ status' = "error" /\ error'.start = input
             \/ status = "lexing" /\ status' = "panicked"
             \/ status = "lexing" /\ status' = "eof" /\ UNCHANGED input /\ input = Len(file)
      PROVE  Tiling'
  BY <1>4 DEF Tiling
<1>5. UnexpectedStep \/ UnclosedStep
         => UNCHANGED <<tokens, file>> /\ status = "lexing" /\ status' = "error" /\ error'.start = input
  BY DEF UnexpectedStep, UnclosedStep, Fails
<1>6. PanicStep => UNCHANGED <<tokens, file>> /\ status = "lexing" /\ status' = "panicked"
  BY DEF PanicStep
<1>7. end_of_input => /\ UNCHANGED <<tokens, file, input>> /\ input = Len(file)
                      /\ status = "lexing" /\ status' = "eof"
  BY DEF end_of_input
<1>8. UNCHANGED vars => UNCHANGED <<tokens, file, input, error, status>>
  BY DEF vars
<1> QED
  BY <1>1, <1>3, <1>4, <1>5, <1>6, <1>7, <1>8, Steps

(***************************************************************************)
(* Every token is the longest lexeme.                                      *)
(***************************************************************************)
LEMMA MunchNext == Types /\ Interned /\ MaximalMunch /\ [Next]_vars => MaximalMunch'
<1> SUFFICES ASSUME Types, Interned, MaximalMunch, [Next]_vars PROVE MaximalMunch'
  OBVIOUS
<1>1. file \in Seq(Character) /\ input \in 0..Len(file)
  BY FileIs DEF Types
<1>2. MaximalMunch <=> \A i \in DOMAIN tokens : Longest(tokens[i].kind, tokens[i].start, tokens[i].end)
  BY DEF MaximalMunch, Longest
<1>3. MaximalMunch' <=> \A i \in DOMAIN tokens' :
                           Longest(tokens[i].kind, tokens[i].start, tokens[i].end)'
  BY DEF MaximalMunch, Longest
<1>4. ASSUME NEW kind, NEW end, NEW symbol, TokenStep(kind, end, symbol) PROVE MaximalMunch'
  <2>1. symbol \in Nat
    BY <1>4, TokenInterned
  <2>2. /\ Len(tokens) \in Nat /\ file' = file
        /\ DOMAIN tokens = 1..Len(tokens) /\ DOMAIN tokens' = 1..(Len(tokens) + 1)
        /\ \A i \in 1..Len(tokens) : tokens'[i] = tokens[i]
        /\ tokens'[Len(tokens) + 1] =
               [kind |-> kind, start |-> input, end |-> end, symbol |-> symbol]
    BY <1>4, <2>1, TokenAppended
  <2>3. Longest(kind, input, end)
    BY <1>4 DEF TokenStep
  <2>4. ASSUME NEW i \in DOMAIN tokens'
        PROVE  Longest(tokens'[i].kind, tokens'[i].start, tokens'[i].end)
    <3>1. i \in 1..Len(tokens) \/ i = Len(tokens) + 1
      BY <2>2
    <3>2. CASE i \in 1..Len(tokens)
      BY <1>2, <2>2, <3>2
    <3>3. CASE i = Len(tokens) + 1
      <4>1. tokens'[i].kind = kind /\ tokens'[i].start = input /\ tokens'[i].end = end
        BY <2>2, <3>3
      <4> QED
        BY <2>3, <4>1
    <3> QED
      BY <3>1, <3>2, <3>3
  <2>5. ASSUME NEW i \in DOMAIN tokens'
        PROVE  Longest(tokens[i].kind, tokens[i].start, tokens[i].end)'
    <3>1. Longest(tokens[i].kind, tokens[i].start, tokens[i].end)'
              <=> Longest(tokens'[i].kind, tokens'[i].start, tokens'[i].end)
      BY <2>2 DEF Longest, IsLexeme, IsWord, IsComment, AllIn, text
    <3> QED
      BY <2>4, <3>1
  <2> QED
    BY <1>3, <2>5
<1>5. ASSUME UNCHANGED <<tokens, file>> PROVE MaximalMunch'
  <2>1. ASSUME NEW i \in DOMAIN tokens'
        PROVE  Longest(tokens[i].kind, tokens[i].start, tokens[i].end)'
    <3>1. Longest(tokens[i].kind, tokens[i].start, tokens[i].end)'
              <=> Longest(tokens[i].kind, tokens[i].start, tokens[i].end)
      BY <1>5 DEF Longest, IsLexeme, IsWord, IsComment, AllIn, text
    <3> QED
      BY <1>2, <1>5, <3>1
  <2> QED
    BY <1>3, <2>1
<1>6. UnexpectedStep \/ UnclosedStep \/ PanicStep \/ end_of_input \/ UNCHANGED vars
          => UNCHANGED <<file, tokens>>
  BY DEF UnexpectedStep, UnclosedStep, PanicStep, Fails, end_of_input, vars
<1> QED
  BY <1>1, <1>4, <1>5, <1>6, Steps

(***************************************************************************)
(* An error is returned only where no lexeme starts.                       *)
(***************************************************************************)
LEMMA ErrorNext == Types /\ Interned /\ ErrorIsRight /\ [Next]_vars => ErrorIsRight'
<1> SUFFICES ASSUME Types, Interned, ErrorIsRight, [Next]_vars PROVE ErrorIsRight'
  OBVIOUS
<1>1. /\ file \in Seq(Character) /\ input \in 0..Len(file)
      /\ input \in Nat /\ Len(file) \in Nat
  BY FileIs DEF Types
<1>2. ASSUME status' \in {"lexing", "eof"} PROVE ErrorIsRight'
  BY <1>2 DEF ErrorIsRight
<1>3. ASSUME NEW kind, NEW end, NEW symbol, TokenStep(kind, end, symbol) PROVE ErrorIsRight'
  BY <1>2, <1>3 DEF TokenStep, Returns
<1>4. CASE UnexpectedStep
  <2>1. /\ file' = file /\ status' = "error"
        /\ error' = [kind |-> "UnexpectedCharacter", start |-> input, end |-> input]
    BY <1>4 DEF UnexpectedStep, Fails
  <2>2. \A e \in input..Len(file) - 1, k \in Kinds : ~IsLexeme(k, text(input, e))
    BY <1>4 DEF UnexpectedStep
  <2>3. /\ error'.kind = "UnexpectedCharacter" /\ error'.start = input /\ error'.end = input
    BY <2>1
  <2>4. ~\E e \in error'.start..Len(file') - 1 :
            \E k \in Kinds : IsLexeme(k, text(error.start, e))'
    <3>1. ASSUME NEW e, NEW k
          PROVE  IsLexeme(k, text(error.start, e))' <=> IsLexeme(k, text(input, e))
      BY <2>1, <2>3 DEF IsLexeme, IsWord, IsComment, AllIn, text
    <3> QED
      BY <2>1, <2>2, <2>3, <3>1
  <2> QED
    BY <2>1, <2>3, <2>4 DEF ErrorIsRight
<1>5. CASE UnclosedStep
  <2>1. /\ file' = file /\ status' = "error"
        /\ error' = [kind |-> "UnclosedComment", start |-> input, end |-> Len(file) - 1]
    BY <1>5 DEF UnclosedStep, Fails
  <2>2. /\ input + 2 < Len(file) /\ PairAt(input, "/", "*")
        /\ \A o \in input + 2..Len(file) - 1 : ~PairAt(o, "*", "/")
    BY <1>5 DEF UnclosedStep
  <2>3. text(input, input + 1) = Opening
    BY <1>1, <2>2, DelimitersAt
  <2>4. ASSUME NEW o \in input + 2..Len(file) - 2 PROVE text(o, o + 1) # Closing
    <3>1. o \in 0..Len(file) /\ o + 1 < Len(file) /\ o \in input + 2..Len(file) - 1
      BY <1>1
    <3> QED
      BY <1>1, <2>2, <3>1, DelimitersAt
  <2>5. /\ error'.kind = "UnclosedComment" /\ error'.start = input
        /\ error'.end = Len(file) - 1
    BY <2>1
  <2>6. /\ text(error.start, error.start + 1)' = Opening
        /\ \A o \in error'.start + 2..Len(file') - 2 : text(o, o + 1)' # Closing
    BY <2>1, <2>3, <2>4, <2>5 DEF text
  <2> QED
    BY <2>1, <2>5, <2>6 DEF ErrorIsRight
<1>6. CASE PanicStep
  <2>1. /\ file' = file /\ status' = "panicked" /\ input + 2 = Len(file)
        /\ PairAt(input, "/", "*")
    BY <1>6 DEF PanicStep
  <2>2. text(input, input + 1) = Opening
    BY <1>1, <2>1, DelimitersAt
  <2>3. Len(file) - 2 = input /\ Len(file) - 1 = input + 1
    BY <1>1, <2>1
  <2>4. text(Len(file) - 2, Len(file) - 1)' = Opening
    BY <2>1, <2>2, <2>3 DEF text
  <2> QED
    BY <2>1, <2>4 DEF ErrorIsRight
<1>7. CASE end_of_input
  BY <1>2, <1>7 DEF end_of_input
<1>8. CASE UNCHANGED vars
  <2>1. file' = file /\ status' = status /\ error' = error
    BY <1>8 DEF vars
  <2>2. ASSUME NEW k, NEW e
        PROVE  IsLexeme(k, text(error.start, e))' <=> IsLexeme(k, text(error.start, e))
    BY <2>1 DEF IsLexeme, IsWord, IsComment, AllIn, text
  <2> QED
    BY <2>1, <2>2 DEF ErrorIsRight, text
<1> QED
  BY <1>1, <1>3, <1>4, <1>5, <1>6, <1>7, <1>8, Steps

(***************************************************************************)
(* The warnings, offset by offset.                                         *)
(***************************************************************************)
InBody(o) ==
    \/ \E i \in DOMAIN tokens :
           /\ tokens[i].kind = "Comment"
           /\ o \in tokens[i].start + 2..tokens[i].end - 2
           /\ text(o, o + 1) = Opening
    \/ /\ error.kind = "UnclosedComment"
       /\ o \in error.start + 2..error.end - 1
       /\ text(o, o + 1) = Opening

WarnedInBodies == \A o : o \in warnings <=> InBody(o)

LEMMA WarningsAre == WarningsAreRight <=> WarnedInBodies
<1> DEFINE comments == {j \in DOMAIN tokens : tokens[j].kind = "Comment"}
           bodies == {[from |-> tokens[i].start + 2, to |-> tokens[i].end - 2] : i \in comments}
           last == IF error.kind = "UnclosedComment"
                   THEN {[from |-> error.start + 2, to |-> error.end - 1]} ELSE {}
           within(b) == {o \in b.from..b.to : text(o, o + 1) = Opening}
           all == UNION {within(b) : b \in bodies \cup last}
<1>1. WarningsAreRight <=> warnings = all
  BY DEF WarningsAreRight
<1>2. \A o : o \in all <=> \E b \in bodies \cup last : o \in within(b)
  OBVIOUS
<1>3. ASSUME NEW o, NEW f, NEW t
      PROVE  o \in within([from |-> f, to |-> t]) <=> o \in f..t /\ text(o, o + 1) = Opening
  <2> DEFINE b == [from |-> f, to |-> t]
  <2>1. b.from = f /\ b.to = t
    OBVIOUS
  <2>2. o \in within(b) <=> o \in b.from..b.to /\ text(o, o + 1) = Opening
    OBVIOUS
  <2> QED
    BY <2>1, <2>2
<1>4. ASSUME NEW o
      PROVE  (\E b \in bodies : o \in within(b)) <=>
                 \E i \in comments : o \in within([from |-> tokens[i].start + 2,
                                                 to |-> tokens[i].end - 2])
  <2> HIDE DEF within, comments
  <2> QED
    OBVIOUS
<1>5. ASSUME NEW o
      PROVE  (\E b \in last : o \in within(b)) <=>
                 /\ error.kind = "UnclosedComment"
                 /\ o \in within([from |-> error.start + 2, to |-> error.end - 1])
  <2> HIDE DEF within
  <2>1. CASE error.kind = "UnclosedComment"
    BY <2>1
  <2>2. CASE error.kind # "UnclosedComment"
    BY <2>2
  <2> QED
    BY <2>1, <2>2
<1>6. \A i : i \in comments <=> i \in DOMAIN tokens /\ tokens[i].kind = "Comment"
  OBVIOUS
<1> HIDE DEF comments, bodies, last, within
<1>7. ASSUME NEW o PROVE o \in all <=> InBody(o)
  <2>1. o \in all <=> (\E b \in bodies : o \in within(b)) \/ (\E b \in last : o \in within(b))
    BY <1>2
  <2>2. (\E b \in last : o \in within(b)) <=>
            /\ error.kind = "UnclosedComment"
            /\ o \in error.start + 2..error.end - 1
            /\ text(o, o + 1) = Opening
    BY <1>3, <1>5
  <2>3. (\E b \in bodies : o \in within(b)) <=>
            \E i \in comments : /\ o \in tokens[i].start + 2..tokens[i].end - 2
                               /\ text(o, o + 1) = Opening
    BY <1>3, <1>4
  <2> QED
    BY <2>1, <2>2, <2>3, <1>6 DEF InBody
<1> HIDE DEF all
<1>8. warnings = all <=> \A o : o \in warnings <=> o \in all
  OBVIOUS
<1> QED
  BY <1>1, <1>7, <1>8 DEF WarnedInBodies

(***************************************************************************)
(* A token adds the openings in its body if it is a comment, and an error  *)
(* those of the comment that is not closed; none is forgotten, because no  *)
(* error was returned before.                                              *)
(***************************************************************************)
LEMMA WarningsNext ==
    Types /\ Interned /\ WarningsAreRight /\ [Next]_vars => WarningsAreRight'
<1> SUFFICES ASSUME Types, Interned, WarnedInBodies, [Next]_vars PROVE WarnedInBodies'
  <2>1. (WarningsAreRight <=> WarnedInBodies)'
    BY WarningsAre, PTL
  <2> QED
    BY <2>1, WarningsAre
<1>1. /\ file \in Seq(Character) /\ input \in 0..Len(file)
      /\ input \in Nat /\ Len(file) \in Nat
  BY FileIs DEF Types
<1>2. ASSUME UNCHANGED <<file, tokens, warnings>>, error'.kind # "UnclosedComment",
             error.kind # "UnclosedComment"
      PROVE  WarnedInBodies'
  BY <1>2 DEF WarnedInBodies, InBody, text
<1>3. NoError.kind # "UnclosedComment"
  BY DEF NoError
<1>4. ASSUME NEW o, NEW from \in Nat, NEW to \in Int, to + 1 < Len(file)
      PROVE  o \in Warned(from, to) <=> o \in from..to /\ text(o, o + 1) = Opening
  <2>1. CASE o \in from..to
    <3>1. o \in 0..Len(file) /\ o + 1 < Len(file)
      BY <1>1, <1>4, <2>1
    <3> QED
      BY <1>1, <2>1, <3>1, DelimitersAt DEF Warned
  <2>2. CASE o \notin from..to
    BY <2>2 DEF Warned
  <2> QED
    BY <2>1, <2>2
<1>5. ASSUME NEW kind, NEW end, NEW symbol, TokenStep(kind, end, symbol)
      PROVE  WarnedInBodies'
  <2>1. symbol \in Nat /\ error = NoError
    BY <1>5, TokenInterned DEF Types, TokenStep
  <2>2. /\ Len(tokens) \in Nat
        /\ DOMAIN tokens = 1..Len(tokens) /\ DOMAIN tokens' = 1..(Len(tokens) + 1)
        /\ \A i \in 1..Len(tokens) : tokens'[i] = tokens[i]
        /\ tokens'[Len(tokens) + 1] =
               [kind |-> kind, start |-> input, end |-> end, symbol |-> symbol]
        /\ file' = file /\ error' = error
        /\ end \in Nat /\ end < Len(file)
    BY <1>5, <2>1, TokenAppended
  <2> DEFINE last == Len(tokens) + 1
  <2>3. /\ tokens'[last].kind = kind /\ tokens'[last].start = input
        /\ tokens'[last].end = end
    BY <2>2
  <2>4. DOMAIN tokens' = DOMAIN tokens \cup {last} /\ last \notin DOMAIN tokens
    BY <2>2
  <2>5. \A o : o \in warnings' <=>
            o \in warnings \/ (kind = "Comment" /\ o \in Warned(input + 2, end - 2))
    <3>1. warnings' = warnings \cup (IF kind = "Comment" THEN Warned(input + 2, end - 2)
                                                        ELSE {})
      BY <1>5 DEF TokenStep
    <3>2. CASE kind = "Comment"
      BY <3>1, <3>2
    <3>3. CASE kind # "Comment"
      BY <3>1, <3>3
    <3> QED
      BY <3>2, <3>3
  <2>6. \A o : o \in Warned(input + 2, end - 2)
                 <=> o \in input + 2..end - 2 /\ text(o, o + 1) = Opening
    <3>1. input + 2 \in Nat /\ end - 2 \in Int /\ (end - 2) + 1 < Len(file)
      BY <1>1, <2>2
    <3> QED
      BY <1>4, <3>1
  <2>7. ASSUME NEW o
        PROVE  InBody(o)' <=>
                   \/ InBody(o)
                   \/ /\ kind = "Comment" /\ o \in input + 2..end - 2
                      /\ text(o, o + 1) = Opening
    <3>1. text(o, o + 1)' = text(o, o + 1)
      BY <2>2 DEF text
    <3>2. InBody(o)' <=> \E i \in DOMAIN tokens' :
                            /\ tokens'[i].kind = "Comment"
                            /\ o \in tokens'[i].start + 2..tokens'[i].end - 2
                            /\ text(o, o + 1) = Opening
      BY <1>3, <2>1, <2>2, <3>1 DEF InBody
    <3>3. InBody(o) <=> \E i \in DOMAIN tokens :
                           /\ tokens[i].kind = "Comment"
                           /\ o \in tokens[i].start + 2..tokens[i].end - 2
                           /\ text(o, o + 1) = Opening
      BY <1>3, <2>1 DEF InBody
    <3>4. \A i \in DOMAIN tokens : tokens'[i] = tokens[i]
      BY <2>2
    <3> HIDE DEF last
    <3>5. CASE \E i \in DOMAIN tokens' :
                  /\ tokens'[i].kind = "Comment"
                  /\ o \in tokens'[i].start + 2..tokens'[i].end - 2
                  /\ text(o, o + 1) = Opening
      <4>1. PICK i \in DOMAIN tokens \cup {last} :
                  /\ tokens'[i].kind = "Comment"
                  /\ o \in tokens'[i].start + 2..tokens'[i].end - 2
                  /\ text(o, o + 1) = Opening
        BY <2>4, <3>5
      <4>2. CASE i = last
        BY <2>3, <3>2, <3>5, <4>1, <4>2
      <4>3. CASE i \in DOMAIN tokens
        BY <3>2, <3>3, <3>4, <3>5, <4>1, <4>3
      <4> QED
        BY <4>1, <4>2, <4>3
    <3>6. CASE InBody(o)
      BY <2>4, <3>2, <3>3, <3>4, <3>6
    <3>7. CASE /\ kind = "Comment" /\ o \in input + 2..end - 2
               /\ text(o, o + 1) = Opening
      BY <2>3, <2>4, <3>2, <3>7
    <3> QED
      BY <3>2, <3>5, <3>6, <3>7
  <2>8. \A o : InBody(o)' <=> o \in warnings'
    BY <2>5, <2>6, <2>7 DEF WarnedInBodies
  <2> QED
    BY <2>8 DEF WarnedInBodies
<1>6. CASE UnclosedStep
  <2>1. /\ file' = file /\ tokens' = tokens
        /\ error' = [kind |-> "UnclosedComment", start |-> input, end |-> Len(file) - 1]
        /\ warnings' = warnings \cup Warned(input + 2, Len(file) - 2)
    BY <1>6 DEF UnclosedStep, Fails
  <2>2. error = NoError /\ (Len(file) - 1) - 1 = Len(file) - 2
    BY <1>1, <1>6 DEF Types, UnclosedStep
  <2>3. /\ error'.kind = "UnclosedComment" /\ error'.start = input
        /\ error'.end = Len(file) - 1
    BY <2>1
  <2>4. \A o : o \in Warned(input + 2, Len(file) - 2)
                 <=> o \in input + 2..Len(file) - 2 /\ text(o, o + 1) = Opening
    <3>1. input + 2 \in Nat /\ Len(file) - 2 \in Int /\ (Len(file) - 2) + 1 < Len(file)
      BY <1>1
    <3> QED
      BY <1>4, <3>1
  <2>5. ASSUME NEW o
        PROVE  InBody(o)' <=> InBody(o) \/ o \in Warned(input + 2, Len(file) - 2)
    <3>1. text(o, o + 1)' = text(o, o + 1)
      BY <2>1 DEF text
    <3>2. InBody(o) <=> \E i \in DOMAIN tokens :
                           /\ tokens[i].kind = "Comment"
                           /\ o \in tokens[i].start + 2..tokens[i].end - 2
                           /\ text(o, o + 1) = Opening
      BY <1>3, <2>2 DEF InBody
    <3> QED
      BY <2>1, <2>2, <2>3, <2>4, <3>1, <3>2 DEF InBody
  <2> QED
    BY <2>1, <2>5 DEF WarnedInBodies
<1>7. CASE UnexpectedStep
  <2>1. UNCHANGED <<file, tokens, warnings>> /\ error'.kind # "UnclosedComment" /\ error = NoError
    BY <1>7 DEF UnexpectedStep, Fails, Types
  <2> QED
    BY <1>2, <1>3, <2>1
<1>8. CASE PanicStep \/ end_of_input \/ UNCHANGED vars
  <2>1. UNCHANGED <<file, tokens, warnings, error>>
    BY <1>8 DEF PanicStep, end_of_input, vars
  <2> QED
    BY <2>1 DEF WarnedInBodies, InBody, text
<1> QED
  BY <1>1, <1>5, <1>6, <1>7, <1>8, Steps

-----------------------------------------------------------------------------
(***************************************************************************)
(* The inductive invariant holds of every state, and implies the           *)
(* properties that the runs check.                                         *)
(***************************************************************************)
LEMMA IInvInit == Init => IInv
<1> SUFFICES ASSUME Init PROVE IInv
  OBVIOUS
<1>1. /\ file \in Files /\ input = 0 /\ tokens = <<>> /\ strtab = <<>> /\ warnings = {}
      /\ error = NoError /\ status = "lexing"
  BY DEF Init
<1>2. Len(file) \in Nat
  BY <1>1, FileIs
<1>3. DOMAIN tokens = {} /\ DOMAIN strtab = {} /\ Len(tokens) = 0 /\ tokens \in Seq(Token)
  BY <1>1, EmptySeq
<1>4. Types
  BY <1>1, <1>2, <1>3 DEF Types
<1>5. Interned
  BY <1>3, FS_EmptySet DEF Interned
<1>6. Tiling
  BY <1>1, <1>3 DEF Tiling
<1>7. MaximalMunch
  BY <1>3 DEF MaximalMunch
<1>8. ErrorIsRight
  BY <1>1 DEF ErrorIsRight
<1>9. WarnedInBodies
  BY <1>1, <1>3 DEF WarnedInBodies, InBody, NoError
<1> QED
  BY <1>4, <1>5, <1>6, <1>7, <1>8, <1>9, WarningsAre DEF IInv

LEMMA IInvNext == IInv /\ [Next]_vars => IInv'
  BY TypesNext, InternedNext, TilingNext, MunchNext, ErrorNext, WarningsNext DEF IInv

(***************************************************************************)
(* The inductive invariant is one: the types, the string table, and the    *)
(* four properties below hold of every state the lexer reaches.            *)
(***************************************************************************)
THEOREM LexerIInv == Spec => []IInv
  BY IInvInit, IInvNext, PTL DEF Spec

(***************************************************************************)
(* Cursor, tokens and warnings stay within the file, and every symbol is   *)
(* one that intern has given out (lexer.rs:398-425, strtab.rs:23-30).      *)
(***************************************************************************)
THEOREM LexerTypeOK == Spec => []TypeOK
<1>1. Types /\ Interned => TypeOK
  <2> SUFFICES ASSUME Types, Interned PROVE TypeOK
    OBVIOUS
  <2>1. Cardinality(DOMAIN strtab) \in Nat
    BY FS_CardinalityType DEF Interned
  <2>2. \A s \in DOMAIN strtab : strtab[s] \in Nat \ {NoSymbol}
    BY <2>1 DEF Interned, NoSymbol
  <2> QED
    BY <2>2 DEF Types, TypeOK, Token
<1> QED
  BY <1>1, LexerIInv, PTL DEF IInv

(***************************************************************************)
(* The tokens tile the file, whatever handlers follow each other           *)
(* (lexer.rs:398-425).                                                     *)
(***************************************************************************)
THEOREM LexerTiling == Spec => []Tiling
<1>1. IInv => Tiling
  BY DEF IInv
<1> QED
  BY <1>1, LexerIInv, PTL

(***************************************************************************)
(* Each token is the longest lexeme of any kind that starts where it does  *)
(* (lexer.rs:427-598).                                                     *)
(***************************************************************************)
THEOREM LexerMaximalMunch == Spec => []MaximalMunch
<1>1. IInv => MaximalMunch
  BY DEF IInv
<1> QED
  BY <1>1, LexerIInv, PTL

(***************************************************************************)
(* An error is returned only where no lexeme starts, and a panic follows   *)
(* only the opening of a comment that ends the file.                       *)
(***************************************************************************)
THEOREM LexerErrorIsRight == Spec => []ErrorIsRight
<1>1. IInv => ErrorIsRight
  BY DEF IInv
<1> QED
  BY <1>1, LexerIInv, PTL

(***************************************************************************)
(* Exactly the comment openings inside of comments are warned about        *)
(* (lexer.rs:487-495).                                                     *)
(***************************************************************************)
THEOREM LexerWarnings == Spec => []WarningsAreRight
<1>1. IInv => WarningsAreRight
  BY DEF IInv
<1> QED
  BY <1>1, LexerIInv, PTL

(***************************************************************************)
(* Symbols and texts correspond one to one (strtab.rs:23-30).              *)
(***************************************************************************)
THEOREM LexerSymbols == Spec => []SymbolsAreTexts
<1>1. Interned => SymbolsAreTexts
  <2> DEFINE s(i) == text(tokens[i].start, tokens[i].end)
             named == {k \in DOMAIN tokens : tokens[k].symbol # NoSymbol}
  <2> SUFFICES ASSUME Interned, NEW i \in named, NEW j \in named
               PROVE  tokens[i].symbol = tokens[j].symbol <=> s(i) = s(j)
    BY DEF SymbolsAreTexts
  <2>1. /\ s(i) \in DOMAIN strtab /\ strtab[s(i)] = tokens[i].symbol
        /\ s(j) \in DOMAIN strtab /\ strtab[s(j)] = tokens[j].symbol
        /\ strtab[s(i)] = strtab[s(j)] => s(i) = s(j)
    BY DEF Interned
  <2> HIDE DEF s
  <2> QED
    BY <2>1
<1> QED
  BY <1>1, LexerIInv, PTL DEF IInv
=============================================================================
