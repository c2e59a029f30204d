---------------------------- MODULE MCExprParser ----------------------------
(***************************************************************************)
(* ExprParser on every beginning of an expression with every token after   *)
(* it, right or wrong, and on every expression over one operator of each   *)
(* precedence; compared with what the grammar derives.                     *)
(***************************************************************************)
EXTENDS ExprGrammar, FiniteSets

CONSTANTS SyntaxLen, OperatorLen, TokenLen

\* Everything that nests or needs lookahead, one unary operator.
SyntaxTokens == {"identifier", "(", ")", "[", "]", ".", ",", "new", "int", "-"}

\* One operator of each level and both unary ones.
OperatorTokens == {"identifier", "*", "-", "<", "==", "&&", "||", "=", "!"}

Derived(nesting(_, _)) == Language(SyntaxTokens, nesting, SyntaxLen)
                          \cup Language(OperatorTokens, nesting, OperatorLen)
                          \cup Language(Kind, nesting, TokenLen)

DerivedFirst == Derived(FirstReadInnermost)
MCDerivable == [expression |-> DerivedFirst]
DerivedLast == Derived(LastReadInnermost)

ASSUME GrammarIsUnambiguous ==
    Cardinality({x[1] : x \in DerivedFirst}) = Cardinality(DerivedFirst)

\* "Expression ;", as in the statement that enters the parser.
Sentences == {Append(x[1], ";") : x \in DerivedFirst}
Beginnings == UNION {{SubSeq(s, 1, k) : k \in 0..Len(s)} : s \in Sentences}
SyntaxBeginnings ==
    UNION {{SubSeq(x[1], 1, k) : k \in 0..Len(x[1])} :
           x \in Language(SyntaxTokens, FirstReadInnermost, SyntaxLen)}

MCFiles == Sentences \cup SyntaxBeginnings
           \cup {Append(b, t) : b \in SyntaxBeginnings,
                                t \in SyntaxTokens \cup {";", "*", "=", "integer", "other"}}
-----------------------------------------------------------------------------
(***************************************************************************)
(* A rejected sequence is wrong, and wrong no later than at the token that *)
(* is reported: no expression begins with the tokens that were looked at.  *)
(* Only after `new` is one more looked at, to tell objects from arrays     *)
(* (parser.rs:672).                                                        *)
(***************************************************************************)
LookedAt == IF /\ error > 1 /\ input[error - 1] = "new"
               /\ error < Len(input) /\ input[error + 1] = "("
            THEN error + 1 ELSE error

ErrorIsReal ==
    status = "error" =>
        IF error > Len(input) THEN \A k \in 1..Len(input) : SubSeq(input, 1, k) \notin Sentences
        ELSE SubSeq(input, 1, LookedAt) \notin Beginnings

(***************************************************************************)
(* The result is the tree of the grammar, for unary operators too:         *)
(* UnaryExpression is "PostfixExpression | (! | -) UnaryExpression"        *)
(* (sll_grammar.md:60).                                                    *)
(***************************************************************************)
NestsLikeTheGrammar ==
    status = "accepted" => <<SubSeq(input, 1, next - 1), expr>> \in DerivedLast
=============================================================================
