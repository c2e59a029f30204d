------------------------------ MODULE ExprRules ------------------------------
(***************************************************************************)
(* The rules of the expressions, tasksheets/sheet2/sll_grammar.md:51-84,   *)
(* and what ExprParser has to do with them.                                *)
(*                                                                         *)
(* What a nonterminal derives is a set of pairs: tokens and their syntax   *)
(* tree.  Each rule is an operator from what its parts derive to what it   *)
(* derives.  Module ExprGrammar applies the rules to build all expressions *)
(* up to a length; here a language is any assignment of sets to the        *)
(* nonterminals that the rules do not lead out of, and the expressions of  *)
(* the grammar are those that are in every such language.                  *)
(***************************************************************************)
EXTENDS ExprParser

CONSTANT Derivable   \* what each nonterminal derives; see IsLanguage

\* The phrase q behind the phrase p: in these trees the parts follow each
\* other like the tokens.
Then(p, q) == <<p[1] \o q[1], p[2] \o q[2]>>

Concat(X, Y) == {Then(x, y) : x \in X, y \in Y}

Terminal(tokens, node) == {<<tokens, node>>}
Nothing == Terminal(<<>>, <<>>)

\* What X derives, between `open`, which begins the node, and `close`.
Enclosed(open, node, X, close) == {<<open \o x[1] \o close, node \o x[2]>> : x \in X}

\* Another dimension of an array.
Dimensions(X) == Enclosed(<<>>, <<"ArrayOf">>, X, <<"[", "]">>)

-----------------------------------------------------------------------------
(***************************************************************************)
(* PrimaryExpression.  What A derives are arguments with the parenthesis   *)
(* behind them.                                                            *)
(***************************************************************************)
Leaves == {<<<<l>>, <<l>>>> : l \in Literals \cup Identifiers}

Parenthesized(E) == Enclosed(<<"(">>, <<>>, E, <<")">>)

ThisMethodInvocations(A) ==
    {Then(<<<<id, "(">>, <<"ThisMethodInvocation">>>>, a) : id \in Identifiers, a \in A}

NewObjects == {<<<<"new", id, "(", ")">>, <<"NewObject">>>> : id \in Identifiers}

NewArrays(E) == UNION {Enclosed(<<"new", t, "[">>, NewArray(t), E, <<"]">>) : t \in BasicTypes}

(***************************************************************************)
(* PostfixOp.                                                              *)
(***************************************************************************)
MethodInvocations(P, A) ==
    {Then(<<p[1] \o <<".", id, "(">>, <<"MethodInvocation">> \o p[2]>>, a) :
        p \in P, id \in Identifiers, a \in A}

FieldAccesses(P) == {<<p[1] \o <<".", id>>, FieldAccess(p[2])>> : p \in P, id \in Identifiers}

ArrayAccesses(P, E) == {<<p[1] \o <<"[">> \o e[1] \o <<"]">>, ArrayAccess(p[2], e[2])>> :
                          p \in P, e \in E}

NoArguments == Terminal(<<")">>, <<")">>)
LastArguments(E) == Concat(E, NoArguments)
FurtherArguments(E, A) == Concat(E, Enclosed(<<",">>, <<>>, A, <<>>))

(***************************************************************************)
(* UnaryExpression: the sequences of operators in O before what P derives. *)
(* nesting(o, e) is the tree of the expression e with the operators o      *)
(* before it.                                                              *)
(***************************************************************************)
Unaries(O, P, nesting(_, _)) == {<<o \o p[1], nesting(o, p[2])>> : o \in O, p \in P}

\* The order in which the loop of parse_unary_expression applies them.
FirstReadInnermost(o, e) ==
    [i \in 1..2 * Len(o) |-> IF i % 2 = 1 THEN "Unary" ELSE o[Len(o) + 1 - (i \div 2)]] \o e

(***************************************************************************)
(* The operators of each level, from MultiplicativeExpression to           *)
(* LogicalOrExpression, and the assignment.                                *)
(***************************************************************************)
LevelOps == <<{"*", "/", "%"}, {"+", "-"}, {"<", "<=", ">", ">="}, {"==", "!="},
              {"&&"}, {"||"}>>

Binaries(operators, L, R) ==
    {<<l[1] \o <<o>> \o r[1], Binary(o, l[2], r[2])>> : o \in operators, l \in L, r \in R}

-----------------------------------------------------------------------------
(***************************************************************************)
(* G assigns to each nonterminal what it derives: level[0] are the unary   *)
(* expressions, level[i] those with operators of LevelOps[i], `arguments`  *)
(* the lists of at least one argument with the parenthesis behind them.    *)
(***************************************************************************)
PostfixExpressions(G) ==
    LET arguments == NoArguments \cup G.arguments
    IN  Leaves \cup Parenthesized(G.expression) \cup ThisMethodInvocations(arguments)
        \cup NewObjects \cup G.array
        \cup MethodInvocations(G.postfix, arguments) \cup FieldAccesses(G.postfix)
        \cup ArrayAccesses(G.postfix, G.expression)

ArrayCreations(G) == NewArrays(G.expression) \cup Dimensions(G.array)

ExpressionsOf(G, i) == IF i = 0 THEN Unaries(Seq(UnaryOps), G.postfix, FirstReadInnermost)
                       ELSE G.level[i - 1] \cup Binaries(LevelOps[i], G.level[i], G.level[i - 1])

Assignments(G) == G.level[6] \cup Binaries({"="}, G.level[6], G.expression)

ArgumentLists(G) == LastArguments(G.expression) \cup FurtherArguments(G.expression, G.arguments)

IsLanguage(G) == /\ PostfixExpressions(G) \subseteq G.postfix
                 /\ ArrayCreations(G) \subseteq G.array
                 /\ \A i \in 0..6 : ExpressionsOf(G, i) \subseteq G.level[i]
                 /\ Assignments(G) \subseteq G.expression
                 /\ ArgumentLists(G) \subseteq G.arguments

(***************************************************************************)
(* An accepted sequence is an expression of the grammar, and the result is *)
(* its tree, except for the order of several unary operators: precedence,  *)
(* associativity, the nesting of calls, indices and array dimensions are   *)
(* those of sll_grammar.md:51-84 (parser.rs:541-743).                      *)
(***************************************************************************)
BuildsTheTree ==
    status = "accepted" => <<SubSeq(input, 1, next - 1), expr>> \in Derivable.expression
=============================================================================
