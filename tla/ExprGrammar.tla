----------------------------- MODULE ExprGrammar -----------------------------
(***************************************************************************)
(* The reference for ExprParser: the sub-grammar of expressions of the     *)
(* language, tasksheets/sheet2/sll_grammar.md:51-84, as the set of all     *)
(* bounded token sequences it derives, each with its syntax tree.          *)
(*                                                                         *)
(* The set is built length by length, with no regard to how a parser would *)
(* read a sequence.  The grammar is ambiguous exactly if a sequence comes  *)
(* with two trees.                                                         *)
(***************************************************************************)
EXTENDS ExprRules, SequencesExt

(***************************************************************************)
(* Layer n of the language over the tokens T: what each nonterminal        *)
(* derives with exactly n tokens, given the layers below.  nesting(o, e)   *)
(* is the tree of the expression e with the operators o before it.         *)
(***************************************************************************)
Layer(T, nesting(_, _), lower, n) ==
    LET over(X) == {x \in X : \A i \in DOMAIN x[1] : x[1][i] \in T}
        of(k, nonterminal) == IF k \in 1..(n - 1) THEN lower[k][nonterminal] ELSE {}
        at_level(k, i) == lower[k].level[i]
        \* The parenthesis behind them is one of the k tokens.
        arguments(k) == IF k = 1 THEN NoArguments ELSE of(k, "arguments")

        array == over(NewArrays(of(n - 4, "expression")) \cup Dimensions(of(n - 2, "array")))
        postfix == array \cup over(
            {x \in Leaves \cup NewObjects : Len(x[1]) = n}
            \cup Parenthesized(of(n - 2, "expression"))
            \cup ThisMethodInvocations(arguments(n - 2))
            \cup FieldAccesses(of(n - 2, "postfix"))
            \cup UNION {ArrayAccesses(of(k, "postfix"), of(n - 2 - k, "expression")) :
                        k \in 1..(n - 3)}
            \cup UNION {MethodInvocations(of(k, "postfix"), arguments(n - 3 - k)) :
                        k \in 1..(n - 4)})
        unary == postfix \cup
                 UNION {Unaries([1..(n - k) -> T \cap UnaryOps], of(k, "postfix"), nesting) :
                        k \in 1..(n - 1)}
        level[i \in 0..6] ==
            IF i = 0 THEN unary
            ELSE level[i - 1] \cup
                 UNION {Binaries(T \cap LevelOps[i], at_level(k, i), at_level(n - 1 - k, i - 1)) :
                        k \in 1..(n - 2)}
        expression == level[6] \cup
                      UNION {Binaries(T \cap {"="}, at_level(k, 6), of(n - 1 - k, "expression")) :
                             k \in 1..(n - 2)}
        list == over(LastArguments(of(n - 1, "expression"))
                     \cup UNION {FurtherArguments(of(k, "expression"), of(n - 1 - k, "arguments")) :
                                 k \in 1..(n - 2)})
    IN  [postfix |-> postfix, array |-> array, level |-> [i \in 0..6 |-> level[i]],
         expression |-> expression, arguments |-> list]

RECURSIVE Layers(_, _, _)
Layers(T, nesting(_, _), n) ==
    IF n = 0 THEN <<>>
    ELSE LET lower == Layers(T, nesting, n - 1)
         IN  Append(lower, Layer(T, nesting, lower, n))

\* The expressions of at most n tokens of T, with their trees.
Language(T, nesting(_, _), n) ==
    LET layers == Layers(T, nesting, n)
    IN  UNION {layers[k].expression : k \in 1..n}

(***************************************************************************)
(* UnaryExpression derives `-!e` as the negation of `!e`: the operator     *)
(* read last is applied first.                                             *)
(***************************************************************************)
LastReadInnermost(o, e) == FoldRight(Unary, o, e)
==============================================================================
