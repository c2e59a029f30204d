------------------------------- MODULE Grammar -------------------------------
(***************************************************************************)
(* The reference for Parser: the programs and statements of the language,  *)
(* tasksheets/sheet2/sll_grammar.md:13-49, as bounded sets of token        *)
(* sequences with their trees.                                             *)
(***************************************************************************)
EXTENDS Rules, ExprGrammar

\* Type, with up to d dimensions.
RECURSIVE TypesUpTo(_, _)
TypesUpTo(basic, d) == SimpleTypes(basic) \cup
                       IF d = 0 THEN {} ELSE Dimensions(TypesUpTo(basic, d - 1))

(***************************************************************************)
(* Layer n: the statements and the lists of block statements of exactly n  *)
(* tokens of T, given the layers below and the expressions.                *)
(***************************************************************************)
StatementLayer(T, expressions, lower, n) ==
    LET over(X) == {x \in X : \A i \in DOMAIN x[1] : x[1][i] \in T}
        of(k, nonterminal) == IF k \in 1..(n - 1) THEN lower[k][nonterminal] ELSE {}
        any(k) == of(k, "closed") \cup of(k, "open")
        expression(k) == {e \in expressions : Len(e[1]) = k}
        whole(X) == {x \in X : Len(x[1]) = n}

        whiles(ending) == UNION {WhileLoops(expression(k), of(n - 3 - k, ending)) : k \in 1..n}
        if_elses(ending) == UNION {IfElses(expression(k), of(j, "closed"), of(n - 4 - k - j, ending)) :
                                   k \in 1..n, j \in 1..n}
        closed == over(whole(EmptyStatements \cup Returning(expression(n - 2)))
                       \cup Blocks(of(n - 1, "block")) \cup ExpressionStatements(expression(n - 1))
                       \cup whiles("closed") \cup if_elses("closed"))
        open == over(UNION {Ifs(expression(k), any(n - 3 - k)) : k \in 1..n}
                     \cup whiles("open") \cup if_elses("open"))
        declaration ==
            over(UNION {whole(Variables({t}, Identifiers, Initializers(expression(n - 3 - Len(t[1]))))) :
                        t \in TypesUpTo(BasicTypes, n)})
        block_statement(k) == IF k = n THEN closed \cup open \cup declaration
                              ELSE any(k) \cup of(k, "declaration")
    IN  [closed |-> closed, open |-> open, declaration |-> declaration,
         block |-> whole(ClosingBrace) \cup
                   UNION {Concat(block_statement(k), of(n - k, "block")) : k \in 1..(n - 1)}]

RECURSIVE StatementLayers(_, _, _)
StatementLayers(T, expressions, n) ==
    IF n = 0 THEN <<>>
    ELSE LET lower == StatementLayers(T, expressions, n - 1)
         IN  Append(lower, StatementLayer(T, expressions, lower, n))

\* The contents of a block of at most n tokens, with its closing brace.
BlocksUpTo(T, expressions, n) ==
    LET layers == StatementLayers(T, expressions, n + 1)
    IN  UNION {layers[k].block : k \in 1..(n + 1)}

-----------------------------------------------------------------------------
\* Up to n of the X after each other, with a brace or nothing behind them.
RECURSIVE Repeated(_, _, _)
Repeated(X, ending, n) ==
    ending \cup IF n = 0 THEN {} ELSE Concat(X, Repeated(X, ending, n - 1))

\* Up to n parameters.
RECURSIVE ParametersUpTo(_, _)
ParametersUpTo(parameter, n) ==
    IF n = 0 THEN {}
    ELSE LastArguments(parameter) \cup FurtherArguments(parameter, ParametersUpTo(parameter, n - 1))
=============================================================================
