------------------------------- MODULE Rules -------------------------------
(***************************************************************************)
(* The rules of programs and statements,                                   *)
(* tasksheets/sheet2/sll_grammar.md:13-49, and what Parser has to do with  *)
(* them; as in module ExprRules, each rule is an operator from what its    *)
(* parts derive to what it derives.                                        *)
(*                                                                         *)
(* The grammar is ambiguous only in the `else`, which belongs to the       *)
(* innermost `if` that is left: a statement that ends with an `if` without *)
(* `else` is called open, and none is put in front of an `else`.           *)
(*                                                                         *)
(* T, E, S and N stand for types, expressions, statements and names.       *)
(* Lists are derived with the token that closes them.                      *)
(***************************************************************************)
EXTENDS Parser, ExprRules

SimpleTypes(basic) == {<<<<t>>, <<"Type", t>>>> : t \in basic}

\* With a name behind it; the node ends with `suffix`.
Named(X, N, suffix) == {<<Append(x[1], id), x[2] \o suffix>> : x \in X, id \in N}

ClosingBrace == Terminal(<<"}">>, <<"}">>)

Blocks(L) == Enclosed(<<"{">>, <<"Block">>, L, <<>>)

-----------------------------------------------------------------------------
(***************************************************************************)
(* Statement and LocalVariableDeclarationStatement.                        *)
(***************************************************************************)
EmptyStatements == Terminal(<<";">>, <<"EmptyStatement">>)

Returning(E) == Terminal(<<"return", ";">>, <<"Return", "None">>)
                \cup Enclosed(<<"return">>, <<"Return", "Some">>, E, <<";">>)

ExpressionStatements(E) == Enclosed(<<>>, <<"Expression">>, E, <<";">>)

WhileLoops(E, S) == Concat(Enclosed(<<"while", "(">>, <<"While">>, E, <<")">>), S)

Conditions(E) == Enclosed(<<"if", "(">>, <<"If">>, E, <<")">>)

IfElses(E, S, R) ==
    Concat(Conditions(E), Concat(S, Enclosed(<<"else">>, <<"Some">>, R, <<>>)))

Ifs(E, S) == Concat(Conditions(E), Concat(S, Terminal(<<>>, <<"None">>)))

Initializers(E) == Terminal(<<";">>, <<"None">>) \cup Enclosed(<<"=">>, <<"Some">>, E, <<";">>)

Variables(T, N, I) == Enclosed(<<>>, <<"LocalVariableDeclaration">>, Concat(Named(T, N, <<>>), I), <<>>)

-----------------------------------------------------------------------------
(***************************************************************************)
(* ClassMember, ClassDeclaration and Program.  L are lists of block        *)
(* statements, P of parameters, M of members; B are bodies.                *)
(***************************************************************************)
Bodies(N, L) == Concat(Nothing \cup {<<<<"throws", id>>, <<>>>> : id \in N}, Blocks(L))

Fields(T, N) == Enclosed(<<"public">>, <<>>, Named(T, N, <<"Field">>), <<";">>)

MainMethods(N, B) ==
    Concat({<<<<"public", "static", "void", id, "(", "String", "[", "]", arg, ")">>,
              <<"MainMethod">>>> : id \in N, arg \in N}, B)

Methods(T, N, P, B) ==
    Concat(Enclosed(<<"public">>, <<>>, Named(T, N, <<"Method">>), <<"(">>), Concat(P, B))

ClassDeclarations(N, M) ==
    Concat({<<<<"class", id, "{">>, <<"ClassDeclaration">>>> : id \in N}, M)

\* The whole file; a file without a class is told from the others.
Programs(C) == {<<c[1], IF c[1] = <<>> THEN <<"Empty">> ELSE <<"Program">> \o c[2]>> : c \in C}

-----------------------------------------------------------------------------
(***************************************************************************)
(* G assigns to each nonterminal what it derives.  Statements are `closed` *)
(* or `open`; `block` are lists of block statements, `parameters` those of *)
(* at least one parameter.                                                 *)
(***************************************************************************)
AnyTypes(G) == SimpleTypes(BasicTypes) \cup Dimensions(G.type)

ClosedStatements(G) ==
    Blocks(G.block) \cup EmptyStatements \cup Returning(G.expression)
    \cup ExpressionStatements(G.expression) \cup WhileLoops(G.expression, G.closed)
    \cup IfElses(G.expression, G.closed, G.closed)

OpenStatements(G) ==
    Ifs(G.expression, G.closed \cup G.open) \cup WhileLoops(G.expression, G.open)
    \cup IfElses(G.expression, G.closed, G.open)

Declarations(G) == Variables(G.type, Identifiers, Initializers(G.expression))

BlockStatements(G) == G.closed \cup G.open \cup G.declaration

ParameterLists(G) == LET parameter == Named(G.type, Identifiers, <<"Parameter">>)
                     IN  LastArguments(parameter) \cup FurtherArguments(parameter, G.parameters)

ClassMembers(G) ==
    LET bodies == Bodies(Identifiers, G.block)
    IN  Fields(G.type, Identifiers) \cup MainMethods(Identifiers, bodies)
        \cup Methods(G.type, Identifiers, NoArguments \cup G.parameters, bodies)

IsProgramLanguage(G) ==
    /\ IsLanguage(G)
    /\ AnyTypes(G) \subseteq G.type
    /\ ClosedStatements(G) \subseteq G.closed
    /\ OpenStatements(G) \subseteq G.open
    /\ Declarations(G) \subseteq G.declaration
    /\ ClosingBrace \cup Concat(BlockStatements(G), G.block) \subseteq G.block
    /\ ParameterLists(G) \subseteq G.parameters
    /\ ClosingBrace \cup Concat(ClassMembers(G), G.members) \subseteq G.members
    /\ Nothing \cup Concat(ClassDeclarations(Identifiers, G.members), G.classes) \subseteq G.classes
    /\ Programs(G.classes) \subseteq G.program

(***************************************************************************)
(* An accepted file is a program of the grammar and the result is its      *)
(* tree: an `else` belongs to the innermost `if`, the two or three tokens  *)
(* of lookahead tell declarations from expressions, declarations stand     *)
(* only in blocks, and methods, main methods and fields are told apart     *)
(* (sll_grammar.md:13-49, parser.rs:296-526).                              *)
(***************************************************************************)
BuildsTheProgram == status = "accepted" => <<input, expr>> \in Derivable.program
=============================================================================
