----------------------------- MODULE MCPrintAst -----------------------------
(***************************************************************************)
(* PrintAst on every tree over three small sets: expressions nested twice  *)
(* and statements nested three times in one method, and classes with all   *)
(* kinds of members in any order of their names.                           *)
(***************************************************************************)
EXTENDS PrintAst, Ast, FiniteSets

MCNames == <<"A", "B">>

Lists(S, n) == UNION {[1..k -> S] : k \in 0..n}
Optional(S) == {<<>>} \cup {<<s>> : s \in S}

Identifier == [node |-> "Atom", token |-> "identifier"]

(***************************************************************************)
(* Expressions whose parts are in S.                                       *)
(***************************************************************************)
ExprsOver(S) ==
    [node : {"Binary"}, op : {"-", "="}, lhs : S, rhs : S]
    \cup [node : {"Unary"}, op : {"-", "!"}, expr : S]
    \cup [node : {"MethodInvocation"}, target : S, arguments : Lists(S, 1)]
    \cup [node : {"ThisMethodInvocation"}, arguments : Lists(S, 1)]
    \cup [node : {"FieldAccess"}, target : S]
    \cup [node : {"ArrayAccess"}, target : S, index : S]
    \cup {[node |-> "NewObject"]}
    \cup [node : {"NewArray"}, basic : {"int"}, size : S, brackets : 0..1]

Leaves == {Identifier}
Nested1 == Leaves \cup ExprsOver(Leaves)
Nested2 == Nested1 \cup {[node |-> "Atom", token |-> "integer"],
                         [node |-> "ThisMethodInvocation", arguments |-> <<Identifier, Identifier>>]}
           \cup ExprsOver(Nested1)

(***************************************************************************)
(* Statements.  The parser builds no `if` whose first arm ends with an     *)
(* `if` that has no `else`, but where its own `else` is missing as well.   *)
(***************************************************************************)
RECURSIVE Unambiguous(_)
Unambiguous(s) ==
    CASE s.node = "If"    -> /\ Unambiguous(s.then)
                             /\ s.els # <<>> => ~Open(s.then) /\ Unambiguous(s.els[1])
      [] s.node = "While" -> Unambiguous(s.body)
      [] s.node = "Block" -> \A i \in DOMAIN s.statements : Unambiguous(s.statements[i])
      [] OTHER            -> TRUE

Ifs(T, E) == [node : {"If"}, condition : Leaves, then : T, els : E]
Whiles(S) == [node : {"While"}, condition : Leaves, body : S]
Blocks(L) == [node : {"Block"}, statements : L]

Simple == {EmptyStmt, [node |-> "Expression", expr |-> Identifier]}
IntType == [node |-> "Type", basic |-> "int", array_depth |-> 0]
ArrayType == [node |-> "Type", basic |-> "identifier", array_depth |-> 1]
LocalVariables == [node : {"LocalVariableDeclaration"}, type : {IntType, ArrayType},
                  value : Optional(Leaves)]

Stmts1 == Simple \cup Ifs(Simple, Optional(Simple)) \cup Whiles(Simple) \cup Blocks(Lists(Simple, 1))
Stmts2 == Ifs(Stmts1, Optional(Stmts1)) \cup Whiles(Stmts1) \cup Blocks(Lists(Stmts1, 1))
          \cup Blocks(Lists(Simple, 2))
Around1 == LET S == Ifs(Simple, Optional(Simple))
           IN  Whiles(S) \cup Blocks(Lists(S, 1)) \cup Ifs(S, {<<>>}) \cup Ifs({EmptyStmt}, Optional(S))
Stmts3 == Ifs(Around1, Optional(Simple \cup {[node |-> "Block", statements |-> <<>>]}))

Bodies == {<<s>> : s \in {s \in Stmts1 \cup Stmts2 \cup Stmts3 : Unambiguous(s)}}
          \cup Lists(LocalVariables \cup {EmptyStmt, [node |-> "Return", value |-> <<>>]}, 2)
          \cup {<<[node |-> "Return", value |-> <<e>>]>> : e \in Nested2}

(***************************************************************************)
(* Programs.                                                               *)
(***************************************************************************)
OfClasses(classes) ==
    [node |-> "AST", program |-> <<[node |-> "Program", classes |-> classes]>>]

WithBody(body) ==
    OfClasses(<<[node |-> "ClassDeclaration", name |-> Names[1], members |-> <<
                    [node |-> "MainMethod", name |-> Names[1],
                     block |-> [node |-> "Block", statements |-> body]]>>]>>)

EmptyBlock == [node |-> "Block", statements |-> <<>>]
Parameter1 == [node |-> "Parameter", type |-> ArrayType]

Members ==
    [node : {"Field"}, name : ToSet(Names), type : {IntType}]
    \cup [node : {"Method"}, name : ToSet(Names), type : {ArrayType},
          parameters : Lists({Parameter1}, 2), block : {EmptyBlock}]
    \cup [node : {"MainMethod"}, name : ToSet(Names), block : {EmptyBlock}]

Classes(n) == [node : {"ClassDeclaration"}, name : ToSet(Names), members : Lists(Members, n)]

MCAsts == {[node |-> "AST", program |-> <<>>]}
          \cup {WithBody(b) : b \in Bodies}
          \cup {OfClasses(c) : c \in [1..1 -> Classes(2)] \cup [1..2 -> Classes(1)]}

(***************************************************************************)
(* These are trees as ast.rs has them.                                     *)
(***************************************************************************)
RECURSIVE NodesOf(_)
NodesOf(n) ==
    LET lists == {"program", "classes", "members", "parameters", "statements", "els", "value",
                  "arguments"}
        parts == {"type", "block", "condition", "then", "body", "expr", "lhs", "rhs", "target",
                  "index", "size"}
        below == UNION {ToSet(n[f]) : f \in DOMAIN n \cap lists} \cup {n[f] : f \in DOMAIN n \cap parts}
    IN  {n} \cup UNION {NodesOf(part) : part \in below}

ASSUME TreesAreAForest == Forest(UNION {NodesOf(t) : t \in Asts})

-----------------------------------------------------------------------------
(***************************************************************************)
(* What --print-ast prints is a program, and it is the program that was    *)
(* read: sorting, parentheses and blanks keep every operand, argument and  *)
(* arm where it was (pretty.rs:80-100, 206-264, 348-416), but an `else`    *)
(* around an `if` whose own empty `else` is dropped.                       *)
(***************************************************************************)
ReadsBack ==
    phase = "parse" => /\ status \notin {"error", "panicked"}
                       /\ status = "accepted" => expr = Polish(ReadAs(ast))

(***************************************************************************)
(* The output is printed the same again, character by character            *)
(* ("gen_ast_idempotence_integration_tests!();",                           *)
(* compiler-cli/tests/integration.rs:188), but where an `else` is lost.    *)
(***************************************************************************)
PrintsTheSameAgain == phase = "done" => LosesElse(ast) \/ out = first

\* The same of every program.
Idempotent == phase = "done" => out = first

(***************************************************************************)
(* indent and outdent are balanced on every path (pretty.rs:44-62): a      *)
(* brace that closes stands alone at the start of its line, as far in as   *)
(* the line that opens it, unless both are on one line.                    *)
(***************************************************************************)
LineStart(i) == LET before == {j \in 1..(i - 1) : out[j] = "\n"}
                IN  IF before = {} THEN 1 ELSE 1 + CHOOSE j \in before : \A k \in before : k <= j
TabsAt(i) == Cardinality({j \in LineStart(i)..i : out[j] = "\t"})
Nesting(i) == Cardinality({j \in 1..i : out[j] = "{"}) - Cardinality({j \in 1..i : out[j] = "}"})

BracesAlign ==
    /\ phase # "dump" => IndentationBalances
    /\ phase \in {"print", "done"} /\ todo = <<>> =>
        \A i \in DOMAIN out : out[i] = "}" =>
               LET opening == {j \in 1..(i - 1) : out[j] = "{" /\ Nesting(j) = Nesting(i) + 1}
                   opens == CHOOSE j \in opening : \A k \in opening : k <= j
               IN  \/ LineStart(i) = LineStart(opens)
                   \/ TabsAt(i) = TabsAt(opens) /\ LineStart(i) + TabsAt(i) = i

(***************************************************************************)
(* A dump shows the whole tree in its shape: the statements and            *)
(* expressions, arguments, both arms and values included, in the order of  *)
(* the program, and every line two further in than the node it is a part   *)
(* of (structure.rs:107-119, visitor.rs:68-174).                           *)
(***************************************************************************)
Shown == P!Constructors \cup {"Block", "EmptyStatement", "If", "While", "Return", "Expression",
                              "LocalVariableDeclaration", "integer"}
Label(n) == IF n.node = "Atom" THEN n.token ELSE n.node

DumpShowsTheTree ==
    /\ phase = "dump" => Dump!DumpIsTheTree /\ Dump!NeverBelowZero
    /\ result = "Ok" =>
           LET shown(k) == k \in Shown \ {"ArrayOf"}
           IN  SelectSeq([i \in DOMAIN out |-> Label(out[i].node)], shown)
               = SelectSeq(Polish(ast), shown)

(***************************************************************************)
(* Both runs and the parser in between come to their end.                  *)
(***************************************************************************)
RoundTripEnds == <>(phase = "done" \/ result # "printing")
=============================================================================
