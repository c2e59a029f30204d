---------------------------- MODULE PrettyPrinter ----------------------------
(***************************************************************************)
(* The pretty printer (compiler-lib/src/print/pretty.rs).                  *)
(*                                                                         *)
(* do_prettyprint is a recursive function that prints while it descends:   *)
(* here todo holds what is left to do, nodes to descend into and calls of  *)
(* the IndentPrinter, and a node at its head is replaced by what its arm   *)
(* of the match does.  The output is a sequence of words, blanks, tabs and *)
(* newlines.  The results of all writes are ignored: a failing one takes   *)
(* nothing but its own text away, which is left to module Driver.          *)
(***************************************************************************)
EXTENDS Integers, Sequences

CONSTANTS
    Asts,            \* the syntax trees that are printed
    Names            \* the names of classes and members, in alphabetical order

VARIABLES
    ast,             \* the tree that is printed; chosen once
    todo,            \* what is left to do
    indent,
    indent_on_next_write,
    out              \* what is written

printer == <<indent, indent_on_next_write, out>>
vars == <<ast, todo, printer>>

(***************************************************************************)
(* The calls of the printer, each as a sequence of one.                    *)
(***************************************************************************)
print_str(text) == <<[node |-> "print", text |-> text]>>
newline == <<[node |-> "newline"]>>
deeper == <<[node |-> "indent"]>>
outdent == <<[node |-> "outdent"]>>

\* Mutant: the line is outdented without having been indented.
OnlyOutdented(items) == items \o outdent

Indented(items) == deeper \o items \o outdent

Init == /\ ast \in Asts
        /\ todo = <<ast>>
        /\ indent = 0
        /\ indent_on_next_write = FALSE
        /\ out = <<>>

node == Head(todo)

At(kind) == todo # <<>> /\ node.node = kind

Do(items) == /\ todo' = items \o Tail(todo)
             /\ UNCHANGED <<ast, printer>>

-----------------------------------------------------------------------------
(***************************************************************************)
(* The IndentPrinter: a line is indented by the first write to it.         *)
(***************************************************************************)
Tabs == IF indent_on_next_write THEN [i \in 1..indent |-> "\t"] ELSE <<>>

WriteText == /\ At("print")
             /\ out' = out \o Tabs \o node.text
             /\ indent_on_next_write' = FALSE
             /\ todo' = Tail(todo)
             /\ UNCHANGED <<ast, indent>>

Newline == /\ At("newline")
           /\ out' = Append(out, "\n")
           /\ indent_on_next_write' = TRUE
           /\ todo' = Tail(todo)
           /\ UNCHANGED <<ast, indent>>

indent_var(x) == /\ indent' = indent + x
                 /\ todo' = Tail(todo)
                 /\ UNCHANGED <<ast, indent_on_next_write, out>>

Indent == At("indent") /\ indent_var(1)

\* indent_var panics below zero: the printer is stuck there.
Outdent == At("outdent") /\ indent > 0 /\ indent_var(-1)

-----------------------------------------------------------------------------
(***************************************************************************)
(* Classes and members are sorted; both sorts are stable.  order is the    *)
(* permutation that puts s in order.                                       *)
(***************************************************************************)
rank(name) == CHOOSE i \in DOMAIN Names : Names[i] = name
name_less(a, b) == rank(a.name) < rank(b.name)

\* compare_class_member(a, b) is Less: methods before fields, then by name.
member_less(a, b) == IF (a.node = "Field") = (b.node = "Field") THEN name_less(a, b)
                     ELSE b.node = "Field"

less(a, b) == IF a.node = "ClassDeclaration" THEN name_less(a, b) ELSE member_less(a, b)

Sorts(order, s) ==
    \A i, j \in DOMAIN s :
        i < j => /\ order[i] # order[j]
                 /\ ~less(s[order[j]], s[order[i]])
                 /\ less(s[order[i]], s[order[j]]) \/ order[i] < order[j]

Sorted(s, order) == [i \in DOMAIN s |-> s[order[i]]]
Orders(s) == [DOMAIN s -> DOMAIN s]

\* AST::Empty holds no program.
AST == At("AST") /\ Do(node.program)

Program ==
    /\ At("Program")
    /\ \E order \in Orders(node.classes) :
           /\ Sorts(order, node.classes)
           /\ Do(Sorted(node.classes, order))

ClassDeclaration ==
    /\ At("ClassDeclaration")
    /\ \E order \in Orders(node.members) :
           /\ Sorts(order, node.members)
           /\ Do(print_str(<<"class", " ", node.name, " ", "{">>)
                 \o (IF node.members = <<>> THEN print_str(<<" ">>)
                     ELSE newline \o Indented(Sorted(node.members, order)))
                 \o print_str(<<"}">>) \o newline)

(***************************************************************************)
(* A list with commas between its parts; the arms of the class members.    *)
(***************************************************************************)
List(parts) == [i \in 1..(2 * Len(parts) - 1) |->
                    IF i % 2 = 1 THEN parts[(i + 1) \div 2] ELSE print_str(<<",", " ">>)[1]]

Field == /\ At("Field")
         /\ Do(print_str(<<"public", " ">>) \o <<node.type>>
               \o print_str(<<" ", node.name, ";">>) \o newline)

Method == /\ At("Method")
          /\ Do(print_str(<<"public", " ">>) \o <<node.type>>
                \o print_str(<<" ", node.name, "(">>) \o List(node.parameters)
                \o print_str(<<")", " ">>) \o <<node.block>> \o newline)

MainMethod == /\ At("MainMethod")
              /\ Do(print_str(<<"public", " ", "static", " ", "void", " ", node.name, "(",
                                "String", "[", "]", " ", "identifier", ")", " ">>)
                    \o <<node.block>> \o newline)

Parameter == At("Parameter") /\ Do(<<node.type>> \o print_str(<<" ", "identifier">>))

Brackets(depth) == [i \in 1..(2 * depth) |-> IF i % 2 = 1 THEN "[" ELSE "]"]

\* Type and BasicType.
Type == At("Type") /\ Do(print_str(<<node.basic>> \o Brackets(node.array_depth)))

-----------------------------------------------------------------------------
(***************************************************************************)
(* Statements.  Empty ones are left out where they do not matter.          *)
(***************************************************************************)
IsEmpty(stmt) == stmt.node = "EmptyStatement"

(***************************************************************************)
(* The loop over the statements of a block, one round for each: a line of  *)
(* its own, or nothing.                                                    *)
(***************************************************************************)
Rounds(stmts) == [i \in DOMAIN stmts |-> [node |-> "round", stmt |-> stmts[i]]]

\* Mutant: an empty statement leaves its line behind.
LineStays(stmt) == IF IsEmpty(stmt) THEN newline ELSE <<stmt>> \o newline

Line(stmt) == IF IsEmpty(stmt) THEN <<>> ELSE <<stmt>> \o newline

Round == At("round") /\ Do(Line(node.stmt))

Block ==
    /\ At("Block")
    /\ Do(IF \A i \in DOMAIN node.statements : IsEmpty(node.statements[i])
          THEN print_str(<<"{", " ", "}">>)
          ELSE print_str(<<"{">>) \o newline
               \o Indented(Rounds(node.statements)) \o print_str(<<"}">>))

EmptyStatement == At("EmptyStatement") /\ Do(print_str(<<";">>))

OnItsOwnLine(stmt) == newline \o Indented(<<stmt>>)

\* Mutant: the line that is not a block is never outdented.
KeepsIndentation(stmt) ==
    IF stmt.node = "Block" THEN print_str(<<" ">>) \o <<stmt>>
    ELSE newline \o deeper \o <<stmt>>

\* What an `if` or a `while` does with its statement.
Body(stmt) == IF stmt.node = "Block" THEN print_str(<<" ">>) \o <<stmt>> ELSE OnItsOwnLine(stmt)

\* The keyword and the condition.
Condition(keyword, condition) == print_str(<<keyword, " ", "(">>) \o <<condition>> \o print_str(<<")">>)

ElseArm(then, els) ==
    (IF then.node = "Block" THEN print_str(<<" ">>) ELSE newline)
    \o IF els.node \in {"If", "Block"} THEN print_str(<<"else", " ">>) \o <<els>>
       ELSE print_str(<<"else">>) \o OnItsOwnLine(els)

If == /\ At("If")
      /\ Do(Condition("if", node.condition) \o Body(node.then)
            \o IF node.els = <<>> \/ IsEmpty(node.els[1]) THEN <<>>
               ELSE ElseArm(node.then, node.els[1]))

While == At("While") /\ Do(Condition("while", node.condition) \o Body(node.body))

ExpressionStatement == At("Expression") /\ Do(<<node.expr>> \o print_str(<<";">>))

Return ==
    /\ At("Return")
    /\ Do(print_str(<<"return">>)
          \o (IF node.value = <<>> THEN <<>> ELSE print_str(<<" ">>) \o node.value)
          \o print_str(<<";">>))

LocalVariableDeclaration ==
    /\ At("LocalVariableDeclaration")
    /\ Do(<<node.type>> \o print_str(<<" ", "identifier">>)
          \o (IF node.value = <<>> THEN <<>> ELSE print_str(<<" ", "=", " ">>) \o node.value)
          \o print_str(<<";">>))

-----------------------------------------------------------------------------
(***************************************************************************)
(* Expressions.  Operands and targets are parenthesized unless they are a  *)
(* single token.                                                           *)
(***************************************************************************)
\* Mutant: a unary expression is an operand without parentheses.
BareUnary(e) == IF e.node \in {"Atom", "Unary"} THEN <<e>>
                ELSE print_str(<<"(">>) \o <<e>> \o print_str(<<")">>)

Parenthesized(e) == IF e.node = "Atom" THEN <<e>>
                    ELSE print_str(<<"(">>) \o <<e>> \o print_str(<<")">>)

Atom == At("Atom") /\ Do(print_str(<<node.token>>))

Binary == /\ At("Binary")
          /\ Do(Parenthesized(node.lhs) \o print_str(<<" ", node.op, " ">>)
                \o Parenthesized(node.rhs))

Unary == At("Unary") /\ Do(print_str(<<node.op>>) \o Parenthesized(node.expr))

MethodInvocation ==
    /\ At("MethodInvocation")
    /\ Do(Parenthesized(node.target) \o print_str(<<".", "identifier", "(">>)
          \o List(node.arguments) \o print_str(<<")">>))

ThisMethodInvocation ==
    /\ At("ThisMethodInvocation")
    /\ Do(print_str(<<"identifier", "(">>) \o List(node.arguments) \o print_str(<<")">>))

FieldAccess == /\ At("FieldAccess")
               /\ Do(Parenthesized(node.target) \o print_str(<<".", "identifier">>))

ArrayAccess == /\ At("ArrayAccess")
               /\ Do(Parenthesized(node.target) \o print_str(<<"[">>) \o <<node.index>>
                     \o print_str(<<"]">>))

NewObject == /\ At("NewObject")
             /\ Do(print_str(<<"new", " ", "identifier", "(", ")">>))

NewArray == /\ At("NewArray")
            /\ Do(print_str(<<"new", " ", node.basic, "[">>) \o <<node.size>>
                  \o print_str(<<"]">> \o Brackets(node.brackets)))

-----------------------------------------------------------------------------
IndentPrinter == WriteText \/ Newline \/ Indent \/ Outdent

Declarations == \/ AST \/ Program \/ ClassDeclaration \/ Field \/ Method \/ MainMethod
                \/ Parameter \/ Type

Statements == \/ Block \/ Round \/ EmptyStatement \/ If \/ While \/ ExpressionStatement
              \/ Return \/ LocalVariableDeclaration

Expressions == \/ Atom \/ Binary \/ Unary \/ MethodInvocation \/ ThisMethodInvocation
               \/ FieldAccess \/ ArrayAccess \/ NewObject \/ NewArray

Next == IndentPrinter \/ Declarations \/ Statements \/ Expressions

Spec == Init /\ [][Next]_vars

-----------------------------------------------------------------------------
(***************************************************************************)
(* indent and outdent are balanced on every path through do_prettyprint:   *)
(* indent_var never panics ("setting indent below 0", pretty.rs:57-59),    *)
(* and the last line is as far out as the first.                           *)
(***************************************************************************)
IndentationBalances == /\ At("outdent") => indent > 0
                       /\ todo = <<>> => indent = 0
=============================================================================
