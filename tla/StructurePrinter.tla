--------------------------- MODULE StructurePrinter ---------------------------
(***************************************************************************)
(* The structure printer of --debug-dumpast                                *)
(* (compiler-lib/src/print/structure.rs) over the visitor                  *)
(* (compiler-lib/src/visitor.rs): one line for every node, indented by its *)
(* depth.                                                                  *)
(*                                                                         *)
(* do_structureprint calls itself through for_each_child; todo holds the   *)
(* nodes still to be visited and the calls of add(-2) between them.  The   *)
(* nodes are those of module PrettyPrinter; a node that only the visitor   *)
(* tells apart is made where it is visited.                                *)
(***************************************************************************)
EXTENDS Integers, Sequences

CONSTANT Asts        \* the syntax trees that are printed

VARIABLES
    ast,             \* the tree that is printed; chosen once
    todo,            \* the nodes to visit
    indent,
    out,             \* the lines written: the node and its indentation
    result           \* "printing", "Ok", "Err" or "panicked"

vars == <<ast, todo, indent, out, result>>

Init == /\ ast \in Asts
        /\ todo = <<ast>>
        /\ indent = 0
        /\ out = <<>>
        /\ result = "printing"

-----------------------------------------------------------------------------
\* A block in the place of a statement is a Stmt with a Block in it.
AsStmt(stmt) == IF stmt.node = "Block" THEN [node |-> "BlockStatement", block |-> stmt] ELSE stmt
Stmts(stmts) == [i \in DOMAIN stmts |-> AsStmt(stmts[i])]

\* Mutant: the `else` is forgotten.
ForgetsElse(n) == <<n.condition, AsStmt(n.then)>>

IfChildren(n) == <<n.condition, AsStmt(n.then)>> \o Stmts(n.els)

(***************************************************************************)
(* for_each_child: operators, names and the type of a new array are no     *)
(* children.                                                               *)
(***************************************************************************)
children(n) ==
    CASE n.node = "AST"                  -> n.program
      [] n.node = "Program"              -> n.classes
      [] n.node = "ClassDeclaration"     -> n.members
      [] n.node = "Field"                -> <<n.type>>
      [] n.node = "Method"               ->
            <<n.type, [node |-> "ParameterList", parameters |-> n.parameters], n.block>>
      [] n.node \in {"MainMethod", "BlockStatement"} -> <<n.block>>
      [] n.node = "Parameter"            -> <<n.type>>
      [] n.node = "ParameterList"        -> n.parameters
      [] n.node = "Type"                 -> <<[node |-> "BasicType", basic |-> n.basic]>>
      [] n.node = "Block"                -> Stmts(n.statements)
      [] n.node \in {"Expression", "Unary"} -> <<n.expr>>
      [] n.node = "If"                   -> IfChildren(n)
      [] n.node = "LocalVariableDeclaration" -> <<n.type>> \o n.value
      [] n.node = "Return"               -> n.value
      [] n.node = "While"                -> <<n.condition, AsStmt(n.body)>>
      [] n.node = "Binary"               -> <<n.lhs, n.rhs>>
      [] n.node = "MethodInvocation"     -> <<n.target>> \o n.arguments
      [] n.node = "ThisMethodInvocation" -> n.arguments
      [] n.node = "FieldAccess"          -> <<n.target>>
      [] n.node = "ArrayAccess"          -> <<n.target, n.index>>
      [] n.node = "NewArray"             -> <<n.size>>
      [] OTHER                           -> <<>>

node == Head(todo)

(***************************************************************************)
(* do_structureprint: the line of the node, then the children, two further *)
(* in.                                                                     *)
(***************************************************************************)
Visit == /\ result = "printing"
         /\ todo # <<>> /\ node.node # "add(-2)"
         /\ out' = Append(out, [node |-> node, indent |-> indent])
         /\ indent' = indent + 2
         /\ todo' = children(node) \o <<[node |-> "add(-2)"]>> \o Tail(todo)
         /\ UNCHANGED <<ast, result>>

\* add(-2) fails below zero.
Leave == /\ result = "printing"
         /\ todo # <<>> /\ node.node = "add(-2)"
         /\ indent >= 2
         /\ indent' = indent - 2
         /\ todo' = Tail(todo)
         /\ result' = IF todo' = <<>> THEN "Ok" ELSE result
         /\ UNCHANGED <<ast, out>>

(***************************************************************************)
(* Writing a line fails: the root returns the error, the closure that      *)
(* visits the children unwraps it.                                         *)
(***************************************************************************)
WriteFails == /\ result = "printing"
              /\ todo # <<>> /\ node.node # "add(-2)"
              /\ result' = IF node = ast THEN "Err" ELSE "panicked"
              /\ UNCHANGED <<ast, todo, indent, out>>

Next == Visit \/ Leave \/ WriteFails

Spec == Init /\ [][Next]_vars

\* Nothing forces a write to fail.
FairSpec == Spec /\ WF_vars(Visit \/ Leave)

-----------------------------------------------------------------------------
(***************************************************************************)
(* A complete dump is the tree: the reader of its lines finds the root on  *)
(* the first one, and below every line, one step further in, the children  *)
(* of its node, all of them, in their order and nothing else               *)
(* (structure.rs:107-119).                                                 *)
(***************************************************************************)
\* Line i is below line j: it is a step further in, and no line between ends what j began.
Below(lines, j, i) == /\ j < i
                      /\ lines[i].indent = lines[j].indent + 2
                      /\ \A k \in j..i : k > j => lines[k].indent >= lines[i].indent

LinesBelow(lines, j) == {i \in DOMAIN lines : Below(lines, j, i)}

\* The lines below line j are the first n children of its node.
Shows(lines, j, n) ==
    \E at \in [1..n -> LinesBelow(lines, j)] :
        /\ \A k \in 1..n : lines[at[k]].node = children(lines[j].node)[k]
        /\ \A k, l \in 1..n : k < l => at[k] < at[l]
        /\ \A i \in LinesBelow(lines, j) : \E k \in 1..n : at[k] = i

DumpIsTheTree ==
    result = "Ok" =>
        /\ out # <<>> /\ out[1] = [node |-> ast, indent |-> 0]
        /\ \A i \in 2..Len(out) : \E j \in 1..(i - 1) : Below(out, j, i)
        /\ \A j \in DOMAIN out : Shows(out, j, Len(children(out[j].node)))

\* add(-2) never fails ("setting indent below 0", structure.rs:73-75).
NeverBelowZero == todo # <<>> /\ node.node = "add(-2)" => indent >= 2
=============================================================================
