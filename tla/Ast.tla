--------------------------------- MODULE Ast ---------------------------------
(***************************************************************************)
(* The syntax trees (compiler-lib/src/ast.rs) as both printers are given   *)
(* them: records with the kind of the node, its parts, and its text where  *)
(* a printer shows it.  A Vec is a sequence, an Option one of at most one  *)
(* part; null, this, literals and variables are Atoms, and a block in the  *)
(* place of a statement is a Block.                                        *)
(***************************************************************************)
EXTENDS Naturals, Sequences

DeclarationNodes(parts) ==
    [node : {"AST"}, program : Seq(parts)]
    \cup [node : {"Program"}, classes : Seq(parts)]
    \cup [node : {"ClassDeclaration"}, name : STRING, members : Seq(parts)]
    \cup [node : {"Field"}, name : STRING, type : parts]
    \cup [node : {"Method"}, name : STRING, type : parts, parameters : Seq(parts), block : parts]
    \cup [node : {"MainMethod"}, name : STRING, block : parts]
    \cup [node : {"Parameter"}, type : parts]
    \cup [node : {"Type"}, basic : STRING, array_depth : Nat]

StatementNodes(parts) ==
    [node : {"Block"}, statements : Seq(parts)]
    \cup [node : {"EmptyStatement"}]
    \cup [node : {"If"}, condition : parts, then : parts, els : Seq(parts)]
    \cup [node : {"While"}, condition : parts, body : parts]
    \cup [node : {"Expression"}, expr : parts]
    \cup [node : {"Return"}, value : Seq(parts)]
    \cup [node : {"LocalVariableDeclaration"}, type : parts, value : Seq(parts)]

ExpressionNodes(parts) ==
    [node : {"Atom"}, token : STRING]
    \cup [node : {"Binary"}, op : STRING, lhs : parts, rhs : parts]
    \cup [node : {"Unary"}, op : STRING, expr : parts]
    \cup [node : {"MethodInvocation"}, target : parts, arguments : Seq(parts)]
    \cup [node : {"ThisMethodInvocation"}, arguments : Seq(parts)]
    \cup [node : {"FieldAccess"}, target : parts]
    \cup [node : {"ArrayAccess"}, target : parts, index : parts]
    \cup [node : {"NewObject"}]
    \cup [node : {"NewArray"}, basic : STRING, size : parts, brackets : Nat]

(***************************************************************************)
(* A set of trees with all their parts.                                    *)
(***************************************************************************)
Forest(nodes) ==
    nodes \subseteq DeclarationNodes(nodes) \cup StatementNodes(nodes) \cup ExpressionNodes(nodes)
=============================================================================
