---------------------------- MODULE PrinterProofs ----------------------------
(***************************************************************************)
(* Both printers, on syntax trees of every size.  The pretty printer never *)
(* outdents below zero and ends where it began, whatever it leaves out;    *)
(* and the lines of a complete dump are the nodes of the tree, in its      *)
(* shape.                                                                  *)
(*                                                                         *)
(* Both are recursive functions over a tree, of which the models keep what *)
(* is left to do.  The invariants say what that will do: for the pretty    *)
(* printer, that all of it together brings the indentation back to zero,   *)
(* never below; for the dump, that it is, line by line from the innermost  *)
(* one outwards, the children that are not shown yet.                      *)
(***************************************************************************)
EXTENDS PrettyPrinter, Ast, SequenceTheorems, TLAPS

VARIABLE result      \* see module StructurePrinter

Dump == INSTANCE StructurePrinter

-----------------------------------------------------------------------------
(***************************************************************************)
(* What the nodes of a tree have for parts.                                *)
(***************************************************************************)
Kinds == {"AST", "Program", "ClassDeclaration", "Field", "Method", "MainMethod", "Parameter",
          "Type", "Block", "EmptyStatement", "If", "While", "Expression", "Return",
          "LocalVariableDeclaration", "Atom", "Binary", "Unary", "MethodInvocation",
          "ThisMethodInvocation", "FieldAccess", "ArrayAccess", "NewObject", "NewArray"}

LEMMA KindOfNode ==
    ASSUME NEW N, Forest(N), NEW n \in N
    PROVE  n.node \in Kinds
<1>1. CASE n \in DeclarationNodes(N)
  BY <1>1 DEF DeclarationNodes, Kinds
<1>2. CASE n \in StatementNodes(N)
  BY <1>2 DEF StatementNodes, Kinds
<1>3. CASE n \in ExpressionNodes(N)
  BY <1>3 DEF ExpressionNodes, Kinds
<1>4. QED
  BY <1>1, <1>2, <1>3 DEF Forest

LEMMA Parts ==
    ASSUME NEW N, Forest(N), NEW n \in N
    PROVE  /\ n.node \notin {"print", "newline", "indent", "outdent", "round", "add(-2)"}
           /\ n.node = "AST" => n.program \in Seq(N)
           /\ n.node = "Program" => n.classes \in Seq(N)
           /\ n.node = "ClassDeclaration" => n.name \in STRING /\ n.members \in Seq(N)
           /\ n.node = "Field" => n.name \in STRING /\ n.type \in N
           /\ n.node = "Method" => /\ n.name \in STRING /\ n.type \in N
                                   /\ n.parameters \in Seq(N) /\ n.block \in N
           /\ n.node = "MainMethod" => n.name \in STRING /\ n.block \in N
           /\ n.node = "Parameter" => n.type \in N
           /\ n.node = "Type" => n.basic \in STRING /\ n.array_depth \in Nat
           /\ n.node = "Block" => n.statements \in Seq(N)
           /\ n.node = "If" => n.condition \in N /\ n.then \in N /\ n.els \in Seq(N)
           /\ n.node = "While" => n.condition \in N /\ n.body \in N
           /\ n.node = "Expression" => n.expr \in N
           /\ n.node = "Return" => n.value \in Seq(N)
           /\ n.node = "LocalVariableDeclaration" => n.type \in N /\ n.value \in Seq(N)
           /\ n.node = "Atom" => n.token \in STRING
           /\ n.node = "Binary" => n.op \in STRING /\ n.lhs \in N /\ n.rhs \in N
           /\ n.node = "Unary" => n.op \in STRING /\ n.expr \in N
           /\ n.node = "MethodInvocation" => n.target \in N /\ n.arguments \in Seq(N)
           /\ n.node = "ThisMethodInvocation" => n.arguments \in Seq(N)
           /\ n.node = "FieldAccess" => n.target \in N
           /\ n.node = "ArrayAccess" => n.target \in N /\ n.index \in N
           /\ n.node = "NewArray" => n.basic \in STRING /\ n.size \in N /\ n.brackets \in Nat
<1>1. CASE n \in DeclarationNodes(N)
  BY <1>1 DEF DeclarationNodes
<1>2. CASE n \in StatementNodes(N)
  BY <1>2 DEF StatementNodes
<1>3. CASE n \in ExpressionNodes(N)
  BY <1>3 DEF ExpressionNodes
<1>4. QED
  BY <1>1, <1>2, <1>3 DEF Forest

-----------------------------------------------------------------------------
(***************************************************************************)
(* What is left to do, as it changes the indentation.                      *)
(***************************************************************************)
\* A node, or a call that leaves the indentation alone.
Neutral(N, x) == \/ x \in N
                 \/ x.node \in {"print", "newline"}
                 \/ x.node = "round" /\ x.stmt \in N

Item(N, x) == Neutral(N, x) \/ x.node \in {"indent", "outdent"}

ItemsOf(N, items) == \E S : items \in Seq(S) /\ \A x \in S : Item(N, x)

shift(item) == CASE item.node = "indent"  -> 1
                 [] item.node = "outdent" -> -1
                 [] OTHER                 -> 0

\* The levels from item to item lead from a to b, and none is below zero.
Levels(items, a, b, level) ==
    /\ level \in [0..Len(items) -> Nat]
    /\ level[0] = a
    /\ level[Len(items)] = b
    /\ \A k \in 1..Len(items) : level[k] = level[k - 1] + shift(items[k])

Leads(items, a, b) == \E level : Levels(items, a, b, level)

\* These can be done anywhere, and leave the indentation as it was.
Steady(N, items) == /\ ItemsOf(N, items)
                    /\ \A a \in Nat : Leads(items, a, a)

LEMMA LeadsConcat ==
    ASSUME NEW S, NEW s \in Seq(S), NEW t \in Seq(S), NEW a, NEW b, NEW c,
           Leads(s, a, b), Leads(t, b, c)
    PROVE  Leads(s \o t, a, c)
<1>1. PICK l1 : Levels(s, a, b, l1)
  BY DEF Leads
<1>2. PICK l2 : Levels(t, b, c, l2)
  BY DEF Leads
<1>3. /\ Len(s) \in Nat /\ Len(t) \in Nat
      /\ s \o t \in Seq(S)
      /\ Len(s \o t) = Len(s) + Len(t)
      /\ \A i \in 1..Len(s) + Len(t) : (s \o t)[i] = IF i <= Len(s) THEN s[i] ELSE t[i - Len(s)]
  BY ConcatProperties, LenProperties
<1> DEFINE l == [k \in 0..Len(s \o t) |-> IF k <= Len(s) THEN l1[k] ELSE l2[k - Len(s)]]
<1>4. l \in [0..Len(s \o t) -> Nat]
  BY <1>1, <1>2, <1>3 DEF Levels
<1>5. l[0] = a /\ l[Len(s \o t)] = c
  <2>1. l1[0] = a /\ l1[Len(s)] = b /\ l2[0] = b /\ l2[Len(t)] = c
    BY <1>1, <1>2 DEF Levels
  <2>2. l[0] = a
    BY <1>3, <2>1
  <2>3. CASE Len(t) = 0
    BY <1>3, <2>1, <2>3
  <2>4. CASE Len(t) > 0
    BY <1>3, <2>1, <2>4
  <2>5. QED
    BY <1>3, <2>2, <2>3, <2>4
<1>6. ASSUME NEW k \in 1..Len(s \o t)
      PROVE  l[k] = l[k - 1] + shift((s \o t)[k])
  <2>1. CASE k <= Len(s)
    BY <1>1, <1>3, <2>1 DEF Levels
  <2>2. CASE k = Len(s) + 1
    <3>1. l[k - 1] = l2[0] /\ l[k] = l2[1] /\ (s \o t)[k] = t[1]
      BY <1>1, <1>2, <1>3, <2>2 DEF Levels
    <3>2. l2[1] = l2[0] + shift(t[1])
      BY <1>2, <1>3, <2>2 DEF Levels
    <3>3. QED
      BY <3>1, <3>2
  <2>3. CASE k > Len(s) + 1
    <3>1. k - Len(s) \in 1..Len(t) /\ (k - Len(s)) - 1 = (k - 1) - Len(s)
      BY <1>3, <2>3
    <3>2. l2[k - Len(s)] = l2[(k - Len(s)) - 1] + shift(t[k - Len(s)])
      BY <1>2, <3>1 DEF Levels
    <3>3. QED
      BY <1>3, <2>3, <3>1, <3>2
  <2>4. QED
    BY <1>3, <2>1, <2>2, <2>3
<1>7. Levels(s \o t, a, c, l)
  BY <1>4, <1>5, <1>6 DEF Levels
<1>8. QED
  BY <1>7 DEF Leads

LEMMA LeadsTail ==
    ASSUME NEW S, NEW s \in Seq(S), s # <<>>, NEW a, NEW b, Leads(s, a, b)
    PROVE  /\ a \in Nat
           /\ a + shift(Head(s)) \in Nat
           /\ Leads(Tail(s), a + shift(Head(s)), b)
<1>1. PICK l : Levels(s, a, b, l)
  BY DEF Leads
<1>2. /\ Len(s) \in Nat \ {0}
      /\ Len(Tail(s)) = Len(s) - 1
      /\ \A i \in 1..Len(Tail(s)) : Tail(s)[i] = s[i + 1]
      /\ Head(s) = s[1]
  BY HeadTailProperties, EmptySeq
<1> DEFINE m == [k \in 0..Len(Tail(s)) |-> l[k + 1]]
<1>3. l[0] = a /\ l[1] = l[0] + shift(s[1]) /\ l[1] \in Nat /\ l[0] \in Nat
  BY <1>1, <1>2 DEF Levels
<1>4. m \in [0..Len(Tail(s)) -> Nat] /\ m[0] = l[1] /\ m[Len(Tail(s))] = b
  BY <1>1, <1>2 DEF Levels
<1>5. ASSUME NEW k \in 1..Len(Tail(s))
      PROVE  m[k] = m[k - 1] + shift(Tail(s)[k])
  <2>1. l[k + 1] = l[(k + 1) - 1] + shift(s[k + 1])
    BY <1>1, <1>2 DEF Levels
  <2>2. QED
    BY <1>2, <2>1
<1>6. Levels(Tail(s), l[1], b, m)
  BY <1>4, <1>5 DEF Levels
<1>7. QED
  BY <1>2, <1>3, <1>6 DEF Leads

LEMMA ItemsConcat ==
    ASSUME NEW N, NEW s, NEW t, ItemsOf(N, s), ItemsOf(N, t)
    PROVE  \E S : s \in Seq(S) /\ t \in Seq(S) /\ s \o t \in Seq(S) /\ \A x \in S : Item(N, x)
<1>1. PICK S1 : s \in Seq(S1) /\ \A x \in S1 : Item(N, x)
  BY DEF ItemsOf
<1>2. PICK S2 : t \in Seq(S2) /\ \A x \in S2 : Item(N, x)
  BY DEF ItemsOf
<1>3. s \in Seq(S1 \cup S2) /\ t \in Seq(S1 \cup S2)
  BY <1>1, <1>2, SeqMonotonic
<1>4. s \o t \in Seq(S1 \cup S2)
  BY <1>3, ConcatProperties
<1>5. \A x \in S1 \cup S2 : Item(N, x)
  BY <1>1, <1>2
<1>6. QED
  BY <1>3, <1>4, <1>5

LEMMA SteadyConcat ==
    ASSUME NEW N, NEW s, NEW t, Steady(N, s), Steady(N, t)
    PROVE  Steady(N, s \o t)
<1>1. PICK S : s \in Seq(S) /\ t \in Seq(S) /\ s \o t \in Seq(S) /\ \A x \in S : Item(N, x)
  BY ItemsConcat DEF Steady
<1>2. ItemsOf(N, s \o t)
  BY <1>1 DEF ItemsOf
<1>3. ASSUME NEW a \in Nat
      PROVE  Leads(s \o t, a, a)
  <2>1. Leads(s, a, a) /\ Leads(t, a, a)
    BY DEF Steady
  <2>2. QED
    BY <1>1, <2>1, LeadsConcat
<1>4. QED
  BY <1>2, <1>3 DEF Steady

LEMMA SteadyNeutral ==
    ASSUME NEW N, Forest(N), NEW S, NEW s \in Seq(S), \A x \in S : Neutral(N, x)
    PROVE  Steady(N, s)
<1>1. ItemsOf(N, s)
  BY DEF ItemsOf, Item
<1>2. Len(s) \in Nat
  BY LenProperties
<1>3. ASSUME NEW k \in 1..Len(s)
      PROVE  shift(s[k]) = 0
  <2>1. Neutral(N, s[k])
    BY ElementOfSeq
  <2>2. s[k].node \notin {"indent", "outdent"}
    BY <2>1, Parts DEF Neutral
  <2>3. QED
    BY <2>2 DEF shift
<1>4. ASSUME NEW a \in Nat
      PROVE  Leads(s, a, a)
  <2> DEFINE l == [k \in 0..Len(s) |-> a]
  <2>1. Levels(s, a, a, l)
    BY <1>2, <1>3 DEF Levels
  <2>2. QED
    BY <2>1 DEF Leads
<1>5. QED
  BY <1>1, <1>4 DEF Steady

LEMMA SteadyIndented ==
    ASSUME NEW N, NEW s, Steady(N, s)
    PROVE  Steady(N, Indented(s))
<1>1. ItemsOf(N, deeper) /\ ItemsOf(N, outdent)
  <2>1. deeper \in Seq({deeper[1]}) /\ outdent \in Seq({outdent[1]})
    BY DEF deeper, outdent
  <2>2. Item(N, deeper[1]) /\ Item(N, outdent[1])
    BY DEF deeper, outdent, Item
  <2>3. QED
    BY <2>1, <2>2 DEF ItemsOf
<1>2. PICK S : /\ deeper \in Seq(S) /\ s \in Seq(S) /\ deeper \o s \in Seq(S)
               /\ \A x \in S : Item(N, x)
  BY <1>1, ItemsConcat DEF Steady
<1>3. ItemsOf(N, deeper \o s)
  BY <1>2 DEF ItemsOf
<1>4. PICK T : /\ deeper \o s \in Seq(T) /\ outdent \in Seq(T) /\ (deeper \o s) \o outdent \in Seq(T)
               /\ \A x \in T : Item(N, x)
  BY <1>1, <1>3, ItemsConcat
<1>5. ItemsOf(N, Indented(s))
  BY <1>4 DEF ItemsOf, Indented
<1>6. ASSUME NEW a \in Nat
      PROVE  Leads(Indented(s), a, a)
  <2>1. Leads(deeper, a, a + 1)
    <3>1. Levels(deeper, a, a + 1, [k \in 0..1 |-> IF k = 0 THEN a ELSE a + 1])
      BY DEF Levels, deeper, shift
    <3>2. QED
      BY <3>1 DEF Leads
  <2>2. Leads(outdent, a + 1, a)
    <3>1. Levels(outdent, a + 1, a, [k \in 0..1 |-> IF k = 0 THEN a + 1 ELSE a])
      BY DEF Levels, outdent, shift
    <3>2. QED
      BY <3>1 DEF Leads
  <2>3. Leads(s, a + 1, a + 1)
    BY DEF Steady
  <2>4. Leads(deeper \o s, a, a + 1)
    BY <1>2, <2>1, <2>3, LeadsConcat
  <2>5. Leads((deeper \o s) \o outdent, a, a)
    BY <1>4, <2>2, <2>4, LeadsConcat
  <2>6. QED
    BY <2>5 DEF Indented
<1>7. QED
  BY <1>5, <1>6 DEF Steady

LEMMA SteadyCalls ==
    ASSUME NEW N, Forest(N)
    PROVE  /\ Steady(N, <<>>)
           /\ Steady(N, newline)
           /\ \A text : Steady(N, print_str(text))
           /\ \A n \in N : Steady(N, <<n>>)
           /\ \A s \in Seq(N) : Steady(N, s)
<1>1. \A s \in Seq(N) : Steady(N, s)
  BY SteadyNeutral DEF Neutral
<1>2. Steady(N, <<>>)
  BY <1>1, EmptySeq
<1>3. \A n \in N : Steady(N, <<n>>)
  <2>1. \A n \in N : <<n>> \in Seq(N)
    OBVIOUS
  <2>2. QED
    BY <1>1, <2>1
<1>4. Steady(N, newline)
  <2>1. newline \in Seq({newline[1]}) /\ Neutral(N, newline[1])
    BY DEF newline, Neutral
  <2>2. QED
    BY <2>1, SteadyNeutral
<1>5. ASSUME NEW text
      PROVE  Steady(N, print_str(text))
  <2>1. print_str(text) \in Seq({print_str(text)[1]}) /\ Neutral(N, print_str(text)[1])
    BY DEF print_str, Neutral
  <2>2. QED
    BY <2>1, SteadyNeutral
<1>6. QED
  BY <1>1, <1>2, <1>3, <1>4, <1>5

LEMMA FunctionIsSeq ==
    ASSUME NEW S, NEW n \in Nat, NEW f \in [1..n -> S]
    PROVE  f \in Seq(S)
BY SeqDef

LEMMA SteadyList ==
    ASSUME NEW N, Forest(N), NEW parts \in Seq(N)
    PROVE  Steady(N, List(parts))
<1> DEFINE S == {x \in N \cup {print_str(<<",", " ">>)[1]} : Neutral(N, x)}
<1>1. Len(parts) \in Nat
  BY LenProperties
<1>2. print_str(<<",", " ">>)[1] \in S
  BY DEF print_str, Neutral
<1>3. ASSUME NEW i \in 1..(2 * Len(parts) - 1)
      PROVE  List(parts)[i] \in S
  <2>1. CASE i % 2 = 1
    <3>1. \E k \in Nat : i = 2 * k + 1 /\ (i + 1) \div 2 = k + 1
      BY <1>1, <2>1
    <3>2. (i + 1) \div 2 \in 1..Len(parts)
      BY <1>1, <3>1
    <3>3. parts[(i + 1) \div 2] \in N
      BY <3>2, ElementOfSeq
    <3>4. QED
      BY <2>1, <3>3 DEF List, Neutral
  <2>2. CASE i % 2 # 1
    <3>1. List(parts)[i] = print_str(<<",", " ">>)[1]
      BY <2>2 DEF List
    <3>2. QED
      BY <1>2, <3>1
  <2>3. QED
    BY <2>1, <2>2
<1>4. List(parts) \in Seq(S)
  <2>1. CASE Len(parts) = 0
    <3>1. 1..(2 * Len(parts) - 1) = {} /\ 1..0 = {}
      BY <2>1
    <3>2. List(parts) \in [1..0 -> S]
      BY <3>1 DEF List
    <3>3. QED
      BY <3>2, FunctionIsSeq
  <2>2. CASE Len(parts) > 0
    <3>1. 2 * Len(parts) - 1 \in Nat
      BY <1>1, <2>2
    <3>2. List(parts) \in [1..(2 * Len(parts) - 1) -> S]
      <4>1. List(parts) = [i \in 1..(2 * Len(parts) - 1) |-> List(parts)[i]]
        BY DEF List
      <4> HIDE DEF S
      <4>2. QED
        BY <1>3, <4>1
    <3> HIDE DEF S
    <3>3. QED
      BY <3>1, <3>2, FunctionIsSeq
  <2> HIDE DEF S
  <2>3. QED
    BY <1>1, <2>1, <2>2
<1>5. \A x \in S : Neutral(N, x)
  OBVIOUS
<1>6. QED
  BY <1>4, <1>5, SteadyNeutral

LEMMA SteadyParenthesized ==
    ASSUME NEW N, Forest(N), NEW e \in N
    PROVE  Steady(N, Parenthesized(e))
<1>1. Steady(N, print_str(<<"(">>)) /\ Steady(N, <<e>>) /\ Steady(N, print_str(<<")">>))
  BY SteadyCalls
<1>2. Steady(N, print_str(<<"(">>) \o <<e>> \o print_str(<<")">>))
  BY <1>1, SteadyConcat
<1>3. QED
  BY <1>1, <1>2 DEF Parenthesized

LEMMA SteadyOnItsOwnLine ==
    ASSUME NEW N, Forest(N), NEW stmt \in N
    PROVE  Steady(N, OnItsOwnLine(stmt))
<1>1. Steady(N, newline) /\ Steady(N, Indented(<<stmt>>))
  BY SteadyCalls, SteadyIndented
<1>2. QED
  BY <1>1, SteadyConcat DEF OnItsOwnLine

LEMMA SteadyBody ==
    ASSUME NEW N, Forest(N), NEW stmt \in N
    PROVE  Steady(N, Body(stmt))
<1>1. Steady(N, print_str(<<" ">>)) /\ Steady(N, <<stmt>>)
  BY SteadyCalls
<1>2. Steady(N, print_str(<<" ">>) \o <<stmt>>)
  BY <1>1, SteadyConcat
<1>3. QED
  BY <1>2, SteadyOnItsOwnLine DEF Body

LEMMA SteadyElseArm ==
    ASSUME NEW N, Forest(N), NEW then \in N, NEW els \in N
    PROVE  Steady(N, ElseArm(then, els))
<1>1. /\ Steady(N, print_str(<<" ">>)) /\ Steady(N, newline) /\ Steady(N, <<els>>)
      /\ Steady(N, print_str(<<"else", " ">>)) /\ Steady(N, print_str(<<"else">>))
  BY SteadyCalls
<1>2. Steady(N, IF then.node = "Block" THEN print_str(<<" ">>) ELSE newline)
  BY <1>1
<1>3. Steady(N, IF els.node \in {"If", "Block"} THEN print_str(<<"else", " ">>) \o <<els>>
                ELSE print_str(<<"else">>) \o OnItsOwnLine(els))
  BY <1>1, SteadyConcat, SteadyOnItsOwnLine
<1>4. QED
  BY <1>2, <1>3, SteadyConcat DEF ElseArm

LEMMA SteadyRounds ==
    ASSUME NEW N, Forest(N), NEW stmts \in Seq(N)
    PROVE  Steady(N, Rounds(stmts))
<1> DEFINE S == [node : {"round"}, stmt : N]
<1>1. Len(stmts) \in Nat /\ stmts \in [1..Len(stmts) -> N]
  BY LenProperties
<1>2. Rounds(stmts) \in [1..Len(stmts) -> S]
  BY <1>1 DEF Rounds
<1>3. Rounds(stmts) \in Seq(S)
  <2> HIDE DEF S
  <2>1. QED
    BY <1>1, <1>2, FunctionIsSeq
<1>4. \A x \in S : Neutral(N, x)
  BY DEF Neutral
<1>5. QED
  BY <1>3, <1>4, SteadyNeutral

-----------------------------------------------------------------------------
(***************************************************************************)
(* Printing: what is left to do brings the indentation back to zero.       *)
(***************************************************************************)
PrintInv(N) == /\ indent \in Nat
               /\ ItemsOf(N, todo)
               /\ Leads(todo, indent, 0)

\* The node at the head of todo, or the call.
LEMMA AtNode ==
    ASSUME NEW N, Forest(N), PrintInv(N), todo # <<>>
    PROVE  /\ Item(N, node)
           /\ ItemsOf(N, Tail(todo))
           /\ indent + shift(node) \in Nat
           /\ Leads(Tail(todo), indent + shift(node), 0)
           /\ node.node \notin {"print", "newline", "indent", "outdent", "round"} => node \in N
<1>1. PICK S : todo \in Seq(S) /\ \A x \in S : Item(N, x)
  BY DEF PrintInv, ItemsOf
<1>2. node \in S /\ Tail(todo) \in Seq(S)
  BY <1>1, HeadTailProperties DEF node
<1>3. Item(N, node) /\ ItemsOf(N, Tail(todo))
  BY <1>1, <1>2 DEF ItemsOf
<1>4. indent + shift(node) \in Nat /\ Leads(Tail(todo), indent + shift(node), 0)
  BY <1>1, LeadsTail DEF PrintInv, node
<1>5. QED
  BY <1>3, <1>4 DEF Item, Neutral

LEMMA DoKeepsInv ==
    ASSUME NEW N, Forest(N), PrintInv(N), todo # <<>>,
           node.node \notin {"indent", "outdent"},
           NEW items, Steady(N, items), Do(items)
    PROVE  PrintInv(N)'
<1>1. /\ indent' = indent
      /\ todo' = items \o Tail(todo)
  BY DEF Do, printer
<1>2. indent \in Nat /\ ItemsOf(N, Tail(todo)) /\ Leads(Tail(todo), indent, 0)
  <2>1. shift(node) = 0
    BY DEF shift
  <2>2. QED
    BY <2>1, AtNode DEF PrintInv
<1>3. ItemsOf(N, items) /\ Leads(items, indent, indent)
  BY <1>2 DEF Steady
<1>4. PICK S : /\ items \in Seq(S) /\ Tail(todo) \in Seq(S) /\ items \o Tail(todo) \in Seq(S)
               /\ \A x \in S : Item(N, x)
  BY <1>2, <1>3, ItemsConcat
<1>5. ItemsOf(N, items \o Tail(todo))
  BY <1>4 DEF ItemsOf
<1>6. Leads(items \o Tail(todo), indent, 0)
  BY <1>2, <1>3, <1>4, LeadsConcat
<1>7. QED
  BY <1>1, <1>2, <1>5, <1>6 DEF PrintInv

LEMMA SteadySorted ==
    ASSUME NEW N, Forest(N), NEW s \in Seq(N), NEW order \in Orders(s)
    PROVE  Steady(N, Sorted(s, order)) /\ Sorted(s, order) \in Seq(N)
<1>1. Len(s) \in Nat /\ s \in [1..Len(s) -> N] /\ DOMAIN s = 1..Len(s)
  BY LenProperties
<1>2. Sorted(s, order) \in [1..Len(s) -> N]
  BY <1>1 DEF Sorted, Orders
<1>3. QED
  BY <1>1, <1>2, FunctionIsSeq, SteadyCalls

(***************************************************************************)
(* The calls of the IndentPrinter.                                         *)
(***************************************************************************)
LEMMA CallsKeepInv ==
    ASSUME NEW N, Forest(N), PrintInv(N), IndentPrinter
    PROVE  PrintInv(N)'
<1>1. todo # <<>> /\ todo' = Tail(todo) /\ indent' = indent + shift(node)
  <2>1. CASE WriteText
    <3>1. shift(node) = 0
      BY <2>1 DEF WriteText, At, shift
    <3>2. QED
      BY <2>1, <3>1 DEF WriteText, At, PrintInv
  <2>2. CASE Newline
    <3>1. shift(node) = 0
      BY <2>2 DEF Newline, At, shift
    <3>2. QED
      BY <2>2, <3>1 DEF Newline, At, PrintInv
  <2>3. CASE Indent
    BY <2>3 DEF Indent, At, indent_var, shift
  <2>4. CASE Outdent
    BY <2>4 DEF Outdent, At, indent_var, shift
  <2>5. QED
    BY <2>1, <2>2, <2>3, <2>4 DEF IndentPrinter
<1>2. QED
  BY <1>1, AtNode DEF PrintInv

(***************************************************************************)
(* The arms for declarations.                                              *)
(***************************************************************************)
LEMMA DeclarationsKeepInv ==
    ASSUME NEW N, Forest(N), PrintInv(N), Declarations
    PROVE  PrintInv(N)'
<1>1. CASE AST
  <2>1. At("AST") /\ Do(node.program)
    BY <1>1 DEF AST
  <2>2. node.program \in Seq(N)
    BY <2>1, AtNode, Parts DEF At
  <2>3. QED
    BY <2>1, <2>2, SteadyCalls, DoKeepsInv DEF At
<1>2. CASE Program
  <2>1. PICK order \in Orders(node.classes) : At("Program") /\ Do(Sorted(node.classes, order))
    BY <1>2 DEF Program
  <2>2. node.classes \in Seq(N)
    BY <2>1, AtNode, Parts DEF At
  <2>3. QED
    BY <2>1, <2>2, SteadySorted, DoKeepsInv DEF At
<1>3. CASE ClassDeclaration
  <2>1. PICK order \in Orders(node.members) :
            /\ At("ClassDeclaration")
            /\ Do(print_str(<<"class", " ", node.name, " ", "{">>)
                  \o (IF node.members = <<>> THEN print_str(<<" ">>)
                      ELSE newline \o Indented(Sorted(node.members, order)))
                  \o print_str(<<"}">>) \o newline)
    BY <1>3 DEF ClassDeclaration
  <2>2. node.members \in Seq(N)
    BY <2>1, AtNode, Parts DEF At
  <2>3. Steady(N, IF node.members = <<>> THEN print_str(<<" ">>)
                  ELSE newline \o Indented(Sorted(node.members, order)))
    BY <2>1, <2>2, SteadySorted, SteadyIndented, SteadyCalls, SteadyConcat
  <2>4. Steady(N, print_str(<<"class", " ", node.name, " ", "{">>)
                  \o (IF node.members = <<>> THEN print_str(<<" ">>)
                      ELSE newline \o Indented(Sorted(node.members, order)))
                  \o print_str(<<"}">>) \o newline)
    BY <2>3, SteadyCalls, SteadyConcat
  <2>5. QED
    BY <2>1, <2>4, DoKeepsInv DEF At
<1>4. CASE Field
  <2>1. /\ At("Field")
        /\ Do(print_str(<<"public", " ">>) \o <<node.type>>
              \o print_str(<<" ", node.name, ";">>) \o newline)
    BY <1>4 DEF Field
  <2>2. node.type \in N
    BY <2>1, AtNode, Parts DEF At
  <2>3. Steady(N, print_str(<<"public", " ">>) \o <<node.type>>
                  \o print_str(<<" ", node.name, ";">>) \o newline)
    BY <2>2, SteadyCalls, SteadyConcat
  <2>4. QED
    BY <2>1, <2>3, DoKeepsInv DEF At
<1>5. CASE Method
  <2>1. /\ At("Method")
        /\ Do(print_str(<<"public", " ">>) \o <<node.type>>
              \o print_str(<<" ", node.name, "(">>) \o List(node.parameters)
              \o print_str(<<")", " ">>) \o <<node.block>> \o newline)
    BY <1>5 DEF Method
  <2>2. node.type \in N /\ node.parameters \in Seq(N) /\ node.block \in N
    BY <2>1, AtNode, Parts DEF At
  <2>3. Steady(N, print_str(<<"public", " ">>) \o <<node.type>>
                  \o print_str(<<" ", node.name, "(">>) \o List(node.parameters)
                  \o print_str(<<")", " ">>) \o <<node.block>> \o newline)
    BY <2>2, SteadyCalls, SteadyList, SteadyConcat
  <2>4. QED
    BY <2>1, <2>3, DoKeepsInv DEF At
<1>6. CASE MainMethod
  <2>1. \E text : At("MainMethod") /\ Do(print_str(text) \o <<node.block>> \o newline)
    BY <1>6 DEF MainMethod
  <2>2. PICK text : At("MainMethod") /\ Do(print_str(text) \o <<node.block>> \o newline)
    BY <2>1
  <2>3. node.block \in N
    BY <2>2, AtNode, Parts DEF At
  <2>4. Steady(N, print_str(text) \o <<node.block>> \o newline)
    BY <2>3, SteadyCalls, SteadyConcat
  <2>5. QED
    BY <2>2, <2>4, DoKeepsInv DEF At
<1>7. CASE Parameter
  <2>1. At("Parameter") /\ Do(<<node.type>> \o print_str(<<" ", "identifier">>))
    BY <1>7 DEF Parameter
  <2>2. node.type \in N
    BY <2>1, AtNode, Parts DEF At
  <2>3. Steady(N, <<node.type>> \o print_str(<<" ", "identifier">>))
    BY <2>2, SteadyCalls, SteadyConcat
  <2>4. QED
    BY <2>1, <2>3, DoKeepsInv DEF At
<1>8. CASE Type
  <2>1. At("Type") /\ Do(print_str(<<node.basic>> \o Brackets(node.array_depth)))
    BY <1>8 DEF Type
  <2>2. QED
    BY <2>1, SteadyCalls, DoKeepsInv DEF At
<1>9. QED
  BY <1>1, <1>2, <1>3, <1>4, <1>5, <1>6, <1>7, <1>8 DEF Declarations

(***************************************************************************)
(* The arms for statements.                                                *)
(***************************************************************************)
LEMMA StatementsKeepInv ==
    ASSUME NEW N, Forest(N), PrintInv(N), Statements
    PROVE  PrintInv(N)'
<1>1. CASE Block
  <2> DEFINE all == print_str(<<"{">>) \o newline \o Indented(Rounds(node.statements))
                    \o print_str(<<"}">>)
  <2>1. /\ At("Block")
        /\ Do(print_str(<<"{", " ", "}">>)) \/ Do(all)
    BY <1>1 DEF Block
  <2>2. node.statements \in Seq(N)
    BY <2>1, AtNode, Parts DEF At
  <2>3. Steady(N, Indented(Rounds(node.statements)))
    BY <2>2, SteadyRounds, SteadyIndented
  <2>4. Steady(N, all)
    BY <2>3, SteadyCalls, SteadyConcat
  <2>5. Steady(N, print_str(<<"{", " ", "}">>))
    BY SteadyCalls
  <2> HIDE DEF all
  <2>6. QED
    BY <2>1, <2>4, <2>5, DoKeepsInv DEF At
<1>2. CASE Round
  <2>1. At("round") /\ Do(Line(node.stmt))
    BY <1>2 DEF Round
  <2>2. node.stmt \in N
    BY <2>1, AtNode, Parts DEF At, Item, Neutral
  <2>3. Steady(N, Line(node.stmt))
    BY <2>2, SteadyCalls, SteadyConcat DEF Line
  <2>4. QED
    BY <2>1, <2>3, DoKeepsInv DEF At
<1>3. CASE EmptyStatement
  <2>1. At("EmptyStatement") /\ Do(print_str(<<";">>))
    BY <1>3 DEF EmptyStatement
  <2>2. QED
    BY <2>1, SteadyCalls, DoKeepsInv DEF At
<1>4. CASE If
  <2> DEFINE arm == IF node.els = <<>> \/ IsEmpty(node.els[1]) THEN <<>>
                    ELSE ElseArm(node.then, node.els[1])
  <2>1. /\ At("If")
        /\ Do(Condition("if", node.condition) \o Body(node.then) \o arm)
    BY <1>4 DEF If
  <2>2. node.condition \in N /\ node.then \in N /\ node.els \in Seq(N)
    BY <2>1, AtNode, Parts DEF At
  <2>3. Steady(N, Condition("if", node.condition))
    BY <2>2, SteadyCalls, SteadyConcat DEF Condition
  <2>4. Steady(N, arm)
    <3>1. CASE node.els = <<>>
      BY <3>1, SteadyCalls
    <3>2. CASE node.els # <<>>
      <4>1. node.els[1] \in N
        BY <2>2, <3>2, EmptySeq, ElementOfSeq
      <4>2. QED
        BY <2>2, <4>1, SteadyCalls, SteadyElseArm
    <3>3. QED
      BY <3>1, <3>2
  <2> HIDE DEF arm
  <2>5. Steady(N, Condition("if", node.condition) \o Body(node.then) \o arm)
    BY <2>2, <2>3, <2>4, SteadyBody, SteadyConcat
  <2>6. QED
    BY <2>1, <2>5, DoKeepsInv DEF At
<1>5. CASE While
  <2>1. At("While") /\ Do(Condition("while", node.condition) \o Body(node.body))
    BY <1>5 DEF While
  <2>2. node.condition \in N /\ node.body \in N
    BY <2>1, AtNode, Parts DEF At
  <2>3. Steady(N, Condition("while", node.condition))
    BY <2>2, SteadyCalls, SteadyConcat DEF Condition
  <2>4. Steady(N, Condition("while", node.condition) \o Body(node.body))
    BY <2>2, <2>3, SteadyBody, SteadyConcat
  <2>5. QED
    BY <2>1, <2>4, DoKeepsInv DEF At
<1>6. CASE ExpressionStatement
  <2>1. /\ At("Expression")
        /\ Do(<<node.expr>> \o print_str(<<";">>))
    BY <1>6 DEF ExpressionStatement
  <2>2. node.expr \in N
    BY <2>1, AtNode, Parts DEF At
  <2>3. Steady(N, <<node.expr>> \o print_str(<<";">>))
    BY <2>2, SteadyCalls, SteadyConcat
  <2>4. QED
    BY <2>1, <2>3, DoKeepsInv DEF At
<1>7. CASE Return
  <2> DEFINE value == IF node.value = <<>> THEN <<>> ELSE print_str(<<" ">>) \o node.value
  <2>1. At("Return") /\ Do(print_str(<<"return">>) \o value \o print_str(<<";">>))
    BY <1>7 DEF Return
  <2>2. node.value \in Seq(N)
    BY <2>1, AtNode, Parts DEF At
  <2>3. Steady(N, value)
    BY <2>2, SteadyCalls, SteadyConcat
  <2> HIDE DEF value
  <2>4. Steady(N, print_str(<<"return">>) \o value \o print_str(<<";">>))
    BY <2>3, SteadyCalls, SteadyConcat
  <2>5. QED
    BY <2>1, <2>4, DoKeepsInv DEF At
<1>8. CASE LocalVariableDeclaration
  <2> DEFINE value == IF node.value = <<>> THEN <<>> ELSE print_str(<<" ", "=", " ">>) \o node.value
  <2>1. /\ At("LocalVariableDeclaration")
        /\ Do(<<node.type>> \o print_str(<<" ", "identifier">>) \o value \o print_str(<<";">>))
    BY <1>8 DEF LocalVariableDeclaration
  <2>2. node.type \in N /\ node.value \in Seq(N)
    BY <2>1, AtNode, Parts DEF At
  <2>3. Steady(N, value)
    BY <2>2, SteadyCalls, SteadyConcat
  <2> HIDE DEF value
  <2>4. Steady(N, <<node.type>> \o print_str(<<" ", "identifier">>) \o value \o print_str(<<";">>))
    BY <2>2, <2>3, SteadyCalls, SteadyConcat
  <2>5. QED
    BY <2>1, <2>4, DoKeepsInv DEF At
<1>9. QED
  BY <1>1, <1>2, <1>3, <1>4, <1>5, <1>6, <1>7, <1>8 DEF Statements

(***************************************************************************)
(* The arms for expressions.                                               *)
(***************************************************************************)
LEMMA ExpressionsKeepInv ==
    ASSUME NEW N, Forest(N), PrintInv(N), Expressions
    PROVE  PrintInv(N)'
<1>1. CASE Atom
  <2>1. At("Atom") /\ Do(print_str(<<node.token>>))
    BY <1>1 DEF Atom
  <2>2. QED
    BY <2>1, SteadyCalls, DoKeepsInv DEF At
<1>2. CASE Binary
  <2>1. /\ At("Binary")
        /\ Do(Parenthesized(node.lhs) \o print_str(<<" ", node.op, " ">>)
              \o Parenthesized(node.rhs))
    BY <1>2 DEF Binary
  <2>2. node.lhs \in N /\ node.rhs \in N
    BY <2>1, AtNode, Parts DEF At
  <2>3. Steady(N, Parenthesized(node.lhs) \o print_str(<<" ", node.op, " ">>)
                  \o Parenthesized(node.rhs))
    BY <2>2, SteadyCalls, SteadyParenthesized, SteadyConcat
  <2>4. QED
    BY <2>1, <2>3, DoKeepsInv DEF At
<1>3. CASE Unary
  <2>1. /\ At("Unary")
        /\ Do(print_str(<<node.op>>) \o Parenthesized(node.expr))
    BY <1>3 DEF Unary
  <2>2. node.expr \in N
    BY <2>1, AtNode, Parts DEF At
  <2>3. Steady(N, print_str(<<node.op>>) \o Parenthesized(node.expr))
    BY <2>2, SteadyCalls, SteadyParenthesized, SteadyConcat
  <2>4. QED
    BY <2>1, <2>3, DoKeepsInv DEF At
<1>4. CASE MethodInvocation
  <2>1. /\ At("MethodInvocation")
        /\ Do(Parenthesized(node.target) \o print_str(<<".", "identifier", "(">>)
              \o List(node.arguments) \o print_str(<<")">>))
    BY <1>4 DEF MethodInvocation
  <2>2. node.target \in N /\ node.arguments \in Seq(N)
    BY <2>1, AtNode, Parts DEF At
  <2>3. Steady(N, Parenthesized(node.target) \o print_str(<<".", "identifier", "(">>)
                  \o List(node.arguments) \o print_str(<<")">>))
    BY <2>2, SteadyCalls, SteadyParenthesized, SteadyList, SteadyConcat
  <2>4. QED
    BY <2>1, <2>3, DoKeepsInv DEF At
<1>5. CASE ThisMethodInvocation
  <2>1. /\ At("ThisMethodInvocation")
        /\ Do(print_str(<<"identifier", "(">>) \o List(node.arguments) \o print_str(<<")">>))
    BY <1>5 DEF ThisMethodInvocation
  <2>2. node.arguments \in Seq(N)
    BY <2>1, AtNode, Parts DEF At
  <2>3. Steady(N, print_str(<<"identifier", "(">>) \o List(node.arguments) \o print_str(<<")">>))
    BY <2>2, SteadyCalls, SteadyList, SteadyConcat
  <2>4. QED
    BY <2>1, <2>3, DoKeepsInv DEF At
<1>6. CASE FieldAccess
  <2>1. /\ At("FieldAccess")
        /\ Do(Parenthesized(node.target) \o print_str(<<".", "identifier">>))
    BY <1>6 DEF FieldAccess
  <2>2. node.target \in N
    BY <2>1, AtNode, Parts DEF At
  <2>3. Steady(N, Parenthesized(node.target) \o print_str(<<".", "identifier">>))
    BY <2>2, SteadyCalls, SteadyParenthesized, SteadyConcat
  <2>4. QED
    BY <2>1, <2>3, DoKeepsInv DEF At
<1>7. CASE ArrayAccess
  <2>1. /\ At("ArrayAccess")
        /\ Do(Parenthesized(node.target) \o print_str(<<"[">>) \o <<node.index>>
              \o print_str(<<"]">>))
    BY <1>7 DEF ArrayAccess
  <2>2. node.target \in N /\ node.index \in N
    BY <2>1, AtNode, Parts DEF At
  <2>3. Steady(N, Parenthesized(node.target) \o print_str(<<"[">>) \o <<node.index>>
                  \o print_str(<<"]">>))
    BY <2>2, SteadyCalls, SteadyParenthesized, SteadyConcat
  <2>4. QED
    BY <2>1, <2>3, DoKeepsInv DEF At
<1>8. CASE NewObject
  <2>1. At("NewObject") /\ Do(print_str(<<"new", " ", "identifier", "(", ")">>))
    BY <1>8 DEF NewObject
  <2>2. QED
    BY <2>1, SteadyCalls, DoKeepsInv DEF At
<1>9. CASE NewArray
  <2>1. /\ At("NewArray")
        /\ Do(print_str(<<"new", " ", node.basic, "[">>) \o <<node.size>>
              \o print_str(<<"]">> \o Brackets(node.brackets)))
    BY <1>9 DEF NewArray
  <2>2. node.size \in N
    BY <2>1, AtNode, Parts DEF At
  <2>3. Steady(N, print_str(<<"new", " ", node.basic, "[">>) \o <<node.size>>
                  \o print_str(<<"]">> \o Brackets(node.brackets)))
    BY <2>2, SteadyCalls, SteadyConcat
  <2>4. QED
    BY <2>1, <2>3, DoKeepsInv DEF At
<1>10. QED
  BY <1>1, <1>2, <1>3, <1>4, <1>5, <1>6, <1>7, <1>8, <1>9 DEF Expressions

(***************************************************************************)
(* Whatever tree is printed, indent and outdent are balanced: the          *)
(* IndentPrinter never panics, and ends where it began                     *)
(* (pretty.rs:44-62).                                                      *)
(***************************************************************************)
THEOREM PrinterIndentation ==
    ASSUME NEW N, Forest(N), Asts \subseteq N
    PROVE  Spec => []IndentationBalances
<1>1. Init => PrintInv(N)
  <2>1. SUFFICES ASSUME Init
                 PROVE  PrintInv(N)
    OBVIOUS
  <2>2. ast \in N /\ todo = <<ast>> /\ indent = 0
    BY <2>1 DEF Init
  <2>3. Steady(N, todo)
    BY <2>2, SteadyCalls
  <2>4. QED
    BY <2>2, <2>3 DEF Steady, PrintInv
<1>2. PrintInv(N) /\ [Next]_vars => PrintInv(N)'
  <2>1. SUFFICES ASSUME PrintInv(N), [Next]_vars
                 PROVE  PrintInv(N)'
    OBVIOUS
  <2>2. CASE UNCHANGED vars
    BY <2>1, <2>2 DEF vars, printer, PrintInv
  <2>3. QED
    BY <2>1, <2>2, CallsKeepInv, DeclarationsKeepInv, StatementsKeepInv, ExpressionsKeepInv DEF Next
<1>3. PrintInv(N) => IndentationBalances
  <2>1. SUFFICES ASSUME PrintInv(N)
                 PROVE  IndentationBalances
    OBVIOUS
  <2>2. ASSUME At("outdent")
        PROVE  indent > 0
    <3>1. indent + shift(node) \in Nat /\ indent \in Nat
      BY <2>1, <2>2, AtNode DEF At, PrintInv
    <3>2. shift(node) = -1
      BY <2>2 DEF At, shift
    <3>3. QED
      BY <3>1, <3>2
  <2>3. ASSUME todo = <<>>
        PROVE  indent = 0
    <3>1. Len(todo) = 0
      BY <2>3
    <3>2. PICK l : Levels(todo, indent, 0, l)
      BY <2>1 DEF PrintInv, Leads
    <3>3. QED
      BY <3>1, <3>2 DEF Levels
  <2>4. QED
    BY <2>2, <2>3 DEF IndentationBalances
<1>4. QED
  BY <1>1, <1>2, <1>3, PTL DEF Spec

-----------------------------------------------------------------------------
(***************************************************************************)
(* The nodes the dump visits: those of the tree, and those that only the   *)
(* visitor tells apart.                                                    *)
(***************************************************************************)
Made(N) == [node : {"BlockStatement"}, block : N]
           \cup [node : {"ParameterList"}, parameters : Seq(N)]
           \cup [node : {"BasicType"}, basic : STRING]

\* With every node its children, and no call of add(-2) among them.
Closed(V) == \A n \in V : n.node # "add(-2)" /\ Dump!children(n) \in Seq(V)

LEMMA StmtsAreVisited ==
    ASSUME NEW N, NEW s \in Seq(N)
    PROVE  Dump!Stmts(s) \in Seq(N \cup Made(N))
<1>1. Len(s) \in Nat /\ s \in [1..Len(s) -> N] /\ DOMAIN s = 1..Len(s)
  BY LenProperties
<1>2. ASSUME NEW n \in N
      PROVE  Dump!AsStmt(n) \in N \cup Made(N)
  BY DEF Dump!AsStmt, Made
<1>3. Dump!Stmts(s) \in [1..Len(s) -> N \cup Made(N)]
  BY <1>1, <1>2 DEF Dump!Stmts
<1>4. QED
  BY <1>1, <1>3, FunctionIsSeq

LEMMA VisitedIsClosed ==
    ASSUME NEW N, Forest(N)
    PROVE  Closed(N \cup Made(N))
<1> DEFINE V == N \cup Made(N)
<1>1. \A n \in N : Dump!AsStmt(n) \in V
  BY DEF Dump!AsStmt, Made
<1>2. \A s \in Seq(N) : s \in Seq(V) /\ Dump!Stmts(s) \in Seq(V)
  BY SeqMonotonic, StmtsAreVisited
<1>3. ASSUME NEW n \in Made(N)
      PROVE  n.node # "add(-2)" /\ Dump!children(n) \in Seq(V)
  <2>1. CASE n \in [node : {"BlockStatement"}, block : N]
    <3>1. n.node = "BlockStatement" /\ n.block \in V
      BY <2>1
    <3>2. Dump!children(n) = <<n.block>>
      BY <3>1 DEF Dump!children
    <3> HIDE DEF V
    <3>3. QED
      BY <3>1, <3>2
  <2>2. CASE n \in [node : {"ParameterList"}, parameters : Seq(N)]
    <3>1. n.node = "ParameterList" /\ n.parameters \in Seq(V)
      BY <2>2, <1>2
    <3>2. Dump!children(n) = n.parameters
      BY <3>1 DEF Dump!children
    <3>3. QED
      BY <3>1, <3>2
  <2>3. CASE n \in [node : {"BasicType"}, basic : STRING]
    <3>1. n.node = "BasicType"
      BY <2>3
    <3>2. Dump!children(n) = <<>>
      BY <3>1 DEF Dump!children
    <3>3. QED
      BY <3>1, <3>2, EmptySeq
  <2>4. QED
    BY <1>3, <2>1, <2>2, <2>3 DEF Made
<1>4. ASSUME NEW n \in N
      PROVE  n.node # "add(-2)" /\ Dump!children(n) \in Seq(V)
  <2>1. n.node # "add(-2)"
    BY KindOfNode DEF Kinds
  <2> HIDE DEF V
  <2>2. \A x \in N : x \in V
    BY DEF V
  <2>3. \A x \in V : <<x>> \in Seq(V)
    OBVIOUS
  <2>4. \A x, y \in V : <<x, y>> \in Seq(V)
    OBVIOUS
  <2>5. \A s, t \in Seq(V) : s \o t \in Seq(V)
    BY ConcatProperties
  <2>6. CASE n.node \in {"AST", "Program", "ClassDeclaration"}
    <3>1. Dump!children(n) \in Seq(N)
      BY <2>6, Parts DEF Dump!children
    <3>2. QED
      BY <1>2, <2>1, <3>1
  <2>7. CASE n.node = "Method"
    <3> DEFINE list == [node |-> "ParameterList", parameters |-> n.parameters]
    <3>1. n.type \in V /\ n.block \in V
      BY <2>2, <2>7, Parts
    <3>2. list \in V
      BY <2>7, Parts DEF Made, V
    <3>3. Dump!children(n) = <<n.type, list, n.block>>
      BY <2>7 DEF Dump!children
    <3> HIDE DEF list
    <3>4. <<n.type, list, n.block>> \in Seq(V)
      BY <3>1, <3>2
    <3>5. QED
      BY <2>1, <3>3, <3>4
  <2>8. CASE n.node = "Type"
    <3> DEFINE basic == [node |-> "BasicType", basic |-> n.basic]
    <3>1. basic \in V
      BY <2>8, Parts DEF Made, V
    <3>2. Dump!children(n) = <<basic>>
      BY <2>8 DEF Dump!children
    <3> HIDE DEF basic
    <3>3. QED
      BY <2>1, <2>3, <3>1, <3>2
  <2>9. CASE n.node \in {"Field", "MainMethod", "Parameter"}
    <3>1. \E x \in N : Dump!children(n) = <<x>>
      BY <2>9, Parts DEF Dump!children
    <3>2. QED
      BY <2>1, <2>2, <2>3, <3>1
  <2>10. CASE n.node = "Block"
    <3>1. n.statements \in Seq(N) /\ Dump!children(n) = Dump!Stmts(n.statements)
      BY <2>10, Parts DEF Dump!children
    <3>2. QED
      BY <1>2, <2>1, <3>1
  <2>11. CASE n.node = "If"
    <3>1. n.condition \in V /\ Dump!AsStmt(n.then) \in V /\ Dump!Stmts(n.els) \in Seq(V)
      BY <1>1, <1>2, <2>2, <2>11, Parts DEF V
    <3>2. Dump!children(n) = <<n.condition, Dump!AsStmt(n.then)>> \o Dump!Stmts(n.els)
      BY <2>11 DEF Dump!children, Dump!IfChildren
    <3>3. QED
      BY <2>1, <2>4, <2>5, <3>1, <3>2
  <2>12. CASE n.node = "While"
    <3>1. n.condition \in V /\ Dump!AsStmt(n.body) \in V
      BY <1>1, <2>2, <2>12, Parts DEF V
    <3>2. Dump!children(n) = <<n.condition, Dump!AsStmt(n.body)>>
      BY <2>12 DEF Dump!children
    <3>3. QED
      BY <2>1, <2>4, <3>1, <3>2
  <2>13. CASE n.node = "LocalVariableDeclaration"
    <3>1. n.type \in V /\ n.value \in Seq(V)
      BY <1>2, <2>2, <2>13, Parts
    <3>2. Dump!children(n) = <<n.type>> \o n.value
      BY <2>13 DEF Dump!children
    <3>3. QED
      BY <2>1, <2>3, <2>5, <3>1, <3>2
  <2>14. CASE n.node \in {"Expression", "Unary", "FieldAccess", "NewArray"}
    <3>1. \E x \in N : Dump!children(n) = <<x>>
      BY <2>14, Parts DEF Dump!children
    <3>2. QED
      BY <2>1, <2>2, <2>3, <3>1
  <2>15. CASE n.node \in {"Return", "ThisMethodInvocation"}
    <3>1. Dump!children(n) \in Seq(N)
      BY <2>15, Parts DEF Dump!children
    <3>2. QED
      BY <1>2, <2>1, <3>1
  <2>16. CASE n.node \in {"Binary", "ArrayAccess"}
    <3>1. \E x, y \in N : Dump!children(n) = <<x, y>>
      BY <2>16, Parts DEF Dump!children
    <3>2. QED
      BY <2>1, <2>2, <2>4, <3>1
  <2>17. CASE n.node = "MethodInvocation"
    <3>1. n.target \in V /\ n.arguments \in Seq(V)
      BY <1>2, <2>2, <2>17, Parts
    <3>2. Dump!children(n) = <<n.target>> \o n.arguments
      BY <2>17 DEF Dump!children
    <3>3. QED
      BY <2>1, <2>3, <2>5, <3>1, <3>2
  <2>18. CASE n.node \in {"EmptyStatement", "Atom", "NewObject"}
    <3>1. Dump!children(n) = <<>>
      BY <2>18 DEF Dump!children
    <3>2. QED
      BY <2>1, <3>1, EmptySeq
  <2>19. n.node \in Kinds
    BY KindOfNode
  <2>20. QED
    BY <2>6, <2>7, <2>8, <2>9, <2>10, <2>11, <2>12, <2>13, <2>14, <2>15, <2>16, <2>17, <2>18, <2>19
       DEF Kinds
<1>5. QED
  BY <1>3, <1>4 DEF Closed
-----------------------------------------------------------------------------
(***************************************************************************)
(* A line more.                                                            *)
(***************************************************************************)
LinesOver(V) == Seq([node : V, indent : Nat])

LEMMA AppendLine ==
    ASSUME NEW V, NEW lines \in LinesOver(V), NEW line \in [node : V, indent : Nat]
    PROVE  /\ Append(lines, line) \in LinesOver(V)
           /\ Len(Append(lines, line)) = Len(lines) + 1
           /\ Append(lines, line)[Len(lines) + 1] = line
           /\ \A i \in 1..Len(lines) : Append(lines, line)[i] = lines[i]
           /\ DOMAIN Append(lines, line) = 1..(Len(lines) + 1)
           /\ DOMAIN lines = 1..Len(lines)
           /\ Len(lines) \in Nat
           /\ \A i \in 1..Len(lines) : lines[i].node \in V /\ lines[i].indent \in Nat
<1>1. Append(lines, line) \in LinesOver(V) /\ Len(lines) \in Nat
  BY AppendProperties, LenProperties DEF LinesOver
<1>2. Len(Append(lines, line)) = Len(lines) + 1
  BY AppendProperties DEF LinesOver
<1>3. DOMAIN lines = 1..Len(lines) /\ DOMAIN Append(lines, line) = 1..(Len(lines) + 1)
  BY <1>1, <1>2, LenProperties DEF LinesOver
<1>4. /\ Append(lines, line)[Len(lines) + 1] = line
      /\ \A i \in 1..Len(lines) : Append(lines, line)[i] = lines[i]
  BY AppendProperties DEF LinesOver
<1>5. \A i \in 1..Len(lines) : lines[i] \in [node : V, indent : Nat]
  BY ElementOfSeq DEF LinesOver
<1>6. QED
  BY <1>1, <1>2, <1>3, <1>4, <1>5

\* What is below a line stays below it, and the new line may be too.
LEMMA BelowAppend ==
    ASSUME NEW V, NEW lines \in LinesOver(V), NEW line \in [node : V, indent : Nat],
           NEW j \in 1..Len(lines)
    PROVE  LET more == Append(lines, line)
               new == Len(lines) + 1
           IN  /\ \A i \in 1..Len(lines) : Dump!Below(more, j, i) <=> Dump!Below(lines, j, i)
               /\ Dump!Below(more, j, new)
                  => Dump!LinesBelow(more, j) = Dump!LinesBelow(lines, j) \cup {new}
               /\ ~Dump!Below(more, j, new)
                  => Dump!LinesBelow(more, j) = Dump!LinesBelow(lines, j)
<1> DEFINE more == Append(lines, line)
           new == Len(lines) + 1
<1>1. /\ Len(lines) \in Nat
      /\ \A i \in 1..Len(lines) : more[i] = lines[i]
      /\ DOMAIN more = 1..new /\ DOMAIN lines = 1..Len(lines)
  BY AppendLine
<1> HIDE DEF more
<1>2. ASSUME NEW i \in 1..Len(lines)
      PROVE  Dump!Below(more, j, i) <=> Dump!Below(lines, j, i)
  <2>1. \A k \in j..i : k \in 1..Len(lines) /\ more[k] = lines[k]
    BY <1>1
  <2>2. more[i] = lines[i] /\ more[j] = lines[j]
    BY <1>1
  <2>3. QED
    BY <2>1, <2>2 DEF Dump!Below
<1>3. DOMAIN more = DOMAIN lines \cup {new}
  BY <1>1
<1>4. /\ Dump!Below(more, j, new)
         => Dump!LinesBelow(more, j) = Dump!LinesBelow(lines, j) \cup {new}
      /\ ~Dump!Below(more, j, new)
         => Dump!LinesBelow(more, j) = Dump!LinesBelow(lines, j)
  BY <1>1, <1>2, <1>3 DEF Dump!LinesBelow
<1>5. QED
  BY <1>2, <1>4 DEF more

LEMMA ShowsNothing ==
    ASSUME NEW V, NEW lines \in LinesOver(V)
    PROVE  Dump!Shows(lines, Len(lines), 0)
<1>1. Len(lines) \in Nat /\ DOMAIN lines = 1..Len(lines)
  BY LenProperties DEF LinesOver
<1>2. Dump!LinesBelow(lines, Len(lines)) = {}
  BY <1>1 DEF Dump!LinesBelow, Dump!Below
<1>3. 1..0 = {}
  OBVIOUS
<1>4. [k \in 1..0 |-> 0] \in [1..0 -> Dump!LinesBelow(lines, Len(lines))]
  BY <1>3
<1>5. QED
  BY <1>2, <1>3, <1>4 DEF Dump!Shows

LEMMA ShowsTheSame ==
    ASSUME NEW V, NEW lines \in LinesOver(V), NEW line \in [node : V, indent : Nat],
           NEW j \in 1..Len(lines), NEW n,
           Dump!Shows(lines, j, n),
           ~Dump!Below(Append(lines, line), j, Len(lines) + 1)
    PROVE  Dump!Shows(Append(lines, line), j, n)
<1> DEFINE more == Append(lines, line)
<1>1. Dump!LinesBelow(more, j) = Dump!LinesBelow(lines, j)
  BY BelowAppend
<1>2. /\ Len(lines) \in Nat /\ DOMAIN lines = 1..Len(lines)
      /\ \A i \in 1..Len(lines) : more[i] = lines[i]
  BY AppendLine
<1>3. Dump!LinesBelow(lines, j) \subseteq 1..Len(lines)
  BY <1>2 DEF Dump!LinesBelow
<1> HIDE DEF more
<1>4. PICK at \in [1..n -> Dump!LinesBelow(lines, j)] :
          /\ \A k \in 1..n : lines[at[k]].node = Dump!children(lines[j].node)[k]
          /\ \A k, l \in 1..n : k < l => at[k] < at[l]
          /\ \A i \in Dump!LinesBelow(lines, j) : \E k \in 1..n : at[k] = i
  BY DEF Dump!Shows
<1>5. \A k \in 1..n : more[at[k]] = lines[at[k]]
  BY <1>2, <1>3, <1>4
<1>6. more[j] = lines[j]
  BY <1>2
<1>7. \A k \in 1..n : more[at[k]].node = Dump!children(more[j].node)[k]
  BY <1>4, <1>5, <1>6
<1>8. Dump!Shows(more, j, n)
  <2>1. at \in [1..n -> Dump!LinesBelow(more, j)]
    BY <1>1, <1>4
  <2>2. \A k, l \in 1..n : k < l => at[k] < at[l]
    BY <1>4
  <2>3. \A i \in Dump!LinesBelow(more, j) : \E k \in 1..n : at[k] = i
    BY <1>1, <1>4
  <2>4. QED
    BY <1>7, <2>1, <2>2, <2>3 DEF Dump!Shows
<1>9. QED
  BY <1>8 DEF more

LEMMA ShowsOneMore ==
    ASSUME NEW V, NEW lines \in LinesOver(V), NEW line \in [node : V, indent : Nat],
           NEW j \in 1..Len(lines), NEW n \in Nat,
           Dump!Shows(lines, j, n),
           Dump!Below(Append(lines, line), j, Len(lines) + 1),
           line.node = Dump!children(lines[j].node)[n + 1]
    PROVE  Dump!Shows(Append(lines, line), j, n + 1)
<1> DEFINE more == Append(lines, line)
           new == Len(lines) + 1
<1>1. Dump!LinesBelow(more, j) = Dump!LinesBelow(lines, j) \cup {new}
  BY BelowAppend
<1>2. /\ Len(lines) \in Nat /\ DOMAIN lines = 1..Len(lines)
      /\ \A i \in 1..Len(lines) : more[i] = lines[i]
      /\ more[new] = line
  BY AppendLine
<1>3. Dump!LinesBelow(lines, j) \subseteq 1..Len(lines)
  BY <1>2 DEF Dump!LinesBelow
<1> HIDE DEF more
<1>4. PICK at \in [1..n -> Dump!LinesBelow(lines, j)] :
          /\ \A k \in 1..n : lines[at[k]].node = Dump!children(lines[j].node)[k]
          /\ \A k, l \in 1..n : k < l => at[k] < at[l]
          /\ \A i \in Dump!LinesBelow(lines, j) : \E k \in 1..n : at[k] = i
  BY DEF Dump!Shows
<1> DEFINE at2 == [k \in 1..(n + 1) |-> IF k = n + 1 THEN new ELSE at[k]]
<1>5. at2 \in [1..(n + 1) -> Dump!LinesBelow(more, j)]
  BY <1>1, <1>4
<1>6. more[j] = lines[j]
  BY <1>2
<1>7. \A k \in 1..(n + 1) : more[at2[k]].node = Dump!children(more[j].node)[k]
  <2>1. ASSUME NEW k \in 1..n
        PROVE  more[at2[k]].node = Dump!children(more[j].node)[k]
    <3>1. at2[k] = at[k] /\ at[k] \in 1..Len(lines)
      <4>1. k \in 1..(n + 1) /\ k # n + 1
        BY <2>1
      <4>2. at[k] \in Dump!LinesBelow(lines, j)
        BY <1>4
      <4> QED
        BY <1>3, <4>1, <4>2
    <3>2. QED
      BY <1>2, <1>4, <1>6, <3>1
  <2>2. at2[n + 1] = new
    OBVIOUS
  <2>3. more[at2[n + 1]].node = Dump!children(more[j].node)[n + 1]
    BY <1>2, <1>6, <2>2
  <2>4. \A k \in 1..(n + 1) : k \in 1..n \/ k = n + 1
    OBVIOUS
  <2> HIDE DEF at2
  <2>5. QED
    BY <2>1, <2>3, <2>4
<1>8. \A k, l \in 1..(n + 1) : k < l => at2[k] < at2[l]
  <2>1. \A k \in 1..n : at[k] \in 1..Len(lines)
    BY <1>3, <1>4
  <2>2. QED
    BY <1>2, <1>4, <2>1
<1>9. \A i \in Dump!LinesBelow(more, j) : \E k \in 1..(n + 1) : at2[k] = i
  <2>1. ASSUME NEW i \in Dump!LinesBelow(lines, j)
        PROVE  \E k \in 1..(n + 1) : at2[k] = i
    <3>1. PICK k \in 1..n : at[k] = i
      BY <1>4
    <3>2. k \in 1..(n + 1) /\ at2[k] = i
      BY <3>1
    <3>3. QED
      BY <3>2
  <2>2. n + 1 \in 1..(n + 1) /\ at2[n + 1] = new
    OBVIOUS
  <2>3. QED
    BY <1>1, <2>1, <2>2
<1> HIDE DEF at2
<1>10. Dump!Shows(more, j, n + 1)
  BY <1>5, <1>7, <1>8, <1>9 DEF Dump!Shows
<1>11. QED
  BY <1>10 DEF more

-----------------------------------------------------------------------------
(***************************************************************************)
(* The dump: lines open[1], ..., open[depth] are those whose children are  *)
(* being visited.  mark[e] is the place in todo of the add(-2) that closes *)
(* the line open[e]; before it, and after that of the next line further    *)
(* in, are the children that are still to come.                            *)
(***************************************************************************)
kids(j) == Dump!children(out[j].node)
Coming(mark, e) == mark[e] - mark[e + 1] - 1
Gone(open, mark, e) == Len(kids(open[e])) - Coming(mark, e)

Stack(depth, open, mark) ==
    /\ depth \in Nat
    /\ open \in [1..depth -> 1..Len(out)]
    /\ mark \in [1..(depth + 1) -> 0..Len(todo)]
    /\ mark[1] = Len(todo) /\ mark[depth + 1] = 0
    /\ \A e \in 1..depth : mark[e] > mark[e + 1] /\ todo[mark[e]].node = "add(-2)"
    /\ indent = 2 * depth

Remaining(depth, open, mark) ==
    \A e \in 1..depth :
        /\ Coming(mark, e) <= Len(kids(open[e]))
        /\ \A q \in 1..Coming(mark, e) :
               todo[mark[e + 1] + q] = kids(open[e])[Gone(open, mark, e) + q]

Indentation(depth, open) ==
    \A e \in 1..depth :
        /\ out[open[e]].indent = 2 * (e - 1)
        /\ \A i \in 1..Len(out) : i > open[e] => out[i].indent >= 2 * e

Written(depth, open, mark) ==
    /\ \A e \in 1..depth : Dump!Shows(out, open[e], Gone(open, mark, e))
    /\ \A j \in 1..Len(out) :
           (\A e \in 1..depth : open[e] # j) => Dump!Shows(out, j, Len(kids(j)))

Shape(depth, open, mark) == /\ Stack(depth, open, mark)
                            /\ Remaining(depth, open, mark)
                            /\ Indentation(depth, open)
                            /\ Written(depth, open, mark)

Started == /\ out # <<>> /\ out[1] = [node |-> ast, indent |-> 0]
           /\ \A i \in 2..Len(out) : \E j \in 1..(i - 1) : Dump!Below(out, j, i)
           /\ \E depth, open, mark : Shape(depth, open, mark)

marker == [node |-> "add(-2)"]

DumpTypes(V) == /\ ast \in V
                /\ indent \in Nat
                /\ todo \in Seq(V \cup {marker})
                /\ out \in LinesOver(V)
                /\ result \in {"printing", "Ok", "Err", "panicked"}

DumpInv(V) == /\ DumpTypes(V)
              /\ \/ out = <<>> /\ todo = <<ast>> /\ indent = 0 /\ result # "Ok"
                 \/ Started
              /\ result = "Ok" => todo = <<>>

LEMMA StepTypes ==
    ASSUME NEW V, Closed(V), DumpTypes(V), Dump!Next
    PROVE  DumpTypes(V)'
<1>1. CASE Dump!Visit
  <2>1. Dump!node \in V
    BY <1>1, HeadTailProperties DEF Dump!Visit, Dump!node, DumpTypes, marker
  <2>2. /\ todo' = Dump!children(Dump!node) \o <<marker>> \o Tail(todo)
        /\ out' = Append(out, [node |-> Dump!node, indent |-> indent])
        /\ indent' = indent + 2 /\ ast' = ast /\ result' = result
    BY <1>1 DEF Dump!Visit, marker
  <2>3. todo' \in Seq(V \cup {marker})
    <3>1. Dump!children(Dump!node) \in Seq(V \cup {marker})
      BY <2>1, SeqMonotonic DEF Closed
    <3>2. <<marker>> \in Seq(V \cup {marker})
      OBVIOUS
    <3>3. Tail(todo) \in Seq(V \cup {marker})
      BY <1>1, HeadTailProperties DEF Dump!Visit, DumpTypes
    <3>4. QED
      BY <2>2, <3>1, <3>2, <3>3, ConcatProperties
  <2>4. out' \in LinesOver(V)
    BY <2>1, <2>2, AppendProperties DEF DumpTypes, LinesOver
  <2>5. QED
    BY <2>2, <2>3, <2>4 DEF DumpTypes
<1>2. CASE Dump!Leave
  <2>1. todo' \in Seq(V \cup {marker})
    BY <1>2, HeadTailProperties DEF Dump!Leave, DumpTypes
  <2>2. QED
    BY <1>2, <2>1 DEF Dump!Leave, DumpTypes
<1>3. CASE Dump!WriteFails
  BY <1>3 DEF Dump!WriteFails, DumpTypes
<1>4. QED
  BY <1>1, <1>2, <1>3 DEF Dump!Next

LEMMA KidsAreNodes ==
    ASSUME NEW V, Closed(V), DumpTypes(V), NEW j \in 1..Len(out)
    PROVE  kids(j) \in Seq(V) /\ Len(kids(j)) \in Nat
<1>1. out[j] \in [node : V, indent : Nat]
  BY ElementOfSeq DEF DumpTypes, LinesOver
<1>2. out[j].node \in V
  BY <1>1
<1>3. QED
  BY <1>2, LenProperties DEF Closed, kids

\* A line is open while there is something left to do.
LEMMA SomeOpen ==
    ASSUME NEW V, DumpTypes(V), NEW depth, NEW open, NEW mark, Stack(depth, open, mark), todo # <<>>
    PROVE  /\ depth \in Nat \ {0} /\ Len(todo) \in Nat \ {0}
           /\ \A e \in 1..depth : mark[e] \in 1..Len(todo)
           /\ \A e \in 1..(depth - 1) : mark[e] > mark[e + 1] /\ mark[e + 1] \in 1..Len(todo)
           /\ \A e \in 1..depth : open[e] \in 1..Len(out)
           /\ Dump!node = todo[1]
<1>1. Len(todo) \in Nat \ {0}
  BY EmptySeq DEF DumpTypes
<1>2. depth # 0
  BY <1>1 DEF Stack
<1>3. ASSUME NEW e \in 1..depth
      PROVE  mark[e] \in 1..Len(todo) /\ mark[e] > mark[e + 1]
  <2>1. e \in 1..(depth + 1) /\ e + 1 \in 1..(depth + 1)
    BY DEF Stack
  <2>2. mark[e] \in 0..Len(todo) /\ mark[e + 1] \in 0..Len(todo) /\ mark[e] > mark[e + 1]
    BY <2>1 DEF Stack
  <2>3. QED
    BY <1>1, <2>2
<1>4. \A e \in 1..(depth - 1) : e \in 1..depth /\ e + 1 \in 1..depth
  BY DEF Stack
<1>5. Dump!node = todo[1]
  BY <1>1 DEF Dump!node, DumpTypes
<1>6. QED
  BY <1>1, <1>2, <1>3, <1>4, <1>5 DEF Stack

\* The head of todo is the marker of the innermost line, or its next child.
LEMMA HeadOfTodo ==
    ASSUME NEW V, Closed(V), DumpTypes(V), todo # <<>>,
           NEW depth, NEW open, NEW mark, Shape(depth, open, mark)
    PROVE  /\ Dump!node.node = "add(-2)" => mark[depth] = 1 /\ Gone(open, mark, depth) = Len(kids(open[depth]))
           /\ Dump!node.node # "add(-2)" => /\ mark[depth] > 1
                                            /\ Gone(open, mark, depth) + 1 \in 1..Len(kids(open[depth]))
                                            /\ Dump!node = kids(open[depth])[Gone(open, mark, depth) + 1]
<1>1. /\ depth \in Nat \ {0} /\ mark[depth] \in 1..Len(todo) /\ mark[depth + 1] = 0
      /\ Dump!node = todo[1] /\ open[depth] \in 1..Len(out)
  <2>1. Stack(depth, open, mark)
    BY DEF Shape
  <2>2. depth \in Nat \ {0} /\ depth \in 1..depth
    BY <2>1, SomeOpen
  <2>3. QED
    BY <2>1, <2>2, SomeOpen DEF Stack
<1>2. kids(open[depth]) \in Seq(V) /\ Len(kids(open[depth])) \in Nat
  BY <1>1, KidsAreNodes
<1>3. Coming(mark, depth) = mark[depth] - 1
  BY <1>1 DEF Coming
<1>4. CASE mark[depth] = 1
  <2>1. Dump!node.node = "add(-2)"
    BY <1>1, <1>4 DEF Shape, Stack
  <2>2. Gone(open, mark, depth) = Len(kids(open[depth]))
    BY <1>2, <1>3, <1>4 DEF Gone
  <2>3. QED
    BY <1>4, <2>1, <2>2
<1>5. CASE mark[depth] > 1
  <2>1. Coming(mark, depth) <= Len(kids(open[depth])) /\ 1 \in 1..Coming(mark, depth)
    BY <1>1, <1>3, <1>5 DEF Shape, Remaining
  <2>2. Gone(open, mark, depth) + 1 \in 1..Len(kids(open[depth]))
    BY <1>1, <1>2, <1>3, <2>1 DEF Gone
  <2>3. todo[mark[depth + 1] + 1] = kids(open[depth])[Gone(open, mark, depth) + 1]
    BY <1>1, <2>1 DEF Shape, Remaining
  <2>4. Dump!node = kids(open[depth])[Gone(open, mark, depth) + 1]
    BY <1>1, <2>3
  <2>5. Dump!node \in V
    BY <1>2, <2>2, <2>4, ElementOfSeq
  <2>6. QED
    BY <1>5, <2>2, <2>4, <2>5 DEF Closed
<1>6. QED
  BY <1>1, <1>4, <1>5

(***************************************************************************)
(* The call add(-2) closes the innermost line.                             *)
(***************************************************************************)
LEMMA LeaveKeepsShape ==
    ASSUME NEW V, Closed(V), DumpTypes(V), Dump!Leave,
           NEW depth, NEW open, NEW mark, Shape(depth, open, mark)
    PROVE  \E d, o, m : Shape(d, o, m)'
<1> DEFINE d == depth - 1
           o == [e \in 1..d |-> open[e]]
           m == [e \in 1..depth |-> mark[e] - 1]
<1>1. /\ todo # <<>> /\ Dump!node.node = "add(-2)"
      /\ out' = out /\ todo' = Tail(todo) /\ indent' = indent - 2
  BY DEF Dump!Leave
<1>2. /\ Stack(depth, open, mark) /\ Remaining(depth, open, mark)
      /\ Indentation(depth, open) /\ Written(depth, open, mark)
  BY DEF Shape
<1>3. /\ depth \in Nat \ {0} /\ d \in Nat /\ Len(todo) \in Nat \ {0}
      /\ \A e \in 1..depth : mark[e] \in 1..Len(todo)
      /\ \A e \in 1..d : mark[e] > mark[e + 1] /\ mark[e + 1] \in 1..Len(todo)
      /\ \A e \in 1..depth : open[e] \in 1..Len(out)
  BY <1>1, <1>2, SomeOpen
<1>4. mark[depth] = 1 /\ Gone(open, mark, depth) = Len(kids(open[depth]))
  BY <1>1, HeadOfTodo
<1>5. /\ Len(todo') = Len(todo) - 1
      /\ \A i \in 1..Len(todo') : todo'[i] = todo[i + 1]
  BY <1>1, HeadTailProperties DEF DumpTypes
<1>6. \A e \in 1..d : /\ e \in 1..depth /\ e + 1 \in 1..depth
                      /\ o[e] = open[e] /\ m[e] = mark[e] - 1 /\ m[e + 1] = mark[e + 1] - 1
  BY <1>3
<1>7. \A e \in 1..d : /\ Coming(m, e) = Coming(mark, e)
                      /\ Gone(o, m, e)' = Gone(open, mark, e)
                      /\ kids(o[e])' = kids(open[e])
  <2> SUFFICES ASSUME NEW e \in 1..d
               PROVE  /\ Coming(m, e) = Coming(mark, e)
                      /\ Gone(o, m, e)' = Gone(open, mark, e)
                      /\ kids(o[e])' = kids(open[e])
    OBVIOUS
  <2>1. o[e] = open[e] /\ m[e] = mark[e] - 1 /\ m[e + 1] = mark[e + 1] - 1
    BY <1>6
  <2>2. mark[e] \in Int /\ mark[e + 1] \in Int
    BY <1>3, <1>6
  <2> HIDE DEF o, m
  <2>3. Coming(m, e) = Coming(mark, e)
    BY <2>1, <2>2 DEF Coming
  <2>4. kids(o[e])' = kids(open[e])
    BY <1>1, <2>1 DEF kids
  <2>5. QED
    BY <1>1, <2>1, <2>3, <2>4 DEF Gone, kids
<1>8. Stack(d, o, m)'
  <2>1. o \in [1..d -> 1..Len(out')]
    BY <1>1, <1>3, <1>6
  <2>2. m \in [1..(d + 1) -> 0..Len(todo')]
    BY <1>3, <1>5
  <2>3. m[1] = Len(todo') /\ m[d + 1] = 0
    BY <1>2, <1>3, <1>4, <1>5 DEF Stack
  <2>4. ASSUME NEW e \in 1..d
        PROVE  m[e] > m[e + 1] /\ todo'[m[e]].node = "add(-2)"
    <3>1. mark[e] > mark[e + 1] /\ mark[e + 1] \in 1..Len(todo) /\ mark[e] \in 1..Len(todo)
      BY <1>3, <1>6
    <3>2. m[e] > m[e + 1] /\ m[e] \in 1..Len(todo')
      BY <1>5, <1>6, <3>1
    <3>3. todo'[m[e]] = todo[mark[e]]
      BY <1>3, <1>5, <1>6, <3>1, <3>2
    <3>4. QED
      BY <1>2, <1>6, <3>2, <3>3 DEF Stack
  <2>5. indent' = 2 * d
    BY <1>1, <1>2, <1>3 DEF Stack
  <2> HIDE DEF o, m
  <2>6. QED
    BY <1>3, <2>1, <2>2, <2>3, <2>4, <2>5 DEF Stack
<1>9. Remaining(d, o, m)'
  <2>1. ASSUME NEW e \in 1..d
        PROVE  /\ Coming(m, e) <= Len(kids(o[e])')
               /\ \A q \in 1..Coming(m, e) :
                      todo'[m[e + 1] + q] = kids(o[e])'[Gone(o, m, e)' + q]
    <3>1. ASSUME NEW q \in 1..Coming(mark, e)
          PROVE  todo'[m[e + 1] + q] = todo[mark[e + 1] + q]
      <4>1. /\ m[e + 1] = mark[e + 1] - 1 /\ mark[e + 1] \in 1..Len(todo)
            /\ mark[e] \in 1..Len(todo) /\ q <= mark[e] - mark[e + 1] - 1 /\ q \in Nat /\ q >= 1
        BY <1>3, <1>6 DEF Coming
      <4> HIDE DEF m
      <4>2. m[e + 1] + q \in 1..Len(todo') /\ (m[e + 1] + q) + 1 = mark[e + 1] + q
        BY <1>5, <4>1
      <4>3. QED
        BY <1>5, <4>2
    <3>2. e \in 1..depth
      BY <1>6
    <3> HIDE DEF o, m
    <3>3. QED
      BY <1>2, <1>7, <3>1, <3>2 DEF Remaining
  <2> HIDE DEF o, m
  <2>2. QED
    BY <2>1 DEF Remaining, Coming
<1>10. Indentation(d, o)'
  BY <1>1, <1>2, <1>6 DEF Indentation
<1>11. Written(d, o, m)'
  <2>1. ASSUME NEW e \in 1..d
        PROVE  Dump!Shows(out, o[e], Gone(o, m, e))'
    <3>1. Dump!Shows(out, open[e], Gone(open, mark, e)) /\ o[e] = open[e]
      BY <1>2, <1>6 DEF Written
    <3>2. Gone(o, m, e)' = Gone(open, mark, e)
      BY <1>7
    <3> HIDE DEF o, m
    <3>3. QED
      BY <1>1, <3>1, <3>2
  <2>2. ASSUME NEW j \in 1..Len(out'), \A e \in 1..d : o[e] # j
        PROVE  Dump!Shows(out', j, Len(kids(j)'))
    <3>1. kids(j)' = kids(j)
      BY <1>1 DEF kids
    <3>2. CASE j = open[depth]
      <4>1. Dump!Shows(out, open[depth], Gone(open, mark, depth))
        BY <1>2, <1>3 DEF Written
      <4>2. QED
        BY <1>1, <1>4, <3>1, <3>2, <4>1
    <3>3. CASE j # open[depth]
      <4>1. \A e \in 1..depth : e = depth \/ e \in 1..d
        BY <1>3
      <4>2. \A e \in 1..depth : open[e] # j
        BY <1>6, <2>2, <3>3, <4>1
      <4>3. Dump!Shows(out, j, Len(kids(j)))
        BY <1>1, <1>2, <2>2, <4>2 DEF Written
      <4>4. QED
        BY <1>1, <3>1, <4>3
    <3>4. QED
      BY <3>2, <3>3
  <2> HIDE DEF o, m
  <2>3. QED
    BY <2>1, <2>2 DEF Written
<1> HIDE DEF d, o, m
<1>12. Shape(d, o, m)'
  BY <1>8, <1>9, <1>10, <1>11 DEF Shape
<1>13. QED
  BY <1>12

(***************************************************************************)
(* A visit: what is written, and what is to do then.                       *)
(***************************************************************************)
LEMMA VisitWrites ==
    ASSUME NEW V, Closed(V), DumpTypes(V), Dump!Visit
    PROVE  LET n == Dump!node
               c == Len(Dump!children(n))
           IN  /\ n \in V /\ c \in Nat /\ Len(todo) \in Nat \ {0}
               /\ ast' = ast /\ result' = result /\ indent' = indent + 2
               /\ out' = Append(out, [node |-> n, indent |-> indent])
               /\ Len(todo') = c + Len(todo)
               /\ \A i \in 1..c : todo'[i] = Dump!children(n)[i]
               /\ todo'[c + 1].node = "add(-2)"
               /\ \A i \in 2..Len(todo) : todo'[c + i] = todo[i]
<1> DEFINE n == Dump!node
           ch == Dump!children(n)
           W == V \cup {marker}
<1>1. /\ todo # <<>> /\ n.node # "add(-2)"
      /\ todo' = ch \o <<marker>> \o Tail(todo)
      /\ ast' = ast /\ result' = result /\ indent' = indent + 2
      /\ out' = Append(out, [node |-> n, indent |-> indent])
  BY DEF Dump!Visit, marker
<1>2. n \in V
  BY <1>1, HeadTailProperties DEF Dump!node, DumpTypes, marker
<1>3. ch \in Seq(W) /\ <<marker>> \in Seq(W) /\ Tail(todo) \in Seq(W) /\ Len(ch) \in Nat
  <2>1. ch \in Seq(V)
    BY <1>2 DEF Closed
  <2>2. ch \in Seq(W)
    BY <2>1, SeqMonotonic
  <2>3. <<marker>> \in Seq(W)
    OBVIOUS
  <2>4. QED
    BY <1>1, <2>1, <2>2, <2>3, HeadTailProperties, LenProperties DEF DumpTypes
<1>4. /\ Len(todo) \in Nat \ {0}
      /\ Len(Tail(todo)) = Len(todo) - 1
      /\ \A i \in 1..Len(Tail(todo)) : Tail(todo)[i] = todo[i + 1]
  BY <1>1, HeadTailProperties, EmptySeq DEF DumpTypes
<1> HIDE DEF n, ch, W
<1>5. /\ ch \o <<marker>> \in Seq(W)
      /\ Len(ch \o <<marker>>) = Len(ch) + 1
      /\ \A i \in 1..Len(ch) : (ch \o <<marker>>)[i] = ch[i]
      /\ (ch \o <<marker>>)[Len(ch) + 1] = marker
  <2>1. Len(<<marker>>) = 1 /\ <<marker>>[1] = marker
    OBVIOUS
  <2>2. QED
    BY <1>3, <2>1, ConcatProperties
<1>6. /\ Len(todo') = Len(ch) + Len(todo)
      /\ \A i \in 1..(Len(ch) + 1) : todo'[i] = (ch \o <<marker>>)[i]
      /\ \A i \in (Len(ch) + 2)..(Len(ch) + Len(todo)) : todo'[i] = Tail(todo)[i - (Len(ch) + 1)]
  BY <1>1, <1>3, <1>4, <1>5, ConcatProperties
<1>7. \A i \in 1..Len(ch) : todo'[i] = ch[i]
  BY <1>3, <1>5, <1>6
<1>8. todo'[Len(ch) + 1].node = "add(-2)"
  BY <1>3, <1>5, <1>6 DEF marker
<1>9. ASSUME NEW i \in 2..Len(todo)
      PROVE  todo'[Len(ch) + i] = todo[i]
  <2>1. Len(ch) + i \in (Len(ch) + 2)..(Len(ch) + Len(todo)) /\ (Len(ch) + i) - (Len(ch) + 1) = i - 1
    BY <1>3, <1>4
  <2>2. i - 1 \in 1..Len(Tail(todo)) /\ (i - 1) + 1 = i
    BY <1>4
  <2>3. QED
    BY <1>4, <1>6, <2>1, <2>2
<1>10. QED
  BY <1>1, <1>2, <1>3, <1>4, <1>6, <1>7, <1>8, <1>9 DEF n, ch

\* The root: its line is the only one.
LEMMA FirstVisit ==
    ASSUME NEW V, Closed(V), DumpTypes(V), Dump!Visit,
           out = <<>>, todo = <<ast>>, indent = 0
    PROVE  Started'
<1>0. PICK c : c = Len(Dump!children(ast))
  OBVIOUS
<1> DEFINE o == [e \in 1..1 |-> 1]
           m == [e \in 1..2 |-> IF e = 1 THEN c + 1 ELSE 0]
<1>1. Dump!node = ast /\ Len(todo) = 1
  BY DEF Dump!node
<1>2. /\ c \in Nat
      /\ ast' = ast /\ indent' = 2
      /\ out' = Append(out, [node |-> ast, indent |-> 0])
      /\ Len(todo') = c + 1
      /\ \A i \in 1..c : todo'[i] = Dump!children(ast)[i]
      /\ todo'[c + 1].node = "add(-2)"
  BY <1>0, <1>1, VisitWrites
<1>3. /\ out' = <<[node |-> ast, indent |-> 0]>> /\ Len(out') = 1
      /\ out'[1] = [node |-> ast, indent |-> 0] /\ out' # <<>>
  BY <1>2
<1>4. out' \in LinesOver(V)
  <2>1. ast \in V
    BY DEF DumpTypes
  <2>2. QED
    BY <1>3, <2>1 DEF LinesOver
<1>5. kids(1)' = Dump!children(ast)
  BY <1>3 DEF kids
<1>6. Stack(1, o, m)'
  BY <1>2, <1>3 DEF Stack
<1>7. o[1] = 1 /\ Coming(m, 1) = c /\ Gone(o, m, 1)' = 0
  BY <1>0, <1>2, <1>5 DEF Coming, Gone
<1>8. Remaining(1, o, m)'
  <2>1. m[2] = 0
    OBVIOUS
  <2>2. kids(o[1])' = Dump!children(ast)
    BY <1>5, <1>7
  <2> HIDE DEF o, m
  <2>3. /\ Coming(m, 1) <= Len(kids(o[1])')
        /\ \A q \in 1..Coming(m, 1) : todo'[m[1 + 1] + q] = kids(o[1])'[Gone(o, m, 1)' + q]
    BY <1>0, <1>2, <1>7, <2>1, <2>2
  <2>4. \A e \in 1..1 : e = 1
    OBVIOUS
  <2>5. QED
    BY <2>3, <2>4 DEF Remaining, Coming
<1>9. Indentation(1, o)'
  BY <1>3 DEF Indentation
<1>10. Written(1, o, m)'
  <2>1. Dump!Shows(out', 1, 0)
    BY <1>3, <1>4, ShowsNothing
  <2> HIDE DEF o, m
  <2>2. QED
    BY <1>3, <1>7, <2>1 DEF Written
<1> HIDE DEF o, m
<1>11. Shape(1, o, m)'
  BY <1>6, <1>8, <1>9, <1>10 DEF Shape
<1>12. \A i \in 2..Len(out') : FALSE
  BY <1>3
<1>13. QED
  BY <1>2, <1>3, <1>11, <1>12 DEF Started

(***************************************************************************)
(* A visit of a child: its line is below that of the innermost open line,  *)
(* and of no other.                                                        *)
(***************************************************************************)
LEMMA VisitBelow ==
    ASSUME NEW V, Closed(V), DumpTypes(V), Dump!Visit,
           NEW depth, NEW open, NEW mark, Shape(depth, open, mark),
           NEW j \in 1..Len(out)
    PROVE  Dump!Below(out', j, Len(out) + 1) <=> j = open[depth]
<1>1. /\ todo # <<>> /\ indent = 2 * depth
      /\ depth \in Nat \ {0} /\ open[depth] \in 1..Len(out)
  <2>1. todo # <<>> /\ Stack(depth, open, mark)
    BY DEF Dump!Visit, Shape
  <2>2. depth \in Nat \ {0} /\ depth \in 1..depth
    BY <2>1, SomeOpen
  <2>3. QED
    BY <2>1, <2>2, SomeOpen DEF Stack
<1>2. /\ out[open[depth]].indent = 2 * (depth - 1)
      /\ \A i \in 1..Len(out) : i > open[depth] => out[i].indent >= 2 * depth
  BY <1>1 DEF Shape, Indentation
<1>3. /\ \A i \in 1..Len(out) : out'[i] = out[i] /\ out[i].indent \in Nat
      /\ out'[Len(out) + 1].indent = 2 * depth
      /\ Len(out) \in Nat
  <2>1. [node |-> Dump!node, indent |-> indent] \in [node : V, indent : Nat]
    BY VisitWrites DEF DumpTypes
  <2>2. out' = Append(out, [node |-> Dump!node, indent |-> indent])
    BY VisitWrites
  <2>3. QED
    BY <1>1, <2>1, <2>2, AppendLine DEF DumpTypes
<1>4. CASE j = open[depth]
  <2>1. out'[Len(out) + 1].indent = out'[j].indent + 2
    BY <1>1, <1>2, <1>3, <1>4
  <2>2. ASSUME NEW k \in j..(Len(out) + 1), k > j
        PROVE  out'[k].indent >= out'[Len(out) + 1].indent
    <3>1. CASE k \in 1..Len(out)
      BY <1>1, <1>2, <1>3, <1>4, <2>2, <3>1
    <3>2. CASE k = Len(out) + 1
      BY <1>1, <1>3, <3>2
    <3>3. QED
      BY <1>3, <3>1, <3>2
  <2>3. j < Len(out) + 1
    BY <1>3
  <2>4. QED
    BY <1>4, <2>1, <2>2, <2>3 DEF Dump!Below
<1>5. CASE j < open[depth]
  <2>1. open[depth] \in j..(Len(out) + 1) /\ open[depth] > j
    BY <1>1, <1>3, <1>5
  <2>2. ~(out'[open[depth]].indent >= out'[Len(out) + 1].indent)
    BY <1>1, <1>2, <1>3
  <2>3. QED
    BY <1>5, <2>1, <2>2 DEF Dump!Below
<1>6. CASE j > open[depth]
  <2>1. out'[Len(out) + 1].indent # out'[j].indent + 2
    BY <1>1, <1>2, <1>3, <1>6
  <2>2. QED
    BY <1>6, <2>1 DEF Dump!Below
<1>7. QED
  BY <1>1, <1>3, <1>4, <1>5, <1>6

LEMMA VisitKeepsShape ==
    ASSUME NEW V, Closed(V), DumpTypes(V), Dump!Visit,
           NEW depth, NEW open, NEW mark, Shape(depth, open, mark)
    PROVE  \E d, o, m : Shape(d, o, m)'
<1>0. PICK c, new : c = Len(Dump!children(Dump!node)) /\ new = Len(out) + 1
  OBVIOUS
<1> DEFINE d == depth + 1
           o == [e \in 1..d |-> IF e = d THEN new ELSE open[e]]
           m == [e \in 1..(d + 1) |-> IF e = d + 1 THEN 0 ELSE IF e = d THEN c + 1 ELSE mark[e] + c]
<1>1. /\ c \in Nat /\ Len(todo) \in Nat \ {0}
      /\ indent' = indent + 2
      /\ Len(todo') = c + Len(todo)
      /\ \A i \in 1..c : todo'[i] = Dump!children(Dump!node)[i]
      /\ todo'[c + 1].node = "add(-2)"
      /\ \A i \in 2..Len(todo) : todo'[c + i] = todo[i]
  BY <1>0, VisitWrites
<1>2. /\ Stack(depth, open, mark) /\ Remaining(depth, open, mark)
      /\ Indentation(depth, open) /\ Written(depth, open, mark)
  BY DEF Shape
<1>3. /\ depth \in Nat \ {0} /\ d \in Nat /\ indent = 2 * depth
      /\ \A e \in 1..depth : mark[e] \in 1..Len(todo) /\ open[e] \in 1..Len(out)
      /\ \A e \in 1..(depth - 1) : mark[e] > mark[e + 1] /\ mark[e + 1] \in 1..Len(todo)
      /\ mark[1] = Len(todo) /\ mark[depth + 1] = 0
  <2>1. todo # <<>>
    BY DEF Dump!Visit
  <2>2. /\ depth \in Nat \ {0}
        /\ \A e \in 1..depth : mark[e] \in 1..Len(todo) /\ open[e] \in 1..Len(out)
        /\ \A e \in 1..(depth - 1) : mark[e] > mark[e + 1] /\ mark[e + 1] \in 1..Len(todo)
    BY <1>2, <2>1, SomeOpen
  <2>3. indent = 2 * depth /\ mark[1] = Len(todo) /\ mark[depth + 1] = 0
    BY <1>2 DEF Stack
  <2> QED
    BY <2>2, <2>3
<1>4. /\ mark[depth] > 1
      /\ Gone(open, mark, depth) + 1 \in 1..Len(kids(open[depth]))
      /\ Dump!node = kids(open[depth])[Gone(open, mark, depth) + 1]
  BY HeadOfTodo DEF Dump!Visit
<1>5. /\ Len(out) \in Nat /\ Len(out') = new /\ out' \in LinesOver(V)
      /\ out'[new] = [node |-> Dump!node, indent |-> indent]
      /\ \A i \in 1..Len(out) : out'[i] = out[i] /\ kids(i)' = kids(i)
      /\ kids(new)' = Dump!children(Dump!node)
  <2>1. [node |-> Dump!node, indent |-> indent] \in [node : V, indent : Nat]
    BY VisitWrites DEF DumpTypes
  <2>2. out' = Append(out, [node |-> Dump!node, indent |-> indent])
    BY VisitWrites
  <2>3. /\ Len(out) \in Nat /\ Len(out') = new /\ out' \in LinesOver(V)
        /\ out'[new] = [node |-> Dump!node, indent |-> indent]
        /\ \A i \in 1..Len(out) : out'[i] = out[i]
    BY <1>0, <2>1, <2>2, AppendLine DEF DumpTypes
  <2>4. QED
    BY <2>3 DEF kids
<1>6. \A e \in 1..depth : o[e] = open[e] /\ m[e] = mark[e] + c
  BY <1>3
<1>7. o[d] = new /\ m[d] = c + 1 /\ m[d + 1] = 0
  BY <1>3
<1>8. \A e \in 1..depth : mark[e] \in 2..Len(todo)
  <2> SUFFICES ASSUME NEW e \in 1..depth
               PROVE  mark[e] \in 2..Len(todo)
    OBVIOUS
  <2>1. CASE e = depth
    BY <1>3, <1>4, <2>1
  <2>2. CASE e # depth
    <3>1. e \in 1..(depth - 1)
      BY <1>3, <2>2
    <3>2. mark[e] > mark[e + 1] /\ mark[e + 1] \in 1..Len(todo) /\ mark[e] \in 1..Len(todo)
      BY <1>3, <3>1
    <3>3. QED
      BY <3>2
  <2>3. QED
    BY <2>1, <2>2
<1>9. Stack(d, o, m)'
  <2>1. o \in [1..d -> 1..Len(out')]
    BY <1>0, <1>3, <1>5
  <2>2. m \in [1..(d + 1) -> 0..Len(todo')]
    <3>1. \A e \in 1..(d + 1) : e \in 1..depth \/ e = d \/ e = d + 1
      BY <1>3
    <3>2. \A e \in 1..(d + 1) : m[e] \in 0..Len(todo')
      BY <1>1, <1>3, <1>6, <1>7, <3>1
    <3>3. m = [e \in 1..(d + 1) |-> m[e]]
      OBVIOUS
    <3> HIDE DEF m
    <3>4. QED
      BY <3>2, <3>3
  <2>3. m[1] = Len(todo')
    BY <1>1, <1>3
  <2>4. ASSUME NEW e \in 1..d
        PROVE  m[e] > m[e + 1] /\ todo'[m[e]].node = "add(-2)"
    <3>1. CASE e = d
      BY <1>1, <1>7, <3>1
    <3>2. CASE e # d
      <4>1. e \in 1..depth /\ mark[e] \in 2..Len(todo) /\ m[e] = c + mark[e]
        <5>1. e \in 1..depth
          BY <1>3, <3>2
        <5>2. mark[e] \in 2..Len(todo)
          BY <1>8, <5>1
        <5>3. m[e] = mark[e] + c
          BY <1>6, <5>1
        <5> HIDE DEF d, o, m
        <5>4. QED
          BY <1>1, <5>1, <5>2, <5>3
      <4>2. m[e] > m[e + 1]
        <5>1. CASE e = depth
          BY <1>1, <1>4, <1>7, <4>1, <5>1
        <5>2. CASE e # depth
          BY <1>1, <1>3, <1>6, <4>1, <5>2
        <5>3. QED
          BY <5>1, <5>2
      <4>3. todo'[m[e]] = todo[mark[e]]
        BY <1>1, <4>1
      <4>4. QED
        BY <1>2, <4>1, <4>2, <4>3 DEF Stack
    <3>3. QED
      BY <3>1, <3>2
  <2>5. indent' = 2 * d
    BY <1>1, <1>3
  <2>6. d \in Nat /\ m[d + 1] = 0
    BY <1>3, <1>7
  <2> HIDE DEF d, o, m
  <2>7. QED
    BY <2>1, <2>2, <2>3, <2>4, <2>5, <2>6 DEF Stack
\* What is still to come of the open lines further out.
<1>10. ASSUME NEW e \in 1..(depth - 1)
      PROVE  /\ e \in 1..depth /\ o[e] = open[e]
             /\ kids(o[e])' = kids(open[e])
             /\ Coming(m, e) = Coming(mark, e)
             /\ Gone(o, m, e)' = Gone(open, mark, e)
             /\ \A q \in 1..Coming(mark, e) : todo'[m[e + 1] + q] = todo[mark[e + 1] + q]
  <2>1. /\ e \in 1..depth /\ e + 1 \in 1..depth
        /\ o[e] = open[e] /\ m[e] = mark[e] + c /\ m[e + 1] = mark[e + 1] + c
        /\ mark[e] \in 1..Len(todo) /\ mark[e + 1] \in 1..Len(todo)
        /\ open[e] \in 1..Len(out)
    BY <1>3, <1>6
  <2> HIDE DEF o, m
  <2>2. Coming(m, e) = Coming(mark, e)
    BY <1>1, <2>1 DEF Coming
  <2>3. kids(o[e])' = kids(open[e])
    BY <1>5, <2>1
  <2>4. Gone(o, m, e)' = Gone(open, mark, e)
    BY <2>2, <2>3 DEF Gone, Coming
  <2>5. ASSUME NEW q \in 1..Coming(mark, e)
        PROVE  todo'[m[e + 1] + q] = todo[mark[e + 1] + q]
    <3>0. q \in Nat /\ q >= 1 /\ q <= mark[e] - mark[e + 1] - 1
      BY <2>1 DEF Coming
    <3>1. mark[e + 1] + q \in 2..Len(todo)
      <4>1. mark[e] \in 1..Len(todo) /\ mark[e + 1] \in 1..Len(todo) /\ Len(todo) \in Nat
        BY <1>1, <2>1
      <4>2. QED
        BY <3>0, <4>1
    <3>2. m[e + 1] + q = c + (mark[e + 1] + q)
      BY <1>1, <2>1, <3>0
    <3>3. QED
      BY <1>1, <3>1, <3>2
  <2>6. QED
    BY <2>1, <2>2, <2>3, <2>4, <2>5
\* One child of the innermost line less.
<1>11. /\ kids(o[depth])' = kids(open[depth])
       /\ Coming(m, depth) = Coming(mark, depth) - 1
       /\ Coming(mark, depth) = mark[depth] - 1
       /\ Gone(o, m, depth)' = Gone(open, mark, depth) + 1
       /\ \A q \in 1..Coming(m, depth) : todo'[m[depth + 1] + q] = todo[1 + q]
  <2>1. /\ o[depth] = open[depth] /\ m[depth] = mark[depth] + c /\ m[depth + 1] = c + 1
        /\ mark[depth] \in 1..Len(todo) /\ mark[depth + 1] = 0
        /\ open[depth] \in 1..Len(out)
    BY <1>3, <1>6, <1>7
  <2> HIDE DEF o, m
  <2>2. /\ Coming(m, depth) = Coming(mark, depth) - 1
        /\ Coming(mark, depth) = mark[depth] - 1
    BY <1>1, <2>1 DEF Coming
  <2>3. kids(o[depth])' = kids(open[depth])
    BY <1>5, <2>1
  <2>4. Gone(o, m, depth)' = Gone(open, mark, depth) + 1
    <3>1. Len(kids(open[depth])) \in Nat /\ Coming(mark, depth) \in Int
      BY <2>1, <2>2, KidsAreNodes
    <3>2. Coming(m, depth)' = Coming(m, depth)
      BY DEF Coming
    <3>3. QED
      BY <2>2, <2>3, <3>1, <3>2 DEF Gone
  <2>5. ASSUME NEW q \in 1..Coming(m, depth)
        PROVE  todo'[m[depth + 1] + q] = todo[1 + q]
    <3>1. 1 + q \in 2..Len(todo) /\ m[depth + 1] + q = c + (1 + q)
      BY <1>1, <2>1, <2>2
    <3>2. QED
      BY <1>1, <3>1
  <2>6. QED
    BY <2>2, <2>3, <2>4, <2>5
\* All children of the new line.
<1>12. /\ kids(o[d])' = Dump!children(Dump!node)
       /\ Coming(m, d) = c /\ Gone(o, m, d)' = 0
       /\ \A q \in 1..c : todo'[m[d + 1] + q] = Dump!children(Dump!node)[q]
  <2> HIDE DEF o, m, d
  <2>1. Coming(m, d) = c
    BY <1>1, <1>7 DEF Coming
  <2>2. kids(o[d])' = Dump!children(Dump!node)
    BY <1>5, <1>7
  <2>3. Gone(o, m, d)' = 0
    BY <1>0, <1>1, <2>1, <2>2 DEF Gone, Coming
  <2>4. QED
    BY <1>1, <1>7, <2>1, <2>2, <2>3
<1>13. \A e \in 1..d : e \in 1..(depth - 1) \/ e = depth \/ e = d
  BY <1>3
<1>14. Remaining(d, o, m)'
  <2>1. ASSUME NEW e \in 1..d
        PROVE  /\ Coming(m, e) <= Len(kids(o[e])')
               /\ \A q \in 1..Coming(m, e) :
                      todo'[m[e + 1] + q] = kids(o[e])'[Gone(o, m, e)' + q]
    <3> HIDE DEF o, m
    <3>1. CASE e \in 1..(depth - 1)
      BY <1>2, <1>10, <3>1 DEF Remaining
    <3>2. CASE e = depth
      <4>1. /\ Coming(mark, depth) <= Len(kids(open[depth]))
            /\ \A q \in 1..Coming(mark, depth) :
                   todo[mark[depth + 1] + q] = kids(open[depth])[Gone(open, mark, depth) + q]
        BY <1>2, <1>3 DEF Remaining
      <4>2. /\ Len(kids(open[depth])) \in Nat /\ mark[depth] \in Nat
            /\ Gone(open, mark, depth) \in Int
        BY <1>3, <1>11, KidsAreNodes DEF Gone
      <4>3. ASSUME NEW q \in 1..Coming(m, depth)
            PROVE  todo'[m[depth + 1] + q] = kids(open[depth])[(Gone(open, mark, depth) + 1) + q]
        <5>1. /\ 1 + q \in 1..Coming(mark, depth)
              /\ mark[depth + 1] + (1 + q) = 1 + q
              /\ Gone(open, mark, depth) + (1 + q) = (Gone(open, mark, depth) + 1) + q
          <6>1. /\ Coming(m, depth) = mark[depth] - 2 /\ Coming(mark, depth) = mark[depth] - 1
                /\ mark[depth + 1] = 0
            BY <1>3, <1>11, <4>2
          <6>2. q \in 1..(mark[depth] - 2)
            BY <6>1
          <6>3. QED
            BY <4>2, <6>1, <6>2
        <5>2. QED
          BY <1>11, <4>1, <5>1
      <4>4. Coming(m, depth) <= Len(kids(open[depth]))
        BY <1>11, <4>1, <4>2
      <4>5. QED
        BY <1>11, <3>2, <4>3, <4>4
    <3>3. CASE e = d
      <4>1. \A q \in 1..c : 0 + q = q
        OBVIOUS
      <4> HIDE DEF d
      <4>2. QED
        BY <1>0, <1>1, <1>12, <3>3, <4>1
    <3>4. QED
      BY <1>13, <3>1, <3>2, <3>3
  <2> HIDE DEF o, m, d
  <2>2. QED
    BY <2>1 DEF Remaining, Coming
<1>15. Indentation(d, o)'
  <2>1. ASSUME NEW e \in 1..d
        PROVE  /\ out'[o[e]].indent = 2 * (e - 1)
               /\ \A i \in 1..Len(out') : i > o[e] => out'[i].indent >= 2 * e
    <3>1. CASE e = d
      BY <1>0, <1>3, <1>5, <1>7, <3>1
    <3>2. CASE e # d
      <4>1. e \in 1..depth /\ o[e] = open[e] /\ open[e] \in 1..Len(out)
        BY <1>3, <1>6, <3>2
      <4>2. /\ out[open[e]].indent = 2 * (e - 1)
            /\ \A i \in 1..Len(out) : i > open[e] => out[i].indent >= 2 * e
        BY <1>2, <4>1 DEF Indentation
      <4>3. out'[new].indent >= 2 * e
        BY <1>3, <1>5, <4>1
      <4>4. \A i \in 1..Len(out') : i \in 1..Len(out) \/ i = new
        BY <1>0, <1>5
      <4> HIDE DEF o
      <4>5. QED
        BY <1>5, <4>1, <4>2, <4>3, <4>4
    <3>3. QED
      BY <3>1, <3>2
  <2> HIDE DEF o, d
  <2>2. QED
    BY <2>1 DEF Indentation
<1>16. Written(d, o, m)'
  <2>1. ASSUME NEW j \in 1..Len(out), NEW k, j # open[depth], Dump!Shows(out, j, k)
        PROVE  Dump!Shows(out', j, k)
    <3>1. ~Dump!Below(out', j, Len(out) + 1)
      BY <2>1, VisitBelow
    <3>2. out' = Append(out, [node |-> Dump!node, indent |-> indent])
      BY VisitWrites
    <3>3. [node |-> Dump!node, indent |-> indent] \in [node : V, indent : Nat] /\ out \in LinesOver(V)
      BY VisitWrites DEF DumpTypes
    <3>4. QED
      BY <2>1, <3>1, <3>2, <3>3, ShowsTheSame
  <2>2. Dump!Shows(out', open[depth], Gone(open, mark, depth) + 1)
    <3>1. Dump!Below(out', open[depth], Len(out) + 1)
      BY <1>3, VisitBelow
    <3>2. out' = Append(out, [node |-> Dump!node, indent |-> indent])
      BY VisitWrites
    <3>3. [node |-> Dump!node, indent |-> indent] \in [node : V, indent : Nat] /\ out \in LinesOver(V)
      BY VisitWrites DEF DumpTypes
    <3>4. Gone(open, mark, depth) \in Nat
      BY <1>3, <1>4, <1>11, KidsAreNodes DEF Gone
    <3>5. Dump!Shows(out, open[depth], Gone(open, mark, depth))
      BY <1>2, <1>3 DEF Written
    <3>6. Dump!node = Dump!children(out[open[depth]].node)[Gone(open, mark, depth) + 1]
      BY <1>4 DEF kids
    <3>7. open[depth] \in 1..Len(out)
      BY <1>3
    <3> DEFINE line == [node |-> Dump!node, indent |-> indent]
    <3>8. line.node = Dump!children(out[open[depth]].node)[Gone(open, mark, depth) + 1]
      BY <3>6
    <3> HIDE DEF line
    <3>9. Dump!Shows(Append(out, line), open[depth], Gone(open, mark, depth) + 1)
      BY <3>1, <3>2, <3>3, <3>4, <3>5, <3>7, <3>8, ShowsOneMore DEF line
    <3>10. QED
      BY <3>2, <3>9 DEF line
  <2>3. Dump!Shows(out', new, 0)
    BY <1>0, <1>5, ShowsNothing
  <2>4. ASSUME NEW e \in 1..d
        PROVE  Dump!Shows(out', o[e], Gone(o, m, e)')
    <3> HIDE DEF o, m
    <3>1. CASE e \in 1..(depth - 1)
      <4>1. /\ open[e] \in 1..Len(out) /\ o[e] = open[e]
            /\ Dump!Shows(out, open[e], Gone(open, mark, e))
            /\ Gone(o, m, e)' = Gone(open, mark, e)
        BY <1>2, <1>3, <1>10, <3>1 DEF Written
      <4>2. open[e] # open[depth]
        <5>1. out[open[e]].indent = 2 * (e - 1) /\ out[open[depth]].indent = 2 * (depth - 1)
          BY <1>2, <1>3, <1>10, <3>1 DEF Indentation
        <5>2. QED
          BY <1>3, <3>1, <5>1
      <4>3. QED
        BY <2>1, <4>1, <4>2
    <3>2. CASE e = depth
      BY <1>3, <1>6, <1>11, <2>2, <3>2
    <3>3. CASE e = d
      BY <1>7, <1>12, <2>3, <3>3
    <3>4. QED
      BY <1>13, <3>1, <3>2, <3>3
  <2>5. ASSUME NEW j \in 1..Len(out'), \A e \in 1..d : o[e] # j
        PROVE  Dump!Shows(out', j, Len(kids(j)'))
    <3>1. j \in 1..Len(out)
      <4>1. d \in 1..d
        BY <1>3
      <4>2. j # new
        BY <1>7, <2>5, <4>1
      <4>3. QED
        BY <1>0, <1>5, <4>2
    <3>2. \A e \in 1..depth : open[e] # j
      <4>1. \A e \in 1..depth : e \in 1..d
        BY <1>3
      <4>2. QED
        BY <1>6, <2>5, <4>1
    <3>3. Dump!Shows(out, j, Len(kids(j))) /\ j # open[depth]
      BY <1>2, <1>3, <3>1, <3>2 DEF Written
    <3>4. QED
      BY <1>5, <2>1, <3>1, <3>3
  <2> HIDE DEF o, m, d
  <2>6. QED
    BY <2>4, <2>5 DEF Written
<1> HIDE DEF d, o, m
<1>17. Shape(d, o, m)'
  BY <1>9, <1>14, <1>15, <1>16 DEF Shape
<1>18. QED
  BY <1>17

LEMMA NothingHappens ==
    ASSUME UNCHANGED <<ast, todo, indent, out>>, Started
    PROVE  Started'
<1>1. PICK depth, open, mark : Shape(depth, open, mark)
  BY DEF Started
<1>2. \A e : Gone(open, mark, e)' = Gone(open, mark, e) /\ kids(open[e])' = kids(open[e])
  BY DEF Gone, Coming, kids
<1>3. \A j : kids(j)' = kids(j)
  BY DEF kids
<1>4. Stack(depth, open, mark)'
  BY <1>1 DEF Shape, Stack
<1>5. Remaining(depth, open, mark)'
  BY <1>1, <1>2 DEF Shape, Remaining, Coming
<1>6. Indentation(depth, open)'
  BY <1>1 DEF Shape, Indentation
<1>7. Written(depth, open, mark)'
  BY <1>1, <1>2, <1>3 DEF Shape, Written
<1>8. Shape(depth, open, mark)'
  BY <1>4, <1>5, <1>6, <1>7 DEF Shape
<1>9. QED
  BY <1>8 DEF Started

LEMMA DumpInvInductive ==
    ASSUME NEW V, Closed(V), Asts \subseteq V
    PROVE  /\ Dump!Init => DumpInv(V)
           /\ DumpInv(V) /\ [Dump!Next]_Dump!vars => DumpInv(V)'
<1>1. ASSUME Dump!Init
      PROVE  DumpInv(V)
  <2>1. /\ ast \in V /\ todo = <<ast>> /\ indent = 0 /\ out = <<>> /\ result = "printing"
    BY <1>1 DEF Dump!Init
  <2>2. todo \in Seq(V \cup {marker}) /\ out \in LinesOver(V)
    BY <2>1, EmptySeq DEF LinesOver
  <2>3. QED
    BY <2>1, <2>2 DEF DumpInv, DumpTypes
<1>2. ASSUME DumpInv(V), Dump!Next
      PROVE  DumpInv(V)'
  <2>1. DumpTypes(V) /\ DumpTypes(V)'
    BY <1>2, StepTypes DEF DumpInv
  <2>2. CASE Dump!Visit
    <3>1. result' # "Ok"
      BY <2>2 DEF Dump!Visit
    <3>2. CASE out = <<>> /\ todo = <<ast>> /\ indent = 0
      BY <2>1, <2>2, <3>1, <3>2, FirstVisit DEF DumpInv
    <3>3. CASE Started
      <4>1. PICK depth, open, mark : Shape(depth, open, mark)
        BY <3>3 DEF Started
      <4>2. \E d, o, m : Shape(d, o, m)'
        BY <2>1, <2>2, <4>1, VisitKeepsShape
      <4>3. /\ [node |-> Dump!node, indent |-> indent] \in [node : V, indent : Nat]
            /\ out' = Append(out, [node |-> Dump!node, indent |-> indent]) /\ ast' = ast
            /\ out \in LinesOver(V)
        BY <2>1, <2>2, VisitWrites DEF DumpTypes
      <4>4. /\ Len(out) \in Nat \ {0} /\ Len(out') = Len(out) + 1
            /\ \A i \in 1..Len(out) : out'[i] = out[i]
        BY <3>3, <4>3, AppendLine, EmptySeq DEF Started, LinesOver
      <4>5. out' # <<>> /\ out'[1] = [node |-> ast', indent |-> 0]
        <5>1. out'[1] = out[1] /\ Len(out') # 0
          BY <4>4
        <5>2. Len(<<>>) = 0
          OBVIOUS
        <5>3. QED
          BY <3>3, <4>3, <5>1, <5>2 DEF Started
      <4>6. ASSUME NEW i \in 2..Len(out')
            PROVE  \E j \in 1..(i - 1) : Dump!Below(out', j, i)
        <5>1. CASE i \in 2..Len(out)
          <6>1. PICK j \in 1..(i - 1) : Dump!Below(out, j, i)
            BY <3>3, <5>1 DEF Started
          <6>2. i \in 1..Len(out) /\ j \in 1..Len(out)
            BY <4>4, <5>1
          <6>3. Dump!Below(out', j, i)
            BY <4>3, <6>1, <6>2, BelowAppend
          <6>4. QED
            BY <6>3
        <5>2. CASE i = Len(out) + 1
          <6>1. /\ Stack(depth, open, mark) /\ todo # <<>>
            BY <2>2, <4>1 DEF Shape, Dump!Visit
          <6>2. depth \in 1..depth
            BY <2>1, <6>1, SomeOpen
          <6>3. open[depth] \in 1..Len(out)
            BY <2>1, <6>1, <6>2, SomeOpen
          <6>4. Dump!Below(out', open[depth], Len(out) + 1)
            BY <2>1, <2>2, <4>1, <6>3, VisitBelow
          <6>5. open[depth] \in 1..(i - 1)
            BY <4>4, <5>2, <6>3
          <6>6. QED
            BY <5>2, <6>4, <6>5
        <5>3. QED
          BY <4>4, <5>1, <5>2
      <4>7. Started'
        BY <4>2, <4>5, <4>6 DEF Started
      <4>8. QED
        BY <2>1, <3>1, <4>7 DEF DumpInv
    <3>4. QED
      BY <1>2, <3>2, <3>3 DEF DumpInv
  <2>3. CASE Dump!Leave
    <3>1. /\ out' = out /\ ast' = ast /\ result = "printing"
          /\ result' = "Ok" => todo' = <<>>
      BY <2>3 DEF Dump!Leave
    <3>2. Started
      <4>1. CASE out = <<>> /\ todo = <<ast>> /\ indent = 0
        BY <2>3, <4>1 DEF Dump!Leave
      <4>2. QED
        BY <1>2, <4>1 DEF DumpInv
    <3>3. PICK depth, open, mark : Shape(depth, open, mark)
      BY <3>2 DEF Started
    <3>4. \E d, o, m : Shape(d, o, m)'
      BY <2>1, <2>3, <3>3, LeaveKeepsShape
    <3>5. Started'
      BY <3>1, <3>2, <3>4 DEF Started
    <3>6. QED
      BY <2>1, <3>1, <3>5 DEF DumpInv
  <2>4. CASE Dump!WriteFails
    <3>1. /\ UNCHANGED <<ast, todo, indent, out>> /\ result' # "Ok"
      BY <2>4 DEF Dump!WriteFails
    <3>2. Started => Started'
      BY <3>1, NothingHappens
    <3>3. QED
      BY <1>2, <2>1, <3>1, <3>2 DEF DumpInv
  <2>5. QED
    BY <1>2, <2>2, <2>3, <2>4 DEF Dump!Next
<1>3. ASSUME DumpInv(V), UNCHANGED Dump!vars
      PROVE  DumpInv(V)'
  <2>1. UNCHANGED <<ast, todo, indent, out, result>>
    BY <1>3 DEF Dump!vars
  <2>2. Started => Started'
    BY <2>1, NothingHappens
  <2>3. QED
    BY <1>3, <2>1, <2>2 DEF DumpInv, DumpTypes
<1>4. QED
  BY <1>1, <1>2, <1>3

(***************************************************************************)
(* Whatever tree is dumped: when the dump is complete, its lines are the   *)
(* nodes of the tree, each below its parent and after its elder siblings   *)
(* (structure.rs:107-119, visitor.rs:99-172).                              *)
(***************************************************************************)
THEOREM DumpShowsEveryNode ==
    ASSUME NEW N, Forest(N), Asts \subseteq N
    PROVE  Dump!Spec => [](Dump!DumpIsTheTree /\ Dump!NeverBelowZero)
<1> DEFINE V == N \cup Made(N)
<1>1. Closed(V) /\ Asts \subseteq V
  BY VisitedIsClosed
<1> HIDE DEF V
<1>2. DumpInv(V) => Dump!DumpIsTheTree /\ Dump!NeverBelowZero
  <2>1. SUFFICES ASSUME DumpInv(V)
                 PROVE  Dump!DumpIsTheTree /\ Dump!NeverBelowZero
    OBVIOUS
  <2>2. DumpTypes(V)
    BY <2>1 DEF DumpInv
  <2>3. ASSUME result = "Ok"
        PROVE  Dump!DumpIsTheTree
    <3>1. Started /\ todo = <<>>
      BY <2>1, <2>3 DEF DumpInv
    <3>2. PICK depth, open, mark : Shape(depth, open, mark)
      BY <3>1 DEF Started
    <3>3. depth = 0
      <4>1. depth \in Nat /\ mark[1] = 0 /\ \A e \in 1..depth : mark[e] > mark[e + 1]
            /\ mark \in [1..(depth + 1) -> {0}]
        BY <3>1, <3>2 DEF Shape, Stack
      <4>2. SUFFICES ASSUME depth > 0
                     PROVE  FALSE
        BY <4>1
      <4>3. mark[2] = 0 /\ mark[1] > mark[2]
        BY <4>1, <4>2
      <4>4. QED
        BY <4>1, <4>3
    <3>4. \A j \in 1..Len(out) : Dump!Shows(out, j, Len(kids(j)))
      BY <3>2, <3>3 DEF Shape, Written
    <3>5. DOMAIN out = 1..Len(out)
      BY <2>2, LenProperties DEF DumpTypes, LinesOver
    <3>6. QED
      BY <3>1, <3>4, <3>5 DEF Started, Dump!DumpIsTheTree, kids
  <2>4. ASSUME todo # <<>>, Dump!node.node = "add(-2)"
        PROVE  indent >= 2
    <3>1. Started
      <4>1. CASE out = <<>> /\ todo = <<ast>> /\ indent = 0
        <5>1. Dump!node = ast /\ ast \in V
          BY <2>2, <4>1 DEF Dump!node, DumpTypes
        <5>2. QED
          BY <1>1, <2>4, <5>1 DEF Closed
      <4>2. QED
        BY <2>1, <4>1 DEF DumpInv
    <3>2. PICK depth, open, mark : Shape(depth, open, mark)
      BY <3>1 DEF Started
    <3>3. depth \in Nat \ {0} /\ indent = 2 * depth
      BY <2>2, <2>4, <3>2, SomeOpen DEF Shape, Stack
    <3>4. QED
      BY <3>3
  <2>5. QED
    BY <2>3, <2>4 DEF Dump!DumpIsTheTree, Dump!NeverBelowZero
<1>3. /\ Dump!Init => DumpInv(V)
      /\ DumpInv(V) /\ [Dump!Next]_Dump!vars => DumpInv(V)'
  BY <1>1, DumpInvInductive
<1>4. QED
  BY <1>2, <1>3, PTL DEF Dump!Spec
=============================================================================
