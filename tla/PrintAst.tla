------------------------------- MODULE PrintAst -------------------------------
(***************************************************************************)
(* cmd_printast (compiler-cli/src/main.rs:206-240) with each of its two    *)
(* printers.  --print-ast is run on a program and then on its own output,  *)
(* as the idempotence tests do (compiler-cli/tests/integration.rs:188):    *)
(* PrettyPrinter prints the tree, Parser reads the text back, and the tree *)
(* it builds is printed again.  --debug-dumpast prints the tree with       *)
(* StructurePrinter.                                                       *)
(***************************************************************************)
EXTENDS PrettyPrinter, SequencesExt

VARIABLES
    phase,           \* "print", "parse", "print again", "done"; or "dump"
    result,          \* see module StructurePrinter
    first,           \* the output of the first run
    input, next, callers, at, operand_stack, operator_stack,
    ops, expr, op, status, error        \* see module ExprParser

P == INSTANCE Parser WITH Files <- {<<>>}
Dump == INSTANCE StructurePrinter

stacks == <<operand_stack, operator_stack>>
parser == <<input, next, callers, at, stacks, ops, expr, op, status, error>>
allVars == <<vars, phase, first, result, parser>>

-----------------------------------------------------------------------------
(***************************************************************************)
(* The lexer on the printed text, reduced to what the printer could get    *)
(* wrong: words that touch are one word, and `--` is an operator.          *)
(***************************************************************************)
Blanks == {" ", "\t", "\n"}
IsWord(w) == w \in ToSet(Names) \cup P!Literals \cup P!BasicTypes \cup P!Keywords \cup {"new"}

Touch(text, i) ==
    /\ {i, i + 1} \subseteq DOMAIN text
    /\ \/ IsWord(text[i]) /\ IsWord(text[i + 1])
       \/ text[i] = "-" /\ text[i + 1] = "-"

Lexed(text) ==
    LET kind(i) == CASE Touch(text, i)             -> IF IsWord(text[i]) THEN "identifier" ELSE "other"
                     [] text[i] \in ToSet(Names)   -> "identifier"
                     [] OTHER                      -> text[i]
        begins(i) == text[i] \notin Blanks /\ ~Touch(text, i - 1)
        at_start == SelectSeq([i \in DOMAIN text |-> i], begins)
    IN  [k \in DOMAIN at_start |-> kind(at_start[k])]

NamesIn(text) == SelectSeq(text, LAMBDA w : w \in ToSet(Names))

-----------------------------------------------------------------------------
(***************************************************************************)
(* A tree in the notation of Parser.                                       *)
(***************************************************************************)
RECURSIVE Polish(_)
Polish(n) ==
    LET all(parts) == FlattenSeq([i \in DOMAIN parts |-> Polish(parts[i])])
        option(parts) == IF parts = <<>> THEN <<"None">> ELSE <<"Some">> \o Polish(parts[1])
        array(depth) == [i \in 1..depth |-> "ArrayOf"]
    IN  CASE n.node = "AST"              -> IF n.program = <<>> THEN <<"Empty">>
                                            ELSE Polish(n.program[1])
          [] n.node = "Program"          -> <<"Program">> \o all(n.classes)
          [] n.node = "ClassDeclaration" -> <<n.node>> \o all(n.members) \o <<"}">>
          [] n.node = "Field"            -> Polish(n.type) \o <<"Field">>
          [] n.node = "Method"           -> Polish(n.type) \o <<"Method">> \o all(n.parameters)
                                            \o <<")">> \o Polish(n.block)
          [] n.node = "MainMethod"       -> <<"MainMethod">> \o Polish(n.block)
          [] n.node = "Parameter"        -> Polish(n.type) \o <<"Parameter">>
          [] n.node = "Type"             -> array(n.array_depth) \o <<"Type", n.basic>>
          [] n.node = "BlockStatement"   -> Polish(n.block)
          [] n.node = "ParameterList"    -> all(n.parameters)
          [] n.node = "BasicType"        -> <<n.basic>>
          [] n.node = "Block"            -> <<"Block">> \o all(n.statements) \o <<"}">>
          [] n.node = "If"               -> <<"If">> \o Polish(n.condition) \o Polish(n.then)
                                            \o option(n.els)
          [] n.node = "While"            -> <<"While">> \o Polish(n.condition) \o Polish(n.body)
          [] n.node = "Expression"       -> <<"Expression">> \o Polish(n.expr)
          [] n.node = "Return"           -> <<"Return">> \o option(n.value)
          [] n.node = "LocalVariableDeclaration" -> <<n.node>> \o Polish(n.type) \o option(n.value)
          [] n.node = "Atom"             -> <<n.token>>
          [] n.node = "Binary"           -> P!Binary(n.op, Polish(n.lhs), Polish(n.rhs))
          [] n.node = "Unary"            -> P!Unary(n.op, Polish(n.expr))
          [] n.node = "MethodInvocation" -> <<n.node>> \o Polish(n.target) \o all(n.arguments)
                                            \o <<")">>
          [] n.node = "ThisMethodInvocation" -> <<n.node>> \o all(n.arguments) \o <<")">>
          [] n.node = "FieldAccess"      -> P!FieldAccess(Polish(n.target))
          [] n.node = "ArrayAccess"      -> P!ArrayAccess(Polish(n.target), Polish(n.index))
          [] n.node = "NewArray"         -> array(n.brackets) \o P!NewArray(n.basic)
                                            \o Polish(n.size)
          [] OTHER                       -> <<n.node>>

\* The names of the classes and members, in the order of the tree.
DeclaredNames(n) ==
    LET of_class(c) == <<c.name>> \o [i \in DOMAIN c.members |-> c.members[i].name]
        of_program(p) == FlattenSeq([i \in DOMAIN p.classes |-> of_class(p.classes[i])])
    IN  FlattenSeq([i \in DOMAIN n.program |-> of_program(n.program[i])])

(***************************************************************************)
(* What the text is read back as: methods before fields and each by name,  *)
(* and no empty statement in a block or as an `else`.                      *)
(***************************************************************************)
EmptyStmt == [node |-> "EmptyStatement"]

ByName(list) == FlattenSeq([i \in DOMAIN Names |-> SelectSeq(list, LAMBDA x : x.name = Names[i])])

RECURSIVE Canonical(_)
Canonical(n) ==
    LET all(parts) == [i \in DOMAIN parts |-> Canonical(parts[i])]
        kept(parts) == SelectSeq(parts, LAMBDA s : s # EmptyStmt)
        isField(m) == m.node = "Field"
        isMethod(m) == m.node # "Field"
    IN  CASE n.node = "AST"     -> [n EXCEPT !.program = all(@)]
          [] n.node = "Program" -> [n EXCEPT !.classes = ByName(all(@))]
          [] n.node = "ClassDeclaration" ->
                [n EXCEPT !.members = LET m == all(@)
                                      IN  ByName(SelectSeq(m, isMethod))
                                          \o ByName(SelectSeq(m, isField))]
          [] n.node \in {"Method", "MainMethod"} -> [n EXCEPT !.block = Canonical(@)]
          [] n.node = "Block" -> [n EXCEPT !.statements = all(kept(@))]
          [] n.node = "If"    -> [n EXCEPT !.then = Canonical(@), !.els = all(kept(@))]
          [] n.node = "While" -> [n EXCEPT !.body = Canonical(@)]
          [] OTHER            -> n

(***************************************************************************)
(* Where an empty `else` was dropped, the next one further out is read as  *)
(* that of the innermost `if` without one.                                 *)
(***************************************************************************)
RECURSIVE Open(_)
Open(s) == \/ s.node = "If" /\ (s.els = <<>> \/ Open(s.els[1]))
           \/ s.node = "While" /\ Open(s.body)

RECURSIVE Attached(_, _)
Attached(s, els) ==
    CASE s.node = "While"  -> [s EXCEPT !.body = Attached(@, els)]
      [] s.els # <<>>      -> [s EXCEPT !.els = <<Attached(@[1], els)>>]
      [] Open(s.then)      -> [s EXCEPT !.then = Attached(@, els)]
      [] OTHER             -> [s EXCEPT !.els = els]

RECURSIVE Reattached(_)
Reattached(n) ==
    LET all(parts) == [i \in DOMAIN parts |-> Reattached(parts[i])]
    IN  CASE n.node = "AST"              -> [n EXCEPT !.program = all(@)]
          [] n.node = "Program"          -> [n EXCEPT !.classes = all(@)]
          [] n.node = "ClassDeclaration" -> [n EXCEPT !.members = all(@)]
          [] n.node \in {"Method", "MainMethod"} -> [n EXCEPT !.block = Reattached(@)]
          [] n.node = "Block"            -> [n EXCEPT !.statements = all(@)]
          [] n.node = "While"            -> [n EXCEPT !.body = Reattached(@)]
          [] n.node = "If"               ->
                LET then == Reattached(n.then)
                IN  IF n.els # <<>> /\ Open(then)
                    THEN [n EXCEPT !.then = Attached(then, all(n.els)), !.els = <<>>]
                    ELSE [n EXCEPT !.then = then, !.els = all(@)]
          [] OTHER                       -> n

ReadAs(t) == Reattached(Canonical(t))
LosesElse(t) == ReadAs(t) # Canonical(t)

(***************************************************************************)
(* The tree the parser has built, with the names of the text it has read.  *)
(***************************************************************************)
Known == {<<Polish(t), DeclaredNames(t), t>> : t \in {ReadAs(t) : t \in Asts}}
ReadTree == (CHOOSE k \in Known : k[1] = expr /\ k[2] = NamesIn(out))[3]

-----------------------------------------------------------------------------
RoundTripInit == /\ Init
                 /\ P!ParseInit
                 /\ phase \in {"print", "dump"}
                 /\ first = <<>>
                 /\ result = "printing"

PrintStep == /\ phase \in {"print", "print again"}
             /\ Next
             /\ UNCHANGED <<phase, first, result, parser>>

ReadBack == /\ phase = "print" /\ todo = <<>>
            /\ phase' = "parse"
            /\ input' = Lexed(out)
            /\ UNCHANGED <<vars, first, result, next, callers, at,
                           stacks, ops, expr, op, status, error>>

ParseStep == /\ phase = "parse"
             /\ P!ParseNext
             /\ UNCHANGED <<vars, phase, first, result>>

PrintAgain == /\ phase = "parse" /\ status = "accepted"
              /\ phase' = "print again"
              /\ first' = out
              /\ todo' = <<ReadTree>>
              /\ indent' = 0
              /\ indent_on_next_write' = FALSE
              /\ out' = <<>>
              /\ UNCHANGED <<ast, result, parser>>

Done == /\ phase = "print again" /\ todo = <<>>
        /\ phase' = "done"
        /\ UNCHANGED <<vars, first, result, parser>>

DumpStep == /\ phase = "dump"
            /\ Dump!Next
            /\ UNCHANGED <<indent_on_next_write, phase, first, parser>>

RoundTripNext == PrintStep \/ ReadBack \/ ParseStep \/ PrintAgain \/ Done \/ DumpStep

RoundTrip == RoundTripInit /\ [][RoundTripNext]_allVars

\* Two runs of a sequential program: each goes on while it can.
FairRoundTrip == RoundTrip /\ WF_allVars(RoundTripNext)
=============================================================================
