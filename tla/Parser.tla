------------------------------- MODULE Parser -------------------------------
(***************************************************************************)
(* The parser (compiler-lib/src/parser.rs:288-526): classes, their         *)
(* members, and statements, which contain each other and call the          *)
(* expression parser of module ExprParser.                                 *)
(*                                                                         *)
(* The call stack is that of ExprParser: a statement that waits for an     *)
(* expression, a type or another statement is suspended in callers like an *)
(* expression that waits for one; its operand and operator stacks are      *)
(* empty.  A handler that ends with a call goes on in place of the callee; *)
(* expr is what the running activation has built so far.                   *)
(***************************************************************************)
EXTENDS ExprParser

(***************************************************************************)
(* ast::AST in the notation of ExprParser: lists end with their closing    *)
(* token, an Option is "None" or "Some" and what it contains.  Names are   *)
(* left out.                                                               *)
(***************************************************************************)
Nodes == {"Empty", "Program", "ClassDeclaration", "MainMethod", "Method", "Field",
          "Parameter", "Type", "Block", "EmptyStatement", "If", "While", "Return",
          "LocalVariableDeclaration", "Expression", "Some", "None"}

\* The running activation returns e to its caller, which goes on with it.
Finish(e) == Return(caller.at, caller.expr \o e)

\* Nothing is consumed.
Stay == UNCHANGED <<next, outcome>>

ParseInit == /\ input \in Files
             /\ next = 0
             /\ callers = <<>>
             /\ at = "file"
             /\ operand_stack = <<>>
             /\ operator_stack = <<>>
             /\ ops = <<>>
             /\ expr = <<>>
             /\ op = "none"
             /\ status = "parsing"
             /\ error = 0

-----------------------------------------------------------------------------
(***************************************************************************)
(* parse and parse_program: classes up to the end of the file.             *)
(***************************************************************************)
AcceptFile(e) == /\ peek = EOF
                 /\ status' = "accepted"
                 /\ expr' = e
                 /\ UNCHANGED <<input, next, callers, at, stacks, ops, op, error>>

EmptyFile == Running("file") /\ AcceptFile(<<"Empty">>)

Program == /\ Running("file")
           /\ peek # EOF
           /\ Goto("program", <<"Program">>)
           /\ Stay

EndOfFile == Running("program") /\ AcceptFile(expr)

ClassTokens == <<{"class"}, Identifiers, {"{"}>>

ClassDeclaration == /\ Running("program")
                    /\ omnomnom(ClassTokens)
                    /\ Goto("class", Append(expr, "ClassDeclaration"))

NoClassDeclaration == /\ Running("program")
                      /\ peek # EOF
                      /\ Unexpected(ClassTokens)

(***************************************************************************)
(* parse_class_member, until its closing brace.                            *)
(***************************************************************************)
EndOfClass == /\ Running("class")
              /\ omnomnom(<<{"}"}>>)
              /\ Goto("program", Append(expr, "}"))

MainMethodTokens ==
    <<{"public"}, {"static"}, {"void"}, Identifiers, {"("},
      {"String"}, {"["}, {"]"}, Identifiers, {")"}>>

MainMethod == /\ Running("class")
              /\ omnomnom(MainMethodTokens)
              /\ Goto("method rest", Append(expr, "MainMethod"))

\* A field or a method: parse_type is called.
TypedMember == /\ Running("class")
               /\ omnomnom(<<{"public"}>>)
               /\ peek_nth(1) # "static"
               /\ Invoke("type", "member", expr)

NoClassMember ==
    /\ Running("class")
    /\ \/ Unexpected(<<{"public", "}"}>>)
       \/ peek = "public" /\ peek_nth(1) = "static" /\ Unexpected(MainMethodTokens)

(***************************************************************************)
(* A member behind its type: the token after the name decides.             *)
(***************************************************************************)
Field == /\ Running("member")
         /\ omnomnom(<<Identifiers, {";"}>>)
         /\ Goto("class", Append(expr, "Field"))

Method == /\ Running("member")
          /\ \/ /\ omnomnom(<<Identifiers, {"("}, {")"}>>)
                /\ Goto("method rest", expr \o <<"Method", ")">>)
             \/ /\ omnomnom(<<Identifiers, {"("}>>)
                /\ peek_nth(2) # ")"
                /\ Invoke("type", "parameter", Append(expr, "Method"))

NoMemberEnd == /\ Running("member")
               /\ Unexpected(<<Identifiers, {"(", ";"}>>)

NextParameter == /\ Running("parameter")
                 /\ omnomnom(<<Identifiers, {","}>>)
                 /\ Invoke("type", "parameter", Append(expr, "Parameter"))

LastParameter == /\ Running("parameter")
                 /\ omnomnom(<<Identifiers, {")"}>>)
                 /\ Goto("method rest", expr \o <<"Parameter", ")">>)

NoParameterEnd == /\ Running("parameter")
                  /\ Unexpected(<<Identifiers, {",", ")"}>>)

(***************************************************************************)
(* skip_method_rest, and the body, with which the member ends.             *)
(***************************************************************************)
RestTokens == <<{"throws"}, Identifiers, {"{"}>>

Body == /\ Running("method rest")
        /\ omnomnom(<<{"{"}>>) \/ omnomnom(RestTokens)
        /\ Invoke("block", "class", Append(expr, "Block"))

NoBody == /\ Running("method rest")
          /\ \/ Unexpected(<<{"throws", "{"}>>)
             \/ peek = "throws" /\ Unexpected(RestTokens)

-----------------------------------------------------------------------------
(***************************************************************************)
(* parse_type: a basic type and the `[ ]` behind it.                       *)
(***************************************************************************)
\* Mutant: the type is only looked at.
TastesLikeType == /\ Running("type")
                  /\ peek \in BasicTypes
                  /\ Goto("array type", <<"Type", peek>>)
                  /\ Stay

BasicType == /\ Running("type")
             /\ omnomnom(<<BasicTypes>>)
             /\ Goto("array type", <<"Type", peek>>)

NoBasicType == Running("type") /\ Unexpected(<<BasicTypes>>)

ArrayType == /\ Running("array type")
             /\ omnomnom(<<{"["}, {"]"}>>)
             /\ Goto("array type", <<"ArrayOf">> \o expr)

NoArrayType == /\ Running("array type")
               /\ peek = "["
               /\ Unexpected(<<{"["}, {"]"}>>)

EndOfType == /\ Running("array type")
             /\ peek # "["
             /\ Finish(expr)
             /\ Stay

(***************************************************************************)
(* parse_block.  Its statements are parsed with allow_local_var_decl.      *)
(***************************************************************************)
EndOfBlock == /\ Running("block")
              /\ omnomnom(<<{"}"}>>)
              /\ Finish(Append(expr, "}"))

\* Mutant: the loop does not notice that the file has ended.
NextStatementAhead == /\ Running("block")
                      /\ peek \notin {"}", EOF}
                      /\ Stay
                      /\ Invoke("block statement", "block", expr)

NextStatement == /\ Running("block")
                 /\ peek # "}"
                 /\ Stay
                 /\ Invoke("block statement", "block", expr)

(***************************************************************************)
(* parse_statement_or_local_var.  A statement nested in an `if` or `while` *)
(* goes on with what its parent has built.                                 *)
(***************************************************************************)
allow_local_var_decl == at = "block statement"

AtStatement == Running("block statement") \/ Running("statement")

Block == /\ AtStatement
         /\ omnomnom(<<{"{"}>>)
         /\ Goto("block", Append(expr, "Block"))

EmptyStatement == /\ AtStatement
                  /\ omnomnom(<<{";"}>>)
                  /\ Finish(Append(expr, "EmptyStatement"))

If == /\ AtStatement
      /\ omnomnom(<<{"if"}, {"("}>>)
      /\ Call("if arm", Append(expr, "If"))

\* Behind the condition.
IfArm == /\ Running("if arm")
         /\ omnomnom(<<{")"}>>)
         /\ Invoke("statement", "else arm", expr)

\* Mutant: an `else` is left for an `if` further out.
ElseToTheOutermost ==
    /\ Running("else arm")
    /\ peek = "else"
    /\ IF caller.at = "else arm"
       THEN Finish(Append(expr, "None")) /\ Stay
       ELSE omnomnom(<<{"else"}>>) /\ Goto("statement", Append(expr, "Some"))

ElseArm == /\ Running("else arm")
           /\ omnomnom(<<{"else"}>>)
           /\ Goto("statement", Append(expr, "Some"))

NoElseArm == /\ Running("else arm")
             /\ peek # "else"
             /\ Finish(Append(expr, "None"))
             /\ Stay

While == /\ AtStatement
         /\ omnomnom(<<{"while"}, {"("}>>)
         /\ Call("while body", Append(expr, "While"))

WhileBody == /\ Running("while body")
             /\ omnomnom(<<{")"}>>)
             /\ Goto("statement", expr)

ReturnNothing == /\ AtStatement
                 /\ omnomnom(<<{"return"}, {";"}>>)
                 /\ Finish(expr \o <<"Return", "None">>)

ReturnValue == /\ AtStatement
               /\ omnomnom(<<{"return"}>>)
               /\ peek_nth(1) # ";"
               /\ Call("semicolon", expr \o <<"Return", "Some">>)

(***************************************************************************)
(* The decision between a declaration and an expression.  It looks at two  *)
(* or three tokens and fails if the file ends there.                       *)
(***************************************************************************)
TypeAhead == allow_local_var_decl /\ peek \in BasicTypes

\* Mutant: a `[` after an identifier makes it a type.
AnyBracketDeclares == TypeAhead /\ peek_nth(1) \in Identifiers \cup {"["}

DeclarationAhead ==
    /\ TypeAhead
    /\ \/ peek_nth(1) \in Identifiers
       \/ peek_nth(1) = "[" /\ peek_nth(2) = "]"

DecisionAtEnd == /\ TypeAhead
                 /\ \/ peek_nth(1) = EOF
                    \/ peek_nth(1) = "[" /\ peek_nth(2) = EOF

StatementTokens == {"{", ";", "if", "while", "return"}

UndecidedStatement == /\ AtStatement
                      /\ DecisionAtEnd
                      /\ Reject(Len(input) + 1)

LocalVariableDeclaration ==
    /\ AtStatement
    /\ DeclarationAhead
    /\ Stay
    /\ Invoke("type", "variable", Append(expr, "LocalVariableDeclaration"))

\* Behind the type.
Variable == /\ Running("variable")
            /\ \/ /\ omnomnom(<<Identifiers, {";"}>>)
                  /\ Finish(Append(expr, "None"))
               \/ /\ omnomnom(<<Identifiers, {"="}>>)
                  /\ Call("semicolon", Append(expr, "Some"))

ExpressionStatement == /\ AtStatement
                       /\ peek \notin StatementTokens
                       /\ ~DeclarationAhead /\ ~DecisionAtEnd
                       /\ Stay
                       /\ Call("semicolon", Append(expr, "Expression"))

Semicolon == /\ Running("semicolon")
             /\ omnomnom(<<{";"}>>)
             /\ Finish(expr)

\* The omnomnoms of the statements that fail.
NoStatement ==
    \/ AtStatement /\ \E keyword \in {"if", "while"} :
                          peek = keyword /\ Unexpected(<<{keyword}, {"("}>>)
    \/ (Running("if arm") \/ Running("while body")) /\ Unexpected(<<{")"}>>)
    \/ Running("variable") /\ Unexpected(<<Identifiers, {"=", ";"}>>)
    \/ Running("semicolon") /\ Unexpected(<<{";"}>>)

(***************************************************************************)
(* parse_expression returns to the statement that has called it.           *)
(***************************************************************************)
ExpressionReturns == /\ Running("return") /\ callers # <<>>
                     /\ caller.at \notin Waiting
                     /\ Finish(expr)
                     /\ Stay

-----------------------------------------------------------------------------
Classes == \/ EmptyFile \/ Program \/ EndOfFile
           \/ ClassDeclaration \/ NoClassDeclaration \/ EndOfClass

Members == \/ MainMethod \/ TypedMember \/ NoClassMember \/ Field \/ Method \/ NoMemberEnd
           \/ NextParameter \/ LastParameter \/ NoParameterEnd \/ Body \/ NoBody

Types == BasicType \/ NoBasicType \/ ArrayType \/ NoArrayType \/ EndOfType

Statements == \/ EndOfBlock \/ NextStatement \/ Block \/ EmptyStatement
              \/ If \/ IfArm \/ ElseArm \/ NoElseArm \/ While \/ WhileBody
              \/ ReturnNothing \/ ReturnValue
              \/ UndecidedStatement \/ LocalVariableDeclaration \/ Variable
              \/ ExpressionStatement \/ Semicolon \/ NoStatement \/ ExpressionReturns

ParseNext == Next \/ Classes \/ Members \/ Types \/ Statements

ParseSpec == ParseInit /\ [][ParseNext]_vars

ParseFairSpec == ParseSpec /\ WF_vars(ParseNext)
-----------------------------------------------------------------------------
(***************************************************************************)
(* What the locals of all functions of the parser range over.  At the top  *)
(* are files, classes and members, whose handlers go on with each other    *)
(* and never return; everything else is called and returns.                *)
(***************************************************************************)
Top == {"file", "program", "class", "member", "parameter", "method rest"}

ParserFunctions ==
    [symbols |-> Kind \cup Constructors \cup Nodes,
     places  |-> Places \cup Top \cup
                     {"type", "array type", "variable", "block", "block statement", "statement",
                      "if arm", "else arm", "while body", "semicolon"},
     waits   |-> Waiting \cup
                     {"member", "parameter", "class", "variable", "block",
                      "if arm", "else arm", "while body", "semicolon"}]

ProgramTypeOK == Typed(ParserFunctions)

-----------------------------------------------------------------------------
(***************************************************************************)
(* Whatever is returned, from a type to a block, is made of at least one   *)
(* token: `spanned!` takes the span of the token consumed last for its end *)
(* ("The `$code` should have consumed at least one token",                 *)
(* parser.rs:177-183), and the loops of parse_block and                    *)
(* parse_class_declaration make progress.                                  *)
(***************************************************************************)
ReturnsConsume == [][Len(callers') < Len(callers) => caller.start < next']_vars
=============================================================================
