----------------------------- MODULE ExprParser -----------------------------
(***************************************************************************)
(* The expression parser (compiler-lib/src/parser.rs:528-743): recursive   *)
(* descent for unary, postfix and primary expressions, and a shunting yard *)
(* with two explicit stacks for binary ones.                               *)
(*                                                                         *)
(* parse_binary_expression calls itself through parentheses, indices,      *)
(* array sizes and arguments.  The locals of the activation that runs are  *)
(* the variables at .. op below, those of the suspended ones are kept in   *)
(* callers.  The tokens come from the cursor of module TokenCursor: token  *)
(* number next + 1 is peek(), the one after it peek_nth(1).  Here the      *)
(* parser is entered by the statement "return Expression ;"                *)
(* (parser.rs:486-495); module Parser adds all other statements, which     *)
(* call parse_expression in the same way.                                  *)
(***************************************************************************)
EXTENDS Integers, Sequences

UnaryOps == {"!", "-"}
BinaryOps == {"*", "/", "%", "+", "-", "<", "<=", ">", ">=", "==", "!=", "&&", "||", "="}
Literals == {"null", "true", "false", "this", "integer"}
Identifiers == {"identifier", "String"}
BasicTypes == {"int", "boolean", "void"} \cup Identifiers
Keywords == {"class", "public", "static", "throws", "if", "else", "while", "return"}

\* TokenKind; "String" is the one identifier that is told from the others,
\* "other" stands for the keywords and operators that the parser never accepts.
Kind == UnaryOps \cup BinaryOps \cup Literals \cup BasicTypes
        \cup Keywords \cup {"new", "(", ")", "[", "]", "{", "}", ".", ",", ";", "other"}

EOF == "end of file"

CONSTANT Files       \* the sequences of tokens that are parsed

ASSUME FilesAssumption == Files \subseteq Seq(Kind)

VARIABLES
    input,           \* the tokens to parse; chosen once
    next,            \* how many of them are consumed
    callers,         \* the suspended activations of parse_binary_expression
    at,              \* where the running activation is
    operand_stack,
    operator_stack,
    ops,             \* parse_unary_expression: operators not yet applied
    expr,            \* parse_postfix_expression: the expression so far
    op,              \* the binary operator consumed last, until it is pushed
    status,          \* "parsing", "accepted", "error" or "panicked"
    error            \* number of the unexpected token; Len(input) + 1 is the
                     \* end of the file, 0 no error

stacks == <<operand_stack, operator_stack>>
outcome == <<status, error>>
vars == <<input, next, callers, at, stacks, ops, expr, op, outcome>>

(***************************************************************************)
(* BINARY_OPERATORS: a smaller number binds tighter.                       *)
(***************************************************************************)
precedence(o) == CASE o \in {"*", "/", "%"} -> 1
                   [] o \in {"+", "-"} -> 2
                   [] o \in {"<", "<=", ">", ">="} -> 3
                   [] o \in {"==", "!="} -> 4
                   [] o = "&&" -> 5
                   [] o = "||" -> 6
                   [] o = "=" -> 10

\* Mutant: assignments group to the left.
AllLeft(o) == "Left"

assoc(o) == IF o = "=" THEN "Right" ELSE "Left"

(***************************************************************************)
(* ast::Expr, written in Polish notation: a node is its constructor        *)
(* followed by its parts, an argument list ends with ")".                  *)
(***************************************************************************)
Constructors == {"Unary", "Binary", "MethodInvocation", "ThisMethodInvocation",
                 "FieldAccess", "ArrayAccess", "NewObject", "NewArray", "ArrayOf"}

Unary(o, e) == <<"Unary", o>> \o e
Binary(o, lhs, rhs) == <<"Binary", o>> \o lhs \o rhs
ArrayAccess(e, index) == <<"ArrayAccess">> \o e \o index
FieldAccess(e) == <<"FieldAccess">> \o e
NewArray(type) == <<"NewArray", type>>

-----------------------------------------------------------------------------
(***************************************************************************)
(* Looking at and consuming tokens.                                        *)
(***************************************************************************)
token(k) == IF k \in 1..Len(input) THEN input[k] ELSE EOF
peek_nth(n) == token(next + 1 + n)
peek == peek_nth(0)

Running(where) == status = "parsing" /\ at = where

\* omnomnom one token of each set of wanted in turn.
omnomnom(wanted) ==
    /\ \A i \in DOMAIN wanted : token(next + i) \in wanted[i]
    /\ next' = next + Len(wanted)
    /\ UNCHANGED outcome

(***************************************************************************)
(* The token with number k is consumed and cannot be used, or is missing.  *)
(* The parse is over: next is not moved over what an omnomnom has consumed *)
(* in front of a missing token.                                            *)
(***************************************************************************)
Reject(k) ==
    /\ status' = "error"
    /\ error' = k
    /\ next' = IF k <= Len(input) THEN k ELSE next
    /\ UNCHANGED <<input, callers, at, stacks, ops, expr, op>>

\* omnomnom stops at the first token that is not wanted.
Unexpected(wanted) ==
    \E i \in DOMAIN wanted :
        /\ \A j \in 1..(i - 1) : token(next + j) \in wanted[j]
        /\ token(next + i) \notin wanted[i]
        /\ Reject(next + i)

Panic == /\ status' = "panicked"
         /\ UNCHANGED <<input, next, callers, at, stacks, ops, expr, op, error>>

(***************************************************************************)
(* Calling a function and coming back.  saved is the tree the caller goes  *)
(* on with, start the number of tokens before those of the callee.         *)
(***************************************************************************)
Invoke(to, from, saved) ==
    /\ callers' = Append(callers, [at |-> from, start |-> next',
                                   operand_stack |-> operand_stack,
                                   operator_stack |-> operator_stack,
                                   ops |-> ops, expr |-> saved])
    /\ at' = to
    /\ operand_stack' = <<>>
    /\ operator_stack' = <<>>
    /\ ops' = <<>>
    /\ expr' = <<>>
    /\ UNCHANGED <<input, op>>

\* Calling parse_expression.
Call(from, saved) == Invoke("unary", from, saved)

caller == callers[Len(callers)]

Return(to, value) ==
    /\ callers' = SubSeq(callers, 1, Len(callers) - 1)
    /\ at' = to
    /\ operand_stack' = caller.operand_stack
    /\ operator_stack' = caller.operator_stack
    /\ ops' = caller.ops
    /\ expr' = value
    /\ UNCHANGED <<input, op>>

\* The running activation goes on at `to` with the expression e.
Goto(to, e) ==
    /\ at' = to
    /\ expr' = e
    /\ UNCHANGED <<input, callers, stacks, ops, op>>

-----------------------------------------------------------------------------
Init == /\ input \in Files
        /\ next = 0
        /\ callers = <<>>
        /\ at = "unary"
        /\ operand_stack = <<>>
        /\ operator_stack = <<>>
        /\ ops = <<>>
        /\ expr = <<>>
        /\ op = "none"
        /\ status = "parsing"
        /\ error = 0

(***************************************************************************)
(* parse_unary_expression: collect the operators, then descend.            *)
(***************************************************************************)
UnaryOp == /\ Running("unary")
           /\ omnomnom(<<UnaryOps>>)
           /\ ops' = Append(ops, peek)
           /\ UNCHANGED <<input, callers, at, stacks, expr, op>>

(***************************************************************************)
(* parse_primary_expression.                                               *)
(***************************************************************************)
\* Mutant: a literal is only looked at.
TastesLikeLiteral == /\ Running("unary")
                     /\ peek \in Literals
                     /\ Goto("postfix", <<peek>>)
                     /\ UNCHANGED <<next, outcome>>

Literal == /\ Running("unary")
           /\ omnomnom(<<Literals>>)
           /\ Goto("postfix", <<peek>>)

Var == /\ Running("unary")
       /\ omnomnom(<<Identifiers>>)
       /\ peek_nth(1) # "("
       /\ Goto("postfix", <<peek>>)

Parenthesis == /\ Running("unary")
               /\ omnomnom(<<{"("}>>)
               /\ Call("parenthesis", <<>>)

New == /\ Running("unary")
       /\ omnomnom(<<{"new"}>>)
       /\ Goto("new", <<>>)

NoPrimary == /\ Running("unary")
             /\ peek \notin UnaryOps
             /\ Unexpected(<<Literals \cup Identifiers \cup {"(", "new"}>>)

(***************************************************************************)
(* After `new`: the token after the type decides between an object and an  *)
(* array.  nth_tastes_like fails when only the type is left.               *)
(***************************************************************************)
IsNewObject == peek_nth(1) = "("

NewTypeAtEnd == /\ Running("new")
                /\ peek # EOF
                /\ peek_nth(1) = EOF
                /\ Reject(Len(input) + 1)

NewObjectTokens == <<Identifiers, {"("}, {")"}>>
NewArrayTokens == <<BasicTypes, {"["}>>

NewObject == /\ Running("new")
             /\ IsNewObject
             /\ omnomnom(NewObjectTokens)
             /\ Goto("postfix", <<"NewObject">>)

NewArrayOf == /\ Running("new")
              /\ ~IsNewObject
              /\ omnomnom(NewArrayTokens)
              /\ Call("size", NewArray(peek))

NewUnexpected ==
    /\ Running("new")
    /\ \/ IsNewObject /\ Unexpected(NewObjectTokens)
       \/ /\ ~IsNewObject /\ (peek = EOF \/ peek_nth(1) # EOF)
          /\ Unexpected(NewArrayTokens)

\* The loop over the `[ ]` that follow the size: a `[` with an expression
\* after it belongs to the postfix expression.
NewArrayDimension == /\ Running("dimensions")
                     /\ omnomnom(<<{"["}, {"]"}>>)
                     /\ Goto("dimensions", <<"ArrayOf">> \o expr)

NewArrayDone == /\ Running("dimensions")
                /\ ~(peek = "[" /\ peek_nth(1) \in {"]", EOF})
                /\ Goto("postfix", expr)
                /\ UNCHANGED <<next, outcome>>

NewArrayAtEnd == /\ Running("dimensions")
                 /\ peek = "[" /\ peek_nth(1) = EOF
                 /\ Reject(next + 2)

\* Mutant: the closing parenthesis is only looked for after an argument.
ArgumentsNotEmpty(callee, upTo) == omnomnom(upTo) /\ Call("arguments", callee)

(***************************************************************************)
(* parse_parnethesized_list, entered by the call of a method of `this`     *)
(* from the primary and of any other from the postfix expression.          *)
(***************************************************************************)
Arguments(callee, upTo) ==
    \/ /\ omnomnom(Append(upTo, {")"}))
       /\ Goto("postfix", Append(callee, ")"))
    \/ /\ omnomnom(upTo)
       /\ peek_nth(Len(upTo)) # ")"
       /\ Call("arguments", callee)

ThisMethodInvocation ==
    /\ Running("unary")
    /\ Arguments(<<"ThisMethodInvocation">>, <<Identifiers, {"("}>>)

(***************************************************************************)
(* parse_postfix_expression.                                               *)
(***************************************************************************)
MethodInvocation ==
    /\ Running("postfix")
    /\ Arguments(<<"MethodInvocation">> \o expr, <<{"."}, Identifiers, {"("}>>)

MemberReference ==
    /\ Running("postfix")
    /\ omnomnom(<<{"."}, Identifiers>>)
    /\ peek_nth(2) # "("
    /\ Goto("postfix", FieldAccess(expr))

NoMember == /\ Running("postfix")
            /\ peek = "."
            /\ Unexpected(<<{"."}, Identifiers>>)

Index == /\ Running("postfix")
         /\ omnomnom(<<{"["}>>)
         /\ Call("index", expr)

\* Mutant: the loop has no break.
LoopsOnPostfix == /\ Running("postfix")
                  /\ peek \notin {".", "["}
                  /\ UNCHANGED vars

EndOfPostfix == /\ Running("postfix")
                /\ peek \notin {".", "["}
                /\ Goto("apply", expr)
                /\ UNCHANGED <<next, outcome>>

(***************************************************************************)
(* Back in parse_unary_expression: `for op in ops` wraps the expression in *)
(* the operators, the one that was read first first.                       *)
(***************************************************************************)
ApplyUnary == /\ Running("apply")
              /\ ops # <<>>
              /\ expr' = Unary(Head(ops), expr)
              /\ ops' = Tail(ops)
              /\ UNCHANGED <<input, next, callers, at, stacks, op, outcome>>

PushOperand == /\ Running("apply")
               /\ ops = <<>>
               /\ operand_stack' = Append(operand_stack, expr)
               /\ expr' = <<>>
               /\ at' = "binary"
               /\ UNCHANGED <<input, next, callers, operator_stack, ops, op, outcome>>

(***************************************************************************)
(* parse_binary_expression.  rpn_eval replaces the two topmost operands by *)
(* their combination.                                                      *)
(***************************************************************************)
\* Mutant: the combination is not pushed.
EvalDropsResult(o) ==
    LET n == Len(operand_stack)
    IN  IF n < 2
        THEN Panic
        ELSE /\ operand_stack' = SubSeq(operand_stack, 1, n - 2)
             /\ operator_stack' = SubSeq(operator_stack, 1, Len(operator_stack) - 1)
             /\ UNCHANGED <<input, next, callers, at, ops, expr, op, outcome>>

rpn_eval(o) ==
    LET n == Len(operand_stack)
    IN  IF n < 2
        THEN Panic
        ELSE /\ operand_stack' = Append(SubSeq(operand_stack, 1, n - 2),
                                        Binary(o, operand_stack[n - 1], operand_stack[n]))
             /\ operator_stack' = SubSeq(operator_stack, 1, Len(operator_stack) - 1)
             /\ UNCHANGED <<input, next, callers, at, ops, expr, op, outcome>>

top_op == operator_stack[Len(operator_stack)]

\* Mutant: operators of the same precedence are deferred.
TighterBindsBefore(o) == precedence(top_op) < precedence(o)

\* The operator on top of the stack goes before o.
BindsBefore(o) ==
    \/ precedence(top_op) < precedence(o)
    \/ assoc(top_op) = "Left" /\ precedence(top_op) = precedence(o)

TakeOperator == /\ Running("binary")
                /\ omnomnom(<<BinaryOps>>)
                /\ op' = peek
                /\ at' = "reduce"
                /\ UNCHANGED <<input, callers, stacks, ops, expr>>

Reduce == /\ Running("reduce")
          /\ operator_stack # <<>>
          /\ BindsBefore(op)
          /\ rpn_eval(top_op)

PushOperator == /\ Running("reduce")
                /\ operator_stack # <<>> => ~BindsBefore(op)
                /\ operator_stack' = Append(operator_stack, op)
                /\ op' = "none"
                /\ at' = "unary"
                /\ UNCHANGED <<input, next, callers, operand_stack, ops, expr, outcome>>

ConsumeRemaining == /\ Running("binary")
                    /\ peek \notin BinaryOps
                    /\ operator_stack # <<>>
                    /\ rpn_eval(top_op)

EndOfBinary ==
    /\ Running("binary")
    /\ peek \notin BinaryOps
    /\ operator_stack = <<>>
    /\ IF Len(operand_stack) # 1
       THEN Panic
       ELSE /\ Goto("return", operand_stack[1])
            /\ UNCHANGED <<next, outcome>>

(***************************************************************************)
(* parse_binary_expression has returned expr; what its caller does next.   *)
(***************************************************************************)
ReturnsTo(to) == Running("return") /\ callers # <<>> /\ caller.at = to

ParenthesisReturns == /\ ReturnsTo("parenthesis")
                      /\ omnomnom(<<{")"}>>)
                      /\ Return("postfix", expr)

IndexReturns == /\ ReturnsTo("index")
                /\ omnomnom(<<{"]"}>>)
                /\ Return("postfix", ArrayAccess(caller.expr, expr))

SizeReturns == /\ ReturnsTo("size")
               /\ omnomnom(<<{"]"}>>)
               /\ Return("dimensions", caller.expr \o expr)

\* After the last argument; another one is parsed by the same activation of
\* parse_parnethesized_list, hence for the same caller.
ArgumentsReturn == /\ ReturnsTo("arguments")
                   /\ omnomnom(<<{")"}>>)
                   /\ Return("postfix", Append(caller.expr \o expr, ")"))

NextArgument ==
    /\ ReturnsTo("arguments")
    /\ omnomnom(<<{","}>>)
    /\ callers' = [callers EXCEPT ![Len(callers)] =
                      [caller EXCEPT !.start = next', !.expr = caller.expr \o expr]]
    /\ at' = "unary"
    /\ operand_stack' = <<>>
    /\ expr' = <<>>
    /\ UNCHANGED <<input, operator_stack, ops, op>>

Accept == /\ Running("return") /\ callers = <<>>
          /\ peek = ";"
          /\ next' = next + 1
          /\ status' = "accepted"
          /\ UNCHANGED <<input, callers, at, stacks, ops, expr, op, error>>

\* What an activation of this module can be suspended at.
Waiting == {"parenthesis", "index", "size", "arguments"}

\* Statements that wait for an expression look for its end by themselves.
NoEndOfExpression ==
    /\ Running("return")
    /\ callers # <<>> => caller.at \in Waiting
    /\ Unexpected(IF callers = <<>> THEN <<{";"}>>
                  ELSE CASE caller.at = "parenthesis" -> <<{")"}>>
                         [] caller.at = "arguments" -> <<{",", ")"}>>
                         [] caller.at \in {"index", "size"} -> <<{"]"}>>)

-----------------------------------------------------------------------------
Primary == \/ Literal \/ Var \/ ThisMethodInvocation \/ Parenthesis \/ NoPrimary
           \/ New \/ NewObject \/ NewArrayOf \/ NewTypeAtEnd \/ NewUnexpected
           \/ NewArrayDimension \/ NewArrayDone \/ NewArrayAtEnd

Postfix == \/ MethodInvocation \/ MemberReference \/ NoMember \/ Index \/ EndOfPostfix

BinaryExpression == \/ PushOperand \/ TakeOperator \/ Reduce \/ PushOperator
                    \/ ConsumeRemaining \/ EndOfBinary

Returns == \/ ParenthesisReturns \/ IndexReturns \/ SizeReturns \/ ArgumentsReturn
           \/ NextArgument \/ Accept \/ NoEndOfExpression

Next == \/ UnaryOp \/ ApplyUnary
        \/ Primary
        \/ Postfix
        \/ BinaryExpression
        \/ Returns

Spec == Init /\ [][Next]_vars

\* The parser is a function that runs to its end.
FairSpec == Spec /\ WF_vars(Next)
-----------------------------------------------------------------------------
Places == {"unary", "new", "dimensions", "postfix", "apply", "binary", "reduce", "return"}

(***************************************************************************)
(* What the locals range over, for a set of functions: they build trees    *)
(* over symbols, are at places and wait for each other at waits.           *)
(***************************************************************************)
ExpressionFunctions == [symbols |-> Kind \cup Constructors, places |-> Places, waits |-> Waiting]

Trees(functions) == Seq(functions.symbols)

Activation(functions) ==
    [at : functions.waits, start : Nat,
     operand_stack : Seq(Trees(functions)), operator_stack : Seq(BinaryOps),
     ops : Seq(UnaryOps), expr : Trees(functions)]

Typed(functions) ==
    /\ input \in Seq(Kind)
    /\ next \in 0..Len(input)
    /\ callers \in Seq(Activation(functions))
    /\ at \in functions.places
    /\ operand_stack \in Seq(Trees(functions))
    /\ operator_stack \in Seq(BinaryOps)
    /\ ops \in Seq(UnaryOps)
    /\ expr \in Trees(functions)
    /\ op \in BinaryOps \cup {"none"}
    /\ status \in {"parsing", "accepted", "error", "panicked"}
    /\ error \in 0..(Len(input) + 1)

TypeOK == Typed(ExpressionFunctions)

(***************************************************************************)
(* "Invariant: we only construct valid RPN": neither assertion of          *)
(* parse_binary_expression fails, whatever is nested in the operands       *)
(* (parser.rs:548, 586).                                                   *)
(***************************************************************************)
AssertionsHold == status # "panicked"

(***************************************************************************)
(* The operators deferred on the stack bind ever tighter from bottom to    *)
(* top, in every activation; only the right associative assignment repeats *)
(* a precedence (parser.rs:568-577).                                       *)
(***************************************************************************)
BindsTighter(o, below) == \/ precedence(o) < precedence(below)
                          \/ o = "=" /\ below = "="

Climbing(stack) == \A i \in 1..(Len(stack) - 1) : BindsTighter(stack[i + 1], stack[i])

PrecedenceInv == /\ Climbing(operator_stack)
                 /\ \A i \in 1..Len(callers) : Climbing(callers[i].operator_stack)

(***************************************************************************)
(* Every expression that is returned is made of at least one token, so     *)
(* prev_span() is the span of its last one ("Bug! We can't represent an    *)
(* empty range", parser.rs:177-183), and every nested call begins behind a *)
(* token that the call around it has consumed: no recursion without end.   *)
(***************************************************************************)
began(i) == IF i = 0 THEN 0 ELSE callers[i].start

ProgressInv == /\ \A i \in 1..Len(callers) : began(i - 1) < began(i)
               /\ at = "return" => began(Len(callers)) < next

(***************************************************************************)
(* Every sequence of tokens, however wrong, makes the parser return.       *)
(***************************************************************************)
ParsingEnds == <>(status # "parsing")
=============================================================================
