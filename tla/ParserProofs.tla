----------------------------- MODULE ParserProofs -----------------------------
(***************************************************************************)
(* The assertions of the shunting yard never fail, and the operators on    *)
(* its stack always climb, for token sequences of every length and every   *)
(* depth of nesting; that holds of expressions by themselves and of those  *)
(* within whole programs.  Whatever a function of the parser returns is    *)
(* made of at least one token.  What is accepted is an expression or, of   *)
(* whole files, a program of the grammar, and the result is its tree.      *)
(*                                                                         *)
(* The invariant that carries the assertions counts the stacks: an         *)
(* activation that waits for an operand has as many operands as operators, *)
(* one that has just got it has one more.  Nothing but the place where an  *)
(* activation was suspended says which of the two holds when it goes on.   *)
(*                                                                         *)
(* Every handler of the parser goes on, calls, returns, fails or accepts.  *)
(* Each is shown to do one of these; that the invariants are kept is shown *)
(* for these five, and for the handlers of expressions by lemmas that      *)
(* leave open which functions the parser has besides them.                 *)
(*                                                                         *)
(* The grammar enters as any language that is closed under its rules, so   *)
(* what is shown to be in it is derived by the rules.  The invariant says  *)
(* of every activation, running or suspended, that what it has read is the *)
(* beginning of an expression with what it has built (Built), or that of a *)
(* statement, a member or a class (WellBegun).                             *)
(***************************************************************************)
EXTENDS Rules, SequenceTheorems, TLAPS

\* Elsewhere an activation has no operand that waits for its operator.
HasOperand == {"binary", "reduce", "return"}

StackInv ==
    /\ status # "panicked"
    /\ \A i \in 1..Len(callers) :
          Len(callers[i].operand_stack) = Len(callers[i].operator_stack)
    /\ at \notin HasOperand => Len(operand_stack) = Len(operator_stack)
    /\ at \in {"binary", "reduce"} => Len(operand_stack) = Len(operator_stack) + 1
    /\ at = "return" => Len(operator_stack) = 0
    /\ at = "reduce" => op \in BinaryOps

Inv(F) == Typed(F) /\ StackInv /\ PrecedenceInv

(***************************************************************************)
(* The handlers keep it wherever they are used: F are the functions of     *)
(* this module, and may be more that call them.                            *)
(***************************************************************************)
Includes(F) == /\ Kind \cup Constructors \subseteq F.symbols
               /\ Places \subseteq F.places
               /\ Waiting \subseteq F.waits

-----------------------------------------------------------------------------
\* Concatenation is associative, in the form that is cited below.
LEMMA Regroups == \A S : \A x, y, z \in Seq(S) : (x \o y) \o z = x \o (y \o z)
<1> TAKE S
<1> TAKE x, y, z \in Seq(S)
<1> QED
  BY ConcatAssociative

LEMMA WordsRegroup == \A x, y, z \in Seq(Kind) : (x \o y) \o z = x \o (y \o z)
BY Regroups

LEMMA UnaryOpsRegroup == \A x, y, z \in Seq(UnaryOps) : (x \o y) \o z = x \o (y \o z)
BY Regroups

(***************************************************************************)
(* Expressions are closed under the constructors.                          *)
(***************************************************************************)
LEMMA ExprClosed ==
    ASSUME NEW F
    PROVE  /\ <<>> \in Trees(F)
           /\ \A s \in F.symbols : <<s>> \in Trees(F)
           /\ \A s, t \in F.symbols : <<s, t>> \in Trees(F)
           /\ \A e, f \in Trees(F) : e \o f \in Trees(F)
           /\ \A e \in Trees(F), s \in F.symbols : Append(e, s) \in Trees(F)
<1> DEFINE S == F.symbols
<1>1. <<>> \in Seq(S) /\ (\A s \in S : <<s>> \in Seq(S)) /\ \A s, t \in S : <<s, t>> \in Seq(S)
  <2> HIDE DEF S
  <2> QED OBVIOUS
<1>2. \A e, f \in Seq(S) : e \o f \in Seq(S)
  BY ConcatProperties
<1>3. \A e \in Seq(S), s \in S : Append(e, s) \in Seq(S)
  BY AppendProperties
<1> QED
  BY <1>1, <1>2, <1>3 DEF Trees

LEMMA KindsAreSymbols ==
    ASSUME NEW F, Includes(F)
    PROVE  /\ \A k \in Kind : k \in F.symbols /\ <<k>> \in Trees(F)
           /\ \A e \in Trees(F), k \in Kind : Append(e, k) \in Trees(F)
BY ExprClosed DEF Includes

LEMMA NodesAreExpr ==
    ASSUME NEW F, Includes(F), NEW e \in Trees(F), NEW f \in Trees(F), NEW k \in Kind
    PROVE  /\ Unary(k, e) \in Trees(F)
           /\ Binary(k, e, f) \in Trees(F)
           /\ ArrayAccess(e, f) \in Trees(F)
           /\ FieldAccess(e) \in Trees(F)
           /\ NewArray(k) \in Trees(F)
           /\ <<"ArrayOf">> \o e \in Trees(F)
           /\ <<"MethodInvocation">> \o e \in Trees(F)
           /\ <<k>> \in Trees(F)
           /\ <<"NewObject">> \in Trees(F)
           /\ <<"ThisMethodInvocation">> \in Trees(F)
<1>1. k \in F.symbols /\ \A c \in Constructors : c \in F.symbols
  BY DEF Includes
<1>2. /\ "Unary" \in Constructors /\ "Binary" \in Constructors
      /\ "ArrayAccess" \in Constructors /\ "FieldAccess" \in Constructors
      /\ "NewArray" \in Constructors /\ "ArrayOf" \in Constructors
      /\ "MethodInvocation" \in Constructors /\ "NewObject" \in Constructors
      /\ "ThisMethodInvocation" \in Constructors
  BY DEF Constructors
<1>3. /\ \A c \in Constructors : <<c>> \in Trees(F) /\ <<c, k>> \in Trees(F)
      /\ <<k>> \in Trees(F)
  BY <1>1, ExprClosed
<1>4. \A x, y \in Trees(F) : x \o y \in Trees(F)
  BY ExprClosed
<1>5. Unary(k, e) \in Trees(F)
  BY <1>2, <1>3, <1>4, Zenon DEF Unary
<1>6. Binary(k, e, f) \in Trees(F)
  BY <1>2, <1>3, <1>4, Zenon DEF Binary
<1>7. ArrayAccess(e, f) \in Trees(F)
  BY <1>2, <1>3, <1>4, Zenon DEF ArrayAccess
<1>8. FieldAccess(e) \in Trees(F)
  BY <1>2, <1>3, <1>4, Zenon DEF FieldAccess
<1>9. NewArray(k) \in Trees(F)
  BY <1>2, <1>3, <1>4, Zenon DEF NewArray
<1>10. <<"ArrayOf">> \o e \in Trees(F) /\ <<"MethodInvocation">> \o e \in Trees(F)
  BY <1>2, <1>3, <1>4, Zenon
<1> QED
  BY <1>2, <1>3, <1>5, <1>6, <1>7, <1>8, <1>9, <1>10, Zenon

(***************************************************************************)
(* Every operator of the table has a precedence, and an operator that is   *)
(* deferred by another one binds tighter than it.                          *)
(***************************************************************************)
LEMMA Deferred ==
    ASSUME NEW o \in BinaryOps, NEW below \in BinaryOps,
           ~(precedence(below) < precedence(o)),
           ~(assoc(below) = "Left" /\ precedence(below) = precedence(o))
    PROVE  BindsTighter(o, below)
<1>1. /\ precedence(o) \in Nat /\ precedence(below) \in Nat
      /\ precedence(o) = 10 <=> o = "="
      /\ precedence(below) = 10 <=> below = "="
  BY DEF BinaryOps, precedence
<1> QED
  BY <1>1 DEF BindsTighter, assoc

(***************************************************************************)
(* What is left of a stack when all above its element n is popped.         *)
(***************************************************************************)
LEMMA Popped ==
    ASSUME NEW S, NEW s \in Seq(S), NEW n \in 0..Len(s)
    PROVE  /\ SubSeq(s, 1, n) \in Seq(S)
           /\ Len(SubSeq(s, 1, n)) = n
           /\ \A i \in 1..n : SubSeq(s, 1, n)[i] = s[i]
<1>1. Len(s) \in Nat /\ n \in Nat /\ \A i \in 1..n : s[i] \in S
  BY LenProperties, ElementOfSeq
<1> QED
  BY <1>1

-----------------------------------------------------------------------------
(***************************************************************************)
(* Tokens are consumed within the input.                                   *)
(***************************************************************************)
LEMMA TokenWithin ==
    ASSUME NEW F, Typed(F), NEW k \in Int, token(k) \in Kind
    PROVE  k \in 1..Len(input)
<1>1. EOF \notin Kind
  BY DEF EOF, Kind, UnaryOps, BinaryOps, Literals, BasicTypes, Identifiers, Keywords
<1> QED
  BY <1>1 DEF token

LEMMA Consumed ==
    ASSUME NEW F, Typed(F), NEW wanted \in Seq(SUBSET Kind), omnomnom(wanted)
    PROVE  /\ next' \in 0..Len(input)
           /\ status' = status /\ error' = error
           /\ \A i \in 1..Len(wanted) : token(next + i) \in wanted[i]
<1>1. Len(wanted) \in Nat /\ DOMAIN wanted = 1..Len(wanted)
        /\ \A i \in 1..Len(wanted) : wanted[i] \in SUBSET Kind
  BY LenProperties, ElementOfSeq
<1>2. next \in Nat /\ Len(input) \in Nat /\ next <= Len(input)
  BY LenProperties DEF Typed
<1>3. \A i \in 1..Len(wanted) : token(next + i) \in wanted[i]
  BY <1>1 DEF omnomnom
<1>4. next + Len(wanted) <= Len(input)
  <2>1. CASE Len(wanted) = 0
    BY <1>2, <2>1
  <2>2. CASE Len(wanted) # 0
    <3>1. token(next + Len(wanted)) \in Kind
      BY <1>1, <1>3, <2>2
    <3> QED
      BY <1>1, <1>2, <3>1, TokenWithin
  <2> QED
    BY <2>1, <2>2
<1> QED
  BY <1>1, <1>2, <1>3, <1>4 DEF omnomnom, outcome

(***************************************************************************)
(* The three ways of going on with the expression e, and the two ways to   *)
(* stop, keep the invariant.                                               *)
(***************************************************************************)
LEMMA GotoKeeps ==
    ASSUME NEW F, Inv(F), NEW to \in F.places, NEW e \in Trees(F), Goto(to, e),
           next' \in 0..Len(input), status' = status, error' = error,
           \/ at \notin HasOperand /\ to \notin HasOperand
           \/ to = "return" /\ operator_stack = <<>>
    PROVE  Inv(F)'
<1>1. Typed(F)'
  BY DEF Inv, Typed, Goto, stacks
<1>2. StackInv'
  BY EmptySeq DEF Inv, StackInv, Goto, stacks, HasOperand
<1>3. PrecedenceInv'
  BY DEF Inv, PrecedenceInv, Climbing, Goto, stacks
<1> QED
  BY <1>1, <1>2, <1>3 DEF Inv

LEMMA InvokeKeeps ==
    ASSUME NEW F, Inv(F), NEW to \in F.places, to \notin HasOperand, at \notin HasOperand,
           NEW from \in F.waits, NEW e \in Trees(F), Invoke(to, from, e),
           next' \in 0..Len(input), status' = status, error' = error
    PROVE  Inv(F)'
<1> DEFINE c == [at |-> from, start |-> next', operand_stack |-> operand_stack,
                 operator_stack |-> operator_stack, ops |-> ops, expr |-> e]
<1>1. c \in Activation(F) /\ c.operand_stack = operand_stack /\ c.operator_stack = operator_stack
  BY DEF Activation, Inv, Typed
<1>2. callers' = Append(callers, c)
  BY DEF Invoke
<1> HIDE DEF c
<1>3. callers \in Seq(Activation(F)) /\ Len(callers) \in Nat
  BY LenProperties DEF Inv, Typed
<1>4. /\ callers' \in Seq(Activation(F))
      /\ Len(callers') = Len(callers) + 1
      /\ \A i \in 1..Len(callers) : callers'[i] = callers[i]
      /\ callers'[Len(callers) + 1] = c
  BY <1>1, <1>2, <1>3, AppendProperties
<1>5. /\ operand_stack' = <<>> /\ operator_stack' = <<>> /\ ops' = <<>> /\ expr' = <<>>
      /\ at' = to /\ input' = input /\ op' = op
  BY DEF Invoke
<1>6. /\ operand_stack' \in Seq(Trees(F)) /\ operator_stack' \in Seq(BinaryOps)
      /\ ops' \in Seq(UnaryOps) /\ expr' \in Trees(F)
      /\ Len(operand_stack') = 0 /\ Len(operator_stack') = 0
  BY <1>5, EmptySeq, ExprClosed, Zenon
<1>7. Typed(F)'
  BY <1>4, <1>5, <1>6 DEF Inv, Typed
<1>9. \A i \in 1..Len(callers') : i \in 1..Len(callers) \/ i = Len(callers) + 1
  BY <1>3, <1>4
<1>10. StackInv'
  <2>1. Len(operand_stack) = Len(operator_stack)
    BY DEF Inv, StackInv
  <2>2. ASSUME NEW i \in 1..Len(callers')
        PROVE  Len(callers'[i].operand_stack) = Len(callers'[i].operator_stack)
    BY <1>1, <1>4, <1>9, <2>1, <2>2 DEF Inv, StackInv
  <2> QED
    BY <1>5, <1>6, <2>2 DEF Inv, StackInv, HasOperand
<1>11. PrecedenceInv'
  <2>1. ASSUME NEW i \in 1..Len(callers')
        PROVE  Climbing(callers'[i].operator_stack)
    <3>1. CASE i \in 1..Len(callers)
      BY <1>4, <3>1 DEF Inv, PrecedenceInv
    <3>2. CASE i = Len(callers) + 1
      BY <1>1, <1>4, <3>2 DEF Inv, PrecedenceInv
    <3> QED
      BY <1>9, <3>1, <3>2
  <2>2. Climbing(operator_stack)'
    BY <1>6 DEF Climbing
  <2>3. \A i \in 1..Len(callers') : Climbing(callers[i].operator_stack)'
    BY <2>1 DEF Climbing
  <2> QED
    BY <2>2, <2>3 DEF PrecedenceInv
<1> QED
  BY <1>7, <1>10, <1>11 DEF Inv

LEMMA CallKeeps ==
    ASSUME NEW F, Includes(F), Inv(F), at \notin HasOperand,
           NEW from \in F.waits, NEW e \in Trees(F), Call(from, e),
           next' \in 0..Len(input), status' = status, error' = error
    PROVE  Inv(F)'
<1>1. "unary" \in F.places /\ "unary" \notin HasOperand
  BY DEF Includes, Places, HasOperand
<1> QED
  BY <1>1, InvokeKeeps DEF Call

LEMMA ReturnKeeps ==
    ASSUME NEW F, Inv(F), callers # <<>>, NEW to \in F.places, to \notin HasOperand,
           NEW e \in Trees(F), Return(to, e),
           next' \in 0..Len(input), status' = status, error' = error
    PROVE  Inv(F)'
<1>1. callers \in Seq(Activation(F)) /\ Len(callers) \in Nat \ {0}
  BY EmptySeq DEF Inv, Typed
<1>2. caller \in Activation(F)
  BY <1>1, ElementOfSeq DEF caller
<1>3. /\ callers' \in Seq(Activation(F))
      /\ Len(callers') = Len(callers) - 1
      /\ \A i \in 1..Len(callers') : callers'[i] = callers[i]
  <2>1. callers' = SubSeq(callers, 1, Len(callers) - 1)
    BY DEF Return
  <2>2. Len(callers) - 1 \in 0..Len(callers)
    BY <1>1
  <2> QED
    BY <1>1, <2>1, <2>2, Popped
<1>4. /\ operand_stack' = caller.operand_stack /\ operator_stack' = caller.operator_stack
      /\ ops' = caller.ops /\ expr' = e /\ at' = to /\ input' = input /\ op' = op
  BY DEF Return
<1>5. Typed(F)'
  BY <1>2, <1>3, <1>4 DEF Inv, Typed, Activation
<1>6. StackInv'
  <2>1. Len(caller.operand_stack) = Len(caller.operator_stack)
    BY <1>1 DEF Inv, StackInv, caller
  <2> QED
    BY <1>1, <1>3, <1>4, <2>1 DEF Inv, StackInv, HasOperand
<1>7. PrecedenceInv'
  <2>1. Climbing(caller.operator_stack)
    BY <1>1 DEF Inv, PrecedenceInv, caller
  <2>2. Climbing(operator_stack)'
    BY <1>4, <2>1 DEF Climbing
  <2>3. ASSUME NEW i \in 1..Len(callers')
        PROVE  Climbing(callers'[i].operator_stack)
    BY <1>1, <1>3 DEF Inv, PrecedenceInv
  <2>4. \A i \in 1..Len(callers') : Climbing(callers[i].operator_stack)'
    BY <2>3 DEF Climbing
  <2> QED
    BY <2>2, <2>4 DEF PrecedenceInv
<1> QED
  BY <1>5, <1>6, <1>7 DEF Inv

LEMMA RejectKeeps ==
    ASSUME NEW F, Inv(F), NEW k \in 1..(Len(input) + 1), Reject(k)
    PROVE  Inv(F)'
<1>1. Typed(F)'
  BY LenProperties DEF Inv, Typed, Reject, stacks
<1>2. StackInv'
  BY DEF Inv, StackInv, Reject, stacks
<1>3. PrecedenceInv'
  BY DEF Inv, PrecedenceInv, Climbing, Reject, stacks
<1> QED
  BY <1>1, <1>2, <1>3 DEF Inv

LEMMA UnexpectedKeeps ==
    ASSUME NEW F, Inv(F), NEW wanted \in Seq(SUBSET Kind), Unexpected(wanted)
    PROVE  Inv(F)'
<1>1. PICK i \in DOMAIN wanted : /\ \A j \in 1..(i - 1) : token(next + j) \in wanted[j]
                                /\ Reject(next + i)
  BY DEF Unexpected
<1>2. Len(wanted) \in Nat /\ i \in 1..Len(wanted)
        /\ \A j \in 1..Len(wanted) : wanted[j] \in SUBSET Kind
  BY LenProperties, ElementOfSeq
<1>3. next \in Nat /\ Len(input) \in Nat /\ next <= Len(input) /\ Typed(F)
  BY LenProperties DEF Inv, Typed
<1>4. next + i \in 1..(Len(input) + 1)
  <2>1. CASE i = 1
    BY <1>2, <1>3, <2>1
  <2>2. CASE i # 1
    <3>1. token(next + (i - 1)) \in Kind
      BY <1>1, <1>2, <2>2
    <3>2. next + (i - 1) \in 1..Len(input)
      BY <1>2, <1>3, <3>1, TokenWithin
    <3> QED
      BY <1>2, <1>3, <3>2
  <2> QED
    BY <2>1, <2>2
<1> QED
  BY <1>1, <1>4, RejectKeeps

(***************************************************************************)
(* rpn_eval finds two operands.                                            *)
(***************************************************************************)
LEMMA EvalKeeps ==
    ASSUME NEW F, Includes(F), Inv(F), at \in {"binary", "reduce"},
           operator_stack # <<>>, rpn_eval(top_op)
    PROVE  Inv(F)'
<1> DEFINE n == Len(operand_stack)
           m == Len(operator_stack)
           node == Binary(top_op, operand_stack[n - 1], operand_stack[n])
<1>1. operator_stack \in Seq(BinaryOps) /\ operand_stack \in Seq(Trees(F))
  BY DEF Inv, Typed
<1>2. m \in Nat /\ m >= 1 /\ n = m + 1
  BY <1>1, EmptySeq DEF Inv, StackInv
<1>3. top_op \in Kind
  <2>1. m \in 1..Len(operator_stack)
    BY <1>2
  <2>2. operator_stack[m] \in BinaryOps
    BY <1>1, <2>1, ElementOfSeq
  <2> QED
    BY <2>2, Zenon DEF top_op, Kind
<1>4. operand_stack[n - 1] \in Trees(F) /\ operand_stack[n] \in Trees(F)
  BY <1>1, <1>2, ElementOfSeq
<1>5. node \in Trees(F)
  BY <1>3, <1>4, NodesAreExpr
<1>6. /\ operand_stack' = Append(SubSeq(operand_stack, 1, n - 2), node)
      /\ operator_stack' = SubSeq(operator_stack, 1, m - 1)
      /\ UNCHANGED <<input, next, callers, at, ops, expr, op, status, error>>
  <2>1. ~(n < 2)
    BY <1>2
  <2> QED
    BY <2>1, Zenon DEF rpn_eval, outcome
<1> HIDE DEF node
<1>7. operand_stack' \in Seq(Trees(F)) /\ Len(operand_stack') = n - 1
  <2>1. n - 2 \in 0..Len(operand_stack)
    BY <1>2
  <2>2. SubSeq(operand_stack, 1, n - 2) \in Seq(Trees(F))
          /\ Len(SubSeq(operand_stack, 1, n - 2)) = n - 2
    BY <1>1, <2>1, Popped
  <2> HIDE DEF n
  <2> DEFINE rest == SubSeq(operand_stack, 1, n - 2)
  <2>3. operand_stack' = Append(rest, node) /\ rest \in Seq(Trees(F)) /\ Len(rest) = n - 2
    BY <1>6, <2>2
  <2> HIDE DEF rest
  <2>4. operand_stack' \in Seq(Trees(F)) /\ Len(operand_stack') = Len(rest) + 1
    BY <1>5, <2>3, AppendProperties
  <2> QED
    BY <1>2, <2>3, <2>4
<1>8. /\ operator_stack' \in Seq(BinaryOps)
      /\ Len(operator_stack') = m - 1
      /\ \A i \in 1..(m - 1) : operator_stack'[i] = operator_stack[i]
  <2>1. m - 1 \in 0..Len(operator_stack)
    BY <1>2
  <2> QED
    BY <1>1, <1>6, <2>1, Popped
<1>9. Typed(F)'
  BY <1>6, <1>7, <1>8 DEF Inv, Typed
<1>10. StackInv'
  BY <1>2, <1>6, <1>7, <1>8 DEF Inv, StackInv, HasOperand
<1>11. PrecedenceInv'
  BY <1>2, <1>6, <1>8 DEF Inv, PrecedenceInv, Climbing
<1> QED
  BY <1>9, <1>10, <1>11 DEF Inv

LEMMA ArgumentsKeep ==
    ASSUME NEW F, Includes(F), Inv(F), at \in {"unary", "postfix"},
           NEW callee \in Trees(F), NEW upTo \in Seq(SUBSET Kind), Arguments(callee, upTo)
    PROVE  Inv(F)'
<1>1. ")" \in Kind /\ {")"} \in SUBSET Kind /\ Typed(F)
  BY DEF Inv, Kind
<1>2. CASE omnomnom(Append(upTo, {")"})) /\ Goto("postfix", Append(callee, ")"))
  <2>1. Append(upTo, {")"}) \in Seq(SUBSET Kind)
    BY <1>1, AppendProperties
  <2>2. Append(callee, ")") \in Trees(F)
    BY <1>1, KindsAreSymbols
  <2>3. next' \in 0..Len(input) /\ status' = status /\ error' = error
    BY <1>1, <1>2, <2>1, Consumed
  <2> QED
    BY <1>2, <2>2, <2>3, GotoKeeps DEF Places, HasOperand, Includes
<1>3. CASE omnomnom(upTo) /\ Call("arguments", callee)
  <2>1. next' \in 0..Len(input) /\ status' = status /\ error' = error
    BY <1>1, <1>3, Consumed
  <2> QED
    BY <1>3, <2>1, CallKeeps DEF Waiting, HasOperand, Includes
<1> QED
  BY <1>2, <1>3 DEF Arguments

(***************************************************************************)
(* omnomnom of one, two or three tokens, as the handlers use it.           *)
(***************************************************************************)
LEMMA Wanted ==
    ASSUME NEW A \in SUBSET Kind, NEW B \in SUBSET Kind, NEW C \in SUBSET Kind
    PROVE  /\ <<A>> \in Seq(SUBSET Kind) /\ Len(<<A>>) = 1
           /\ <<A, B>> \in Seq(SUBSET Kind) /\ Len(<<A, B>>) = 2
           /\ <<A, B, C>> \in Seq(SUBSET Kind) /\ Len(<<A, B, C>>) = 3
<1> DEFINE T == SUBSET Kind
<1>1. A \in T /\ B \in T /\ C \in T
  OBVIOUS
<1> HIDE DEF T
<1>2. /\ <<A>> \in Seq(T) /\ Len(<<A>>) = 1
      /\ <<A, B>> \in Seq(T) /\ Len(<<A, B>>) = 2
      /\ <<A, B, C>> \in Seq(T) /\ Len(<<A, B, C>>) = 3
  BY <1>1
<1> QED
  BY <1>2 DEF T

LEMMA ConsumedOne ==
    ASSUME NEW F, Typed(F), NEW A \in SUBSET Kind, omnomnom(<<A>>)
    PROVE  /\ next' \in 0..Len(input) /\ status' = status /\ error' = error
           /\ peek \in A
<1>1. <<A>> \in Seq(SUBSET Kind) /\ Len(<<A>>) = 1 /\ <<A>>[1] = A
  BY Wanted
<1>2. /\ next' \in 0..Len(input) /\ status' = status /\ error' = error
      /\ token(next + 1) \in A
  <2> DEFINE wanted == <<A>>
  <2>1. wanted \in Seq(SUBSET Kind) /\ Len(wanted) = 1 /\ wanted[1] = A /\ omnomnom(wanted)
    BY <1>1
  <2> HIDE DEF wanted
  <2>2. /\ next' \in 0..Len(input) /\ status' = status /\ error' = error
        /\ \A i \in 1..Len(wanted) : token(next + i) \in wanted[i]
    BY <2>1, Consumed
  <2> QED
    BY <2>1, <2>2
<1>3. next \in Int
  BY DEF Typed
<1>4. next + 1 + 0 = next + 1
  BY <1>3
<1> QED
  BY <1>2, <1>4 DEF peek, peek_nth

-----------------------------------------------------------------------------
(***************************************************************************)
(* Every handler keeps the invariant.                                      *)
(***************************************************************************)
LEMMA InitInv == Init => Inv(ExpressionFunctions)
<1> SUFFICES ASSUME Init PROVE Inv(ExpressionFunctions)
  OBVIOUS
<1>1. input \in Seq(Kind) /\ Len(input) \in Nat
  BY FilesAssumption, LenProperties DEF Init
<1>2. /\ callers = <<>> /\ operand_stack = <<>> /\ operator_stack = <<>>
      /\ ops = <<>> /\ expr = <<>>
  BY DEF Init
<1>3. /\ callers \in Seq(Activation(ExpressionFunctions)) /\ Len(callers) = 0
      /\ operand_stack \in Seq(Trees(ExpressionFunctions)) /\ Len(operand_stack) = 0
      /\ operator_stack \in Seq(BinaryOps) /\ Len(operator_stack) = 0
      /\ ops \in Seq(UnaryOps) /\ expr \in Trees(ExpressionFunctions)
  BY <1>2, EmptySeq, ExprClosed, Zenon
<1>4. Typed(ExpressionFunctions)
  BY <1>1, <1>3 DEF Init, Typed, Places, ExpressionFunctions
<1>5. StackInv
  BY <1>3 DEF Init, StackInv, HasOperand
<1>6. PrecedenceInv
  BY <1>3 DEF PrecedenceInv, Climbing
<1> QED
  BY <1>4, <1>5, <1>6 DEF Inv

LEMMA UnaryKeeps ==
    ASSUME NEW F, Includes(F), Inv(F), (UnaryOp \/ ApplyUnary)
    PROVE  Inv(F)'
<1>1. Typed(F) /\ ops \in Seq(UnaryOps) /\ expr \in Trees(F) /\ UnaryOps \in SUBSET Kind
  BY DEF Inv, Typed, Kind
<1>2. ASSUME UnaryOp PROVE Inv(F)'
  <2>1. omnomnom(<<UnaryOps>>)
    BY <1>2 DEF UnaryOp
  <2>2. next' \in 0..Len(input) /\ status' = status /\ error' = error /\ peek \in UnaryOps
    BY <1>1, <2>1, ConsumedOne
  <2>3. ops' \in Seq(UnaryOps)
    BY <1>1, <1>2, <2>2, AppendProperties DEF UnaryOp
  <2>4. UNCHANGED <<input, callers, at, operand_stack, operator_stack, expr, op>>
    BY <1>2 DEF UnaryOp, stacks
  <2> QED
    BY <2>2, <2>3, <2>4 DEF Inv, Typed, StackInv, PrecedenceInv, Climbing
<1>3. ASSUME ApplyUnary PROVE Inv(F)'
  <2>1. Head(ops) \in UnaryOps /\ Tail(ops) \in Seq(UnaryOps)
    BY <1>1, <1>3, HeadTailProperties DEF ApplyUnary
  <2>2. Unary(Head(ops), expr) \in Trees(F)
    BY <1>1, <2>1, NodesAreExpr
  <2>3. /\ ops' \in Seq(UnaryOps) /\ expr' \in Trees(F)
        /\ UNCHANGED <<input, next, callers, at, operand_stack, operator_stack, op, status, error>>
    BY <1>3, <2>1, <2>2 DEF ApplyUnary, stacks, outcome
  <2> QED
    BY <2>3 DEF Inv, Typed, StackInv, PrecedenceInv, Climbing
<1> QED
  BY <1>2, <1>3

LEMMA BinaryKeeps ==
    ASSUME NEW F, Includes(F), Inv(F), BinaryExpression
    PROVE  Inv(F)'
<1>1. /\ Typed(F) /\ expr \in Trees(F) /\ operand_stack \in Seq(Trees(F))
      /\ operator_stack \in Seq(BinaryOps) /\ BinaryOps \in SUBSET Kind
  BY DEF Inv, Typed, Kind
<1>2. Len(operand_stack) \in Nat /\ Len(operator_stack) \in Nat
  BY <1>1, LenProperties
<1>3. ASSUME PushOperand PROVE Inv(F)'
  <2>1. /\ operand_stack' \in Seq(Trees(F))
        /\ Len(operand_stack') = Len(operand_stack) + 1
    BY <1>1, <1>3, AppendProperties DEF PushOperand
  <2>2. expr' \in Trees(F)
    BY <1>3, ExprClosed DEF PushOperand
  <2>3. /\ at = "apply" /\ at' = "binary"
        /\ UNCHANGED <<input, next, callers, operator_stack, ops, op, status, error>>
    BY <1>3 DEF PushOperand, Running, outcome
  <2> QED
    BY <2>1, <2>2, <2>3 DEF Inv, Typed, StackInv, PrecedenceInv, Climbing, Places,
       HasOperand, Includes
<1>4. ASSUME TakeOperator PROVE Inv(F)'
  <2>1. omnomnom(<<BinaryOps>>)
    BY <1>4 DEF TakeOperator
  <2>2. next' \in 0..Len(input) /\ status' = status /\ error' = error /\ peek \in BinaryOps
    BY <1>1, <2>1, ConsumedOne
  <2>3. /\ at = "binary" /\ at' = "reduce" /\ op' \in BinaryOps
        /\ UNCHANGED <<input, callers, operand_stack, operator_stack, ops, expr>>
    BY <1>4, <2>2 DEF TakeOperator, Running, stacks
  <2> QED
    BY <2>2, <2>3 DEF Inv, Typed, StackInv, PrecedenceInv, Climbing, Places,
       HasOperand, Includes
<1>5. ASSUME Reduce PROVE Inv(F)'
  BY <1>5, EvalKeeps DEF Reduce, Running
<1>6. ASSUME PushOperator PROVE Inv(F)'
  <2>1. /\ at = "reduce" /\ at' = "unary" /\ op' = "none" /\ op \in BinaryOps
        /\ UNCHANGED <<input, next, callers, operand_stack, ops, expr, status, error>>
        /\ operator_stack # <<>> => ~BindsBefore(op)
        /\ operator_stack' = Append(operator_stack, op)
    BY <1>6 DEF PushOperator, Running, outcome, Inv, StackInv
  <2>2. /\ operator_stack' \in Seq(BinaryOps)
        /\ Len(operator_stack') = Len(operator_stack) + 1
        /\ \A i \in 1..Len(operator_stack) : operator_stack'[i] = operator_stack[i]
        /\ operator_stack'[Len(operator_stack) + 1] = op
    BY <1>1, <2>1, AppendProperties
  <2>3. Typed(F)'
    BY <2>1, <2>2 DEF Inv, Typed, Places, Includes
  <2>4. StackInv'
    BY <2>1, <2>2 DEF Inv, StackInv, HasOperand
  <2>5. ASSUME Len(operator_stack) >= 1
        PROVE  BindsTighter(op, operator_stack[Len(operator_stack)])
    <3>1. operator_stack # <<>> /\ top_op \in BinaryOps
      <4>1. operator_stack # <<>>
        BY <2>5, EmptySeq
      <4>2. Len(operator_stack) \in 1..Len(operator_stack)
        BY <1>2, <2>5
      <4> QED
        BY <1>1, <4>1, <4>2, ElementOfSeq DEF top_op
    <3>2. BindsTighter(op, top_op)
      BY <2>1, <3>1, Deferred DEF BindsBefore
    <3> QED
      BY <3>2 DEF top_op
  <2>6. Climbing(operator_stack)'
    <3>1. ASSUME NEW i \in 1..(Len(operator_stack') - 1)
          PROVE  BindsTighter(operator_stack'[i + 1], operator_stack'[i])
      <4>1. CASE i = Len(operator_stack)
        BY <1>2, <2>2, <2>5, <4>1
      <4>2. CASE i # Len(operator_stack)
        <5>1. i \in 1..(Len(operator_stack) - 1) /\ i + 1 \in 1..Len(operator_stack)
                /\ i \in 1..Len(operator_stack)
          BY <1>2, <2>2, <4>2
        <5>2. BindsTighter(operator_stack[i + 1], operator_stack[i])
          BY <5>1 DEF Inv, PrecedenceInv, Climbing
        <5> QED
          BY <2>2, <5>1, <5>2
      <4> QED
        BY <4>1, <4>2
    <3> QED
      BY <3>1 DEF Climbing
  <2>7. PrecedenceInv'
    BY <2>1, <2>6 DEF Inv, PrecedenceInv, Climbing
  <2> QED
    BY <2>3, <2>4, <2>7 DEF Inv
<1>7. ASSUME ConsumeRemaining PROVE Inv(F)'
  BY <1>7, EvalKeeps DEF ConsumeRemaining, Running
<1>8. ASSUME EndOfBinary PROVE Inv(F)'
  <2>1. /\ status = "parsing" /\ at = "binary" /\ operator_stack = <<>>
        /\ Len(operator_stack) = 0
    BY <1>8, EmptySeq DEF EndOfBinary, Running
  <2>2. Len(operand_stack) = 1
    BY <2>1 DEF Inv, StackInv
  <2>3. operand_stack[1] \in Trees(F)
    <3>1. 1 \in 1..Len(operand_stack)
      BY <2>2
    <3> QED
      BY <1>1, <3>1, ElementOfSeq
  <2>4. Goto("return", operand_stack[1]) /\ next' = next /\ status' = status /\ error' = error
    BY <1>8, <2>2, Zenon DEF EndOfBinary, outcome
  <2>5. next' \in 0..Len(input)
    BY <2>4 DEF Inv, Typed
  <2> QED
    BY <2>1, <2>3, <2>4, <2>5, GotoKeeps DEF Places, Includes
<1> QED
  BY <1>3, <1>4, <1>5, <1>6, <1>7, <1>8 DEF BinaryExpression

LEMMA PrimaryKeeps ==
    ASSUME NEW F, Includes(F), Inv(F), Primary
    PROVE  Inv(F)'
<1>1. /\ Typed(F) /\ expr \in Trees(F) /\ next \in 0..Len(input) /\ Len(input) \in Nat
      /\ next \in Nat
  BY LenProperties DEF Inv, Typed
<1>2. /\ Literals \in SUBSET Kind /\ BasicTypes \in SUBSET Kind
      /\ Identifiers \in SUBSET Kind /\ {"("} \in SUBSET Kind /\ {")"} \in SUBSET Kind
      /\ {"["} \in SUBSET Kind /\ {"]"} \in SUBSET Kind /\ {"new"} \in SUBSET Kind
      /\ Literals \cup Identifiers \cup {"(", "new"} \in SUBSET Kind
      /\ "identifier" \in Kind /\ "String" \in Kind /\ "[" \in Kind
  BY DEF Kind, BasicTypes, Identifiers
<1>3. EOF \notin Kind
  BY DEF EOF, Kind, UnaryOps, BinaryOps, Literals, BasicTypes, Identifiers, Keywords
<1>4. NewObjectTokens \in Seq(SUBSET Kind) /\ NewArrayTokens \in Seq(SUBSET Kind)
  BY <1>2, Wanted DEF NewObjectTokens, NewArrayTokens
<1>5. /\ {"postfix", "new", "dimensions", "unary"} \subseteq F.places
      /\ {"postfix", "new", "dimensions", "unary"} \cap HasOperand = {}
      /\ "size" \in F.waits /\ "parenthesis" \in F.waits
  BY DEF Places, HasOperand, Waiting, Includes
<1>6. ASSUME Literal PROVE Inv(F)'
  <2>1. omnomnom(<<Literals>>) /\ Running("unary") /\ Goto("postfix", <<peek>>)
    BY <1>6 DEF Literal
  <2>2. next' \in 0..Len(input) /\ status' = status /\ error' = error /\ peek \in Kind
    BY <1>1, <1>2, <2>1, ConsumedOne
  <2>3. <<peek>> \in Trees(F)
    BY <2>2, KindsAreSymbols
  <2> QED
    BY <1>5, <2>1, <2>2, <2>3, GotoKeeps DEF Running
<1>7. ASSUME Var PROVE Inv(F)'
  <2>1. omnomnom(<<Identifiers>>) /\ Running("unary") /\ Goto("postfix", <<peek>>)
    BY <1>7 DEF Var
  <2>2. next' \in 0..Len(input) /\ status' = status /\ error' = error /\ peek \in Kind
    BY <1>1, <1>2, <2>1, ConsumedOne
  <2>3. <<peek>> \in Trees(F)
    BY <2>2, KindsAreSymbols
  <2> QED
    BY <1>5, <2>1, <2>2, <2>3, GotoKeeps DEF Running
<1>8. ASSUME ThisMethodInvocation PROVE Inv(F)'
  <2>1. /\ Running("unary")
        /\ Arguments(<<"ThisMethodInvocation">>, <<Identifiers, {"("}>>)
    BY <1>8 DEF ThisMethodInvocation
  <2>2. <<"ThisMethodInvocation">> \in Trees(F)
    BY <1>1, <1>2, NodesAreExpr
  <2>3. <<Identifiers, {"("}>> \in Seq(SUBSET Kind)
    BY <1>2, Wanted
  <2> QED
    BY <2>1, <2>2, <2>3, ArgumentsKeep DEF Running
<1>9. ASSUME Parenthesis PROVE Inv(F)'
  <2>1. omnomnom(<<{"("}>>) /\ Running("unary") /\ Call("parenthesis", <<>>)
    BY <1>9 DEF Parenthesis
  <2>2. next' \in 0..Len(input) /\ status' = status /\ error' = error
    BY <1>1, <1>2, <2>1, ConsumedOne
  <2>3. <<>> \in Trees(F)
    BY ExprClosed
  <2> QED
    BY <1>5, <2>1, <2>2, <2>3, CallKeeps DEF Running
<1>10. ASSUME NoPrimary PROVE Inv(F)'
  <2>1. Unexpected(<<Literals \cup Identifiers \cup {"(", "new"}>>)
    BY <1>10 DEF NoPrimary
  <2>2. <<Literals \cup Identifiers \cup {"(", "new"}>> \in Seq(SUBSET Kind)
    BY <1>2, Wanted
  <2> QED
    BY <2>1, <2>2, UnexpectedKeeps
<1>11. ASSUME New PROVE Inv(F)'
  <2>1. omnomnom(<<{"new"}>>) /\ Running("unary") /\ Goto("new", <<>>)
    BY <1>11 DEF New
  <2>2. next' \in 0..Len(input) /\ status' = status /\ error' = error
    BY <1>1, <1>2, <2>1, ConsumedOne
  <2>3. <<>> \in Trees(F)
    BY ExprClosed
  <2> QED
    BY <1>5, <2>1, <2>2, <2>3, GotoKeeps DEF Running
<1>12. ASSUME NewObject PROVE Inv(F)'
  <2>1. omnomnom(NewObjectTokens) /\ Running("new") /\ Goto("postfix", <<"NewObject">>)
    BY <1>12 DEF NewObject
  <2>2. next' \in 0..Len(input) /\ status' = status /\ error' = error
    BY <1>1, <1>4, <2>1, Consumed
  <2>3. <<"NewObject">> \in Trees(F)
    BY <1>1, <1>2, NodesAreExpr
  <2> QED
    BY <1>5, <2>1, <2>2, <2>3, GotoKeeps DEF Running
<1>13. ASSUME NewArrayOf PROVE Inv(F)'
  <2>1. omnomnom(NewArrayTokens) /\ Running("new") /\ Call("size", NewArray(peek))
    BY <1>13 DEF NewArrayOf
  <2>2. /\ next' \in 0..Len(input) /\ status' = status /\ error' = error
        /\ \A i \in 1..Len(NewArrayTokens) : token(next + i) \in NewArrayTokens[i]
    BY <1>1, <1>4, <2>1, Consumed
  <2>3. Len(NewArrayTokens) = 2 /\ NewArrayTokens[1] = BasicTypes
    BY DEF NewArrayTokens
  <2>4. peek \in Kind
    <3>1. token(next + 1) \in BasicTypes
      BY <2>2, <2>3
    <3>2. next + 1 + 0 = next + 1
      BY <1>1
    <3> QED
      BY <1>2, <3>1, <3>2 DEF peek, peek_nth
  <2>5. NewArray(peek) \in Trees(F)
    BY <1>1, <2>4, NodesAreExpr
  <2> QED
    BY <1>5, <2>1, <2>2, <2>5, CallKeeps DEF Running
<1>14. ASSUME NewTypeAtEnd PROVE Inv(F)'
  <2>1. Len(input) + 1 \in 1..(Len(input) + 1)
    BY <1>1
  <2> QED
    BY <1>14, <2>1, RejectKeeps DEF NewTypeAtEnd
<1>15. ASSUME NewUnexpected PROVE Inv(F)'
  BY <1>4, <1>15, UnexpectedKeeps DEF NewUnexpected
<1>16. ASSUME NewArrayDimension PROVE Inv(F)'
  <2>1. /\ omnomnom(<<{"["}, {"]"}>>) /\ Running("dimensions")
        /\ Goto("dimensions", <<"ArrayOf">> \o expr)
    BY <1>16 DEF NewArrayDimension
  <2>2. <<{"["}, {"]"}>> \in Seq(SUBSET Kind)
    BY <1>2, Wanted
  <2>3. next' \in 0..Len(input) /\ status' = status /\ error' = error
    BY <1>1, <2>1, <2>2, Consumed
  <2>4. <<"ArrayOf">> \o expr \in Trees(F)
    BY <1>1, <1>2, NodesAreExpr
  <2> QED
    BY <1>5, <2>1, <2>3, <2>4, GotoKeeps DEF Running
<1>17. ASSUME NewArrayDone PROVE Inv(F)'
  <2>1. Running("dimensions") /\ Goto("postfix", expr)
    BY <1>17 DEF NewArrayDone
  <2>2. next' = next /\ status' = status /\ error' = error
    BY <1>17 DEF NewArrayDone, outcome
  <2> QED
    BY <1>1, <1>5, <2>1, <2>2, GotoKeeps DEF Running
<1>18. ASSUME NewArrayAtEnd PROVE Inv(F)'
  <2>1. token(next + 1) \in Kind
    <3>1. peek = "[" /\ next + 1 + 0 = next + 1
      BY <1>1, <1>18 DEF NewArrayAtEnd
    <3> QED
      BY <1>2, <3>1 DEF peek, peek_nth
  <2>2. next + 1 \in 1..Len(input)
    BY <1>1, <2>1, TokenWithin
  <2>3. next + 2 \in 1..(Len(input) + 1)
    BY <1>1, <2>2
  <2> QED
    BY <1>18, <2>3, RejectKeeps DEF NewArrayAtEnd
<1> QED
  BY <1>6, <1>7, <1>8, <1>9, <1>10, <1>11, <1>12, <1>13, <1>14, <1>15, <1>16, <1>17, <1>18
     DEF Primary

LEMMA PostfixKeeps ==
    ASSUME NEW F, Includes(F), Inv(F), Postfix
    PROVE  Inv(F)'
<1>1. Typed(F) /\ expr \in Trees(F) /\ next \in 0..Len(input)
  BY DEF Inv, Typed
<1>2. /\ Identifiers \in SUBSET Kind /\ {"("} \in SUBSET Kind
      /\ {"["} \in SUBSET Kind /\ {"."} \in SUBSET Kind
      /\ "identifier" \in Kind /\ "String" \in Kind
  BY DEF Kind, BasicTypes, Identifiers
<1>3. <<{"."}, Identifiers>> \in Seq(SUBSET Kind)
        /\ <<{"."}, Identifiers, {"("}>> \in Seq(SUBSET Kind)
  BY <1>2, Wanted
<1>4. /\ "postfix" \in F.places /\ "apply" \in F.places /\ "index" \in F.waits
      /\ "postfix" \notin HasOperand /\ "apply" \notin HasOperand
  BY DEF Places, HasOperand, Waiting, Includes
<1>5. ASSUME MethodInvocation PROVE Inv(F)'
  <2>1. <<"MethodInvocation">> \o expr \in Trees(F)
    BY <1>1, <1>2, NodesAreExpr
  <2> QED
    BY <1>3, <1>5, <2>1, ArgumentsKeep DEF MethodInvocation, Running
<1>6. ASSUME MemberReference PROVE Inv(F)'
  <2>1. /\ omnomnom(<<{"."}, Identifiers>>) /\ Running("postfix")
        /\ Goto("postfix", FieldAccess(expr))
    BY <1>6 DEF MemberReference
  <2>2. next' \in 0..Len(input) /\ status' = status /\ error' = error
    BY <1>1, <1>3, <2>1, Consumed
  <2>3. FieldAccess(expr) \in Trees(F)
    BY <1>1, <1>2, NodesAreExpr
  <2> QED
    BY <1>4, <2>1, <2>2, <2>3, GotoKeeps DEF Running
<1>7. ASSUME NoMember PROVE Inv(F)'
  BY <1>3, <1>7, UnexpectedKeeps DEF NoMember
<1>8. ASSUME Index PROVE Inv(F)'
  <2>1. omnomnom(<<{"["}>>) /\ Running("postfix") /\ Call("index", expr)
    BY <1>8 DEF Index
  <2>2. next' \in 0..Len(input) /\ status' = status /\ error' = error
    BY <1>1, <1>2, <2>1, ConsumedOne
  <2> QED
    BY <1>1, <1>4, <2>1, <2>2, CallKeeps DEF Running
<1>9. ASSUME EndOfPostfix PROVE Inv(F)'
  <2>1. Running("postfix") /\ Goto("apply", expr)
    BY <1>9 DEF EndOfPostfix
  <2>2. next' = next /\ status' = status /\ error' = error
    BY <1>9 DEF EndOfPostfix, outcome
  <2> QED
    BY <1>1, <1>4, <2>1, <2>2, GotoKeeps DEF Running
<1> QED
  BY <1>5, <1>6, <1>7, <1>8, <1>9 DEF Postfix

LEMMA ReturnsKeep ==
    ASSUME NEW F, Includes(F), Inv(F), Returns
    PROVE  Inv(F)'
<1>1. /\ Typed(F) /\ expr \in Trees(F) /\ next \in 0..Len(input) /\ callers \in Seq(Activation(F))
      /\ next \in Nat /\ Len(callers) \in Nat
  BY LenProperties DEF Inv, Typed
<1>2. /\ {")"} \in SUBSET Kind /\ {"]"} \in SUBSET Kind /\ {";"} \in SUBSET Kind
      /\ {","} \in SUBSET Kind /\ {",", ")"} \in SUBSET Kind /\ ")" \in Kind
      /\ ";" \in Kind
  BY DEF Kind
<1>3. \A x, y \in Trees(F) : x \o y \in Trees(F)
  BY ExprClosed
<1>4. ASSUME callers # <<>>
      PROVE  /\ caller \in Activation(F) /\ caller.expr \in Trees(F)
             /\ Len(callers) \in 1..Len(callers)
  <2>1. Len(callers) \in 1..Len(callers)
    BY <1>1, <1>4, EmptySeq
  <2>2. caller \in Activation(F)
    BY <1>1, <2>1, ElementOfSeq DEF caller
  <2> QED
    BY <2>1, <2>2 DEF Activation
<1>4a. /\ "postfix" \in F.places /\ "dimensions" \in F.places
      /\ "postfix" \notin HasOperand /\ "dimensions" \notin HasOperand
  BY DEF Includes, Places, HasOperand
<1>5. ASSUME ParenthesisReturns PROVE Inv(F)'
  <2>1. /\ omnomnom(<<{")"}>>) /\ status = "parsing" /\ callers # <<>>
        /\ Return("postfix", expr)
    BY <1>5 DEF ParenthesisReturns, ReturnsTo, Running
  <2>2. next' \in 0..Len(input) /\ status' = status /\ error' = error
    BY <1>1, <1>2, <2>1, ConsumedOne
  <2> QED
    BY <1>1, <2>1, <2>2, <1>4a, ReturnKeeps
<1>6. ASSUME IndexReturns PROVE Inv(F)'
  <2>1. /\ omnomnom(<<{"]"}>>) /\ status = "parsing" /\ callers # <<>>
        /\ Return("postfix", ArrayAccess(caller.expr, expr))
    BY <1>6 DEF IndexReturns, ReturnsTo, Running
  <2>2. next' \in 0..Len(input) /\ status' = status /\ error' = error
    BY <1>1, <1>2, <2>1, ConsumedOne
  <2>3. ArrayAccess(caller.expr, expr) \in Trees(F)
    BY <1>1, <1>2, <1>4, <2>1, NodesAreExpr
  <2> QED
    BY <2>1, <2>2, <2>3, <1>4a, ReturnKeeps
<1>7. ASSUME SizeReturns PROVE Inv(F)'
  <2>1. /\ omnomnom(<<{"]"}>>) /\ status = "parsing" /\ callers # <<>>
        /\ Return("dimensions", caller.expr \o expr)
    BY <1>7 DEF SizeReturns, ReturnsTo, Running
  <2>2. next' \in 0..Len(input) /\ status' = status /\ error' = error
    BY <1>1, <1>2, <2>1, ConsumedOne
  <2>3. caller.expr \o expr \in Trees(F)
    BY <1>1, <1>3, <1>4, <2>1
  <2> QED
    BY <2>1, <2>2, <2>3, <1>4a, ReturnKeeps
<1>8. ASSUME ArgumentsReturn PROVE Inv(F)'
  <2>1. /\ omnomnom(<<{")"}>>) /\ status = "parsing" /\ callers # <<>>
        /\ Return("postfix", Append(caller.expr \o expr, ")"))
    BY <1>8 DEF ArgumentsReturn, ReturnsTo, Running
  <2>2. next' \in 0..Len(input) /\ status' = status /\ error' = error
    BY <1>1, <1>2, <2>1, ConsumedOne
  <2>3. caller.expr \o expr \in Trees(F)
    BY <1>1, <1>3, <1>4, <2>1
  <2>4. Append(caller.expr \o expr, ")") \in Trees(F)
    BY <1>2, <2>3, KindsAreSymbols
  <2> QED
    BY <2>1, <2>2, <2>4, <1>4a, ReturnKeeps
<1>9. ASSUME NextArgument PROVE Inv(F)'
  <2> DEFINE c == [caller EXCEPT !.start = next', !.expr = caller.expr \o expr]
             n == Len(callers)
  <2>1. /\ omnomnom(<<{","}>>) /\ status = "parsing" /\ at = "return" /\ callers # <<>>
        /\ callers' = [callers EXCEPT ![n] = c]
        /\ at' = "unary" /\ operand_stack' = <<>> /\ expr' = <<>>
        /\ UNCHANGED <<input, operator_stack, ops, op>>
    BY <1>9 DEF NextArgument, ReturnsTo, Running
  <2>2. next' \in 0..Len(input) /\ status' = status /\ error' = error
    BY <1>1, <1>2, <2>1, ConsumedOne
  <2>3. caller \in Activation(F) /\ n \in 1..n /\ caller = callers[n]
    BY <1>4, <2>1 DEF caller
  <2>4. caller.expr \o expr \in Trees(F)
    BY <1>1, <1>3, <1>4, <2>1
  <2>11. next' \in Nat
    BY <1>1, <2>2, LenProperties DEF Typed
  <2>5. /\ c \in Activation(F) /\ c.operand_stack = caller.operand_stack
        /\ c.operator_stack = caller.operator_stack
    BY <2>3, <2>4, <2>11 DEF Activation
  <2> HIDE DEF c
  <2>6. /\ callers' \in Seq(Activation(F)) /\ Len(callers') = n
        /\ \A i \in 1..n : callers'[i] = IF i = n THEN c ELSE callers[i]
    <3>1. callers' = [callers EXCEPT ![n] = c]
      BY <2>1
    <3>2. callers \in Seq(Activation(F)) /\ n \in 1..Len(callers) /\ c \in Activation(F)
      BY <1>1, <2>3, <2>5
    <3> HIDE DEF n
    <3>3. /\ callers' \in Seq(Activation(F)) /\ Len(callers') = Len(callers)
          /\ \A i \in 1..Len(callers) : callers'[i] = IF i = n THEN c ELSE callers[i]
      BY ONLY <3>1, <3>2
    <3> QED
      BY <3>3 DEF n
  <2>7. /\ operand_stack' \in Seq(Trees(F)) /\ expr' \in Trees(F) /\ Len(operand_stack') = 0
    BY <2>1, EmptySeq, ExprClosed, Zenon
  <2>8. Typed(F)'
    BY <2>1, <2>2, <2>6, <2>7 DEF Inv, Typed, Places, Includes
  <2>9. StackInv'
    <3>1. ASSUME NEW i \in 1..n
          PROVE  Len(callers'[i].operand_stack) = Len(callers'[i].operator_stack)
      BY <2>3, <2>5, <2>6 DEF Inv, StackInv
    <3>2. Len(operator_stack) = 0
      BY <2>1 DEF Inv, StackInv
    <3> QED
      BY <2>1, <2>2, <2>6, <2>7, <3>1, <3>2 DEF Inv, StackInv, HasOperand
  <2>10. PrecedenceInv'
    <3>1. ASSUME NEW i \in 1..n PROVE callers'[i].operator_stack = callers[i].operator_stack
      BY <2>3, <2>5, <2>6
    <3> QED
      BY <2>1, <2>6, <3>1 DEF Inv, PrecedenceInv, Climbing
  <2> QED
    BY <2>8, <2>9, <2>10 DEF Inv
<1>10. ASSUME Accept PROVE Inv(F)'
  <2>1. token(next + 1) \in Kind
    <3>1. peek = ";"
      BY <1>10, Zenon DEF Accept
    <3>2. next + 1 + 0 = next + 1
      BY <1>1
    <3> QED
      BY <1>2, <3>1, <3>2 DEF peek, peek_nth
  <2>2. next + 1 \in 0..Len(input)
    BY <1>1, <2>1, TokenWithin
  <2>3. /\ next' = next + 1 /\ status' = "accepted"
        /\ UNCHANGED <<input, callers, at, operand_stack, operator_stack, ops, expr, op, error>>
    BY <1>10 DEF Accept, stacks
  <2> QED
    BY <2>2, <2>3 DEF Inv, Typed, StackInv, PrecedenceInv, Climbing
<1>11. ASSUME NoEndOfExpression PROVE Inv(F)'
  <2>1. <<{";"}>> \in Seq(SUBSET Kind) /\ <<{")"}>> \in Seq(SUBSET Kind)
          /\ <<{",", ")"}>> \in Seq(SUBSET Kind) /\ <<{"]"}>> \in Seq(SUBSET Kind)
    BY <1>2, Wanted
  <2>2. callers # <<>> => caller.at \in Waiting
    BY <1>11 DEF NoEndOfExpression
  <2>3. \/ Unexpected(<<{";"}>>) \/ Unexpected(<<{")"}>>)
        \/ Unexpected(<<{",", ")"}>>) \/ Unexpected(<<{"]"}>>)
    BY <1>11, <2>2, Zenon DEF NoEndOfExpression, Waiting
  <2> QED
    BY <2>1, <2>3, UnexpectedKeeps
<1> QED
  BY <1>5, <1>6, <1>7, <1>8, <1>9, <1>10, <1>11 DEF Returns

LEMMA StepInv ==
    ASSUME NEW F, Includes(F)
    PROVE  Inv(F) /\ [Next]_vars => Inv(F)'
<1> SUFFICES ASSUME Inv(F), [Next]_vars PROVE Inv(F)'
  OBVIOUS
<1>1. CASE Next
  BY <1>1, UnaryKeeps, PrimaryKeeps, PostfixKeeps, BinaryKeeps, ReturnsKeep DEF Next
<1>2. CASE UNCHANGED vars
  <2>1. UNCHANGED <<input, next, callers, at, operand_stack, operator_stack, ops, expr, op,
                    status, error>>
    BY <1>2 DEF vars, stacks, outcome
  <2> QED
    BY <2>1 DEF Inv, Typed, StackInv, PrecedenceInv, Climbing
<1> QED
  BY <1>1, <1>2

LEMMA ExpressionsInv == Spec => []Inv(ExpressionFunctions)
<1>1. Includes(ExpressionFunctions)
  BY DEF Includes, ExpressionFunctions
<1>2. Inv(ExpressionFunctions) /\ [Next]_vars => Inv(ExpressionFunctions)'
  BY <1>1, StepInv
<1> QED
  BY InitInv, <1>2, PTL DEF Spec

-----------------------------------------------------------------------------
(***************************************************************************)
(* The locals of every activation stay what they are declared as, and no   *)
(* token is consumed beyond the end of the file.                           *)
(***************************************************************************)
THEOREM ParserTypeOK == Spec => []TypeOK
<1>1. Inv(ExpressionFunctions) => TypeOK
  BY DEF Inv, TypeOK
<1> QED
  BY ExpressionsInv, <1>1, PTL DEF Spec

(***************************************************************************)
(* Neither assert!(operand_stack.len() >= 2) nor the final assert_eq! can  *)
(* fail (parser.rs:548, 586).                                              *)
(***************************************************************************)
THEOREM ParserAssertionsHold == Spec => []AssertionsHold
<1>1. Inv(ExpressionFunctions) => AssertionsHold
  BY DEF Inv, StackInv, AssertionsHold
<1> QED
  BY ExpressionsInv, <1>1, PTL DEF Spec

(***************************************************************************)
(* The deferred operators bind ever tighter (parser.rs:568-577).           *)
(***************************************************************************)
THEOREM ParserPrecedence == Spec => []PrecedenceInv
<1>1. Inv(ExpressionFunctions) => PrecedenceInv
  BY DEF Inv
<1> QED
  BY ExpressionsInv, <1>1, PTL DEF Spec

-----------------------------------------------------------------------------
(***************************************************************************)
(* Progress: whatever parse_expression returns is made of at least one     *)
(* token, and every nested call has a token in front of it that the call   *)
(* around it has consumed.  ProgressInv speaks of activations that return; *)
(* what makes it inductive is that only an activation at a fresh place     *)
(* may have consumed nothing yet, and that none goes back to such a place  *)
(* without a token.  A call begins d tokens behind the one around it.      *)
(***************************************************************************)
\* began(i) for any call stack.
From(stack, i) == IF i = 0 THEN 0 ELSE stack[i].start

Progress(fresh, d) ==
    /\ \A i \in 1..Len(callers) : From(callers, i - 1) + d <= From(callers, i)
    /\ From(callers, Len(callers)) <= next
    /\ at \notin fresh => From(callers, Len(callers)) < next

(***************************************************************************)
(* Each step does one of four things to the call stack.                    *)
(***************************************************************************)
Stays(fresh) == /\ callers' = callers
                /\ next' >= next
                /\ at' \in fresh \/ at \notin fresh \/ next' > next

Calls(fresh, d) == /\ next' >= next + d
                   /\ at' \in fresh
                   /\ \E c : /\ c.start = next' /\ (at \in Places => c.at \in Waiting)
                             /\ callers' = Append(callers, c)

ReturnsFrom == /\ callers # <<>>
               /\ next' >= next
               /\ From(callers, Len(callers)) < next'
               /\ callers' = SubSeq(callers, 1, Len(callers) - 1)

CallsAgain(fresh, d) == /\ callers # <<>>
                        /\ next' >= next + d
                        /\ at' \in fresh
                        /\ \E c : /\ c.start = next' /\ c.at = caller.at
                                  /\ callers' = [callers EXCEPT ![Len(callers)] = c]

LEMMA StartsAreNat ==
    ASSUME NEW F, Typed(F)
    PROVE  /\ Len(callers) \in Nat /\ next \in Nat
           /\ \A i \in 1..Len(callers) : callers[i].start \in Nat
           /\ \A i \in 0..Len(callers) : From(callers, i) \in Nat
           /\ callers # <<>> => Len(callers) >= 1
<1>1. callers \in Seq(Activation(F)) /\ Len(callers) \in Nat /\ next \in Nat
  BY LenProperties DEF Typed
<1>2. ASSUME NEW i \in 1..Len(callers) PROVE callers[i].start \in Nat
  <2>1. callers[i] \in Activation(F)
    BY <1>1, ElementOfSeq
  <2> QED
    BY <2>1 DEF Activation
<1>3. callers # <<>> => Len(callers) >= 1
  BY <1>1, EmptySeq
<1> QED
  BY <1>1, <1>2, <1>3 DEF From

LEMMA StaysProgress ==
    ASSUME NEW F, NEW fresh, NEW d \in {0, 1}, Typed(F), Typed(F)', Progress(fresh, d), Stays(fresh)
    PROVE  Progress(fresh, d)'
<1>1. /\ Len(callers) \in Nat /\ next \in Nat /\ next' \in Nat
      /\ \A i \in 0..Len(callers) : From(callers, i) \in Nat
  <2>1. Len(callers) \in Nat /\ next \in Nat /\ \A i \in 0..Len(callers) : From(callers, i) \in Nat
    BY StartsAreNat
  <2>2. next' \in Nat
    BY LenProperties DEF Typed
  <2> QED
    BY <2>1, <2>2
<1>2. /\ Len(callers') = Len(callers)
      /\ \A i \in 0..Len(callers) : From(callers', i) = From(callers, i)
  BY DEF Stays, From
<1>3. \A i \in 1..Len(callers') : From(callers', i - 1) + d <= From(callers', i)
  BY <1>2 DEF Progress
<1>4. /\ From(callers', Len(callers')) <= next'
      /\ at' \notin fresh => From(callers', Len(callers')) < next'
  BY <1>1, <1>2 DEF Progress, Stays
<1> QED
  BY <1>3, <1>4 DEF Progress

LEMMA AppendAny ==
    ASSUME NEW S, NEW s \in Seq(S), NEW c
    PROVE  /\ Len(Append(s, c)) = Len(s) + 1
           /\ \A i \in 1..Len(s) : Append(s, c)[i] = s[i]
           /\ Append(s, c)[Len(s) + 1] = c
<1> DEFINE T == S \cup {c}
<1>1. c \in T /\ s \in Seq(T)
  OBVIOUS
<1> HIDE DEF T
<1> QED
  BY <1>1, AppendProperties

LEMMA CallsProgress ==
    ASSUME NEW F, NEW fresh, NEW d \in {0, 1}, Typed(F), Typed(F)',
           Progress(fresh, d), Calls(fresh, d)
    PROVE  Progress(fresh, d)'
<1>1. /\ Len(callers) \in Nat /\ next \in Nat /\ callers \in Seq(Activation(F))
      /\ \A i \in 0..Len(callers) : From(callers, i) \in Nat
  BY StartsAreNat DEF Typed
<1>2. PICK c : c.start = next' /\ callers' = Append(callers, c)
  BY DEF Calls
<1>3. /\ Len(callers') = Len(callers) + 1
      /\ \A i \in 1..Len(callers) : callers'[i] = callers[i]
      /\ callers'[Len(callers) + 1] = c
  BY <1>1, <1>2, AppendAny
<1>4. \A i \in 0..Len(callers) : From(callers', i) = From(callers, i)
  BY <1>1, <1>3 DEF From
<1>5. From(callers', Len(callers) + 1) = next'
  BY <1>1, <1>2, <1>3 DEF From
<1>6. next' >= next + d /\ at' \in fresh
  BY DEF Calls
<1>7. ASSUME NEW i \in 1..Len(callers')
      PROVE  From(callers', i - 1) + d <= From(callers', i)
  <2>1. CASE i \in 1..Len(callers)
    BY <1>1, <1>4, <2>1 DEF Progress
  <2>2. CASE i = Len(callers) + 1
    <3>1. From(callers', i - 1) = From(callers, Len(callers)) /\ From(callers', i) = next'
      BY <1>1, <1>4, <1>5, <2>2
    <3>2. From(callers, Len(callers)) \in Nat /\ From(callers, Len(callers)) <= next
      BY <1>1 DEF Progress
    <3>3. next' \in Nat
      BY LenProperties DEF Typed
    <3> QED
      BY <1>1, <1>6, <3>1, <3>2, <3>3
  <2> QED
    BY <1>1, <1>3, <2>1, <2>2
<1>8. From(callers', Len(callers')) <= next'
  <2>1. next' \in Nat
    BY LenProperties DEF Typed
  <2> QED
    BY <1>3, <1>5, <2>1
<1> QED
  BY <1>6, <1>7, <1>8 DEF Progress

LEMMA ReturnsProgress ==
    ASSUME NEW F, NEW fresh, NEW d \in {0, 1}, Typed(F), Typed(F)', Progress(fresh, d), ReturnsFrom
    PROVE  Progress(fresh, d)'
<1> DEFINE n == Len(callers)
<1>1. /\ n \in Nat /\ n >= 1 /\ next \in Nat /\ next' \in Nat /\ callers \in Seq(Activation(F))
      /\ \A i \in 0..n : From(callers, i) \in Nat
  <2>1. /\ Len(callers) \in Nat /\ next \in Nat /\ \A i \in 0..Len(callers) : From(callers, i) \in Nat
        /\ callers # <<>> => Len(callers) >= 1
    BY StartsAreNat
  <2>2. next' \in Nat /\ callers \in Seq(Activation(F)) /\ callers # <<>>
    BY LenProperties DEF Typed, ReturnsFrom
  <2> QED
    BY <2>1, <2>2
<1>2. n - 1 \in 0..Len(callers)
  BY <1>1
<1>3. Len(callers') = n - 1 /\ \A i \in 1..(n - 1) : callers'[i] = callers[i]
  BY <1>1, <1>2, Popped DEF ReturnsFrom
<1>4. \A i \in 0..(n - 1) : From(callers', i) = From(callers, i)
  BY <1>1, <1>3 DEF From
<1>5. \A i \in 1..Len(callers') : From(callers', i - 1) + d <= From(callers', i)
  BY <1>1, <1>3, <1>4 DEF Progress
<1>6. From(callers, n - 1) + d <= From(callers, n) /\ From(callers, n) < next'
  BY <1>1 DEF Progress, ReturnsFrom
<1>7. From(callers', Len(callers')) = From(callers, n - 1)
  BY <1>1, <1>3, <1>4
<1>8. From(callers, n - 1) \in Nat /\ From(callers, n) \in Nat
  BY <1>1
<1>9. From(callers, n - 1) < next'
  BY <1>1, <1>6, <1>8
<1> QED
  BY <1>1, <1>5, <1>7, <1>8, <1>9 DEF Progress

LEMMA CallsAgainProgress ==
    ASSUME NEW F, NEW fresh, NEW d \in {0, 1}, Typed(F), Typed(F)',
           Progress(fresh, d), CallsAgain(fresh, d)
    PROVE  Progress(fresh, d)'
<1> DEFINE n == Len(callers)
<1>1. /\ n \in Nat /\ n >= 1 /\ next \in Nat /\ callers \in Seq(Activation(F))
      /\ \A i \in 0..n : From(callers, i) \in Nat
  BY StartsAreNat DEF Typed, CallsAgain
<1>2. PICK c : c.start = next' /\ callers' = [callers EXCEPT ![n] = c]
  BY DEF CallsAgain
<1>3. /\ Len(callers') = n
      /\ \A i \in 1..n : callers'[i] = IF i = n THEN c ELSE callers[i]
  BY <1>1, <1>2
<1>4. /\ \A i \in 0..(n - 1) : From(callers', i) = From(callers, i)
      /\ From(callers', n) = next'
  <2>1. c.start = next'
    BY <1>2
  <2>2. n \in 1..n /\ n # 0 /\ \A i \in 0..(n - 1) : i # n /\ (i = 0 \/ i \in 1..n)
    BY <1>1
  <2>3. callers'[n] = c /\ \A i \in 1..n : i # n => callers'[i] = callers[i]
    BY <1>3, <2>2
  <2> HIDE DEF n
  <2> QED
    BY <2>1, <2>2, <2>3 DEF From
<1>5. next' \in Nat /\ next' >= next + d /\ at' \in fresh
  BY LenProperties DEF Typed, CallsAgain
<1>6. /\ From(callers, n - 1) + d <= From(callers, n) /\ From(callers, n) <= next
      /\ From(callers, n - 1) \in Nat /\ From(callers, n) \in Nat
  BY <1>1 DEF Progress
<1>7. ASSUME NEW i \in 1..Len(callers')
      PROVE  From(callers', i - 1) + d <= From(callers', i)
  <2>1. CASE i = n
    BY <1>1, <1>4, <1>5, <1>6, <2>1
  <2>2. CASE i # n
    <3>1. i \in 1..n /\ i \in 0..(n - 1) /\ i - 1 \in 0..(n - 1)
      BY <1>1, <1>3, <2>2
    <3> QED
      BY <1>4, <3>1 DEF Progress
  <2> QED
    BY <2>1, <2>2
<1>8. From(callers', Len(callers')) <= next'
  BY <1>3, <1>4, <1>5
<1> QED
  BY <1>5, <1>7, <1>8 DEF Progress

-----------------------------------------------------------------------------
(***************************************************************************)
(* What the pieces that handlers are made of do to the call stack.         *)
(***************************************************************************)
LEMMA Eaten ==
    ASSUME NEW F, Typed(F)
    PROVE  /\ \A A : omnomnom(<<A>>) => next' = next + 1 /\ next' > next
           /\ \A A, B : omnomnom(<<A, B>>) => next' = next + 2 /\ next' > next
<1>1. next \in Nat
  BY DEF Typed
<1>2. ASSUME NEW A, omnomnom(<<A>>) PROVE next' = next + 1
  BY <1>2 DEF omnomnom
<1>3. ASSUME NEW A, NEW B, omnomnom(<<A, B>>) PROVE next' = next + 2
  BY <1>3 DEF omnomnom
<1> QED
  BY <1>1, <1>2, <1>3

LEMMA GotoStays ==
    ASSUME NEW fresh, NEW to, NEW e, Goto(to, e), next' >= next,
           at \notin fresh \/ to \in fresh \/ next' > next
    PROVE  Stays(fresh)
  BY DEF Goto, Stays

LEMMA InvokeCalls ==
    ASSUME NEW fresh, NEW d, NEW to \in fresh, NEW from, NEW e, Invoke(to, from, e),
           next' >= next + d, at \in Places => from \in Waiting
    PROVE  Calls(fresh, d)
  BY DEF Invoke, Calls

LEMMA CallCalls ==
    ASSUME NEW fresh, NEW d \in {0, 1}, "unary" \in fresh, NEW from \in Waiting, NEW e,
           Call(from, e), next \in Nat, next' \in Nat, next' > next
    PROVE  Calls(fresh, d)
  BY DEF Call, Invoke, Calls

LEMMA ReturnReturns ==
    ASSUME NEW to, NEW e, callers # <<>>, Return(to, e), next' >= next,
           From(callers, Len(callers)) < next'
    PROVE  ReturnsFrom
  BY DEF Return, ReturnsFrom

LEMMA RejectStays ==
    ASSUME NEW F, NEW fresh, Typed(F), NEW k \in Nat, k >= next, Reject(k)
    PROVE  Stays(fresh)
<1>1. next \in Nat /\ Len(input) \in Nat
  BY LenProperties DEF Typed
<1> QED
  BY <1>1 DEF Reject, Stays

LEMMA UnexpectedStays ==
    ASSUME NEW F, NEW fresh, Typed(F), NEW wanted \in Seq(SUBSET Kind), Unexpected(wanted)
    PROVE  Stays(fresh)
<1>1. PICK i \in DOMAIN wanted : Reject(next + i)
  BY DEF Unexpected
<1>2. i \in Nat /\ next \in Nat
  BY LenProperties DEF Typed
<1> QED
  BY <1>1, <1>2, RejectStays

LEMMA ArgumentsSteps ==
    ASSUME NEW F, NEW fresh, NEW d \in {0, 1}, Places \cap fresh = {"unary"},
           Typed(F), Typed(F)', NEW callee, NEW upTo \in Seq(SUBSET Kind),
           Len(upTo) \in {2, 3}, Arguments(callee, upTo)
    PROVE  Stays(fresh) \/ Calls(fresh, d)
<1>1. /\ next \in Nat /\ next' \in Nat /\ "unary" \in fresh
      /\ Len(upTo) \in Nat /\ Len(Append(upTo, {")"})) = Len(upTo) + 1
  BY LenProperties, AppendAny DEF Typed
<1>2. CASE omnomnom(Append(upTo, {")"})) /\ Goto("postfix", Append(callee, ")"))
  <2>1. next' > next
    BY <1>1, <1>2 DEF omnomnom
  <2> QED
    BY <1>1, <1>2, <2>1, GotoStays DEF omnomnom
<1>3. CASE omnomnom(upTo) /\ Call("arguments", callee)
  <2>1. next' > next
    BY <1>1, <1>3 DEF omnomnom
  <2> QED
    BY <1>1, <1>3, <2>1, CallCalls DEF Waiting
<1> QED
  BY <1>2, <1>3 DEF Arguments

LEMMA TokenSets ==
    /\ BasicTypes \in SUBSET Kind /\ Identifiers \in SUBSET Kind
    /\ {"("} \in SUBSET Kind /\ {")"} \in SUBSET Kind /\ {"["} \in SUBSET Kind
    /\ {"]"} \in SUBSET Kind /\ {"."} \in SUBSET Kind /\ {";"} \in SUBSET Kind
    /\ {",", ")"} \in SUBSET Kind
    /\ Literals \cup Identifiers \cup {"(", "new"} \in SUBSET Kind
  BY DEF Kind, BasicTypes

-----------------------------------------------------------------------------
(***************************************************************************)
(* Every handler does one of the four.                                     *)
(***************************************************************************)
LEMMA PrimarySteps ==
    ASSUME NEW F, NEW fresh, NEW d \in {0, 1}, Places \cap fresh = {"unary"},
           Typed(F), Typed(F)', Primary
    PROVE  Stays(fresh) \/ Calls(fresh, d)
<1>1. /\ next \in Nat /\ next' \in Nat /\ Len(input) \in Nat /\ next <= Len(input)
      /\ "unary" \in fresh
  BY LenProperties DEF Typed
<1>2. /\ NewObjectTokens \in Seq(SUBSET Kind) /\ NewArrayTokens \in Seq(SUBSET Kind)
      /\ Len(NewArrayTokens) = 2 /\ Len(NewObjectTokens) = 3
  BY TokenSets, Wanted DEF NewObjectTokens, NewArrayTokens
<1>3. CASE Literal
  <2>1. Goto("postfix", <<peek>>) /\ next' > next
    BY <1>3, Eaten DEF Literal
  <2> QED
    BY <1>1, <2>1, GotoStays
<1>4. CASE Var
  <2>1. Goto("postfix", <<peek>>) /\ next' > next
    BY <1>4, Eaten DEF Var
  <2> QED
    BY <1>1, <2>1, GotoStays
<1>5. CASE ThisMethodInvocation
  <2>1. <<Identifiers, {"("}>> \in Seq(SUBSET Kind) /\ Len(<<Identifiers, {"("}>>) = 2
    BY TokenSets, Wanted
  <2> QED
    BY <1>5, <2>1, ArgumentsSteps DEF ThisMethodInvocation
<1>6. CASE Parenthesis
  <2>1. omnomnom(<<{"("}>>) /\ Call("parenthesis", <<>>)
    BY <1>6 DEF Parenthesis
  <2>2. next' > next
    BY <1>1, <2>1, Eaten
  <2> QED
    BY <1>1, <2>1, <2>2, CallCalls DEF Waiting
<1>7. CASE NoPrimary
  <2>1. <<Literals \cup Identifiers \cup {"(", "new"}>> \in Seq(SUBSET Kind)
    BY TokenSets, Wanted
  <2> QED
    BY <1>7, <2>1, UnexpectedStays DEF NoPrimary
<1>8. CASE New
  <2>1. Goto("new", <<>>) /\ next' > next
    BY <1>8, Eaten DEF New
  <2> QED
    BY <1>1, <2>1, GotoStays
<1>9. CASE NewObject
  <2>1. omnomnom(NewObjectTokens) /\ Goto("postfix", <<"NewObject">>)
    BY <1>9 DEF NewObject
  <2>2. next' > next
    BY <1>1, <1>2, <2>1 DEF omnomnom
  <2> QED
    BY <1>1, <1>2, <2>1, <2>2, GotoStays DEF omnomnom
<1>10. CASE NewArrayOf
  <2>1. omnomnom(NewArrayTokens) /\ Call("size", NewArray(peek))
    BY <1>10 DEF NewArrayOf
  <2>2. next' > next
    BY <1>1, <1>2, <2>1 DEF omnomnom
  <2> QED
    BY <1>1, <2>1, <2>2, CallCalls DEF Waiting
<1>11. CASE NewTypeAtEnd
  BY <1>1, <1>11, RejectStays DEF NewTypeAtEnd
<1>12. CASE NewUnexpected
  BY <1>2, <1>12, UnexpectedStays DEF NewUnexpected
<1>13. CASE NewArrayDimension
  <2>1. Goto("dimensions", <<"ArrayOf">> \o expr) /\ next' > next
    BY <1>13, Eaten DEF NewArrayDimension
  <2> QED
    BY <1>1, <2>1, GotoStays
<1>14. CASE NewArrayDone
  <2>1. Goto("postfix", expr) /\ next' >= next /\ at \notin fresh
    BY <1>1, <1>14 DEF NewArrayDone, Running, Places
  <2> QED
    BY <1>1, <2>1, GotoStays
<1>15. CASE NewArrayAtEnd
  BY <1>1, <1>15, RejectStays DEF NewArrayAtEnd
<1> QED
  BY <1>3, <1>4, <1>5, <1>6, <1>7, <1>8, <1>9, <1>10, <1>11, <1>12, <1>13, <1>14, <1>15
     DEF Primary

LEMMA PostfixSteps ==
    ASSUME NEW F, NEW fresh, NEW d \in {0, 1}, Places \cap fresh = {"unary"},
           Typed(F), Typed(F)', Postfix
    PROVE  Stays(fresh) \/ Calls(fresh, d)
<1>1. next \in Nat /\ next' \in Nat /\ "unary" \in fresh
  BY LenProperties DEF Typed
<1>2. /\ <<{"."}, Identifiers>> \in Seq(SUBSET Kind)
      /\ <<{"."}, Identifiers, {"("}>> \in Seq(SUBSET Kind)
      /\ Len(<<{"."}, Identifiers, {"("}>>) = 3
  BY TokenSets, Wanted
<1>3. CASE MethodInvocation
  BY <1>2, <1>3, ArgumentsSteps DEF MethodInvocation
<1>4. CASE MemberReference
  <2>1. Goto("postfix", FieldAccess(expr)) /\ next' > next
    BY <1>4, Eaten DEF MemberReference
  <2> QED
    BY <1>1, <2>1, GotoStays
<1>5. CASE NoMember
  BY <1>2, <1>5, UnexpectedStays DEF NoMember
<1>6. CASE Index
  <2>1. omnomnom(<<{"["}>>) /\ Call("index", expr)
    BY <1>6 DEF Index
  <2>2. next' > next
    BY <1>1, <2>1, Eaten
  <2> QED
    BY <1>1, <2>1, <2>2, CallCalls DEF Waiting
<1>7. CASE EndOfPostfix
  <2>1. Goto("apply", expr) /\ next' >= next /\ at \notin fresh
    BY <1>1, <1>7 DEF EndOfPostfix, Running, Places
  <2> QED
    BY <1>1, <2>1, GotoStays
<1> QED
  BY <1>3, <1>4, <1>5, <1>6, <1>7 DEF Postfix

LEMMA UnaryAndBinarySteps ==
    ASSUME NEW F, NEW fresh, Places \cap fresh = {"unary"},
           Typed(F), UnaryOp \/ ApplyUnary \/ BinaryExpression
    PROVE  Stays(fresh)
<1>1. next \in Nat
  BY LenProperties DEF Typed
<1>2. CASE UnaryOp
  BY <1>1, <1>2, Eaten DEF UnaryOp, Stays
<1>3. CASE ApplyUnary
  BY <1>1, <1>3 DEF ApplyUnary, Stays, Running, Places
<1>4. CASE PushOperand
  BY <1>1, <1>4 DEF PushOperand, Stays, Running, Places
<1>5. CASE TakeOperator
  BY <1>1, <1>5, Eaten DEF TakeOperator, Stays, Running, Places
<1>6. CASE Reduce \/ ConsumeRemaining
  <2>1. rpn_eval(top_op) /\ at \notin fresh
    BY <1>6 DEF Reduce, ConsumeRemaining, Running, Places
  <2>2. callers' = callers /\ next' = next
    BY <2>1, Zenon DEF rpn_eval, Panic
  <2> QED
    BY <1>1, <2>1, <2>2 DEF Stays
<1>7. CASE PushOperator
  BY <1>1, <1>7 DEF PushOperator, Stays
<1>8. CASE EndOfBinary
  <2>1. at \notin fresh
    BY <1>8 DEF EndOfBinary, Running, Places
  <2>2. CASE Panic
    BY <1>1, <2>1, <2>2 DEF Panic, Stays
  <2>3. CASE Goto("return", operand_stack[1]) /\ next' = next
    BY <1>1, <2>1, <2>3, GotoStays
  <2> QED
    BY <1>8, <2>2, <2>3 DEF EndOfBinary
<1> QED
  BY <1>2, <1>3, <1>4, <1>5, <1>6, <1>7, <1>8 DEF BinaryExpression

LEMMA ReturnsSteps ==
    ASSUME NEW F, NEW fresh, NEW d \in {0, 1}, Places \cap fresh = {"unary"},
           Typed(F), Typed(F)', Progress(fresh, d), Returns
    PROVE  Stays(fresh) \/ ReturnsFrom \/ CallsAgain(fresh, d)
<1>1. /\ next \in Nat /\ next' \in Nat /\ From(callers, Len(callers)) \in Nat
      /\ From(callers, Len(callers)) < next
  <2>1. next \in Nat /\ next' \in Nat /\ From(callers, Len(callers)) \in Nat
    <3>1. /\ Len(callers) \in Nat /\ next \in Nat
          /\ \A i \in 0..Len(callers) : From(callers, i) \in Nat
      BY StartsAreNat
    <3>2. next' \in Nat
      BY LenProperties DEF Typed
    <3> QED
      BY <3>1, <3>2
  <2>2. at = "return" /\ "return" \notin fresh
    BY DEF Returns, ParenthesisReturns, IndexReturns, SizeReturns, ArgumentsReturn, NextArgument,
           Accept, NoEndOfExpression, ReturnsTo, Running, Places
  <2> QED
    BY <2>1, <2>2 DEF Progress
<1>2. CASE ParenthesisReturns
  <2>1. omnomnom(<<{")"}>>) /\ callers # <<>> /\ Return("postfix", expr)
    BY <1>2 DEF ParenthesisReturns, ReturnsTo
  <2> QED
    BY <1>1, <2>1, Eaten, ReturnReturns
<1>3. CASE IndexReturns
  <2>1. omnomnom(<<{"]"}>>) /\ callers # <<>> /\ Return("postfix", ArrayAccess(caller.expr, expr))
    BY <1>3 DEF IndexReturns, ReturnsTo
  <2> QED
    BY <1>1, <2>1, Eaten, ReturnReturns
<1>4. CASE SizeReturns
  <2>1. omnomnom(<<{"]"}>>) /\ callers # <<>> /\ Return("dimensions", caller.expr \o expr)
    BY <1>4 DEF SizeReturns, ReturnsTo
  <2> QED
    BY <1>1, <2>1, Eaten, ReturnReturns
<1>5. CASE ArgumentsReturn
  <2>1. omnomnom(<<{")"}>>) /\ callers # <<>> /\ Return("postfix", Append(caller.expr \o expr, ")"))
    BY <1>5 DEF ArgumentsReturn, ReturnsTo
  <2> QED
    BY <1>1, <2>1, Eaten, ReturnReturns
<1>6. CASE NextArgument
  <2> DEFINE c == [caller EXCEPT !.start = next', !.expr = caller.expr \o expr]
  <2>1. /\ omnomnom(<<{","}>>) /\ callers # <<>> /\ at' \in fresh
        /\ callers' = [callers EXCEPT ![Len(callers)] = c]
    BY <1>6 DEF NextArgument, ReturnsTo
  <2>2. next' > next
    BY <2>1, Eaten
  <2>3. c.start = next' /\ c.at = caller.at
    <3>1. callers \in Seq(Activation(F)) /\ Len(callers) \in 1..Len(callers)
      <4>1. callers \in Seq(Activation(F))
        BY DEF Typed
      <4>2. Len(callers) \in Nat /\ Len(callers) >= 1
        BY <2>1, StartsAreNat
      <4> QED
        BY <4>1, <4>2
    <3>2. caller \in Activation(F)
      BY <3>1, ElementOfSeq DEF caller
    <3> QED
      BY <3>2 DEF Activation
  <2> HIDE DEF c
  <2>4. next' >= next + d
    BY <1>1, <2>2
  <2>5. at' \in fresh
    BY <2>1
  <2> QED
    BY <2>1, <2>3, <2>4, <2>5 DEF CallsAgain
<1>7. CASE Accept
  <2>1. callers' = callers /\ next' = next + 1
    BY <1>7 DEF Accept
  <2> QED
    BY <1>1, <2>1 DEF Stays
<1>8. CASE NoEndOfExpression
  <2>1. /\ <<{";"}>> \in Seq(SUBSET Kind) /\ <<{")"}>> \in Seq(SUBSET Kind)
        /\ <<{",", ")"}>> \in Seq(SUBSET Kind) /\ <<{"]"}>> \in Seq(SUBSET Kind)
    BY TokenSets, Wanted
  <2>2. \/ Unexpected(<<{";"}>>) \/ Unexpected(<<{")"}>>)
        \/ Unexpected(<<{",", ")"}>>) \/ Unexpected(<<{"]"}>>)
    BY <1>8, Zenon DEF NoEndOfExpression, Waiting
  <2> QED
    BY <2>1, <2>2, UnexpectedStays
<1> QED
  BY <1>2, <1>3, <1>4, <1>5, <1>6, <1>7, <1>8 DEF Returns

LEMMA NextSteps ==
    ASSUME NEW F, NEW fresh, NEW d \in {0, 1}, Places \cap fresh = {"unary"},
           Typed(F), Typed(F)', Progress(fresh, d), Next
    PROVE  Stays(fresh) \/ Calls(fresh, d) \/ ReturnsFrom \/ CallsAgain(fresh, d)
BY UnaryAndBinarySteps, PrimarySteps, PostfixSteps, ReturnsSteps DEF Next

LEMMA StepsProgress ==
    ASSUME NEW F, NEW fresh, NEW d \in {0, 1}, Typed(F), Typed(F)', Progress(fresh, d),
           Stays(fresh) \/ Calls(fresh, d) \/ ReturnsFrom \/ CallsAgain(fresh, d)
    PROVE  Progress(fresh, d)'
BY StaysProgress, CallsProgress, ReturnsProgress, CallsAgainProgress

(***************************************************************************)
(* No expression is empty, and no call is nested in another one without a  *)
(* token between their beginnings (parser.rs:177-183, 532-743).            *)
(***************************************************************************)
THEOREM ParserProgress == Spec => []ProgressInv
<1> DEFINE IProgress == Progress({"unary"}, 1)
<1>1. Init => IProgress
  <2> SUFFICES ASSUME Init PROVE IProgress
    OBVIOUS
  <2>1. Len(callers) = 0 /\ next = 0 /\ at = "unary"
    BY EmptySeq DEF Init
  <2> QED
    BY <2>1 DEF Progress, From
<1>2. /\ Inv(ExpressionFunctions) /\ Inv(ExpressionFunctions)' /\ IProgress /\ [Next]_vars
      => IProgress'
  <2> SUFFICES ASSUME Inv(ExpressionFunctions), Inv(ExpressionFunctions)', IProgress, [Next]_vars
               PROVE  IProgress'
    OBVIOUS
  <2>1. Typed(ExpressionFunctions) /\ Typed(ExpressionFunctions)'
    BY DEF Inv
  <2>2. CASE Next
    <3>1. Places \cap {"unary"} = {"unary"}
      BY DEF Places
    <3> QED
      BY <2>1, <2>2, <3>1, NextSteps, StepsProgress
  <2>3. CASE UNCHANGED vars
    BY <2>3 DEF vars, Progress
  <2> QED
    BY <2>2, <2>3
<1>3. Inv(ExpressionFunctions) /\ IProgress => ProgressInv
  <2> SUFFICES ASSUME Inv(ExpressionFunctions), IProgress PROVE ProgressInv
    OBVIOUS
  <2>1. \A i \in 0..Len(callers) : From(callers, i) \in Nat
    BY StartsAreNat DEF Inv
  <2> QED
    <3>1. Len(callers) \in Nat /\ next \in Nat
      BY StartsAreNat DEF Inv
    <3>2. \A i \in 0..Len(callers) : began(i) = From(callers, i)
      BY DEF began, From
    <3>3. /\ \A i \in 1..Len(callers) : From(callers, i - 1) + 1 <= From(callers, i)
          /\ at \notin {"unary"} => From(callers, Len(callers)) < next
      BY DEF Progress
    <3>4. ASSUME NEW i \in 1..Len(callers) PROVE began(i - 1) < began(i)
      <4>1. i - 1 \in 0..Len(callers) /\ i \in 0..Len(callers)
        BY <3>1
      <4> QED
        BY <2>1, <3>2, <3>3, <4>1
    <3>5. at = "return" => began(Len(callers)) < next
      BY <3>1, <3>2, <3>3
    <3> QED
      BY <3>4, <3>5 DEF ProgressInv
<1> HIDE DEF IProgress
<1> QED
  BY ExpressionsInv, <1>1, <1>2, <1>3, PTL DEF Spec

-----------------------------------------------------------------------------
(***************************************************************************)
(* Words: the tokens of t behind the first a, up to number b.              *)
(***************************************************************************)
Word(t, a, b) == SubSeq(t, a + 1, b)

LEMMA WordSeq ==
    ASSUME NEW S, NEW t \in Seq(S), NEW a \in Nat, NEW b \in a..Len(t)
    PROVE  Word(t, a, b) \in Seq(S) /\ Len(Word(t, a, b)) = b - a
<1>1. Len(t) \in Nat /\ a \in Int /\ b \in Int /\ a + 1 \in Int
  BY LenProperties
<1>2. \A i \in a + 1..b : t[i] \in S
  <2> TAKE i \in a + 1..b
  <2> QED
    BY <1>1, ElementOfSeq
<1>3. /\ SubSeq(t, a + 1, b) \in Seq(S)
      /\ Len(SubSeq(t, a + 1, b)) = IF a + 1 <= b THEN b - (a + 1) + 1 ELSE 0
  BY <1>1, <1>2, SubSeqProperties
<1> QED
  BY <1>1, <1>3 DEF Word

LEMMA WordEmpty ==
    ASSUME NEW t, NEW a \in Nat
    PROVE  Word(t, a, a) = <<>>
BY SubSeqEmpty DEF Word

LEMMA WordConcat ==
    ASSUME NEW S, NEW t \in Seq(S), NEW a \in Nat, NEW b \in a..Len(t), NEW c \in b..Len(t)
    PROVE  Word(t, a, b) \o Word(t, b, c) = Word(t, a, c)
<1>1. Len(t) \in Nat
  BY LenProperties
<1>2. a + 1 \in 1..Len(t) + 1 /\ b \in (a + 1) - 1..Len(t)
  BY <1>1
<1> QED
  BY <1>2, ConcatAdjacentSubSeq DEF Word

\* One to four tokens.
LEMMA WordOne ==
    ASSUME NEW S, NEW t \in Seq(S), NEW a \in Nat, a + 1 \in 1..Len(t)
    PROVE  Word(t, a, a + 1) = <<t[a + 1]>>
<1>1. Len(t) \in Nat
  BY LenProperties
<1>2. Word(t, a, a + 1) \in Seq(S) /\ Len(Word(t, a, a + 1)) = 1
  <2>1. a + 1 \in a..Len(t) /\ (a + 1) - a = 1
    BY <1>1
  <2> QED
    BY <2>1, WordSeq
<1>3. Word(t, a, a + 1)[1] = t[a + 1]
  <2> DEFINE k == a + 1
  <2>1. k \in Int /\ \A i \in k..k : t[i] \in S
    BY ElementOfSeq
  <2> HIDE DEF k
  <2>2. \A i \in 1..(k - k + 1) : SubSeq(t, k, k)[i] = t[k + i - 1]
    BY <2>1, SubSeqProperties
  <2>3. 1 \in 1..(k - k + 1) /\ k + 1 - 1 = k
    BY <2>1
  <2>4. SubSeq(t, k, k)[1] = t[k]
    BY <2>2, <2>3
  <2> QED
    BY <2>4 DEF Word, k
<1>4. t[a + 1] \in S
  BY ElementOfSeq
<1> DEFINE w == Word(t, a, a + 1)
<1> HIDE DEF w
<1>5. <<t[a + 1]>> \in Seq(S) /\ Len(<<t[a + 1]>>) = 1 /\ <<t[a + 1]>>[1] = t[a + 1]
  BY <1>4
<1>6. w \in Seq(S) /\ Len(w) = 1 /\ w[1] = t[a + 1]
  BY <1>2, <1>3 DEF w
<1> QED
  BY <1>5, <1>6, SeqEqual DEF w

LEMMA WordNext ==
    ASSUME NEW S, NEW t \in Seq(S), NEW a \in Nat, NEW b \in Nat, a <= b, b + 1 \in 1..Len(t)
    PROVE  Word(t, a, b + 1) = Word(t, a, b) \o <<t[b + 1]>>
<1>1. Len(t) \in Nat
  BY LenProperties
<1>2. b \in a..Len(t) /\ b + 1 \in b..Len(t)
  BY <1>1
<1>3. Word(t, a, b) \o Word(t, b, b + 1) = Word(t, a, b + 1)
  BY <1>2, WordConcat
<1> QED
  BY <1>3, WordOne

LEMMA WordMany ==
    ASSUME NEW S, NEW t \in Seq(S), NEW a \in Nat
    PROVE  /\ a + 2 \in 1..Len(t) => Word(t, a, a + 2) = <<t[a + 1], t[a + 2]>>
           /\ a + 3 \in 1..Len(t) => Word(t, a, a + 3) = <<t[a + 1], t[a + 2], t[a + 3]>>
           /\ a + 4 \in 1..Len(t) =>
                 Word(t, a, a + 4) = <<t[a + 1], t[a + 2], t[a + 3], t[a + 4]>>
<1>1. Len(t) \in Nat
  BY LenProperties
<1>2. ASSUME a + 2 \in 1..Len(t) PROVE Word(t, a, a + 2) = <<t[a + 1], t[a + 2]>>
  <2>1. a + 1 \in 1..Len(t) /\ (a + 1) + 1 \in 1..Len(t) /\ a + 1 \in Nat /\ a <= a + 1
    BY <1>1, <1>2
  <2>2. Word(t, a, (a + 1) + 1) = <<t[a + 1]>> \o <<t[(a + 1) + 1]>>
    BY <2>1, WordOne, WordNext
  <2>3. (a + 1) + 1 = a + 2
    OBVIOUS
  <2> QED
    BY <2>2, <2>3
<1>3. ASSUME a + 3 \in 1..Len(t) PROVE Word(t, a, a + 3) = <<t[a + 1], t[a + 2], t[a + 3]>>
  <2>1. a + 2 \in 1..Len(t) /\ (a + 2) + 1 \in 1..Len(t) /\ a + 2 \in Nat /\ a <= a + 2
    BY <1>1, <1>3
  <2>2. Word(t, a, (a + 2) + 1) = <<t[a + 1], t[a + 2]>> \o <<t[(a + 2) + 1]>>
    BY <1>2, <2>1, WordNext
  <2>3. (a + 2) + 1 = a + 3
    OBVIOUS
  <2> QED
    BY <2>2, <2>3
<1>4. ASSUME a + 4 \in 1..Len(t)
      PROVE  Word(t, a, a + 4) = <<t[a + 1], t[a + 2], t[a + 3], t[a + 4]>>
  <2>1. a + 3 \in 1..Len(t) /\ (a + 3) + 1 \in 1..Len(t) /\ a + 3 \in Nat /\ a <= a + 3
    BY <1>1, <1>4
  <2>2. Word(t, a, (a + 3) + 1) = <<t[a + 1], t[a + 2], t[a + 3]>> \o <<t[(a + 3) + 1]>>
    BY <1>3, <2>1, WordNext
  <2>3. (a + 3) + 1 = a + 4
    OBVIOUS
  <2> QED
    BY <2>2, <2>3
<1> QED
  BY <1>2, <1>3, <1>4
-----------------------------------------------------------------------------
(***************************************************************************)
(* Phrases: tokens with a tree over the symbols S.                         *)
(***************************************************************************)
Phrases(S) == Seq(Kind) \X Seq(S)

LEMMA PhraseParts ==
    ASSUME NEW S, NEW p
    PROVE  /\ p \in Phrases(S) => /\ p[1] \in Seq(Kind) /\ p[2] \in Seq(S)
                                  /\ p = <<p[1], p[2]>>
           /\ \A x \in Seq(Kind), e \in Seq(S) : <<x, e>> \in Phrases(S)
<1> DEFINE K == Seq(Kind)
           T == Seq(S)
<1>1. p \in K \X T => p[1] \in K /\ p[2] \in T /\ p = <<p[1], p[2]>>
  <2> HIDE DEF K, T
  <2> QED OBVIOUS
<1>2. \A x \in K, e \in T : <<x, e>> \in K \X T
  <2> HIDE DEF K, T
  <2> QED OBVIOUS
<1> QED
  BY <1>1, <1>2 DEF Phrases

LEMMA ThenAssociative ==
    ASSUME NEW S, NEW p \in Phrases(S), NEW q \in Phrases(S), NEW r \in Phrases(S)
    PROVE  Then(Then(p, q), r) = Then(p, Then(q, r))
<1>1. /\ p[1] \in Seq(Kind) /\ q[1] \in Seq(Kind) /\ r[1] \in Seq(Kind)
      /\ p[2] \in Seq(S) /\ q[2] \in Seq(S) /\ r[2] \in Seq(S)
  BY PhraseParts
<1>3. (p[1] \o q[1]) \o r[1] = p[1] \o (q[1] \o r[1])
  <2> DEFINE x == p[1]
             y == q[1]
             z == r[1]
  <2>1. x \in Seq(Kind) /\ y \in Seq(Kind) /\ z \in Seq(Kind)
    BY <1>1
  <2> HIDE DEF x, y, z
  <2>2. (x \o y) \o z = x \o (y \o z)
    BY <2>1, Regroups, SMTT(30)
  <2> QED
    BY <2>2 DEF x, y, z
<1>4. (p[2] \o q[2]) \o r[2] = p[2] \o (q[2] \o r[2])
  <2> DEFINE x == p[2]
             y == q[2]
             z == r[2]
  <2>1. x \in Seq(S) /\ y \in Seq(S) /\ z \in Seq(S)
    BY <1>1
  <2> HIDE DEF x, y, z
  <2>2. (x \o y) \o z = x \o (y \o z)
    BY <2>1, Regroups, SMTT(30)
  <2> QED
    BY <2>2 DEF x, y, z
<1> QED
  BY <1>3, <1>4, Zenon DEF Then

LEMMA ThenPhrase ==
    ASSUME NEW S, NEW p \in Phrases(S), NEW q \in Phrases(S)
    PROVE  Then(p, q) \in Phrases(S)
<1>1. /\ p[1] \in Seq(Kind) /\ q[1] \in Seq(Kind)
      /\ p[2] \in Seq(S) /\ q[2] \in Seq(S)
  BY PhraseParts
<1>2. p[1] \o q[1] \in Seq(Kind) /\ p[2] \o q[2] \in Seq(S)
  BY <1>1, ConcatProperties
<1> QED
  BY <1>2, PhraseParts DEF Then

LEMMA InBinaries ==
    ASSUME NEW A, NEW L, NEW R, NEW o \in A, NEW l \in L, NEW r \in R
    PROVE  <<l[1] \o <<o>> \o r[1], Binary(o, l[2], r[2])>> \in Binaries(A, L, R)
<1> DEFINE b(p, x, y) == <<x[1] \o <<p>> \o y[1], Binary(p, x[2], y[2])>>
<1>1. Binaries(A, L, R) = {b(p, x, y) : p \in A, x \in L, y \in R}
  BY DEF Binaries
<1> HIDE DEF b
<1>2. b(o, l, r) \in Binaries(A, L, R)
  BY <1>1
<1> QED
  BY <1>2 DEF b

LEMMA InEnclosed ==
    ASSUME NEW open, NEW node, NEW X, NEW close, NEW x \in X
    PROVE  <<open \o x[1] \o close, node \o x[2]>> \in Enclosed(open, node, X, close)
<1> DEFINE b(y) == <<open \o y[1] \o close, node \o y[2]>>
<1>1. Enclosed(open, node, X, close) = {b(y) : y \in X}
  BY DEF Enclosed
<1> HIDE DEF b
<1>2. b(x) \in Enclosed(open, node, X, close)
  BY <1>1
<1> QED
  BY <1>2 DEF b

LEMMA InConcat ==
    ASSUME NEW X, NEW Y, NEW x \in X, NEW y \in Y
    PROVE  Then(x, y) \in Concat(X, Y)
<1> DEFINE b(p, q) == Then(p, q)
<1>1. Concat(X, Y) = {b(p, q) : p \in X, q \in Y}
  BY DEF Concat
<1> HIDE DEF b
<1>2. b(x, y) \in Concat(X, Y)
  BY <1>1
<1> QED
  BY <1>2 DEF b

LEMMA InThisMethodInvocations ==
    ASSUME NEW A, NEW id \in Identifiers, NEW a \in A
    PROVE  Then(<<<<id, "(">>, <<"ThisMethodInvocation">>>>, a) \in ThisMethodInvocations(A)
<1> DEFINE b(i, q) == Then(<<<<i, "(">>, <<"ThisMethodInvocation">>>>, q)
<1>1. ThisMethodInvocations(A) = {b(i, q) : i \in Identifiers, q \in A}
  BY DEF ThisMethodInvocations
<1> HIDE DEF b
<1>2. b(id, a) \in ThisMethodInvocations(A)
  BY <1>1
<1> QED
  BY <1>2 DEF b

LEMMA InMethodInvocations ==
    ASSUME NEW P, NEW A, NEW p \in P, NEW id \in Identifiers, NEW a \in A
    PROVE  Then(<<p[1] \o <<".", id, "(">>, <<"MethodInvocation">> \o p[2]>>, a) \in MethodInvocations(P, A)
<1> DEFINE b(x, i, q) == Then(<<x[1] \o <<".", i, "(">>, <<"MethodInvocation">> \o x[2]>>, q)
<1>1. MethodInvocations(P, A) = {b(x, i, q) : x \in P, i \in Identifiers, q \in A}
  BY DEF MethodInvocations
<1> HIDE DEF b
<1>2. b(p, id, a) \in MethodInvocations(P, A)
  BY <1>1
<1> QED
  BY <1>2 DEF b

LEMMA InFieldAccesses ==
    ASSUME NEW P, NEW p \in P, NEW id \in Identifiers
    PROVE  <<p[1] \o <<".", id>>, FieldAccess(p[2])>> \in FieldAccesses(P)
<1> DEFINE b(x, i) == <<x[1] \o <<".", i>>, FieldAccess(x[2])>>
<1>1. FieldAccesses(P) = {b(x, i) : x \in P, i \in Identifiers}
  BY DEF FieldAccesses
<1> HIDE DEF b
<1>2. b(p, id) \in FieldAccesses(P)
  BY <1>1
<1> QED
  BY <1>2 DEF b

LEMMA InArrayAccesses ==
    ASSUME NEW P, NEW E, NEW p \in P, NEW e \in E
    PROVE  <<p[1] \o <<"[">> \o e[1] \o <<"]">>, ArrayAccess(p[2], e[2])>> \in ArrayAccesses(P, E)
<1> DEFINE b(x, y) == <<x[1] \o <<"[">> \o y[1] \o <<"]">>, ArrayAccess(x[2], y[2])>>
<1>1. ArrayAccesses(P, E) = {b(x, y) : x \in P, y \in E}
  BY DEF ArrayAccesses
<1> HIDE DEF b
<1>2. b(p, e) \in ArrayAccesses(P, E)
  BY <1>1
<1> QED
  BY <1>2 DEF b

LEMMA InUnaries ==
    ASSUME NEW O, NEW P, NEW o \in O, NEW p \in P
    PROVE  <<o \o p[1], FirstReadInnermost(o, p[2])>> \in Unaries(O, P, FirstReadInnermost)
<1> DEFINE b(x, y) == <<x \o y[1], FirstReadInnermost(x, y[2])>>
<1>1. Unaries(O, P, FirstReadInnermost) = {b(x, y) : x \in O, y \in P}
  BY DEF Unaries
<1> HIDE DEF b
<1>2. b(o, p) \in Unaries(O, P, FirstReadInnermost)
  BY <1>1
<1> QED
  BY <1>2 DEF b

(***************************************************************************)
(* Levels.  Level 7 is that of the assignment; rank is the level of the    *)
(* expressions with the operator o, left and right are the levels of its   *)
(* operands.                                                               *)
(***************************************************************************)
Level(i) == IF i = 7 THEN Derivable.expression ELSE Derivable.level[i]

rank(o) == IF o = "=" THEN 7 ELSE precedence(o)
left(o) == IF o = "=" THEN 6 ELSE precedence(o)
right(o) == IF o = "=" THEN 7 ELSE precedence(o) - 1

LEMMA Ranks ==
    ASSUME NEW o \in BinaryOps
    PROVE  /\ rank(o) \in 1..7 /\ left(o) \in 1..7 /\ right(o) \in 0..7
           /\ o # "=" => /\ rank(o) \in 1..6 /\ left(o) = rank(o) /\ right(o) = rank(o) - 1
                         /\ o \in LevelOps[rank(o)] /\ precedence(o) = rank(o)
           /\ o = "=" => precedence(o) = 10
BY DEF BinaryOps, rank, left, right, precedence, LevelOps

LEMMA LevelsGrow ==
    ASSUME IsLanguage(Derivable), NEW i \in 0..7, NEW j \in i..7
    PROVE  Level(i) \subseteq Level(j)
<1>1. \A k \in 1..6 : Derivable.level[k - 1] \subseteq Derivable.level[k]
  BY DEF IsLanguage, ExpressionsOf
<1>2. Derivable.level[6] \subseteq Derivable.expression
  BY DEF IsLanguage, Assignments
<1>3. /\ Level(0) \subseteq Level(1) /\ Level(1) \subseteq Level(2) /\ Level(2) \subseteq Level(3)
      /\ Level(3) \subseteq Level(4) /\ Level(4) \subseteq Level(5) /\ Level(5) \subseteq Level(6)
      /\ Level(6) \subseteq Level(7)
  <2>1. /\ Level(0) = Derivable.level[1 - 1] /\ Level(1) = Derivable.level[1]
        /\ Level(1) = Derivable.level[2 - 1] /\ Level(2) = Derivable.level[2]
        /\ Level(2) = Derivable.level[3 - 1] /\ Level(3) = Derivable.level[3]
        /\ Level(3) = Derivable.level[4 - 1] /\ Level(4) = Derivable.level[4]
        /\ Level(4) = Derivable.level[5 - 1] /\ Level(5) = Derivable.level[5]
        /\ Level(5) = Derivable.level[6 - 1] /\ Level(6) = Derivable.level[6]
        /\ Level(7) = Derivable.expression
    BY DEF Level
  <2> QED
    BY <1>1, <1>2, <2>1
<1>4. /\ i = 0 \/ i = 1 \/ i = 2 \/ i = 3 \/ i = 4 \/ i = 5 \/ i = 6 \/ i = 7
      /\ j = 0 \/ j = 1 \/ j = 2 \/ j = 3 \/ j = 4 \/ j = 5 \/ j = 6 \/ j = 7
      /\ i <= j
  OBVIOUS
<1> QED
  BY <1>3, <1>4

\* Two operands of the operator o that are of its levels.
LEMMA Combined ==
    ASSUME IsLanguage(Derivable), NEW o \in BinaryOps,
           NEW x, NEW e, <<x, e>> \in Level(left(o)),
           NEW y, NEW f, <<y, f>> \in Level(right(o))
    PROVE  <<x \o <<o>> \o y, Binary(o, e, f)>> \in Level(rank(o))
<1> DEFINE l == <<x, e>>
           r == <<y, f>>
<1>1. l[1] = x /\ l[2] = e /\ r[1] = y /\ r[2] = f
  OBVIOUS
<1>2. CASE o = "="
  <2>1. l \in Derivable.level[6] /\ r \in Derivable.expression
    BY <1>2 DEF Level, left, right
  <2>1a. o \in {"="}
    BY <1>2
  <2>2. <<l[1] \o <<o>> \o r[1], Binary(o, l[2], r[2])>>
           \in Binaries({"="}, Derivable.level[6], Derivable.expression)
    BY <2>1, <2>1a, InBinaries
  <2>3. <<l[1] \o <<o>> \o r[1], Binary(o, l[2], r[2])>> \in Derivable.expression
    BY <2>2 DEF IsLanguage, Assignments
  <2> QED
    BY <1>1, <1>2, <2>3 DEF Level, rank
<1>3. CASE o # "="
  <2> DEFINE i == rank(o)
  <2>1. i \in 1..6 /\ left(o) = i /\ right(o) = i - 1 /\ o \in LevelOps[i]
    BY <1>3, Ranks
  <2> HIDE DEF i
  <2>2. l \in Derivable.level[i] /\ r \in Derivable.level[i - 1]
    BY <2>1 DEF Level
  <2>3. <<l[1] \o <<o>> \o r[1], Binary(o, l[2], r[2])>>
           \in Binaries(LevelOps[i], Derivable.level[i], Derivable.level[i - 1])
    BY <2>1, <2>2, InBinaries
  <2>4. i \in 0..6 /\ i # 0 /\ i # 7
    BY <2>1
  <2>5. <<l[1] \o <<o>> \o r[1], Binary(o, l[2], r[2])>> \in Derivable.level[i]
    BY <2>3, <2>4 DEF IsLanguage, ExpressionsOf
  <2> QED
    BY <1>1, <2>4, <2>5 DEF Level, i
<1> QED
  BY <1>2, <1>3
-----------------------------------------------------------------------------
(***************************************************************************)
(* What the rules derive is in the language.                               *)
(***************************************************************************)
LEMMA PrimaryDerived ==
    ASSUME IsLanguage(Derivable)
    PROVE  /\ \A l \in Literals \cup Identifiers : <<<<l>>, <<l>>>> \in Derivable.postfix
           /\ \A p \in Derivable.expression :
                 <<<<"(">> \o p[1] \o <<")">>, <<>> \o p[2]>> \in Derivable.postfix
           /\ \A id \in Identifiers :
                 <<<<"new", id, "(", ")">>, <<"NewObject">>>> \in Derivable.postfix
           /\ Derivable.array \subseteq Derivable.postfix
           /\ \A t \in BasicTypes, p \in Derivable.expression :
                 <<<<"new", t, "[">> \o p[1] \o <<"]">>, NewArray(t) \o p[2]>> \in Derivable.array
           /\ \A p \in Derivable.array :
                 <<<<>> \o p[1] \o <<"[", "]">>, <<"ArrayOf">> \o p[2]>> \in Derivable.array
<1> DEFINE P == Derivable.postfix
           E == Derivable.expression
           D == Derivable.array
<1>1. Leaves \subseteq P /\ Parenthesized(E) \subseteq P /\ NewObjects \subseteq P /\ D \subseteq P
  BY DEF IsLanguage, PostfixExpressions
<1>2. NewArrays(E) \subseteq D /\ Dimensions(D) \subseteq D
  BY DEF IsLanguage, ArrayCreations
<1> HIDE DEF P, E, D
<1>3. \A l \in Literals \cup Identifiers : <<<<l>>, <<l>>>> \in P
  BY <1>1 DEF Leaves
<1>4. \A p \in E : <<<<"(">> \o p[1] \o <<")">>, <<>> \o p[2]>> \in P
  <2> TAKE p \in E
  <2>1. <<<<"(">> \o p[1] \o <<")">>, <<>> \o p[2]>> \in Enclosed(<<"(">>, <<>>, E, <<")">>)
    BY InEnclosed
  <2> QED
    BY <1>1, <2>1 DEF Parenthesized
<1>5. \A id \in Identifiers : <<<<"new", id, "(", ")">>, <<"NewObject">>>> \in P
  BY <1>1 DEF NewObjects
<1>6. \A t \in BasicTypes, p \in E :
         <<<<"new", t, "[">> \o p[1] \o <<"]">>, NewArray(t) \o p[2]>> \in D
  <2> TAKE t \in BasicTypes, p \in E
  <2> DEFINE X == Enclosed(<<"new", t, "[">>, NewArray(t), E, <<"]">>)
  <2>1. <<<<"new", t, "[">> \o p[1] \o <<"]">>, NewArray(t) \o p[2]>> \in X
    BY InEnclosed
  <2>2. X \subseteq NewArrays(E)
    <3>1. X \in {Enclosed(<<"new", b, "[">>, NewArray(b), E, <<"]">>) : b \in BasicTypes}
      BY Zenon
    <3> QED
      BY <3>1, Zenon DEF NewArrays
  <2> HIDE DEF X
  <2> QED
    BY <1>2, <2>1, <2>2
<1>7. \A p \in D : <<<<>> \o p[1] \o <<"[", "]">>, <<"ArrayOf">> \o p[2]>> \in D
  <2> TAKE p \in D
  <2>1. <<<<>> \o p[1] \o <<"[", "]">>, <<"ArrayOf">> \o p[2]>>
            \in Enclosed(<<>>, <<"ArrayOf">>, D, <<"[", "]">>)
    BY InEnclosed
  <2> QED
    BY <1>2, <2>1 DEF Dimensions
<1> QED
  BY <1>1, <1>3, <1>4, <1>5, <1>6, <1>7 DEF P, E, D

LEMMA PostfixDerived ==
    ASSUME IsLanguage(Derivable)
    PROVE  /\ \A id \in Identifiers, a \in NoArguments \cup Derivable.arguments :
                 /\ Then(<<<<id, "(">>, <<"ThisMethodInvocation">>>>, a) \in Derivable.postfix
                 /\ \A p \in Derivable.postfix :
                       Then(<<p[1] \o <<".", id, "(">>, <<"MethodInvocation">> \o p[2]>>, a)
                          \in Derivable.postfix
           /\ \A p \in Derivable.postfix, id \in Identifiers :
                 <<p[1] \o <<".", id>>, FieldAccess(p[2])>> \in Derivable.postfix
           /\ \A p \in Derivable.postfix, e \in Derivable.expression :
                 <<p[1] \o <<"[">> \o e[1] \o <<"]">>, ArrayAccess(p[2], e[2])>>
                    \in Derivable.postfix
           /\ \A o \in Seq(UnaryOps), p \in Derivable.postfix :
                 <<o \o p[1], FirstReadInnermost(o, p[2])>> \in Derivable.level[0]
           /\ \A e \in Derivable.expression :
                 Then(e, <<<<")">>, <<")">>>>) \in Derivable.arguments
           /\ \A e \in Derivable.expression, a \in Derivable.arguments :
                 Then(e, <<<<",">> \o a[1] \o <<>>, <<>> \o a[2]>>) \in Derivable.arguments
<1> DEFINE P == Derivable.postfix
           E == Derivable.expression
           A == Derivable.arguments
           N == NoArguments \cup A
<1>1. /\ ThisMethodInvocations(N) \subseteq P /\ MethodInvocations(P, N) \subseteq P
      /\ FieldAccesses(P) \subseteq P /\ ArrayAccesses(P, E) \subseteq P
  BY DEF IsLanguage, PostfixExpressions
<1>2. Unaries(Seq(UnaryOps), P, FirstReadInnermost) \subseteq Derivable.level[0]
  BY DEF IsLanguage, ExpressionsOf
<1>3. LastArguments(E) \subseteq A /\ FurtherArguments(E, A) \subseteq A
  BY DEF IsLanguage, ArgumentLists
<1> HIDE DEF P, E, A, N
<1>4. \A id \in Identifiers, a \in N :
          Then(<<<<id, "(">>, <<"ThisMethodInvocation">>>>, a) \in P
  BY <1>1, InThisMethodInvocations
<1>5. \A id \in Identifiers, a \in N, p \in P :
          Then(<<p[1] \o <<".", id, "(">>, <<"MethodInvocation">> \o p[2]>>, a) \in P
  BY <1>1, InMethodInvocations
<1>6. \A p \in P, id \in Identifiers : <<p[1] \o <<".", id>>, FieldAccess(p[2])>> \in P
  BY <1>1, InFieldAccesses
<1>7. \A p \in P, e \in E :
          <<p[1] \o <<"[">> \o e[1] \o <<"]">>, ArrayAccess(p[2], e[2])>> \in P
  BY <1>1, InArrayAccesses
<1>8. \A o \in Seq(UnaryOps), p \in P :
          <<o \o p[1], FirstReadInnermost(o, p[2])>> \in Derivable.level[0]
  BY <1>2, InUnaries
<1>9. \A e \in E : Then(e, <<<<")">>, <<")">>>>) \in A
  <2> TAKE e \in E
  <2> DEFINE a == <<<<")">>, <<")">>>>
  <2>1. a \in NoArguments
    BY DEF NoArguments, Terminal
  <2> HIDE DEF a
  <2>2. Then(e, a) \in Concat(E, NoArguments)
    BY <2>1, InConcat
  <2> QED
    BY <1>3, <2>2 DEF LastArguments, a
<1>10. \A e \in E, a \in A : Then(e, <<<<",">> \o a[1] \o <<>>, <<>> \o a[2]>>) \in A
  <2> TAKE e \in E, a \in A
  <2> DEFINE b == <<<<",">> \o a[1] \o <<>>, <<>> \o a[2]>>
             X == Enclosed(<<",">>, <<>>, A, <<>>)
  <2>1. b \in X
    BY InEnclosed
  <2> HIDE DEF b
  <2>2. Then(e, b) \in Concat(E, X)
    BY <2>1, InConcat
  <2> QED
    BY <1>3, <2>2 DEF FurtherArguments, b
<1> QED
  BY <1>4, <1>5, <1>6, <1>7, <1>8, <1>9, <1>10 DEF P, E, A, N

(***************************************************************************)
(* Another unary operator is applied last.                                 *)
(***************************************************************************)
LEMMA OneMoreUnary ==
    \A S, o, u, e : /\ Kind \cup Constructors \subseteq S
                    /\ o \in Seq(UnaryOps) /\ u \in UnaryOps /\ e \in Seq(S)
       => /\ FirstReadInnermost(o, e) \in Seq(S)
          /\ FirstReadInnermost(<<>>, e) = e
          /\ FirstReadInnermost(Append(o, u), e) = Unary(u, FirstReadInnermost(o, e))
<1> SUFFICES ASSUME NEW S, Kind \cup Constructors \subseteq S, NEW o \in Seq(UnaryOps),
                    NEW u \in UnaryOps, NEW e \in Seq(S)
             PROVE  /\ FirstReadInnermost(o, e) \in Seq(S)
                    /\ FirstReadInnermost(<<>>, e) = e
                    /\ FirstReadInnermost(Append(o, u), e) = Unary(u, FirstReadInnermost(o, e))
  OBVIOUS
<1>0. "Unary" \in S /\ UnaryOps \subseteq S
  BY DEF Kind, Constructors
<1> DEFINE n == Len(o)
           nodes(p) == [i \in 1..2 * Len(p) |->
                           IF i % 2 = 1 THEN "Unary" ELSE p[Len(p) + 1 - (i \div 2)]]
<1>1. n \in Nat /\ \A i \in 1..n : o[i] \in UnaryOps
  BY LenProperties, ElementOfSeq
<1>2. /\ Append(o, u) \in Seq(UnaryOps) /\ Len(Append(o, u)) = n + 1
      /\ \A i \in 1..n : Append(o, u)[i] = o[i]
      /\ Append(o, u)[n + 1] = u
  BY AppendProperties
<1>3. ASSUME NEW p \in Seq(UnaryOps), NEW m, Len(p) = m
      PROVE  /\ nodes(p) \in Seq(S) /\ Len(nodes(p)) = 2 * m
             /\ \A i \in 1..2 * m :
                   nodes(p)[i] = IF i % 2 = 1 THEN "Unary" ELSE p[m + 1 - (i \div 2)]
  <2>1. m \in Nat /\ \A i \in 1..m : p[i] \in UnaryOps
    BY <1>3, LenProperties, ElementOfSeq
  <2>2. \A i \in 1..2 * m : i % 2 # 1 => m + 1 - (i \div 2) \in 1..m
    BY <2>1
  <2>3. nodes(p) = [i \in 1..2 * m |-> IF i % 2 = 1 THEN "Unary" ELSE p[m + 1 - (i \div 2)]]
    BY <1>3
  <2>4. \A i \in 1..2 * m : (IF i % 2 = 1 THEN "Unary" ELSE p[m + 1 - (i \div 2)]) \in S
    BY <1>0, <2>1, <2>2
  <2> HIDE DEF nodes
  <2>5. nodes(p) \in [1..2 * m -> S] /\ 2 * m \in Nat
    BY <2>1, <2>3, <2>4
  <2>6. nodes(p) \in Seq(S) /\ Len(nodes(p)) = 2 * m
    BY <2>5
  <2> QED
    BY <2>3, <2>6
<1>4. FirstReadInnermost(o, e) = nodes(o) \o e /\ FirstReadInnermost(<<>>, e) = nodes(<<>>) \o e
        /\ FirstReadInnermost(Append(o, u), e) = nodes(Append(o, u)) \o e
  BY DEF FirstReadInnermost
<1> HIDE DEF nodes
<1>5. /\ nodes(o) \in Seq(S) /\ Len(nodes(o)) = 2 * n
      /\ \A i \in 1..2 * n : nodes(o)[i] = IF i % 2 = 1 THEN "Unary" ELSE o[n + 1 - (i \div 2)]
  BY <1>3
<1>6. /\ nodes(Append(o, u)) \in Seq(S) /\ Len(nodes(Append(o, u))) = 2 * (n + 1)
      /\ \A i \in 1..2 * (n + 1) :
            nodes(Append(o, u))[i] =
               IF i % 2 = 1 THEN "Unary" ELSE Append(o, u)[(n + 1) + 1 - (i \div 2)]
  BY <1>2, <1>3
<1>7. nodes(<<>>) = <<>>
  <2>1. <<>> \in Seq(UnaryOps) /\ Len(<<>>) = 0
    BY EmptySeq
  <2>2. nodes(<<>>) \in Seq(S) /\ Len(nodes(<<>>)) = 2 * 0
    BY <1>3, <2>1
  <2> QED
    BY <2>2, EmptySeq
<1> DEFINE two == <<"Unary", u>>
<1>8. two \in Seq(S) /\ Len(two) = 2 /\ two[1] = "Unary" /\ two[2] = u
  BY <1>0
<1> HIDE DEF two, n
<1>9. nodes(Append(o, u)) = two \o nodes(o)
  <2>1. /\ two \o nodes(o) \in Seq(S) /\ Len(two \o nodes(o)) = 2 + 2 * n
        /\ \A i \in 1..2 + 2 * n :
              (two \o nodes(o))[i] = IF i <= 2 THEN two[i] ELSE nodes(o)[i - 2]
    <3> DEFINE w == nodes(o)
    <3>1. w \in Seq(S) /\ Len(w) = 2 * n
      BY <1>5
    <3> HIDE DEF w
    <3>2. /\ two \o w \in Seq(S) /\ Len(two \o w) = Len(two) + Len(w)
          /\ \A i \in 1..Len(two) + Len(w) :
                (two \o w)[i] = IF i <= Len(two) THEN two[i] ELSE w[i - Len(two)]
      BY <1>8, <3>1, ConcatProperties
    <3> QED
      BY <1>8, <3>1, <3>2 DEF w
  <2>2. ASSUME NEW i \in 1..2 * (n + 1)
        PROVE  nodes(Append(o, u))[i] = (two \o nodes(o))[i]
    <3>1. CASE i <= 2
      <4>1. i \in 1..2 + 2 * n /\ (i = 1 \/ i = 2)
        BY <1>1, <3>1
      <4>2. (two \o nodes(o))[i] = two[i]
        BY <2>1, <3>1, <4>1
      <4>3. CASE i = 1
        BY <1>6, <1>8, <4>2, <4>3
      <4>4. CASE i = 2
        <5>1. i % 2 # 1 /\ (n + 1) + 1 - (i \div 2) = n + 1
          BY <1>1, <4>4
        <5> QED
          BY <1>2, <1>6, <1>8, <4>2, <4>4, <5>1
      <4> QED
        BY <4>1, <4>3, <4>4
    <3>2. CASE i > 2
      <4>1. /\ i \in 1..2 + 2 * n /\ i - 2 \in 1..2 * n /\ ~(i <= 2)
            /\ (i - 2) % 2 = i % 2 /\ (n + 1) + 1 - (i \div 2) = n + 1 - ((i - 2) \div 2)
            /\ i % 2 # 1 => (n + 1) + 1 - (i \div 2) \in 1..n
        BY <1>1, <3>2
      <4>2. (two \o nodes(o))[i] = nodes(o)[i - 2]
        BY <2>1, <4>1
      <4>3. nodes(o)[i - 2] = IF i % 2 = 1 THEN "Unary" ELSE o[n + 1 - ((i - 2) \div 2)]
        BY <1>5, <4>1
      <4>4. nodes(Append(o, u))[i] =
               IF i % 2 = 1 THEN "Unary" ELSE Append(o, u)[(n + 1) + 1 - (i \div 2)]
        BY <1>6
      <4> QED
        BY <1>2, <4>1, <4>2, <4>3, <4>4
    <3>3. i <= 2 \/ i > 2
      BY <1>1
    <3> QED
      BY <3>1, <3>2, <3>3
  <2>3. 2 + 2 * n = 2 * (n + 1)
    BY <1>1
  <2> QED
    BY <1>6, <2>1, <2>2, <2>3, SeqEqual
<1>10. nodes(o) \o e \in Seq(S) /\ (two \o nodes(o)) \o e = two \o (nodes(o) \o e)
  <2> DEFINE w == nodes(o)
  <2>1. w \in Seq(S)
    BY <1>5
  <2> HIDE DEF w
  <2>2. w \o e \in Seq(S)
    BY <2>1, ConcatProperties
  <2>3. (two \o w) \o e = two \o (w \o e)
    BY <1>8, <2>1, Regroups, SMTT(30)
  <2> QED
    BY <2>2, <2>3 DEF w
<1>11. <<>> \o e = e
  BY ConcatEmptySeq
<1> QED
  BY <1>4, <1>7, <1>9, <1>10, <1>11 DEF Unary, two
-----------------------------------------------------------------------------
(***************************************************************************)
(* The stacks of an activation that began behind token a: up to token b    *)
(* there are operands, each with its operator behind it, and each operand  *)
(* is of the level that its operator takes on the left.                    *)
(***************************************************************************)
Operands(t, operands, operators, a, b) ==
    \E cut \in [0..Len(operators) -> a..Len(t)] :
        /\ cut[0] = a /\ cut[Len(operators)] = b
        /\ \A i \in 1..Len(operators) :
              /\ cut[i - 1] < cut[i]
              /\ t[cut[i]] = operators[i]
              /\ <<Word(t, cut[i - 1], cut[i] - 1), operands[i]>> \in Level(left(operators[i]))

(***************************************************************************)
(* Up to token n there is another operand.  It is of a level of at most    *)
(* `most`, and of one that the operator before it takes on the right.      *)
(***************************************************************************)
LastOperand(t, operands, operators, a, n, most) ==
    \E b \in a..n, q \in 0..most :
        /\ Operands(t, operands, operators, a, b)
        /\ <<Word(t, b, n), operands[Len(operators) + 1]>> \in Level(q)
        /\ Len(operators) > 0 => q <= right(operators[Len(operators)])

LEMMA NoOperands ==
    ASSUME NEW t \in Seq(Kind), NEW X, NEW a \in 0..Len(t)
    PROVE  /\ Operands(t, X, <<>>, a, a)
           /\ \A b : Operands(t, X, <<>>, a, b) => b = a
<1> DEFINE cut == [i \in 0..0 |-> a]
<1>1. Len(t) \in Nat /\ Len(<<>>) = 0
  BY LenProperties, EmptySeq
<1>2. cut \in [0..Len(<<>>) -> a..Len(t)] /\ cut[0] = a /\ cut[Len(<<>>)] = a
  BY <1>1
<1> HIDE DEF cut
<1>3. Operands(t, X, <<>>, a, a)
  BY <1>1, <1>2 DEF Operands
<1> QED
  BY <1>1, <1>3 DEF Operands

LEMMA OperandsWithin ==
    ASSUME NEW t \in Seq(Kind), NEW X, NEW O \in Seq(BinaryOps), NEW a \in Nat, NEW b,
           Operands(t, X, O, a, b)
    PROVE  b \in a..Len(t)
<1>1. Len(O) \in 0..Len(O)
  BY LenProperties
<1> QED
  BY <1>1 DEF Operands

\* The operator at token n is pushed.
LEMMA Deferring ==
    ASSUME NEW t \in Seq(Kind), NEW X, NEW O \in Seq(BinaryOps), NEW a \in Nat,
           NEW b \in Nat, NEW n \in Nat, Operands(t, X, O, a, b), b < n, n <= Len(t),
           t[n] \in BinaryOps,
           <<Word(t, b, n - 1), X[Len(O) + 1]>> \in Level(left(t[n]))
    PROVE  Operands(t, X, Append(O, t[n]), a, n)
<1> DEFINE m == Len(O)
           P == Append(O, t[n])
<1>1. m \in Nat /\ Len(t) \in Nat /\ b \in a..Len(t)
  BY LenProperties, OperandsWithin
<1>2. Len(P) = m + 1 /\ P[m + 1] = t[n] /\ \A i \in 1..m : P[i] = O[i]
  BY AppendProperties
<1>3. PICK cut \in [0..m -> a..Len(t)] :
         /\ cut[0] = a /\ cut[m] = b
         /\ \A i \in 1..m : /\ cut[i - 1] < cut[i]
                            /\ t[cut[i]] = O[i]
                            /\ <<Word(t, cut[i - 1], cut[i] - 1), X[i]>> \in Level(left(O[i]))
  BY DEF Operands
<1> HIDE DEF m, P
<1> DEFINE new == [i \in 0..m + 1 |-> IF i = m + 1 THEN n ELSE cut[i]]
<1>4. /\ new \in [0..m + 1 -> a..Len(t)] /\ new[0] = a /\ new[m + 1] = n
      /\ \A i \in 0..m : new[i] = cut[i]
  BY <1>1, <1>3
<1> HIDE DEF new
<1>5. ASSUME NEW i \in 1..m + 1
      PROVE  /\ new[i - 1] < new[i]
             /\ t[new[i]] = P[i]
             /\ <<Word(t, new[i - 1], new[i] - 1), X[i]>> \in Level(left(P[i]))
  <2>1. CASE i = m + 1
    <3>1. new[i] = n /\ new[i - 1] = b /\ P[i] = t[n]
      <4>1. i - 1 = m /\ m \in 0..m
        BY <1>1, <2>1
      <4> QED
        BY <1>2, <1>3, <1>4, <2>1, <4>1
    <3>2. <<Word(t, b, n - 1), X[i]>> \in Level(left(t[n]))
      BY <2>1 DEF m
    <3> QED
      BY <3>1, <3>2
  <2>2. CASE i # m + 1
    <3>1. i \in 1..m /\ i \in 0..m /\ i - 1 \in 0..m
      BY <1>1, <2>2
    <3>2. new[i] = cut[i] /\ new[i - 1] = cut[i - 1] /\ P[i] = O[i]
      BY <1>2, <1>4, <3>1
    <3>3. /\ cut[i - 1] < cut[i] /\ t[cut[i]] = O[i]
          /\ <<Word(t, cut[i - 1], cut[i] - 1), X[i]>> \in Level(left(O[i]))
      BY <1>3, <3>1
    <3> QED
      BY <3>2, <3>3
  <2> QED
    BY <2>1, <2>2
<1>6. Operands(t, X, P, a, n)
  BY <1>2, <1>4, <1>5 DEF Operands
<1> QED
  BY <1>6 DEF P

(***************************************************************************)
(* An operator on top of the stack that climbs is of a level that the one  *)
(* below it takes on the right.                                            *)
(***************************************************************************)
LEMMA TighterFits ==
    ASSUME NEW o \in BinaryOps, NEW below \in BinaryOps, BindsTighter(o, below)
    PROVE  rank(o) <= right(below)
<1>1. CASE o = "="
  <2>1. below = "="
    BY <1>1 DEF BindsTighter, precedence, BinaryOps
  <2> QED
    BY <1>1, <2>1 DEF rank, right
<1>2. CASE o # "="
  <2>1. rank(o) = precedence(o) /\ precedence(o) \in 1..6 /\ precedence(o) < precedence(below)
    BY <1>2, Ranks DEF BindsTighter
  <2>2. CASE below = "="
    BY <2>1, <2>2 DEF right
  <2>3. CASE below # "="
    BY <2>1, <2>3, Ranks DEF right
  <2> QED
    BY <2>2, <2>3
<1> QED
  BY <1>1, <1>2

LEMMA BeforeFits ==
    ASSUME NEW o \in BinaryOps, NEW top \in BinaryOps,
           \/ precedence(top) < precedence(o)
           \/ assoc(top) = "Left" /\ precedence(top) = precedence(o)
    PROVE  rank(top) <= left(o)
<1>1. CASE o = "="
  <2>1. top # "="
    BY <1>1 DEF assoc, precedence, BinaryOps
  <2> QED
    BY <1>1, <2>1, Ranks DEF left
<1>2. CASE o # "="
  <2>1. precedence(o) \in 1..6 /\ left(o) = precedence(o)
    BY <1>2, Ranks
  <2>2. top # "=" /\ precedence(top) <= precedence(o)
    BY <2>1, Ranks
  <2> QED
    BY <2>1, <2>2, Ranks
<1> QED
  BY <1>1, <1>2

\* rpn_eval.
LEMMA Evaluated ==
    ASSUME IsLanguage(Derivable),
           NEW S, NEW t \in Seq(Kind), NEW X \in Seq(S), NEW O \in Seq(BinaryOps), O # <<>>,
           Len(X) = Len(O) + 1, Climbing(O), NEW a \in Nat, NEW n \in Nat, n <= Len(t),
           NEW most \in 0..7, NEW enough \in 0..7, LastOperand(t, X, O, a, n, most),
           rank(O[Len(O)]) <= enough,
           NEW node \in S, node = Binary(O[Len(O)], X[Len(X) - 1], X[Len(X)])
    PROVE  LastOperand(t, Append(SubSeq(X, 1, Len(X) - 2), node), SubSeq(O, 1, Len(O) - 1),
                       a, n, enough)
<1> DEFINE m == Len(O)
           P == SubSeq(O, 1, m - 1)
           Y == SubSeq(X, 1, Len(X) - 2)
           Z == Append(Y, node)
<1>1. m \in Nat /\ m >= 1 /\ Len(t) \in Nat /\ Len(X) = m + 1
  BY LenProperties, EmptySeq
<1>2. O[m] \in BinaryOps /\ (m > 1 => O[m - 1] \in BinaryOps)
  <2>1. m \in 1..m /\ (m > 1 => m - 1 \in 1..m)
    BY <1>1
  <2> QED
    BY <2>1, ElementOfSeq
<1>3. P \in Seq(BinaryOps) /\ Len(P) = m - 1 /\ \A i \in 1..m - 1 : P[i] = O[i]
  <2>1. m - 1 \in 0..Len(O)
    BY <1>1
  <2> QED
    BY <2>1, Popped
<1>4. Y \in Seq(S) /\ Len(Y) = m - 1 /\ \A i \in 1..m - 1 : Y[i] = X[i]
  <2>1. Len(X) - 2 \in 0..Len(X) /\ Len(X) - 2 = m - 1
    BY <1>1
  <2> QED
    BY <2>1, Popped
<1>5. (\A i \in 1..m - 1 : Z[i] = X[i]) /\ Z[m] = node
  <2> HIDE DEF Y
  <2>1. Len(Y) + 1 = m /\ \A i \in 1..Len(Y) : Z[i] = Y[i]
    BY <1>1, <1>4, AppendProperties
  <2>2. Z[Len(Y) + 1] = node
    BY <1>4, AppendProperties
  <2> QED
    BY <1>4, <2>1, <2>2
<1> HIDE DEF P, Y, Z
<1>6. PICK b \in a..n, q \in 0..most : /\ Operands(t, X, O, a, b)
                                       /\ <<Word(t, b, n), X[m + 1]>> \in Level(q)
                                       /\ m > 0 => q <= right(O[m])
  BY DEF LastOperand
<1>7. PICK cut \in [0..m -> a..Len(t)] :
         /\ cut[0] = a /\ cut[m] = b
         /\ \A i \in 1..m : /\ cut[i - 1] < cut[i]
                            /\ t[cut[i]] = O[i]
                            /\ <<Word(t, cut[i - 1], cut[i] - 1), X[i]>> \in Level(left(O[i]))
  BY <1>6 DEF Operands
<1> HIDE DEF m
<1> DEFINE c == cut[m - 1]
<1>8. /\ c \in a..Len(t) /\ c < b /\ b \in Nat /\ c \in Nat /\ t[b] = O[m] /\ b <= n
      /\ <<Word(t, c, b - 1), X[m]>> \in Level(left(O[m]))
  <2>1. m \in 1..m /\ m - 1 \in 0..m
    BY <1>1
  <2>2. cut[m - 1] \in a..Len(t) /\ cut[m] = b
    BY <1>7, <2>1
  <2>3. /\ cut[m - 1] < cut[m]
        /\ t[cut[m]] = O[m]
        /\ <<Word(t, cut[m - 1], cut[m] - 1), X[m]>> \in Level(left(O[m]))
    BY <1>7, <2>1
  <2>4. b \in Nat /\ b <= n /\ c \in Nat
    BY <1>1, <1>6, <2>2
  <2> QED
    BY <2>2, <2>3, <2>4
<1> HIDE DEF c
<1>9. /\ Word(t, c, b - 1) \o <<O[m]>> = Word(t, c, b)
      /\ Word(t, c, b) \o Word(t, b, n) = Word(t, c, n)
  <2>1. b - 1 \in Nat /\ c <= b - 1 /\ (b - 1) + 1 \in 1..Len(t) /\ (b - 1) + 1 = b
    BY <1>1, <1>8
  <2>2. Word(t, c, b) = Word(t, c, b - 1) \o <<t[b]>>
    BY <1>8, <2>1, WordNext
  <2>3. b \in c..Len(t) /\ n \in b..Len(t)
    BY <1>1, <1>8
  <2>4. Word(t, c, b) \o Word(t, b, n) = Word(t, c, n)
    BY <1>8, <2>3, WordConcat
  <2> QED
    BY <1>8, <2>2, <2>4
<1>10. <<Word(t, c, n), node>> \in Level(rank(O[m]))
  <2>1. q \in 0..7 /\ right(O[m]) \in q..7
    <3>1. right(O[m]) \in 0..7
      BY <1>2, Ranks
    <3>2. q <= right(O[m]) /\ q \in 0..most
      BY <1>1, <1>6
    <3> QED
      BY <3>1, <3>2
  <2>2. Level(q) \subseteq Level(right(O[m]))
    BY <2>1, LevelsGrow
  <2>3. <<Word(t, b, n), X[m + 1]>> \in Level(right(O[m]))
    BY <1>6, <2>2
  <2>4. <<Word(t, c, b - 1) \o <<O[m]>> \o Word(t, b, n), Binary(O[m], X[m], X[m + 1])>>
           \in Level(rank(O[m]))
    BY <1>2, <1>8, <2>3, Combined
  <2>5. node = Binary(O[m], X[m], X[m + 1])
    <3>1. Len(X) - 1 = m
      BY <1>1
    <3> QED
      BY <1>1, <3>1 DEF m
  <2> QED
    BY <1>9, <2>4, <2>5
<1> DEFINE less == [i \in 0..m - 1 |-> cut[i]]
<1>11. /\ less \in [0..m - 1 -> a..Len(t)] /\ less[0] = a /\ less[m - 1] = c
       /\ \A i \in 1..m - 1 : less[i] = cut[i] /\ less[i - 1] = cut[i - 1] /\ i \in 1..m
  BY <1>1, <1>7 DEF c
<1> HIDE DEF less
<1>12. Operands(t, Z, P, a, c)
  <2>1. \A i \in 1..m - 1 :
            /\ less[i - 1] < less[i]
            /\ t[less[i]] = P[i]
            /\ <<Word(t, less[i - 1], less[i] - 1), Z[i]>> \in Level(left(P[i]))
    BY <1>3, <1>5, <1>7, <1>11
  <2> QED
    BY <1>3, <1>11, <2>1 DEF Operands
<1>13. m - 1 > 0 => rank(O[m]) <= right(P[m - 1])
  <2> HAVE m - 1 > 0
  <2>1. m - 1 \in 1..(Len(O) - 1) /\ (m - 1) + 1 = m /\ m > 1 /\ m - 1 \in 1..m - 1
    BY <1>1 DEF m
  <2>2. BindsTighter(O[m], O[m - 1])
    BY <2>1 DEF Climbing
  <2> QED
    BY <1>2, <1>3, <2>1, <2>2, TighterFits
<1>14. c \in a..n /\ rank(O[m]) \in 0..enough
  <2>1. rank(O[m]) \in 1..7 /\ rank(O[m]) <= enough
    BY <1>2, Ranks DEF m
  <2> QED
    BY <1>8, <2>1
<1>15. <<Word(t, c, n), Z[Len(P) + 1]>> \in Level(rank(O[m]))
  <2>1. Len(P) + 1 = m
    BY <1>1, <1>3
  <2> QED
    BY <1>5, <1>10, <2>1
<1>16. Len(P) > 0 => rank(O[m]) <= right(P[Len(P)])
  BY <1>3, <1>13
<1>17. LastOperand(t, Z, P, a, n, enough)
  BY <1>12, <1>14, <1>15, <1>16 DEF LastOperand
<1> QED
  BY <1>17 DEF P, Y, Z, m
-----------------------------------------------------------------------------
(***************************************************************************)
(* What has been read of a postfix expression at each place, and where its *)
(* activation waits: what is there already, or what it becomes with the    *)
(* expression that is waited for.                                          *)
(***************************************************************************)
Begun(S, place, p) ==
    /\ place = "unary" => p[1] = <<>>
    /\ place = "parenthesis" => p[1] = <<"(">>
    /\ place = "new" => p[1] = <<"new">>
    /\ place = "size" =>
          \A q \in Phrases(S) \cap Derivable.expression :
              <<p[1] \o q[1] \o <<"]">>, p[2] \o q[2]>> \in Derivable.array
    /\ place = "dimensions" => p \in Derivable.array
    /\ place = "postfix" => p \in Derivable.postfix
    /\ place = "index" =>
          \A q \in Phrases(S) \cap Derivable.expression :
              <<p[1] \o q[1] \o <<"]">>, ArrayAccess(p[2], q[2])>> \in Derivable.postfix
    /\ place = "arguments" =>
          \A q \in Phrases(S) \cap Derivable.arguments : Then(p, q) \in Derivable.postfix

\* Tokens and one or two more.
LEMMA Behind ==
    ASSUME NEW S, NEW x \in Seq(S), NEW s \in S, NEW u \in S, NEW y \in Seq(S), NEW z \in Seq(S)
    PROVE  /\ <<>> \o x = x /\ x \o <<>> = x
           /\ (x \o y) \o z = x \o (y \o z)
           /\ (x \o y) \o <<s>> = x \o (y \o <<s>>)
           /\ (x \o <<s>>) \o y = x \o (<<s>> \o y)
           /\ x \o y \in Seq(S) /\ x \o <<s>> \in Seq(S) /\ x \o <<s, u>> \in Seq(S)
           /\ <<s>> \o x \in Seq(S)
<1>1. <<s>> \in Seq(S) /\ <<s, u>> \in Seq(S)
  OBVIOUS
<1>2. <<>> \o x = x /\ x \o <<>> = x
  BY ConcatEmptySeq
<1>3. /\ (x \o y) \o z = x \o (y \o z)
      /\ (x \o y) \o <<s>> = x \o (y \o <<s>>)
      /\ (x \o <<s>>) \o y = x \o (<<s>> \o y)
  <2>1. (x \o y) \o z = x \o (y \o z)
    BY Regroups, SMTT(30)
  <2>2. (x \o y) \o <<s>> = x \o (y \o <<s>>)
    BY <1>1, Regroups, SMTT(30)
  <2>3. (x \o <<s>>) \o y = x \o (<<s>> \o y)
    BY <1>1, Regroups, SMTT(30)
  <2> QED
    BY <2>1, <2>2, <2>3
<1>4. /\ x \o y \in Seq(S) /\ x \o <<s>> \in Seq(S) /\ x \o <<s, u>> \in Seq(S)
      /\ <<s>> \o x \in Seq(S)
  BY <1>1, ConcatProperties
<1> QED
  BY <1>2, <1>3, <1>4

\* One token and more.
LEMMA ThreeBehind ==
    ASSUME NEW S, NEW a \in S, NEW b \in S, NEW c \in S, NEW d \in S
    PROVE  <<a>> \o <<b,c,d>> = <<a,b,c,d>>
<1> DEFINE x == <<a>>
           y == <<b, c, d>>
           z == <<a, b, c, d>>
<1>1. x \in Seq(S) /\ Len(x) = 1 /\ x[1] = a
  OBVIOUS
<1>2. y \in Seq(S) /\ Len(y) = 3 /\ y[1] = b /\ y[2] = c /\ y[3] = d
  OBVIOUS
<1>3. z \in Seq(S) /\ Len(z) = 4 /\ z[1] = a /\ z[2] = b /\ z[3] = c /\ z[4] = d
  OBVIOUS
<1> HIDE DEF x, y, z
<1>4. /\ x \o y \in Seq(S) /\ Len(x \o y) = Len(x) + Len(y)
      /\ \A i \in 1..Len(x) + Len(y) : (x \o y)[i] = IF i <= Len(x) THEN x[i] ELSE y[i - Len(x)]
  BY <1>1, <1>2, ConcatProperties
<1>5. x \o y = z
  BY <1>1, <1>2, <1>3, <1>4, SeqEqual
<1> QED
  BY <1>5 DEF x, y, z

LEMMA TwoBehind ==
    ASSUME NEW S, NEW a \in S, NEW b \in S, NEW c \in S
    PROVE  <<a>> \o <<b,c>> = <<a,b,c>>
<1> DEFINE x == <<a>>
           y == <<b, c>>
           z == <<a, b, c>>
<1>1. x \in Seq(S) /\ Len(x) = 1 /\ x[1] = a
  OBVIOUS
<1>2. y \in Seq(S) /\ Len(y) = 2 /\ y[1] = b /\ y[2] = c
  OBVIOUS
<1>3. z \in Seq(S) /\ Len(z) = 3 /\ z[1] = a /\ z[2] = b /\ z[3] = c
  OBVIOUS
<1> HIDE DEF x, y, z
<1>4. /\ x \o y \in Seq(S) /\ Len(x \o y) = Len(x) + Len(y)
      /\ \A i \in 1..Len(x) + Len(y) : (x \o y)[i] = IF i <= Len(x) THEN x[i] ELSE y[i - Len(x)]
  BY <1>1, <1>2, ConcatProperties
<1>5. x \o y = z
  BY <1>1, <1>2, <1>3, <1>4, SeqEqual
<1> QED
  BY <1>5 DEF x, y, z

LEMMA OneBehind ==
    ASSUME NEW S, NEW a \in S, NEW b \in S, NEW c \in S
    PROVE  <<a, b>> \o <<c>> = <<a, b, c>>
<1> DEFINE x == <<a, b>>
           y == <<c>>
           z == <<a, b, c>>
<1>1. x \in Seq(S) /\ Len(x) = 2 /\ x[1] = a /\ x[2] = b
  OBVIOUS
<1>2. y \in Seq(S) /\ Len(y) = 1 /\ y[1] = c
  OBVIOUS
<1>3. z \in Seq(S) /\ Len(z) = 3 /\ z[1] = a /\ z[2] = b /\ z[3] = c
  OBVIOUS
<1> HIDE DEF x, y, z
<1>4. /\ x \o y \in Seq(S) /\ Len(x \o y) = Len(x) + Len(y)
      /\ \A i \in 1..Len(x) + Len(y) : (x \o y)[i] = IF i <= Len(x) THEN x[i] ELSE y[i - Len(x)]
  BY <1>1, <1>2, ConcatProperties
<1>5. x \o y = z
  BY <1>1, <1>2, <1>3, <1>4, SeqEqual
<1> QED
  BY <1>5 DEF x, y, z

LEMMA BegunPrimary ==
    ASSUME IsLanguage(Derivable), NEW S, NEW x, NEW e
    PROVE  /\ Begun(S, "unary", <<x, e>>) =>
                 /\ \A l \in Literals \cup Identifiers :
                       Begun(S, "postfix", <<x \o <<l>>, <<l>>>>)
                 /\ Begun(S, "parenthesis", <<x \o <<"(">>, <<>>>>)
                 /\ Begun(S, "new", <<x \o <<"new">>, <<>>>>)
           /\ Begun(S, "new", <<x, e>>) =>
                 /\ \A id \in Identifiers :
                       Begun(S, "postfix", <<x \o <<id, "(", ")">>, <<"NewObject">>>>)
                 /\ \A b \in BasicTypes :
                       Begun(S, "size", <<x \o <<b, "[">>, NewArray(b)>>)
<1> DEFINE p == <<x, e>>
<1>1. p[1] = x /\ p[2] = e
  OBVIOUS
<1>2. ASSUME Begun(S, "unary", <<x, e>>)
      PROVE  /\ \A l \in Literals \cup Identifiers :
                       Begun(S, "postfix", <<x \o <<l>>, <<l>>>>)
             /\ Begun(S, "parenthesis", <<x \o <<"(">>, <<>>>>)
             /\ Begun(S, "new", <<x \o <<"new">>, <<>>>>)
  <2>1. x = <<>>
    BY <1>2 DEF Begun
  <2>2. /\ x \o <<"(">> = <<"(">> /\ x \o <<"new">> = <<"new">>
        /\ \A l \in Literals \cup Identifiers : x \o <<l>> = <<l>>
    BY <2>1
  <2>3. \A l \in Literals \cup Identifiers : Begun(S, "postfix", <<x \o <<l>>, <<l>>>>)
    BY <2>2, PrimaryDerived DEF Begun
  <2> QED
    BY <2>2, <2>3 DEF Begun
<1>3. ASSUME Begun(S, "new", <<x, e>>)
      PROVE  /\ \A id \in Identifiers :
                       Begun(S, "postfix", <<x \o <<id, "(", ")">>, <<"NewObject">>>>)
             /\ \A b \in BasicTypes :
                       Begun(S, "size", <<x \o <<b, "[">>, NewArray(b)>>)
  <2>1. x = <<"new">>
    BY <1>3 DEF Begun
  <2>2. /\ \A id \in Identifiers : x \o <<id, "(", ")">> = <<"new", id, "(", ")">>
        /\ \A b \in BasicTypes : x \o <<b, "[">> = <<"new", b, "[">>
    <3>1. /\ "new" \in Kind /\ "(" \in Kind /\ ")" \in Kind /\ "[" \in Kind
          /\ Identifiers \subseteq Kind /\ BasicTypes \subseteq Kind
      BY DEF Kind, BasicTypes
    <3> QED
      BY <2>1, <3>1, TwoBehind, ThreeBehind
  <2>3. \A id \in Identifiers :
            Begun(S, "postfix", <<x \o <<id, "(", ")">>, <<"NewObject">>>>)
    BY <2>2, PrimaryDerived DEF Begun
  <2>4. ASSUME NEW b \in BasicTypes
        PROVE  Begun(S, "size", <<x \o <<b, "[">>, NewArray(b)>>)
    <3>1. \A q \in Derivable.expression :
              <<<<"new", b, "[">> \o q[1] \o <<"]">>, NewArray(b) \o q[2]>> \in Derivable.array
      BY PrimaryDerived
    <3> DEFINE y == <<"new", b, "[">>
               g == NewArray(b)
    <3>2. x \o <<b, "[">> = y
      BY <2>2
    <3> HIDE DEF y, g
    <3>3. \A q \in Derivable.expression : <<y \o q[1] \o <<"]">>, g \o q[2]>> \in Derivable.array
      BY <3>1 DEF y, g
    <3>4. <<y, g>>[1] = y /\ <<y, g>>[2] = g
      OBVIOUS
    <3>5. Begun(S, "size", <<y, g>>)
      BY <3>3, <3>4, Zenon DEF Begun
    <3> QED
      BY <3>2, <3>5 DEF g
  <2> QED
    BY <2>3, <2>4
<1> QED
  BY <1>2, <1>3

LEMMA BegunCalls ==
    ASSUME IsLanguage(Derivable), NEW S, Kind \cup Constructors \subseteq S,
           NEW x \in Seq(Kind), NEW e \in Seq(S), NEW id \in Identifiers
    PROVE  /\ Begun(S, "unary", <<x, e>>) =>
                 /\ Begun(S, "postfix", <<x \o <<id, "(", ")">>, Append(<<"ThisMethodInvocation">>, ")")>>)
                 /\ Begun(S, "arguments", <<x \o <<id, "(">>, <<"ThisMethodInvocation">>>>)
           /\ Begun(S, "postfix", <<x, e>>) =>
                 /\ Begun(S, "postfix", <<x \o <<".", id, "(", ")">>,
                                          Append(<<"MethodInvocation">> \o e, ")")>>)
                 /\ Begun(S, "arguments", <<x \o <<".", id, "(">>, <<"MethodInvocation">> \o e>>)
<1> DEFINE none == <<<<")">>, <<")">>>>
<1>1. none \in NoArguments
  BY DEF NoArguments, Terminal
<1>2. none[1] = <<")">> /\ none[2] = <<")">>
  OBVIOUS
<1>3. /\ "." \in Kind /\ id \in Kind /\ "(" \in Kind /\ ")" \in Kind /\ ")" \in S
      /\ "MethodInvocation" \in S /\ "ThisMethodInvocation" \in S
  <2>1. /\ "." \in Kind /\ id \in Kind /\ "(" \in Kind /\ ")" \in Kind
        /\ "MethodInvocation" \in Constructors /\ "ThisMethodInvocation" \in Constructors
    BY DEF Kind, BasicTypes, Constructors
  <2> QED
    BY <2>1
<1> HIDE DEF none
<1>4. ASSUME Begun(S, "unary", <<x, e>>)
      PROVE  /\ Begun(S, "postfix", <<x \o <<id, "(", ")">>, Append(<<"ThisMethodInvocation">>, ")")>>)
             /\ Begun(S, "arguments", <<x \o <<id, "(">>, <<"ThisMethodInvocation">>>>)
  <2> DEFINE p == <<<<id, "(">>, <<"ThisMethodInvocation">>>>
  <2>1. x = <<>>
    BY <1>4 DEF Begun
  <2>2. x \o <<id, "(", ")">> = <<id, "(", ")">> /\ x \o <<id, "(">> = <<id, "(">>
    <3>1. <<id, "(", ")">> \in Seq(Kind) /\ <<id, "(">> \in Seq(Kind)
      BY <1>3
    <3> QED
      BY <2>1, <3>1, ConcatEmptySeq
  <2>3. \A a \in NoArguments \cup Derivable.arguments : Then(p, a) \in Derivable.postfix
    BY PostfixDerived
  <2>4. p[1] = <<id, "(">> /\ p[2] = <<"ThisMethodInvocation">>
    OBVIOUS
  <2>5. Then(p, none) = <<<<id, "(", ")">>, Append(<<"ThisMethodInvocation">>, ")")>>
    <3>1. <<id, "(">> \o <<")">> = <<id, "(", ")">>
      BY <1>3, OneBehind, Zenon
    <3>2. <<"ThisMethodInvocation">> \in Seq(S)
      BY <1>3
    <3>3. Append(<<"ThisMethodInvocation">>, ")") = <<"ThisMethodInvocation">> \o <<")">>
      BY <1>3, <3>2, AppendIsConcat
    <3> QED
      BY <1>2, <2>4, <3>1, <3>3, Zenon DEF Then
  <2>6. Begun(S, "arguments", p)
    BY <2>3, Zenon DEF Begun
  <2>7. Then(p, none) \in Derivable.postfix
    BY <1>1, <2>3
  <2> HIDE DEF p
  <2>8. Begun(S, "postfix", Then(p, none))
    BY <2>7 DEF Begun
  <2> QED
    BY <2>2, <2>5, <2>6, <2>8 DEF p
<1>5. ASSUME Begun(S, "postfix", <<x, e>>)
      PROVE  /\ Begun(S, "postfix", <<x \o <<".", id, "(", ")">>,
                                       Append(<<"MethodInvocation">> \o e, ")")>>)
             /\ Begun(S, "arguments", <<x \o <<".", id, "(">>, <<"MethodInvocation">> \o e>>)
  <2> DEFINE o == <<x, e>>
             y == x \o <<".", id, "(">>
             g == <<"MethodInvocation">> \o e
             p == <<y, g>>
  <2>1. o \in Derivable.postfix
    BY <1>5 DEF Begun
  <2>2. o[1] = x /\ o[2] = e
    OBVIOUS
  <2>3. \A a \in NoArguments \cup Derivable.arguments : Then(p, a) \in Derivable.postfix
    BY <2>1, <2>2, PostfixDerived
  <2>4. p[1] = y /\ p[2] = g
    OBVIOUS
  <2>5. y \o <<")">> = x \o <<".", id, "(", ")">>
    <3>1. <<".", id, "(">> \in Seq(Kind) /\ <<")">> \in Seq(Kind)
      BY <1>3
    <3>2. <<".", id, "(">> \o <<")">> = <<".", id, "(", ")">>
      <4>1. <<".">> \in Seq(Kind) /\ <<id, "(">> \in Seq(Kind)
        BY <1>3
      <4>2. <<".", id, "(">> = <<".">> \o <<id, "(">>
        BY <1>3, TwoBehind, Zenon
      <4>3. <<id, "(">> \o <<")">> = <<id, "(", ")">>
        BY <1>3, OneBehind, Zenon
      <4>4. (<<".">> \o <<id, "(">>) \o <<")">> = <<".">> \o (<<id, "(">> \o <<")">>)
        <5> DEFINE u == <<".">>
                   v == <<id, "(">>
                   w == <<")">>
        <5>1. u \in Seq(Kind) /\ v \in Seq(Kind) /\ w \in Seq(Kind)
          BY <3>1, <4>1
        <5> HIDE DEF u, v, w
        <5>2. (u \o v) \o w = u \o (v \o w)
          BY <5>1, WordsRegroup
        <5> QED
          BY <5>2 DEF u, v, w
      <4>5. <<".">> \o <<id, "(", ")">> = <<".", id, "(", ")">>
        <5>1. \A u, v, w, z \in Kind : <<u>> \o <<v, w, z>> = <<u, v, w, z>>
          BY ThreeBehind
        <5> QED
          BY <1>3, <5>1, Zenon
      <4> QED
        BY <4>2, <4>3, <4>4, <4>5, Zenon
    <3> QED
      BY <3>1, <3>2, WordsRegroup, SMTT(30)
  <2>6. Append(g, ")") = g \o <<")">>
    <3>1. <<"MethodInvocation">> \in Seq(S)
      BY <1>3
    <3>2. g \in Seq(S)
      BY <3>1, ConcatProperties
    <3> QED
      BY <1>3, <3>2, AppendIsConcat
  <2> HIDE DEF y, g
  <2>7. Then(p, none) = <<x \o <<".", id, "(", ")">>, Append(g, ")")>>
    BY <1>2, <2>4, <2>5, <2>6, Zenon DEF Then
  <2>8. Begun(S, "arguments", p)
    BY <2>3, Zenon DEF Begun
  <2>9. Then(p, none) \in Derivable.postfix
    BY <1>1, <2>3
  <2> HIDE DEF p
  <2>10. Begun(S, "postfix", Then(p, none))
    BY <2>9 DEF Begun
  <2> QED
    BY <2>7, <2>8, <2>10 DEF p, y, g
<1> QED
  BY <1>4, <1>5

LEMMA BegunPostfix ==
    ASSUME IsLanguage(Derivable), NEW S, NEW x \in Seq(Kind), NEW e \in Seq(S)
    PROVE  /\ Begun(S, "postfix", <<x, e>>) =>
                 /\ \A id \in Identifiers : Begun(S, "postfix", <<x \o <<".", id>>, FieldAccess(e)>>)
                 /\ Begun(S, "index", <<x \o <<"[">>, e>>)
           /\ Begun(S, "dimensions", <<x, e>>) =>
                 /\ Begun(S, "dimensions", <<x \o <<"[", "]">>, <<"ArrayOf">> \o e>>)
                 /\ Begun(S, "postfix", <<x, e>>)
<1> DEFINE p == <<x, e>>
<1>1. p[1] = x /\ p[2] = e
  OBVIOUS
<1>2. ASSUME Begun(S, "postfix", p)
      PROVE  /\ \A id \in Identifiers : Begun(S, "postfix", <<x \o <<".", id>>, FieldAccess(e)>>)
             /\ Begun(S, "index", <<x \o <<"[">>, e>>)
  <2>1. p \in Derivable.postfix
    BY <1>2 DEF Begun
  <2> HIDE DEF p
  <2>2. \A id \in Identifiers : <<x \o <<".", id>>, FieldAccess(e)>> \in Derivable.postfix
    BY <1>1, <2>1, PostfixDerived
  <2>3. \A id \in Identifiers : Begun(S, "postfix", <<x \o <<".", id>>, FieldAccess(e)>>)
    BY <2>2 DEF Begun
  <2>4. \A q \in Derivable.expression :
            <<x \o <<"[">> \o q[1] \o <<"]">>, ArrayAccess(e, q[2])>> \in Derivable.postfix
    BY <1>1, <2>1, PostfixDerived
  <2> DEFINE y == x \o <<"[">>
             r == <<y, e>>
  <2>5. \A q \in Derivable.expression :
            <<y \o q[1] \o <<"]">>, ArrayAccess(e, q[2])>> \in Derivable.postfix
    BY <2>4
  <2> HIDE DEF y
  <2>6. r[1] = y /\ r[2] = e
    OBVIOUS
  <2>7. Begun(S, "index", r)
    BY <2>5, <2>6, Zenon DEF Begun
  <2> QED
    BY <2>3, <2>7 DEF y
<1>3. ASSUME Begun(S, "dimensions", p)
      PROVE  /\ Begun(S, "dimensions", <<x \o <<"[", "]">>, <<"ArrayOf">> \o e>>)
             /\ Begun(S, "postfix", p)
  <2>1. p \in Derivable.array
    BY <1>3 DEF Begun
  <2> HIDE DEF p
  <2>2. <<<<>> \o x \o <<"[", "]">>, <<"ArrayOf">> \o e>> \in Derivable.array
    BY <1>1, <2>1, PrimaryDerived
  <2>3. <<>> \o x = x
    BY ConcatEmptySeq
  <2>4. p \in Derivable.postfix
    BY <2>1, PrimaryDerived
  <2> QED
    BY <2>2, <2>3, <2>4 DEF Begun
<1> QED
  BY <1>2, <1>3

(***************************************************************************)
(* The expression that is waited for, with the token behind it.            *)
(***************************************************************************)
LEMMA BegunReturns ==
    ASSUME IsLanguage(Derivable), NEW S, Kind \cup Constructors \subseteq S,
           NEW x \in Seq(Kind), NEW e \in Seq(S),
           NEW y \in Seq(Kind), NEW f \in Seq(S), <<y, f>> \in Derivable.expression
    PROVE  /\ Begun(S, "parenthesis", <<x, e>>) => Begun(S, "postfix", <<x \o (y \o <<")">>), f>>)
           /\ Begun(S, "index", <<x, e>>) =>
                 Begun(S, "postfix", <<x \o (y \o <<"]">>), ArrayAccess(e, f)>>)
           /\ Begun(S, "size", <<x, e>>) =>
                 Begun(S, "dimensions", <<x \o (y \o <<"]">>), e \o f>>)
           /\ Begun(S, "arguments", <<x, e>>) =>
                 /\ Begun(S, "postfix", <<x \o (y \o <<")">>), Append(e \o f, ")")>>)
                 /\ Begun(S, "arguments", <<x \o (y \o <<",">>), e \o f>>)
<1> DEFINE p == <<x, e>>
           q == <<y, f>>
<1>1. /\ p[1] = x /\ p[2] = e /\ q[1] = y /\ q[2] = f
      /\ p \in Phrases(S) /\ q \in Phrases(S) /\ q \in Derivable.expression
  BY PhraseParts
<1>2. ")" \in Kind /\ "]" \in Kind /\ "," \in Kind /\ ")" \in S /\ "," \in S
  BY DEF Kind
<1>3. /\ <<")">> \in Seq(Kind) /\ <<"]">> \in Seq(Kind) /\ <<",">> \in Seq(Kind)
      /\ <<")">> \in Seq(S) /\ <<>> \in Seq(S) /\ <<>> \in Seq(Kind)
  <2>1. \A T : <<>> \in Seq(T) /\ \A s \in T : <<s>> \in Seq(T)
    OBVIOUS
  <2> QED
    BY <1>2, <2>1, Zenon
<1>4. /\ (x \o y) \o <<"]">> = x \o (y \o <<"]">>)
      /\ (x \o y) \o <<")">> = x \o (y \o <<")">>)
      /\ (x \o y) \o <<",">> = x \o (y \o <<",">>)
  <2>1. \A z \in Seq(Kind) : (x \o y) \o z = x \o (y \o z)
    BY WordsRegroup
  <2> QED
    BY <1>3, <2>1, Zenon
<1> HIDE DEF p, q
<1>5. ASSUME Begun(S, "parenthesis", p) PROVE Begun(S, "postfix", <<x \o (y \o <<")">>), f>>)
  <2>1. x = <<"(">>
    BY <1>1, <1>5 DEF Begun
  <2>2. <<<<"(">> \o y \o <<")">>, <<>> \o f>> \in Derivable.postfix
    BY <1>1, PrimaryDerived
  <2>3. <<>> \o f = f
    BY ConcatEmptySeq
  <2> QED
    BY <1>4, <2>1, <2>2, <2>3 DEF Begun
<1>6. ASSUME Begun(S, "index", p)
      PROVE  Begun(S, "postfix", <<x \o (y \o <<"]">>), ArrayAccess(e, f)>>)
  <2>1. <<x \o y \o <<"]">>, ArrayAccess(e, f)>> \in Derivable.postfix
    BY <1>1, <1>6 DEF Begun
  <2> QED
    BY <1>4, <2>1 DEF Begun
<1>7. ASSUME Begun(S, "size", p)
      PROVE  Begun(S, "dimensions", <<x \o (y \o <<"]">>), e \o f>>)
  <2>1. <<x \o y \o <<"]">>, e \o f>> \in Derivable.array
    BY <1>1, <1>7 DEF Begun
  <2> QED
    BY <1>4, <2>1 DEF Begun
<1>8. ASSUME Begun(S, "arguments", p)
      PROVE  /\ Begun(S, "postfix", <<x \o (y \o <<")">>), Append(e \o f, ")")>>)
             /\ Begun(S, "arguments", <<x \o (y \o <<",">>), e \o f>>)
  <2>1. \A a \in Phrases(S) \cap Derivable.arguments : Then(p, a) \in Derivable.postfix
    BY <1>8 DEF Begun
  <2> DEFINE last == <<<<")">>, <<")">>>>
             comma(a) == <<<<",">> \o a[1] \o <<>>, <<>> \o a[2]>>
             r == <<x \o (y \o <<",">>), e \o f>>
  <2>2. last \in Phrases(S) /\ last[1] = <<")">> /\ last[2] = <<")">>
    BY <1>3, PhraseParts
  <2>3. Then(p, Then(q, last)) = <<x \o (y \o <<")">>), Append(e \o f, ")")>>
    <3>1. e \o f \in Seq(S) /\ (e \o f) \o <<")">> = e \o (f \o <<")">>)
      <4> DEFINE z == <<")">>
      <4>1. z \in Seq(S)
        BY <1>3
      <4> HIDE DEF z
      <4>2. (e \o f) \o z = e \o (f \o z)
        BY <4>1, Regroups, SMTT(30)
      <4>3. e \o f \in Seq(S)
        BY ConcatProperties
      <4> QED
        BY <4>2, <4>3 DEF z
    <3>2. Append(e \o f, ")") = (e \o f) \o <<")">>
      BY <1>2, <3>1, AppendIsConcat
    <3>3. Then(q, last) = <<y \o <<")">>, f \o <<")">>>>
      BY <1>1, <2>2, Zenon DEF Then
    <3>4. Then(p, Then(q, last)) = <<p[1] \o Then(q, last)[1], p[2] \o Then(q, last)[2]>>
      BY Zenon DEF Then
    <3>5. Then(q, last)[1] = y \o <<")">> /\ Then(q, last)[2] = f \o <<")">>
      BY <3>3
    <3> QED
      BY <1>1, <3>1, <3>2, <3>4, <3>5, Zenon
  <2>4. Then(p, Then(q, last)) \in Derivable.postfix
    <3>1. Then(q, last) \in Derivable.arguments
      BY <1>1, PostfixDerived
    <3> HIDE DEF last
    <3>2. Then(q, last) \in Phrases(S)
      BY <1>1, <2>2, ThenPhrase
    <3> QED
      BY <2>1, <3>1, <3>2
  <2>5. Begun(S, "postfix", <<x \o (y \o <<")">>), Append(e \o f, ")")>>)
    BY <2>3, <2>4 DEF Begun
  <2>6. x \o (y \o <<",">>) \in Seq(Kind) /\ e \o f \in Seq(S)
    BY <1>3, ConcatProperties
  <2>7. r[1] = x \o (y \o <<",">>) /\ r[2] = e \o f
    OBVIOUS
  <2> HIDE DEF r
  <2>8. ASSUME NEW a \in Phrases(S) \cap Derivable.arguments PROVE Then(r, a) \in Derivable.postfix
    <3>1. /\ a[1] \in Seq(Kind) /\ a[2] \in Seq(S) /\ a \in Phrases(S)
          /\ a \in Derivable.arguments
      BY PhraseParts
    <3>2. comma(a)[1] = <<",">> \o a[1] /\ comma(a)[2] = a[2]
      <4>1. <<",">> \o a[1] \in Seq(Kind)
        BY <1>3, <3>1, ConcatProperties
      <4>2. (<<",">> \o a[1]) \o <<>> = <<",">> \o a[1] /\ <<>> \o a[2] = a[2]
        BY <3>1, <4>1, ConcatEmptySeq
      <4> QED
        BY <4>2
    <3>3. Then(q, comma(a)) \in Derivable.arguments
      BY <1>1, <3>1, PostfixDerived
    <3> DEFINE c == comma(a)
    <3>4. c \in Phrases(S)
      <4>1. <<",">> \o a[1] \o <<>> \in Seq(Kind) /\ <<>> \o a[2] \in Seq(S)
        BY <1>3, <3>1, ConcatProperties
      <4> QED
        BY <4>1, PhraseParts
    <3> HIDE DEF comma
    <3>5. Then(p, Then(q, c)) \in Derivable.postfix
      <4>1. Then(q, c) \in Phrases(S)
        BY <1>1, <3>4, ThenPhrase
      <4> QED
        BY <2>1, <3>3, <4>1
    <3>6. Then(r, a) = Then(p, Then(q, c))
      <4>1. Then(q, c)[1] = y \o (<<",">> \o a[1]) /\ Then(q, c)[2] = f \o a[2]
        <5>1. Then(q, c) = <<q[1] \o c[1], q[2] \o c[2]>>
          BY Zenon DEF Then
        <5>2. c[1] = <<",">> \o a[1] /\ c[2] = a[2]
          BY <3>2
        <5>3. Then(q, c) = <<y \o (<<",">> \o a[1]), f \o a[2]>>
          BY <1>1, <5>1, <5>2, Zenon
        <5> DEFINE u == y \o (<<",">> \o a[1])
                   v == f \o a[2]
        <5>4. Then(q, c) = <<u, v>>
          BY <5>3
        <5> HIDE DEF u, v
        <5>5. Then(q, c)[1] = u /\ Then(q, c)[2] = v
          BY <5>4
        <5> QED
          BY <5>5 DEF u, v
      <4>2. Then(p, Then(q, c)) = <<x \o (y \o (<<",">> \o a[1])), e \o (f \o a[2])>>
        <5>1. Then(p, Then(q, c)) = <<p[1] \o Then(q, c)[1], p[2] \o Then(q, c)[2]>>
          BY Zenon DEF Then
        <5> QED
          BY <1>1, <4>1, <5>1, Zenon
      <4>3. Then(r, a) = <<(x \o (y \o <<",">>)) \o a[1], (e \o f) \o a[2]>>
        BY <2>7, Zenon DEF Then
      <4>4. (e \o f) \o a[2] = e \o (f \o a[2])
        <5> DEFINE g == a[2]
        <5>1. g \in Seq(S)
          BY <3>1
        <5> HIDE DEF g
        <5>2. (e \o f) \o g = e \o (f \o g)
          BY <5>1, Regroups, SMTT(30)
        <5> QED
          BY <5>2 DEF g
      <4>5. (x \o (y \o <<",">>)) \o a[1] = x \o (y \o (<<",">> \o a[1]))
        <5> DEFINE g == a[1]
                   z == <<",">>
                   yz == y \o z
        <5>1. g \in Seq(Kind) /\ z \in Seq(Kind)
          BY <1>3, <3>1
        <5> HIDE DEF g, z
        <5>2. yz \in Seq(Kind)
          BY <5>1, ConcatProperties
        <5>3. yz \o g = y \o (z \o g)
          BY <5>1, WordsRegroup
        <5> HIDE DEF yz
        <5>4. (x \o yz) \o g = x \o (yz \o g)
          BY <5>1, <5>2, WordsRegroup
        <5> QED
          BY <5>3, <5>4 DEF g, z, yz
      <4> QED
        BY <4>2, <4>3, <4>4, <4>5
    <3> QED
      BY <3>5, <3>6
  <2>9. Begun(S, "arguments", r)
    BY <2>8 DEF Begun
  <2> QED
    BY <2>5, <2>9 DEF r
<1> QED
  BY <1>5, <1>6, <1>7, <1>8 DEF p
-----------------------------------------------------------------------------
(***************************************************************************)
(* An activation that began behind token a, up to token n: operands with   *)
(* their operators, unary operators, and what has been read of a postfix   *)
(* expression, with the tree e.                                            *)
(***************************************************************************)
Partial(S, t, place, operands, operators, unary, e, a, n) ==
    \E b \in a..n, x \in Seq(Kind) :
        /\ Operands(t, operands, operators, a, b)
        /\ Word(t, b, n) = unary \o x
        /\ Begun(S, place, <<x, e>>)

\* Some of the unary operators are applied.
Applying(S, t, operands, operators, unary, e, a, n) ==
    \E b \in a..n, done \in Seq(UnaryOps), x \in Seq(Kind), f \in Seq(S) :
        /\ Operands(t, operands, operators, a, b)
        /\ Word(t, b, n) = (done \o unary) \o x
        /\ <<x, f>> \in Derivable.postfix
        /\ e = FirstReadInnermost(done, f)

UnaryPlaces == {"unary", "new", "dimensions", "postfix"}

\* The running activation.  A binary operator ahead is taken before anything
\* is evaluated.
Current(S, t, place, operands, operators, unary, e, o, a, n) ==
    /\ place \in UnaryPlaces => Partial(S, t, place, operands, operators, unary, e, a, n)
    /\ place = "apply" => Applying(S, t, operands, operators, unary, e, a, n)
    /\ place = "binary" =>
          /\ unary = <<>>
          /\ LastOperand(t, operands, operators, a, n,
                         IF n + 1 \in 1..Len(t) /\ t[n + 1] \in BinaryOps THEN 0 ELSE 7)
    /\ place = "reduce" =>
          /\ unary = <<>>
          /\ n > a /\ t[n] = o
          /\ LastOperand(t, operands, operators, a, n - 1, left(o))
    /\ place = "return" =>
          /\ unary = <<>>
          /\ a <= n
          /\ <<Word(t, a, n), e>> \in Derivable.expression

LEMMA UnaryIsKind ==
    ASSUME NEW o \in Seq(UnaryOps)
    PROVE  o \in Seq(Kind)
<1>1. UnaryOps \subseteq Kind
  BY DEF Kind
<1> QED
  BY <1>1, SeqMonotonic

\* More tokens.
LEMMA Longer ==
    ASSUME NEW S, NEW t \in Seq(Kind), NEW X, NEW O \in Seq(BinaryOps), NEW u \in Seq(UnaryOps),
           NEW e, NEW f, NEW a \in Nat, NEW n \in Nat, NEW k \in n..Len(t), NEW place, NEW to,
           Partial(S, t, place, X, O, u, e, a, n),
           \A x \in Seq(Kind) :
              Begun(S, place, <<x, e>>) => Begun(S, to, <<x \o Word(t, n, k), f>>)
    PROVE  Partial(S, t, to, X, O, u, f, a, k)
<1>1. PICK b \in a..n, x \in Seq(Kind) : /\ Operands(t, X, O, a, b)
                                         /\ Word(t, b, n) = u \o x
                                         /\ Begun(S, place, <<x, e>>)
  BY DEF Partial
<1>2. Len(t) \in Nat /\ b \in Nat /\ n \in b..Len(t) /\ b \in a..k
  BY LenProperties
<1>3. Word(t, b, n) \o Word(t, n, k) = Word(t, b, k)
  BY <1>2, WordConcat
<1>4. Word(t, n, k) \in Seq(Kind)
  BY WordSeq
<1> DEFINE w == Word(t, n, k)
<1>5. w \in Seq(Kind) /\ u \in Seq(Kind)
  BY <1>4, UnaryIsKind
<1>6. Begun(S, to, <<x \o w, f>>)
  BY <1>1
<1>7. Word(t, b, k) = (u \o x) \o w
  BY <1>1, <1>3
<1> HIDE DEF w
<1>8. (u \o x) \o w = u \o (x \o w) /\ x \o w \in Seq(Kind)
  <2>1. (u \o x) \o w = u \o (x \o w)
    BY <1>5, WordsRegroup
  <2>2. x \o w \in Seq(Kind)
    BY <1>5, ConcatProperties
  <2> QED
    BY <2>1, <2>2
<1>9. Word(t, b, k) = u \o (x \o w)
  BY <1>7, <1>8
<1> QED
  BY <1>1, <1>2, <1>6, <1>8, <1>9 DEF Partial

\* One more unary operator.
LEMMA LongerUnary ==
    ASSUME NEW S, NEW t \in Seq(Kind), NEW X, NEW O \in Seq(BinaryOps), NEW u \in Seq(UnaryOps),
           NEW e, NEW a \in Nat, NEW n \in Nat, n + 1 \in 1..Len(t), t[n + 1] \in UnaryOps,
           Partial(S, t, "unary", X, O, u, e, a, n)
    PROVE  Partial(S, t, "unary", X, O, Append(u, t[n + 1]), e, a, n + 1)
<1>1. PICK b \in a..n, x \in Seq(Kind) : /\ Operands(t, X, O, a, b)
                                         /\ Word(t, b, n) = u \o x
                                         /\ Begun(S, "unary", <<x, e>>)
  BY DEF Partial
<1>2. x = <<>>
  <2> DEFINE p == <<x, e>>
  <2>1. p[1] = x
    OBVIOUS
  <2> QED
    BY <1>1, <2>1 DEF Begun
<1>3. Len(t) \in Nat /\ b \in Nat /\ b <= n /\ b \in a..n + 1
  BY LenProperties
<1>4. Word(t, b, n + 1) = Word(t, b, n) \o <<t[n + 1]>>
  BY <1>3, WordNext
<1>5. u \o x = u /\ u \in Seq(UnaryOps)
  BY <1>2, ConcatEmptySeq
<1>6. Append(u, t[n + 1]) = u \o <<t[n + 1]>> /\ Append(u, t[n + 1]) \in Seq(UnaryOps)
  BY AppendIsConcat, AppendProperties
<1> DEFINE v == Append(u, t[n + 1])
<1>7. Word(t, b, n + 1) = v /\ v \in Seq(UnaryOps)
  BY <1>1, <1>4, <1>5, <1>6
<1> HIDE DEF v
<1>8. v \o x = v
  BY <1>2, <1>7, ConcatEmptySeq
<1> QED
  BY <1>1, <1>3, <1>7, <1>8 DEF Partial, v

\* The activation that has just begun.
LEMMA BegunFresh ==
    ASSUME NEW S, NEW t \in Seq(Kind), NEW X, NEW e, NEW n \in 0..Len(t)
    PROVE  Partial(S, t, "unary", X, <<>>, <<>>, e, n, n)
<1>1. Operands(t, X, <<>>, n, n)
  BY NoOperands
<1>2. Len(t) \in Nat /\ n \in n..n /\ n \in Nat
  BY LenProperties
<1>3. Word(t, n, n) = <<>> \o <<>> /\ <<>> \in Seq(Kind)
  <2>1. <<>> \o <<>> = <<>> /\ <<>> \in Seq(Kind)
    BY EmptySeq, ConcatEmptySeq
  <2> QED
    BY <1>2, <2>1, WordEmpty
<1>4. Begun(S, "unary", <<<<>>, e>>)
  <2> DEFINE p == <<<<>>, e>>
  <2>1. p[1] = <<>>
    OBVIOUS
  <2> QED
    BY <2>1 DEF Begun
<1> QED
  BY <1>1, <1>2, <1>3, <1>4 DEF Partial

\* The operator at token n has been pushed.
LEMMA BegunOperand ==
    ASSUME NEW S, NEW t \in Seq(Kind), NEW X, NEW O \in Seq(BinaryOps), NEW e,
           NEW a \in Nat, NEW n \in Nat, Operands(t, X, O, a, n), n <= Len(t)
    PROVE  Partial(S, t, "unary", X, O, <<>>, e, a, n)
<1>1. Len(t) \in Nat /\ n \in a..n
  BY LenProperties, OperandsWithin
<1>2. Word(t, n, n) = <<>> \o <<>> /\ <<>> \in Seq(Kind)
  <2>1. <<>> \o <<>> = <<>> /\ <<>> \in Seq(Kind)
    BY EmptySeq, ConcatEmptySeq
  <2> QED
    BY <2>1, WordEmpty
<1>3. Begun(S, "unary", <<<<>>, e>>)
  <2> DEFINE p == <<<<>>, e>>
  <2>1. p[1] = <<>>
    OBVIOUS
  <2> QED
    BY <2>1 DEF Begun
<1> QED
  BY <1>1, <1>2, <1>3 DEF Partial

-----------------------------------------------------------------------------
(***************************************************************************)
(* From the end of a postfix expression to that of the binary one.         *)
(***************************************************************************)
LEMMA StartApplying ==
    ASSUME NEW S, Kind \cup Constructors \subseteq S,
           NEW t \in Seq(Kind), NEW X, NEW O \in Seq(BinaryOps), NEW u \in Seq(UnaryOps),
           NEW e \in Seq(S), NEW a \in Nat, NEW n \in Nat,
           Partial(S, t, "postfix", X, O, u, e, a, n)
    PROVE  Applying(S, t, X, O, u, e, a, n)
<1>1. PICK b \in a..n, x \in Seq(Kind) : /\ Operands(t, X, O, a, b)
                                         /\ Word(t, b, n) = u \o x
                                         /\ Begun(S, "postfix", <<x, e>>)
  BY DEF Partial
<1>2. <<x, e>> \in Derivable.postfix
  BY <1>1 DEF Begun
<1>3. <<>> \in Seq(UnaryOps) /\ <<>> \o u = u
  BY EmptySeq, ConcatEmptySeq
<1>4. FirstReadInnermost(<<>>, e) = e
  <2>1. PICK v : v \in UnaryOps
    BY DEF UnaryOps
  <2> QED
    BY <1>3, <2>1, OneMoreUnary, Zenon
<1>5. Word(t, b, n) = (<<>> \o u) \o x
  BY <1>1, <1>3
<1> QED
  BY <1>1, <1>2, <1>3, <1>4, <1>5 DEF Applying

LEMMA ApplyOne ==
    ASSUME NEW S, Kind \cup Constructors \subseteq S,
           NEW t \in Seq(Kind), NEW X, NEW O \in Seq(BinaryOps), NEW u \in Seq(UnaryOps),
           NEW e \in Seq(S), NEW a \in Nat, NEW n \in Nat, u # <<>>,
           Applying(S, t, X, O, u, e, a, n)
    PROVE  Applying(S, t, X, O, Tail(u), Unary(Head(u), e), a, n)
<1>1. PICK b \in a..n, done \in Seq(UnaryOps), x \in Seq(Kind), f \in Seq(S) :
         /\ Operands(t, X, O, a, b)
         /\ Word(t, b, n) = (done \o u) \o x
         /\ <<x, f>> \in Derivable.postfix
         /\ e = FirstReadInnermost(done, f)
  BY DEF Applying
<1> DEFINE h == Head(u)
           r == Tail(u)
           more == Append(done, h)
<1>2. h \in UnaryOps /\ r \in Seq(UnaryOps) /\ u = <<h>> \o r
  BY HeadTailProperties
<1> HIDE DEF h, r
<1>3. more \in Seq(UnaryOps) /\ more = done \o <<h>> /\ <<h>> \in Seq(UnaryOps)
  <2>1. more \in Seq(UnaryOps) /\ more = done \o <<h>>
    BY <1>2, AppendProperties, AppendIsConcat
  <2>2. <<h>> \in Seq(UnaryOps)
    BY <1>2
  <2> QED
    BY <2>1, <2>2
<1>4. done \o u = more \o r
  <2>1. (done \o <<h>>) \o r = done \o (<<h>> \o r)
    BY <1>2, <1>3, UnaryOpsRegroup, Zenon
  <2> QED
    BY <1>2, <1>3, <2>1, Zenon
<1>5. FirstReadInnermost(more, f) = Unary(h, FirstReadInnermost(done, f))
  <2>1. FirstReadInnermost(Append(done, h), f) = Unary(h, FirstReadInnermost(done, f))
    BY <1>1, <1>2, OneMoreUnary, SMT
  <2> QED
    BY <2>1, Zenon
<1>6. Word(t, b, n) = (more \o r) \o x /\ Unary(h, e) = FirstReadInnermost(more, f)
  BY <1>1, <1>4, <1>5
<1> HIDE DEF more
<1>7. Applying(S, t, X, O, r, Unary(h, e), a, n)
  BY <1>1, <1>3, <1>6 DEF Applying
<1> QED
  BY <1>7 DEF h, r

LEMMA PushOne ==
    ASSUME IsLanguage(Derivable), NEW S,
           NEW t \in Seq(Kind), NEW X \in Seq(Seq(S)), NEW O \in Seq(BinaryOps), Len(X) = Len(O),
           NEW e \in Seq(S), NEW a \in Nat, NEW n \in Nat, NEW most \in 0..7,
           Applying(S, t, X, O, <<>>, e, a, n)
    PROVE  LastOperand(t, Append(X, e), O, a, n, most)
<1>1. PICK b \in a..n, done \in Seq(UnaryOps), x \in Seq(Kind), f \in Seq(S) :
         /\ Operands(t, X, O, a, b)
         /\ Word(t, b, n) = (done \o <<>>) \o x
         /\ <<x, f>> \in Derivable.postfix
         /\ e = FirstReadInnermost(done, f)
  BY DEF Applying
<1>2. done \o <<>> = done
  BY ConcatEmptySeq
<1>3. <<Word(t, b, n), e>> \in Level(0)
  <2> DEFINE p == <<x, f>>
  <2>1. p[1] = x /\ p[2] = f /\ p \in Derivable.postfix
    BY <1>1
  <2> HIDE DEF p
  <2>2. <<done \o p[1], FirstReadInnermost(done, p[2])>> \in Derivable.level[0]
    BY <2>1, PostfixDerived
  <2> QED
    BY <1>1, <1>2, <2>1, <2>2 DEF Level
<1> DEFINE Y == Append(X, e)
<1>4. Len(O) \in Nat /\ (\A i \in 1..Len(O) : Y[i] = X[i]) /\ Y[Len(O) + 1] = e
  <2> DEFINE T == Seq(S)
  <2>1. X \in Seq(T) /\ e \in T
    OBVIOUS
  <2> HIDE DEF T
  <2>2. (\A i \in 1..Len(X) : Y[i] = X[i]) /\ Y[Len(X) + 1] = e
    BY <2>1, AppendProperties
  <2> QED
    BY <2>2, LenProperties
<1> HIDE DEF Y
<1>5. Operands(t, Y, O, a, b)
  BY <1>1, <1>4 DEF Operands
<1>6. 0 \in 0..most /\ (Len(O) > 0 => 0 <= right(O[Len(O)]))
  <2>1. ASSUME Len(O) > 0 PROVE 0 <= right(O[Len(O)])
    <3>1. Len(O) \in 1..Len(O)
      BY <1>4, <2>1
    <3>2. O[Len(O)] \in BinaryOps
      BY <3>1, ElementOfSeq
    <3>3. right(O[Len(O)]) \in 0..7
      BY <3>2, Ranks
    <3> QED
      BY <3>3
  <2> QED
    BY <2>1
<1>7. <<Word(t, b, n), Y[Len(O) + 1]>> \in Level(0)
  BY <1>3, <1>4
<1> QED
  BY <1>5, <1>6, <1>7 DEF LastOperand, Y

LEMMA OnlyOperand ==
    ASSUME IsLanguage(Derivable), NEW t \in Seq(Kind), NEW X, NEW a \in 0..Len(t), NEW n \in Nat,
           NEW most \in 0..7, LastOperand(t, X, <<>>, a, n, most)
    PROVE  a <= n /\ <<Word(t, a, n), X[1]>> \in Derivable.expression
<1>1. Len(<<>>) = 0 /\ Len(<<>>) + 1 = 1
  BY EmptySeq
<1>2. PICK b \in a..n, q \in 0..most : /\ Operands(t, X, <<>>, a, b)
                                       /\ <<Word(t, b, n), X[1]>> \in Level(q)
  BY <1>1 DEF LastOperand
<1>3. b = a
  BY <1>2, NoOperands
<1>4. Level(q) \subseteq Level(7)
  <2>1. q \in 0..7 /\ 7 \in q..7
    OBVIOUS
  <2> QED
    BY <2>1, LevelsGrow
<1>5. a \in Nat
  BY LenProperties
<1> QED
  BY <1>2, <1>3, <1>4, <1>5 DEF Level

\* The operator after the last operand is pushed.
LEMMA PushedOperator ==
    ASSUME IsLanguage(Derivable), NEW t \in Seq(Kind), NEW X, NEW O \in Seq(BinaryOps),
           NEW a \in Nat, NEW n \in Nat, n \in 1..Len(t), t[n] \in BinaryOps,
           LastOperand(t, X, O, a, n - 1, left(t[n]))
    PROVE  Operands(t, X, Append(O, t[n]), a, n)
<1>1. PICK b \in a..n - 1, q \in 0..left(t[n]) :
         /\ Operands(t, X, O, a, b)
         /\ <<Word(t, b, n - 1), X[Len(O) + 1]>> \in Level(q)
  BY DEF LastOperand
<1>2. left(t[n]) \in 1..7
  BY Ranks
<1>3. Level(q) \subseteq Level(left(t[n]))
  <2>1. q \in 0..7 /\ left(t[n]) \in q..7
    BY <1>2
  <2> QED
    BY <2>1, LevelsGrow
<1>4. b \in Nat /\ b < n /\ n <= Len(t)
  BY LenProperties
<1> QED
  BY <1>1, <1>3, <1>4, Deferring

\* What is of a low enough level is of a higher one.
LEMMA LevelEnough ==
    ASSUME NEW t, NEW X, NEW O, NEW a, NEW n, NEW low \in 0..7, NEW high \in low..7,
           LastOperand(t, X, O, a, n, low)
    PROVE  LastOperand(t, X, O, a, n, high)
<1>1. 0..low \subseteq 0..high
  OBVIOUS
<1> QED
  BY <1>1 DEF LastOperand
-----------------------------------------------------------------------------
(***************************************************************************)
(* The invariant: what every activation has read is the beginning of an    *)
(* expression.                                                             *)
(***************************************************************************)
Waits(S, t, c, a) ==
    c.at \in Waiting => Partial(S, t, c.at, c.operand_stack, c.operator_stack, c.ops, c.expr,
                                a, c.start)

AllWait(S, t, stack) == \A i \in 1..Len(stack) : Waits(S, t, stack[i], From(stack, i - 1))

Runs(S, t, a, n) ==
    Current(S, t, at, operand_stack, operator_stack, ops, expr, op, a, n)

Built(S) == status = "parsing" => /\ Runs(S, input, From(callers, Len(callers)), next)
                                  /\ AllWait(S, input, callers)

\* The running activation goes on.
LEMMA BuiltStays ==
    ASSUME NEW S, NEW a, NEW n, AllWait(S, input, callers),
           input' = input, callers' = callers, next' = n, a = From(callers, Len(callers)),
           Current(S, input, at', operand_stack', operator_stack', ops', expr', op', a, n)
    PROVE  Built(S)'
BY DEF Built, Runs

LEMMA StackLonger ==
    ASSUME NEW T, NEW stack \in Seq(T), NEW c
    PROVE  /\ From(Append(stack, c), Len(Append(stack, c))) = c.start
           /\ \A S, t : AllWait(S, t, stack) /\ Waits(S, t, c, From(stack, Len(stack)))
                           => AllWait(S, t, Append(stack, c))
<1> DEFINE m == Len(stack)
           s == Append(stack, c)
<1>1. m \in Nat
  BY LenProperties
<1>2. Len(s) = m + 1 /\ (\A i \in 1..m : s[i] = stack[i]) /\ s[m + 1] = c
  BY AppendAny
<1> HIDE DEF m, s
<1>3. \A i \in 0..m : From(s, i) = From(stack, i)
  BY <1>1, <1>2 DEF From
<1>4. From(s, m + 1) = c.start
  BY <1>1, <1>2 DEF From
<1>5. ASSUME NEW S, NEW t, AllWait(S, t, stack), Waits(S, t, c, From(stack, m))
      PROVE  AllWait(S, t, s)
  <2> SUFFICES ASSUME NEW i \in 1..m + 1 PROVE Waits(S, t, s[i], From(s, i - 1))
    BY <1>2 DEF AllWait
  <2>1. CASE i = m + 1
    <3>1. i - 1 = m /\ From(s, m) = From(stack, m)
      BY <1>1, <1>3, <2>1
    <3> QED
      BY <1>2, <1>5, <2>1, <3>1
  <2>2. CASE i # m + 1
    <3>1. i \in 1..m /\ i - 1 \in 0..m
      BY <1>1, <2>2
    <3>2. s[i] = stack[i] /\ From(s, i - 1) = From(stack, i - 1)
      BY <1>2, <1>3, <3>1
    <3>3. Waits(S, t, stack[i], From(stack, i - 1))
      BY <1>5, <3>1 DEF AllWait, m
    <3> QED
      BY <3>2, <3>3
  <2> QED
    BY <2>1, <2>2
<1> QED
  BY <1>2, <1>4, <1>5 DEF m, s

LEMMA StackShorter ==
    ASSUME NEW T, NEW stack \in Seq(T), stack # <<>>,
           NEW S, NEW t, AllWait(S, t, stack)
    PROVE  LET m == Len(stack)
               s == SubSeq(stack, 1, m - 1)
           IN  /\ From(s, Len(s)) = From(stack, m - 1)
               /\ AllWait(S, t, s)
               /\ Waits(S, t, stack[m], From(stack, m - 1))
<1> DEFINE m == Len(stack)
           s == SubSeq(stack, 1, m - 1)
<1>1. m \in Nat /\ m >= 1
  BY LenProperties, EmptySeq
<1>2. Len(s) = m - 1 /\ \A i \in 1..m - 1 : s[i] = stack[i]
  <2>1. m - 1 \in 0..Len(stack)
    BY <1>1
  <2>2. /\ Len(SubSeq(stack, 1, m - 1)) = m - 1
        /\ \A i \in 1..m - 1 : SubSeq(stack, 1, m - 1)[i] = stack[i]
    BY <2>1, Popped
  <2> QED
    BY <2>2
<1> HIDE DEF m, s
<1>3. \A i \in 0..m - 1 : From(s, i) = From(stack, i)
  BY <1>1, <1>2 DEF From
<1>4. AllWait(S, t, s)
  <2> SUFFICES ASSUME NEW i \in 1..m - 1 PROVE Waits(S, t, s[i], From(s, i - 1))
    BY <1>2 DEF AllWait
  <2>1. i \in 1..m /\ i - 1 \in 0..m - 1
    BY <1>1
  <2>2. Waits(S, t, stack[i], From(stack, i - 1))
    BY <2>1 DEF AllWait, m
  <2> QED
    BY <1>2, <1>3, <2>1, <2>2
<1>5. Waits(S, t, stack[m], From(stack, m - 1))
  BY <1>1 DEF AllWait, m
<1>6. From(s, m - 1) = From(stack, m - 1)
  BY <1>1, <1>3
<1> QED
  BY <1>2, <1>4, <1>5, <1>6 DEF m, s

LEMMA StackTop ==
    ASSUME NEW T, NEW stack \in Seq(T), stack # <<>>, NEW c,
           NEW S, NEW t, AllWait(S, t, stack), Waits(S, t, c, From(stack, Len(stack) - 1))
    PROVE  LET s == [stack EXCEPT ![Len(stack)] = c]
           IN  /\ From(s, Len(s)) = c.start
               /\ AllWait(S, t, s)
<1> DEFINE m == Len(stack)
           s == [stack EXCEPT ![Len(stack)] = c]
<1>1. m \in Nat /\ m >= 1
  BY LenProperties, EmptySeq
<1>2. Len(s) = m /\ s[m] = c /\ \A i \in 1..m - 1 : s[i] = stack[i]
  BY <1>1
<1> HIDE DEF m, s
<1>3. \A i \in 0..m - 1 : From(s, i) = From(stack, i)
  BY <1>1, <1>2 DEF From
<1>4. AllWait(S, t, s)
  <2> SUFFICES ASSUME NEW i \in 1..m PROVE Waits(S, t, s[i], From(s, i - 1))
    BY <1>2 DEF AllWait
  <2>1. From(s, i - 1) = From(stack, i - 1)
    BY <1>1, <1>3
  <2>2. CASE i = m
    BY <1>2, <2>1, <2>2 DEF m
  <2>3. CASE i # m
    <3>1. i \in 1..m - 1
      BY <1>1, <2>3
    <3>2. Waits(S, t, stack[i], From(stack, i - 1))
      BY DEF AllWait, m
    <3> QED
      BY <1>2, <2>1, <3>1, <3>2
  <2> QED
    BY <2>2, <2>3
<1>5. From(s, m) = c.start
  BY <1>1, <1>2 DEF From
<1> QED
  BY <1>2, <1>4, <1>5 DEF m, s

\* It calls a function, and waits; n tokens are read.
LEMMA BuiltCalls ==
    ASSUME NEW F, Typed(F), NEW a, a = From(callers, Len(callers)),
           AllWait(F.symbols, input, callers), NEW n \in 0..Len(input), next' = n,
           NEW to, NEW from, NEW saved, Invoke(to, from, saved), to \in Places => to = "unary",
           from \in Waiting => Partial(F.symbols, input, from, operand_stack, operator_stack, ops,
                                       saved, a, n)
    PROVE  Built(F.symbols)'
<1> DEFINE S == F.symbols
           c == [at |-> from, start |-> n, operand_stack |-> operand_stack,
                 operator_stack |-> operator_stack, ops |-> ops, expr |-> saved]
           s == Append(callers, c)
<1>1. callers \in Seq(Activation(F)) /\ input \in Seq(Kind)
  BY DEF Typed
<1>2. Waits(S, input, c, a)
  BY DEF Waits
<1>3. /\ callers' = s /\ input' = input /\ at' = to /\ expr' = <<>>
      /\ operand_stack' = <<>> /\ operator_stack' = <<>> /\ ops' = <<>>
  BY DEF Invoke
<1>4. c.start = n
  OBVIOUS
<1> HIDE DEF c
<1>5. From(s, Len(s)) = n /\ AllWait(S, input, s)
  BY <1>1, <1>2, <1>4, StackLonger
<1>6. Current(S, input, to, <<>>, <<>>, <<>>, <<>>, op', n, n)
  <2>1. CASE to = "unary"
    <3>1. Partial(S, input, "unary", <<>>, <<>>, <<>>, <<>>, n, n)
      BY <1>1, BegunFresh
    <3> QED
      BY <2>1, <3>1 DEF Current
  <2>2. CASE to \notin Places
    BY <2>2 DEF Current, UnaryPlaces, Places
  <2> QED
    BY <2>1, <2>2
<1> HIDE DEF s
<1> QED
  BY <1>3, <1>5, <1>6 DEF Built, Runs

\* It returns e, and its caller goes on.
LEMMA BuiltReturns ==
    ASSUME NEW F, Typed(F), callers # <<>>, NEW a, a = From(callers, Len(callers) - 1),
           AllWait(F.symbols, input, callers), NEW n, next' = n,
           NEW to, NEW e, Return(to, e),
           to \in Places => /\ to \in UnaryPlaces
                            /\ Partial(F.symbols, input, to, caller.operand_stack,
                                       caller.operator_stack, caller.ops, e, a, n)
    PROVE  Built(F.symbols)'
<1> DEFINE S == F.symbols
           s == SubSeq(callers, 1, Len(callers) - 1)
<1>1. callers \in Seq(Activation(F))
  BY DEF Typed
<1>2. /\ callers' = s /\ input' = input /\ at' = to /\ expr' = e
      /\ operand_stack' = caller.operand_stack /\ operator_stack' = caller.operator_stack
      /\ ops' = caller.ops
  BY DEF Return
<1>3. From(s, Len(s)) = a /\ AllWait(S, input, s)
  BY <1>1, StackShorter
<1>4. Current(S, input, to, caller.operand_stack, caller.operator_stack, caller.ops, e, op', a, n)
  BY DEF Current, UnaryPlaces, Places
<1> HIDE DEF s
<1> QED
  BY <1>2, <1>3, <1>4 DEF Built, Runs
(***************************************************************************)
(* The tokens that omnomnom has consumed.                                  *)
(***************************************************************************)
LEMMA EatenTokens ==
    ASSUME NEW F, Typed(F), NEW wanted \in Seq(SUBSET Kind), omnomnom(wanted)
    PROVE  /\ next' = next + Len(wanted) /\ next' \in next..Len(input) /\ status' = status
           /\ \A i \in 1..Len(wanted) : /\ next + i \in 1..Len(input)
                                        /\ input[next + i] \in wanted[i]
<1>1. next \in Nat /\ Len(input) \in Nat /\ Len(wanted) \in Nat
  BY LenProperties DEF Typed
<1>2. /\ next' \in 0..Len(input) /\ status' = status
      /\ \A i \in 1..Len(wanted) : token(next + i) \in wanted[i]
  BY Consumed
<1>3. next' = next + Len(wanted)
  BY DEF omnomnom
<1>4. \A i \in 1..Len(wanted) : next + i \in 1..Len(input)
  BY <1>1, <1>2, <1>3
<1>5. \A i \in 1..Len(wanted) : input[next + i] \in wanted[i]
  BY <1>2, <1>4 DEF token
<1> QED
  BY <1>1, <1>2, <1>3, <1>4, <1>5

LEMMA PeekIs ==
    ASSUME NEW F, Typed(F), next + 1 \in 1..Len(input)
    PROVE  peek = input[next + 1]
<1>1. next + 1 + 0 = next + 1
  BY DEF Typed
<1> QED
  BY <1>1 DEF peek, peek_nth, token

\* One to four of them.
LEMMA EatenWord ==
    ASSUME NEW F, Typed(F), NEW wanted \in Seq(SUBSET Kind), omnomnom(wanted)
    PROVE  LET second == input[next + 2]
               third == input[next + 3]
               fourth == input[next + 4]
               word == Word(input, next, next')
           IN  /\ Len(wanted) = 1 => peek \in wanted[1] /\ word = <<peek>>
               /\ Len(wanted) = 2 => /\ peek \in wanted[1] /\ second \in wanted[2]
                                     /\ word = <<peek, second>>
               /\ Len(wanted) = 3 =>
                     /\ peek \in wanted[1] /\ second \in wanted[2] /\ third \in wanted[3]
                     /\ word = <<peek, second, third>>
               /\ Len(wanted) = 4 =>
                     /\ peek \in wanted[1] /\ second \in wanted[2] /\ third \in wanted[3]
                     /\ fourth \in wanted[4]
                     /\ word = <<peek, second, third, fourth>>
<1> DEFINE n == next
           m == next'
<1>1. /\ m = n + Len(wanted)
      /\ \A i \in 1..Len(wanted) : n + i \in 1..Len(input) /\ input[n + i] \in wanted[i]
  BY EatenTokens
<1>2. input \in Seq(Kind) /\ n \in Nat /\ Len(wanted) \in Nat
  BY LenProperties DEF Typed
<1>3. Len(wanted) >= 1 => peek = input[n + 1]
  BY <1>1, <1>2, PeekIs
<1> HIDE DEF n, m
<1>4. CASE Len(wanted) = 1
  <2>1. m = n + 1 /\ n + 1 \in 1..Len(input) /\ input[n + 1] \in wanted[1]
    BY <1>1, <1>4
  <2>2. Word(input, n, m) = <<input[n + 1]>>
    BY <1>2, <2>1, WordOne
  <2> QED
    BY <1>3, <1>4, <2>1, <2>2 DEF n, m
<1>5. CASE Len(wanted) = 2
  <2>1. /\ m = n + 2 /\ n + 2 \in 1..Len(input)
        /\ input[n + 1] \in wanted[1] /\ input[n + 2] \in wanted[2]
    BY <1>1, <1>5
  <2>2. Word(input, n, m) = <<input[n + 1], input[n + 2]>>
    BY <1>2, <2>1, WordMany
  <2> QED
    BY <1>3, <1>5, <2>1, <2>2 DEF n, m
<1>6. CASE Len(wanted) = 3
  <2>1. /\ m = n + 3 /\ n + 3 \in 1..Len(input)
        /\ input[n + 1] \in wanted[1] /\ input[n + 2] \in wanted[2] /\ input[n + 3] \in wanted[3]
    BY <1>1, <1>6
  <2>2. Word(input, n, m) = <<input[n + 1], input[n + 2], input[n + 3]>>
    BY <1>2, <2>1, WordMany
  <2> QED
    BY <1>3, <1>6, <2>1, <2>2 DEF n, m
<1>7. CASE Len(wanted) = 4
  <2>1. /\ m = n + 4 /\ n + 4 \in 1..Len(input)
        /\ input[n + 1] \in wanted[1] /\ input[n + 2] \in wanted[2]
        /\ input[n + 3] \in wanted[3] /\ input[n + 4] \in wanted[4]
    BY <1>1, <1>7
  <2>2. Word(input, n, m) = <<input[n + 1], input[n + 2], input[n + 3], input[n + 4]>>
    BY <1>2, <2>1, WordMany
  <2> QED
    BY <1>3, <1>7, <2>1, <2>2 DEF n, m
<1> QED
  BY <1>4, <1>5, <1>6, <1>7 DEF n, m

LEMMA EatenOne ==
    ASSUME NEW F, Typed(F), NEW A \in SUBSET Kind, omnomnom(<<A>>)
    PROVE  /\ next' = next + 1 /\ next' \in next..Len(input) /\ status' = status
           /\ next + 1 \in 1..Len(input) /\ peek = input[next + 1] /\ peek \in A
           /\ Word(input, next, next') = <<peek>>
<1> DEFINE wanted == <<A>>
<1>1. wanted \in Seq(SUBSET Kind) /\ Len(wanted) = 1 /\ wanted[1] = A /\ 1 \in 1..Len(wanted)
  BY Wanted
<1>2. omnomnom(wanted)
  OBVIOUS
<1> HIDE DEF wanted
<1>3. /\ next' = next + Len(wanted) /\ next' \in next..Len(input) /\ status' = status
      /\ \A i \in 1..Len(wanted) : next + i \in 1..Len(input)
  BY <1>1, <1>2, EatenTokens
<1>4. next + 1 \in 1..Len(input)
  BY <1>1, <1>3
<1>5. peek \in wanted[1] /\ Word(input, next, next') = <<peek>>
  BY <1>1, <1>2, EatenWord
<1> QED
  BY <1>1, <1>3, <1>4, <1>5, PeekIs
-----------------------------------------------------------------------------
(***************************************************************************)
(* Every handler keeps it.                                                 *)
(***************************************************************************)
LEMMA Ready ==
    ASSUME NEW F, Includes(F), Inv(F), Built(F.symbols), status = "parsing"
    PROVE  /\ Typed(F) /\ input \in Seq(Kind) /\ callers \in Seq(Activation(F))
           /\ next \in Nat /\ next \in 0..Len(input) /\ Len(input) \in Nat
           /\ operand_stack \in Seq(Seq(F.symbols)) /\ operator_stack \in Seq(BinaryOps)
           /\ ops \in Seq(UnaryOps) /\ expr \in Seq(F.symbols)
           /\ Kind \cup Constructors \subseteq F.symbols
           /\ From(callers, Len(callers)) \in Nat
           /\ AllWait(F.symbols, input, callers)
           /\ Runs(F.symbols, input, From(callers, Len(callers)), next)
<1>1. Typed(F) /\ Kind \cup Constructors \subseteq F.symbols
  BY DEF Inv, Includes
<1>2. next \in Nat /\ From(callers, Len(callers)) \in Nat
  <2>1. Len(callers) \in Nat /\ \A i \in 0..Len(callers) : From(callers, i) \in Nat
    BY <1>1, StartsAreNat
  <2> QED
    BY <1>1, <2>1, StartsAreNat
<1>3. AllWait(F.symbols, input, callers) /\ Runs(F.symbols, input, From(callers, Len(callers)), next)
  BY DEF Built
<1>4. Len(input) \in Nat
  BY <1>1, LenProperties DEF Typed
<1> QED
  BY <1>1, <1>2, <1>3, <1>4 DEF Typed, Trees

\* More tokens of a unary expression, in the same activation.
LEMMA GoesOnReading ==
    ASSUME NEW F, Includes(F), Inv(F), Built(F.symbols), NEW place \in UnaryPlaces, Running(place),
           NEW to \in UnaryPlaces, NEW e, Goto(to, e), next' \in next..Len(input),
           \A x \in Seq(Kind) :
              Begun(F.symbols, place, <<x, expr>>) =>
                 Begun(F.symbols, to, <<x \o Word(input, next, next'), e>>)
    PROVE  Built(F.symbols)'
<1> DEFINE S == F.symbols
           a == From(callers, Len(callers))
<1>1. status = "parsing" /\ at = place
  BY DEF Running
<1>2. Runs(S, input, a, next) /\ AllWait(S, input, callers)
  BY <1>1, Ready
<1>3. input \in Seq(Kind) /\ operator_stack \in Seq(BinaryOps) /\ ops \in Seq(UnaryOps)
        /\ a \in Nat /\ next \in Nat
  BY <1>1, Ready
<1>4. Partial(S, input, place, operand_stack, operator_stack, ops, expr, a, next)
  BY <1>1, <1>2 DEF Runs, Current
<1>5. PICK n : n = next'
  OBVIOUS
<1>6. Partial(S, input, to, operand_stack, operator_stack, ops, e, a, n)
  BY <1>3, <1>4, <1>5, Longer
<1>7. Current(S, input, to, operand_stack, operator_stack, ops, e, op, a, n)
  BY <1>6 DEF Current, UnaryPlaces
<1> HIDE DEF a
<1>8. /\ input' = input /\ callers' = callers /\ at' = to /\ expr' = e
      /\ operand_stack' = operand_stack /\ operator_stack' = operator_stack
      /\ ops' = ops /\ op' = op
  BY DEF Goto, stacks
<1> QED
  BY <1>2, <1>5, <1>7, <1>8, BuiltStays DEF a

\* An expression within it follows.
LEMMA NestsExpression ==
    ASSUME NEW F, Includes(F), Inv(F), Built(F.symbols), NEW place \in UnaryPlaces, Running(place),
           NEW from \in Waiting, NEW e, Call(from, e), next' \in next..Len(input),
           \A x \in Seq(Kind) :
              Begun(F.symbols, place, <<x, expr>>) =>
                 Begun(F.symbols, from, <<x \o Word(input, next, next'), e>>)
    PROVE  Built(F.symbols)'
<1> DEFINE S == F.symbols
           a == From(callers, Len(callers))
<1>1. status = "parsing" /\ at = place
  BY DEF Running
<1>2. Runs(S, input, a, next) /\ AllWait(S, input, callers) /\ Typed(F)
  BY <1>1, Ready
<1>3. input \in Seq(Kind) /\ operator_stack \in Seq(BinaryOps) /\ ops \in Seq(UnaryOps)
        /\ a \in Nat /\ next \in Nat /\ Len(input) \in Nat
  BY <1>1, Ready
<1>4. Partial(S, input, place, operand_stack, operator_stack, ops, expr, a, next)
  BY <1>1, <1>2 DEF Runs, Current
<1>5. PICK n : n = next'
  OBVIOUS
<1>6. Partial(S, input, from, operand_stack, operator_stack, ops, e, a, n)
  BY <1>3, <1>4, <1>5, Longer
<1>7. n \in 0..Len(input) /\ Invoke("unary", from, e)
  BY <1>3, <1>5 DEF Call
<1> QED
  BY <1>2, <1>5, <1>6, <1>7, BuiltCalls

LEMMA Stops ==
    ASSUME NEW S, status' # "parsing"
    PROVE  Built(S)'
BY DEF Built

LEMMA UnexpectedStops ==
    ASSUME NEW wanted, Unexpected(wanted)
    PROVE  status' # "parsing"
BY DEF Unexpected, Reject

LEMMA EatenTwo ==
    ASSUME NEW F, Typed(F), NEW A \in SUBSET Kind, NEW B \in SUBSET Kind, omnomnom(<<A, B>>)
    PROVE  /\ next' \in next..Len(input) /\ status' = status /\ peek \in A
           /\ \E b \in B : Word(input, next, next') = <<peek, b>>
<1> DEFINE T == SUBSET Kind
           wanted == <<A, B>>
<1>1. A \in T /\ B \in T
  OBVIOUS
<1> HIDE DEF T
<1>2. wanted \in Seq(T) /\ Len(wanted) = 2 /\ wanted[1] = A /\ wanted[2] = B
  BY <1>1
<1>3. wanted \in Seq(SUBSET Kind)
  BY <1>2 DEF T
<1>4. omnomnom(wanted)
  OBVIOUS
<1> HIDE DEF wanted
<1>5. next' \in next..Len(input) /\ status' = status
  BY <1>3, <1>4, EatenTokens
<1> QED
  BY <1>2, <1>3, <1>4, <1>5, EatenWord

LEMMA EatenThree ==
    ASSUME NEW F, Typed(F), NEW A \in SUBSET Kind, NEW B \in SUBSET Kind, NEW C \in SUBSET Kind,
           omnomnom(<<A, B, C>>)
    PROVE  /\ next' \in next..Len(input) /\ status' = status /\ peek \in A
           /\ \E b \in B, c \in C : Word(input, next, next') = <<peek, b, c>>
<1> DEFINE T == SUBSET Kind
           wanted == <<A, B, C>>
<1>1. A \in T /\ B \in T /\ C \in T
  OBVIOUS
<1> HIDE DEF T
<1>2. /\ wanted \in Seq(T) /\ Len(wanted) = 3
      /\ wanted[1] = A /\ wanted[2] = B /\ wanted[3] = C
  BY <1>1
<1>3. wanted \in Seq(SUBSET Kind)
  BY <1>2 DEF T
<1>4. omnomnom(wanted)
  OBVIOUS
<1> HIDE DEF wanted
<1>5. next' \in next..Len(input) /\ status' = status
  BY <1>3, <1>4, EatenTokens
<1> QED
  BY <1>2, <1>3, <1>4, <1>5, EatenWord

\* A name that is not expanded where the rule is applied.
KindsWanted == SUBSET Kind

LEMMA EatenFour ==
    ASSUME NEW F, Typed(F), NEW A \in KindsWanted, NEW B \in KindsWanted, NEW C \in KindsWanted,
           NEW D \in KindsWanted, omnomnom(<<A, B, C, D>>)
    PROVE  /\ next' \in next..Len(input) /\ status' = status /\ peek \in A
           /\ \E b \in B, c \in C, d \in D : Word(input, next, next') = <<peek, b, c, d>>
<1> DEFINE wanted == <<A, B, C, D>>
<1>1. /\ wanted \in Seq(KindsWanted) /\ Len(wanted) = 4
      /\ wanted[1] = A /\ wanted[2] = B /\ wanted[3] = C /\ wanted[4] = D
  OBVIOUS
<1>2. wanted \in Seq(SUBSET Kind)
  BY <1>1 DEF KindsWanted
<1>3. omnomnom(wanted)
  OBVIOUS
<1> HIDE DEF wanted
<1>4. next' \in next..Len(input) /\ status' = status
  BY <1>2, <1>3, EatenTokens
<1> QED
  BY <1>1, <1>2, <1>3, <1>4, EatenWord

LEMMA AppendIs ==
    ASSUME NEW T, NEW s \in Seq(T), NEW t \in Seq(T), NEW n, n = Len(s) + 1, Len(t) = n,
           \A i \in 1..Len(s) : t[i] = s[i]
    PROVE  Append(s, t[n]) = t
<1> DEFINE c == t[n]
           more == Append(s, c)
<1>1. Len(s) \in Nat /\ n \in 1..Len(t)
  BY LenProperties
<1>2. c \in T
  BY <1>1, ElementOfSeq
<1> HIDE DEF c
<1>3. /\ more \in Seq(T) /\ Len(more) = Len(s) + 1 /\ more[Len(s) + 1] = c
      /\ \A i \in 1..Len(s) : more[i] = s[i]
  BY <1>2, AppendProperties
<1> HIDE DEF more
<1>4. ASSUME NEW i \in 1..Len(more) PROVE more[i] = t[i]
  <2>1. CASE i = n
    BY <1>3, <2>1 DEF c
  <2>2. CASE i # n
    <3>1. i \in 1..Len(s)
      BY <1>1, <1>3, <2>2
    <3> QED
      BY <1>3, <3>1
  <2> QED
    BY <2>1, <2>2
<1>5. more = t
  BY <1>3, <1>4, SeqEqual
<1> QED
  BY <1>5 DEF more, c

LEMMA AppendToFew ==
    ASSUME NEW a, NEW b, NEW c, NEW d
    PROVE  /\ Append(<<a, b>>, c) = <<a, b, c>>
           /\ Append(<<a, b, c>>, d) = <<a, b, c, d>>
<1> DEFINE T == {a, b, c, d}
           two == <<a, b>>
           three == <<a, b, c>>
           four == <<a, b, c, d>>
<1>1. a \in T /\ b \in T /\ c \in T /\ d \in T
  OBVIOUS
<1> HIDE DEF T
<1>2. /\ two \in Seq(T) /\ Len(two) = 2 /\ two[1] = a /\ two[2] = b
      /\ three \in Seq(T) /\ Len(three) = 3 /\ three[1] = a /\ three[2] = b /\ three[3] = c
      /\ four \in Seq(T) /\ Len(four) = 4
      /\ four[1] = a /\ four[2] = b /\ four[3] = c /\ four[4] = d
  BY <1>1
<1> HIDE DEF two, three, four
<1>3. Append(two, three[3]) = three
  <2>1. 3 = Len(two) + 1 /\ Len(three) = 3 /\ \A i \in 1..Len(two) : three[i] = two[i]
    BY <1>2
  <2> QED
    BY <1>2, <2>1, AppendIs
<1>4. Append(three, four[4]) = four
  <2>1. 4 = Len(three) + 1 /\ Len(four) = 4 /\ \A i \in 1..Len(three) : four[i] = three[i]
    BY <1>2
  <2> QED
    BY <1>2, <2>1, AppendIs
<1> QED
  BY <1>2, <1>3, <1>4 DEF two, three, four

LEMMA KindSets ==
    /\ UnaryOps \in SUBSET Kind /\ BinaryOps \in SUBSET Kind /\ Literals \in SUBSET Kind
    /\ Identifiers \in SUBSET Kind /\ BasicTypes \in SUBSET Kind
    /\ {"("} \in SUBSET Kind /\ {")"} \in SUBSET Kind /\ {"["} \in SUBSET Kind
    /\ {"]"} \in SUBSET Kind /\ {"."} \in SUBSET Kind /\ {","} \in SUBSET Kind
    /\ {"new"} \in SUBSET Kind /\ {";"} \in SUBSET Kind
BY DEF Kind, BasicTypes

\* The tokens of invocations and member references.
LEMMA MemberTokens ==
    ASSUME NEW F, Typed(F)
    PROVE  LET word == Word(input, next, next')
           IN  /\ omnomnom(<<Identifiers, {"("}>>) =>
                     next' \in next..Len(input) /\ peek \in Identifiers /\ word = <<peek, "(">>
               /\ omnomnom(<<Identifiers, {"("}, {")"}>>) =>
                     next' \in next..Len(input) /\ peek \in Identifiers /\ word = <<peek, "(", ")">>
               /\ omnomnom(<<{"."}, Identifiers>>) =>
                     next' \in next..Len(input) /\ \E id \in Identifiers : word = <<".", id>>
               /\ omnomnom(<<{"."}, Identifiers, {"("}>>) =>
                     next' \in next..Len(input) /\ \E id \in Identifiers : word = <<".", id, "(">>
               /\ omnomnom(<<{"."}, Identifiers, {"("}, {")"}>>) =>
                     next' \in next..Len(input) /\ \E id \in Identifiers : word = <<".", id, "(", ")">>
<1> DEFINE Dot == {"."}
           Open == {"("}
           Close == {")"}
<1>1. /\ Identifiers \in SUBSET Kind
      /\ Dot \in SUBSET Kind /\ Open \in SUBSET Kind /\ Close \in SUBSET Kind
  BY KindSets
<1>2. (\A x \in Dot : x = ".") /\ (\A x \in Open : x = "(") /\ (\A x \in Close : x = ")")
  OBVIOUS
<1> HIDE DEF Dot, Open, Close
<1>3. ASSUME omnomnom(<<Identifiers, Open>>)
      PROVE  /\ next' \in next..Len(input) /\ peek \in Identifiers
             /\ Word(input, next, next') = <<peek, "(">>
  BY <1>1, <1>2, <1>3, EatenTwo
<1>4. ASSUME omnomnom(<<Identifiers, Open, Close>>)
      PROVE  /\ next' \in next..Len(input) /\ peek \in Identifiers
             /\ Word(input, next, next') = <<peek, "(", ")">>
  BY <1>1, <1>2, <1>4, EatenThree
<1>5. ASSUME omnomnom(<<Dot, Identifiers>>)
      PROVE  /\ next' \in next..Len(input)
             /\ \E id \in Identifiers : Word(input, next, next') = <<".", id>>
  BY <1>1, <1>2, <1>5, EatenTwo
<1>6. ASSUME omnomnom(<<Dot, Identifiers, Open>>)
      PROVE  /\ next' \in next..Len(input)
             /\ \E id \in Identifiers : Word(input, next, next') = <<".", id, "(">>
  BY <1>1, <1>2, <1>6, EatenThree
<1>7. ASSUME omnomnom(<<Dot, Identifiers, Open, Close>>)
      PROVE  /\ next' \in next..Len(input)
             /\ \E id \in Identifiers : Word(input, next, next') = <<".", id, "(", ")">>
  <2>1. /\ next' \in next..Len(input) /\ peek \in Dot
        /\ \E b \in Identifiers, c \in Open, d \in Close :
              Word(input, next, next') = <<peek, b, c, d>>
    <3>1. /\ Identifiers \in KindsWanted
          /\ Dot \in KindsWanted /\ Open \in KindsWanted /\ Close \in KindsWanted
      BY <1>1 DEF KindsWanted
    <3> QED
      BY <1>7, <3>1, EatenFour
  <2> QED
    BY <1>2, <2>1
<1> QED
  BY <1>3, <1>4, <1>5, <1>6, <1>7 DEF Dot, Open, Close

LEMMA ArgumentsBuild ==
    ASSUME NEW F, Includes(F), Inv(F), Built(F.symbols), NEW place \in {"unary", "postfix"},
           Running(place), NEW callee, NEW upTo, Arguments(callee, upTo),
           omnomnom(Append(upTo, {")"})) =>
              /\ next' \in next..Len(input)
              /\ \A x \in Seq(Kind) :
                    Begun(F.symbols, place, <<x, expr>>) =>
                       Begun(F.symbols, "postfix", <<x \o Word(input, next, next'), Append(callee, ")")>>),
           omnomnom(upTo) =>
              /\ next' \in next..Len(input)
              /\ \A x \in Seq(Kind) :
                    Begun(F.symbols, place, <<x, expr>>) =>
                       Begun(F.symbols, "arguments", <<x \o Word(input, next, next'), callee>>)
    PROVE  Built(F.symbols)'
<1>1. place \in UnaryPlaces /\ "postfix" \in UnaryPlaces /\ "arguments" \in Waiting
  BY DEF UnaryPlaces, Waiting
<1>2. CASE omnomnom(Append(upTo, {")"})) /\ Goto("postfix", Append(callee, ")"))
  BY <1>1, <1>2, GoesOnReading
<1>3. CASE omnomnom(upTo) /\ Call("arguments", callee)
  BY <1>1, <1>3, NestsExpression
<1> QED
  BY <1>2, <1>3 DEF Arguments

LEMMA PrimaryBuilds ==
    ASSUME IsLanguage(Derivable), NEW F, Includes(F), Inv(F), Built(F.symbols), Primary
    PROVE  Built(F.symbols)'
<1> DEFINE S == F.symbols
<1> SUFFICES ASSUME status = "parsing" PROVE Built(S)'
  BY Stops DEF Primary, Literal, Var, ThisMethodInvocation, Parenthesis, NoPrimary, New, NewObject,
     NewArrayOf, NewTypeAtEnd, NewUnexpected, NewArrayDimension, NewArrayDone, NewArrayAtEnd, Running
<1>1. /\ Typed(F) /\ expr \in Seq(S) /\ Kind \cup Constructors \subseteq S
      /\ next \in 0..Len(input) /\ Len(input) \in Nat /\ next \in Nat
  BY Ready
<1>2. {"unary", "new", "dimensions", "postfix"} \subseteq UnaryPlaces
  BY DEF UnaryPlaces
<1>3. ASSUME Literal PROVE Built(S)'
  <2>1. omnomnom(<<Literals>>) /\ Running("unary") /\ Goto("postfix", <<peek>>)
    BY <1>3 DEF Literal
  <2>2. next' \in next..Len(input) /\ peek \in Literals /\ Word(input, next, next') = <<peek>>
    BY <1>1, <2>1, KindSets, EatenOne
  <2>3. \A x \in Seq(Kind) : Begun(S, "unary", <<x, expr>>) =>
                                Begun(S, "postfix", <<x \o Word(input, next, next'), <<peek>>>>)
    BY <2>2, BegunPrimary
  <2> QED
    BY <1>2, <2>1, <2>2, <2>3, GoesOnReading
<1>4. ASSUME Var PROVE Built(S)'
  <2>1. omnomnom(<<Identifiers>>) /\ Running("unary") /\ Goto("postfix", <<peek>>)
    BY <1>4 DEF Var
  <2>2. next' \in next..Len(input) /\ peek \in Identifiers /\ Word(input, next, next') = <<peek>>
    BY <1>1, <2>1, KindSets, EatenOne
  <2>3. \A x \in Seq(Kind) : Begun(S, "unary", <<x, expr>>) =>
                                Begun(S, "postfix", <<x \o Word(input, next, next'), <<peek>>>>)
    BY <2>2, BegunPrimary
  <2> QED
    BY <1>2, <2>1, <2>2, <2>3, GoesOnReading
<1>5. ASSUME ThisMethodInvocation PROVE Built(S)'
  <2> DEFINE callee == <<"ThisMethodInvocation">>
             upTo == <<Identifiers, {"("}>>
  <2>1. Running("unary") /\ Arguments(callee, upTo)
    BY <1>5 DEF ThisMethodInvocation
  <2>2. Append(upTo, {")"}) = <<Identifiers, {"("}, {")"}>>
    BY AppendToFew
  <2>3. ASSUME omnomnom(<<Identifiers, {"("}, {")"}>>)
        PROVE  /\ next' \in next..Len(input)
               /\ \A x \in Seq(Kind) :
                     Begun(S, "unary", <<x, expr>>) =>
                        Begun(S, "postfix", <<x \o Word(input, next, next'), Append(callee, ")")>>)
    <3>1. /\ next' \in next..Len(input) /\ peek \in Identifiers
          /\ Word(input, next, next') = <<peek, "(", ")">>
      BY <1>1, <2>3, MemberTokens
    <3> QED
      BY <1>1, <3>1, BegunCalls
  <2>4. ASSUME omnomnom(upTo)
        PROVE  /\ next' \in next..Len(input)
               /\ \A x \in Seq(Kind) :
                     Begun(S, "unary", <<x, expr>>) =>
                        Begun(S, "arguments", <<x \o Word(input, next, next'), callee>>)
    <3>1. /\ next' \in next..Len(input) /\ peek \in Identifiers
          /\ Word(input, next, next') = <<peek, "(">>
      BY <1>1, <2>4, MemberTokens
    <3> QED
      BY <1>1, <3>1, BegunCalls
  <2> HIDE DEF upTo, callee
  <2> QED
    BY <2>1, <2>2, <2>3, <2>4, ArgumentsBuild
<1>6. ASSUME Parenthesis PROVE Built(S)'
  <2>1. omnomnom(<<{"("}>>) /\ Running("unary") /\ Call("parenthesis", <<>>)
    BY <1>6 DEF Parenthesis
  <2>2. next' \in next..Len(input) /\ Word(input, next, next') = <<"(">>
    BY <1>1, <2>1, KindSets, EatenOne
  <2>3. \A x \in Seq(Kind) : Begun(S, "unary", <<x, expr>>) =>
                                Begun(S, "parenthesis", <<x \o Word(input, next, next'), <<>>>>)
    BY <2>2, BegunPrimary
  <2> QED
    BY <1>2, <2>1, <2>2, <2>3, NestsExpression DEF Waiting
<1>7. ASSUME New PROVE Built(S)'
  <2>1. omnomnom(<<{"new"}>>) /\ Running("unary") /\ Goto("new", <<>>)
    BY <1>7 DEF New
  <2>2. next' \in next..Len(input) /\ Word(input, next, next') = <<"new">>
    BY <1>1, <2>1, KindSets, EatenOne
  <2>3. \A x \in Seq(Kind) : Begun(S, "unary", <<x, expr>>) =>
                                Begun(S, "new", <<x \o Word(input, next, next'), <<>>>>)
    BY <2>2, BegunPrimary
  <2> QED
    BY <1>2, <2>1, <2>2, <2>3, GoesOnReading
<1>8. ASSUME NewObject PROVE Built(S)'
  <2>1. /\ omnomnom(<<Identifiers, {"("}, {")"}>>) /\ Running("new")
        /\ Goto("postfix", <<"NewObject">>)
    BY <1>8 DEF NewObject, NewObjectTokens
  <2>2. /\ next' \in next..Len(input) /\ peek \in Identifiers
        /\ Word(input, next, next') = <<peek, "(", ")">>
    BY <1>1, <2>1, MemberTokens
  <2>3. \A x \in Seq(Kind) :
           Begun(S, "new", <<x, expr>>) =>
              Begun(S, "postfix", <<x \o Word(input, next, next'), <<"NewObject">>>>)
    BY <2>2, BegunPrimary
  <2> QED
    BY <1>2, <2>1, <2>2, <2>3, GoesOnReading
<1>9. ASSUME NewArrayOf PROVE Built(S)'
  <2>1. omnomnom(<<BasicTypes, {"["}>>) /\ Running("new") /\ Call("size", NewArray(peek))
    BY <1>9 DEF NewArrayOf, NewArrayTokens
  <2>2. /\ next' \in next..Len(input) /\ peek \in BasicTypes
        /\ Word(input, next, next') = <<peek, "[">>
    BY <1>1, <2>1, KindSets, EatenTwo
  <2>3. \A x \in Seq(Kind) :
           Begun(S, "new", <<x, expr>>) =>
              Begun(S, "size", <<x \o Word(input, next, next'), NewArray(peek)>>)
    BY <2>2, BegunPrimary
  <2> QED
    BY <1>2, <2>1, <2>2, <2>3, NestsExpression DEF Waiting
<1>10. ASSUME NewArrayDimension PROVE Built(S)'
  <2>1. /\ omnomnom(<<{"["}, {"]"}>>) /\ Running("dimensions")
        /\ Goto("dimensions", <<"ArrayOf">> \o expr)
    BY <1>10 DEF NewArrayDimension
  <2>2. next' \in next..Len(input) /\ Word(input, next, next') = <<"[", "]">>
    BY <1>1, <2>1, KindSets, EatenTwo
  <2>3. \A x \in Seq(Kind) :
           Begun(S, "dimensions", <<x, expr>>) =>
              Begun(S, "dimensions", <<x \o Word(input, next, next'), <<"ArrayOf">> \o expr>>)
    BY <1>1, <2>2, BegunPostfix
  <2> QED
    BY <1>2, <2>1, <2>2, <2>3, GoesOnReading
<1>11. ASSUME NewArrayDone PROVE Built(S)'
  <2>1. Running("dimensions") /\ Goto("postfix", expr) /\ next' = next
    BY <1>11 DEF NewArrayDone
  <2>2. next' \in next..Len(input) /\ Word(input, next, next') = <<>>
    BY <1>1, <2>1, WordEmpty
  <2>3. \A x \in Seq(Kind) :
           Begun(S, "dimensions", <<x, expr>>) =>
              Begun(S, "postfix", <<x \o Word(input, next, next'), expr>>)
    BY <1>1, <2>2, BegunPostfix, ConcatEmptySeq
  <2> QED
    BY <1>2, <2>1, <2>2, <2>3, GoesOnReading
<1>12. ASSUME NoPrimary \/ NewTypeAtEnd \/ NewUnexpected \/ NewArrayAtEnd PROVE Built(S)'
  <2>1. status' # "parsing"
    BY <1>12, UnexpectedStops DEF NoPrimary, NewTypeAtEnd, NewUnexpected, NewArrayAtEnd, Reject
  <2> QED
    BY <2>1, Stops
<1> QED
  BY <1>3, <1>4, <1>5, <1>6, <1>7, <1>8, <1>9, <1>10, <1>11, <1>12 DEF Primary

LEMMA PostfixBuilds ==
    ASSUME IsLanguage(Derivable), NEW F, Includes(F), Inv(F), Built(F.symbols), Postfix
    PROVE  Built(F.symbols)'
<1> DEFINE S == F.symbols
<1>0. status = "parsing" /\ at = "postfix"
  BY DEF Postfix, MethodInvocation, MemberReference, NoMember, Index, EndOfPostfix, Running
<1>1. /\ Typed(F) /\ expr \in Seq(S) /\ Kind \cup Constructors \subseteq S
      /\ next \in 0..Len(input) /\ Len(input) \in Nat /\ next \in Nat
  BY <1>0, Ready
<1>2. "postfix" \in UnaryPlaces /\ "index" \in Waiting /\ Running("postfix")
  BY <1>0 DEF UnaryPlaces, Waiting, Running
<1>3. ASSUME MethodInvocation PROVE Built(S)'
  <2> DEFINE callee == <<"MethodInvocation">> \o expr
             upTo == <<{"."}, Identifiers, {"("}>>
  <2>1. Arguments(callee, upTo)
    BY <1>3 DEF MethodInvocation
  <2>2. Append(upTo, {")"}) = <<{"."}, Identifiers, {"("}, {")"}>>
    <3>1. \A a, b, c, d : Append(<<a, b, c>>, d) = <<a, b, c, d>>
      BY AppendToFew
    <3> QED
      BY <3>1, Zenon
  <2>3. ASSUME omnomnom(<<{"."}, Identifiers, {"("}, {")"}>>)
        PROVE  /\ next' \in next..Len(input)
               /\ \A x \in Seq(Kind) :
                     Begun(S, "postfix", <<x, expr>>) =>
                        Begun(S, "postfix", <<x \o Word(input, next, next'), Append(callee, ")")>>)
    <3>1. /\ next' \in next..Len(input)
          /\ \E id \in Identifiers : Word(input, next, next') = <<".", id, "(", ")">>
      BY <1>1, <2>3, MemberTokens
    <3> QED
      BY <1>1, <3>1, BegunCalls
  <2>4. ASSUME omnomnom(upTo)
        PROVE  /\ next' \in next..Len(input)
               /\ \A x \in Seq(Kind) :
                     Begun(S, "postfix", <<x, expr>>) =>
                        Begun(S, "arguments", <<x \o Word(input, next, next'), callee>>)
    <3>1. /\ next' \in next..Len(input)
          /\ \E id \in Identifiers : Word(input, next, next') = <<".", id, "(">>
      BY <1>1, <2>4, MemberTokens
    <3> QED
      BY <1>1, <3>1, BegunCalls
  <2> HIDE DEF upTo, callee
  <2> QED
    BY <1>2, <2>1, <2>2, <2>3, <2>4, ArgumentsBuild
<1>4. ASSUME MemberReference PROVE Built(S)'
  <2>1. omnomnom(<<{"."}, Identifiers>>) /\ Goto("postfix", FieldAccess(expr))
    BY <1>4 DEF MemberReference
  <2>2. /\ next' \in next..Len(input)
        /\ \E id \in Identifiers : Word(input, next, next') = <<".", id>>
    BY <1>1, <2>1, MemberTokens
  <2>3. \A x \in Seq(Kind) :
           Begun(S, "postfix", <<x, expr>>) =>
              Begun(S, "postfix", <<x \o Word(input, next, next'), FieldAccess(expr)>>)
    BY <1>1, <2>2, BegunPostfix
  <2> QED
    BY <1>2, <2>1, <2>2, <2>3, GoesOnReading
<1>5. ASSUME NoMember PROVE Built(S)'
  BY <1>5, UnexpectedStops, Stops DEF NoMember
<1>6. ASSUME Index PROVE Built(S)'
  <2>1. omnomnom(<<{"["}>>) /\ Call("index", expr)
    BY <1>6 DEF Index
  <2>2. next' \in next..Len(input) /\ Word(input, next, next') = <<"[">>
    BY <1>1, <2>1, KindSets, EatenOne
  <2>3. \A x \in Seq(Kind) : Begun(S, "postfix", <<x, expr>>) =>
                                Begun(S, "index", <<x \o Word(input, next, next'), expr>>)
    BY <1>1, <2>2, BegunPostfix
  <2> QED
    BY <1>2, <2>1, <2>2, <2>3, NestsExpression
<1>7. ASSUME EndOfPostfix PROVE Built(S)'
  <2> DEFINE a == From(callers, Len(callers))
  <2>1. Goto("apply", expr) /\ next' = next
    BY <1>7 DEF EndOfPostfix
  <2>2. /\ input \in Seq(Kind) /\ operator_stack \in Seq(BinaryOps) /\ ops \in Seq(UnaryOps)
        /\ a \in Nat /\ AllWait(S, input, callers) /\ Runs(S, input, a, next)
    BY <1>0, Ready
  <2>3. Partial(S, input, "postfix", operand_stack, operator_stack, ops, expr, a, next)
    BY <1>0, <1>2, <2>2 DEF Runs, Current
  <2>4. Applying(S, input, operand_stack, operator_stack, ops, expr, a, next)
    BY <1>1, <2>2, <2>3, StartApplying
  <2>5. Current(S, input, "apply", operand_stack, operator_stack, ops, expr, op, a, next)
    BY <2>4 DEF Current, UnaryPlaces
  <2> HIDE DEF a
  <2>6. /\ input' = input /\ callers' = callers /\ at' = "apply" /\ expr' = expr
        /\ operand_stack' = operand_stack /\ operator_stack' = operator_stack
        /\ ops' = ops /\ op' = op
    BY <2>1 DEF Goto, stacks
  <2> QED
    BY <2>1, <2>2, <2>5, <2>6, BuiltStays DEF a
<1> QED
  BY <1>3, <1>4, <1>5, <1>6, <1>7 DEF Postfix

LEMMA UnaryBuilds ==
    ASSUME IsLanguage(Derivable), NEW F, Includes(F), Inv(F), Built(F.symbols),
           UnaryOp \/ ApplyUnary \/ PushOperand
    PROVE  Built(F.symbols)'
<1> DEFINE S == F.symbols
           a == From(callers, Len(callers))
<1>0. status = "parsing"
  BY DEF UnaryOp, ApplyUnary, PushOperand, Running
<1>1. /\ Typed(F) /\ expr \in Seq(S) /\ Kind \cup Constructors \subseteq S /\ next \in Nat
      /\ input \in Seq(Kind) /\ operator_stack \in Seq(BinaryOps) /\ ops \in Seq(UnaryOps)
      /\ operand_stack \in Seq(Seq(S))
      /\ a \in Nat /\ AllWait(S, input, callers) /\ Runs(S, input, a, next)
  BY <1>0, Ready
<1>2. ASSUME UnaryOp PROVE Built(S)'
  <2>1. omnomnom(<<UnaryOps>>) /\ at = "unary"
    BY <1>2 DEF UnaryOp, Running
  <2>2. /\ next' = next + 1 /\ next + 1 \in 1..Len(input)
        /\ peek = input[next + 1] /\ peek \in UnaryOps
    BY <1>1, <2>1, KindSets, EatenOne
  <2>3. Partial(S, input, "unary", operand_stack, operator_stack, ops, expr, a, next)
    BY <1>1, <2>1 DEF Runs, Current, UnaryPlaces
  <2>4. Partial(S, input, "unary", operand_stack, operator_stack, Append(ops, input[next + 1]),
                expr, a, next + 1)
    BY <1>1, <2>2, <2>3, LongerUnary
  <2>5. Current(S, input, "unary", operand_stack, operator_stack, Append(ops, peek), expr, op, a,
                next + 1)
    BY <2>2, <2>4 DEF Current
  <2> HIDE DEF a
  <2>6. /\ input' = input /\ callers' = callers /\ at' = "unary" /\ expr' = expr
        /\ operand_stack' = operand_stack /\ operator_stack' = operator_stack
        /\ ops' = Append(ops, peek) /\ op' = op
    BY <1>2, <2>1 DEF UnaryOp, stacks
  <2> QED
    BY <1>1, <2>2, <2>5, <2>6, BuiltStays DEF a
<1>3. ASSUME ApplyUnary PROVE Built(S)'
  <2>1. at = "apply" /\ ops # <<>>
    BY <1>3 DEF ApplyUnary, Running
  <2>2. Applying(S, input, operand_stack, operator_stack, ops, expr, a, next)
    BY <1>1, <2>1 DEF Runs, Current
  <2>3. Applying(S, input, operand_stack, operator_stack, Tail(ops), Unary(Head(ops), expr), a, next)
    BY <1>1, <2>1, <2>2, ApplyOne
  <2>4. Current(S, input, "apply", operand_stack, operator_stack, Tail(ops),
                Unary(Head(ops), expr), op, a, next)
    BY <2>3 DEF Current, UnaryPlaces
  <2> HIDE DEF a
  <2>5. /\ input' = input /\ callers' = callers /\ at' = "apply" /\ expr' = Unary(Head(ops), expr)
        /\ operand_stack' = operand_stack /\ operator_stack' = operator_stack
        /\ ops' = Tail(ops) /\ op' = op /\ next' = next
    BY <1>3, <2>1 DEF ApplyUnary, stacks
  <2> QED
    BY <1>1, <2>4, <2>5, BuiltStays DEF a
<1>4. ASSUME PushOperand PROVE Built(S)'
  <2> DEFINE most == IF next + 1 \in 1..Len(input) /\ input[next + 1] \in BinaryOps THEN 0 ELSE 7
  <2>1. at = "apply" /\ ops = <<>>
    BY <1>4 DEF PushOperand, Running
  <2>2. Applying(S, input, operand_stack, operator_stack, <<>>, expr, a, next)
    BY <1>1, <2>1 DEF Runs, Current
  <2>3. Len(operand_stack) = Len(operator_stack)
    BY <2>1 DEF Inv, StackInv, HasOperand
  <2>4. most \in 0..7
    OBVIOUS
  <2> HIDE DEF most
  <2>5. LastOperand(input, Append(operand_stack, expr), operator_stack, a, next, most)
    BY <1>1, <2>2, <2>3, <2>4, PushOne
  <2>6. Current(S, input, "binary", Append(operand_stack, expr), operator_stack, <<>>, <<>>, op, a,
                next)
    BY <2>5 DEF Current, UnaryPlaces, most
  <2> HIDE DEF a
  <2>7. /\ input' = input /\ callers' = callers /\ at' = "binary" /\ expr' = <<>>
        /\ operand_stack' = Append(operand_stack, expr) /\ operator_stack' = operator_stack
        /\ ops' = <<>> /\ op' = op /\ next' = next
    BY <1>4, <2>1 DEF PushOperand
  <2> QED
    BY <1>1, <2>6, <2>7, BuiltStays DEF a
<1> QED
  BY <1>2, <1>3, <1>4
\* The two topmost operands are replaced by their combination, up to token n.
LEMMA EvalBuilds ==
    ASSUME IsLanguage(Derivable), NEW F, Includes(F), Inv(F), at \in {"binary", "reduce"},
           operator_stack # <<>>, rpn_eval(top_op),
           NEW a \in Nat, NEW n \in Nat, n <= Len(input), NEW most \in 0..7, NEW enough \in 0..7,
           LastOperand(input, operand_stack, operator_stack, a, n, most), rank(top_op) <= enough
    PROVE  LastOperand(input, operand_stack', operator_stack', a, n, enough)
<1> DEFINE X == operand_stack
           O == operator_stack
           S == Seq(F.symbols)
           node == Binary(O[Len(O)], X[Len(X) - 1], X[Len(X)])
<1>1. X \in Seq(S) /\ O \in Seq(BinaryOps) /\ input \in Seq(Kind) /\ Climbing(O) /\ Len(X) = Len(O) + 1
  BY DEF Inv, Typed, Trees, PrecedenceInv, StackInv
<1>2. Len(O) \in Nat /\ Len(O) >= 1
  BY <1>1, LenProperties, EmptySeq
<1>3. node \in S
  <2>1. O[Len(O)] \in BinaryOps
    BY <1>1, <1>2, ElementOfSeq
  <2>2. X[Len(X) - 1] \in S /\ X[Len(X)] \in S
    BY <1>1, <1>2, ElementOfSeq
  <2>3. O[Len(O)] \in Kind
    BY <2>1 DEF Kind
  <2>4. \A e, f \in Trees(F) : Binary(O[Len(O)], e, f) \in Trees(F)
    BY <2>3, NodesAreExpr
  <2> QED
    BY <2>2, <2>4 DEF Trees
<1>4. /\ operand_stack' = Append(SubSeq(X, 1, Len(X) - 2), node)
      /\ operator_stack' = SubSeq(O, 1, Len(O) - 1)
  BY <1>1, <1>2 DEF rpn_eval, top_op
<1>5. rank(O[Len(O)]) <= enough
  BY DEF top_op
<1> HIDE DEF node, S, X, O
<1>6. LastOperand(input, Append(SubSeq(X, 1, Len(X) - 2), node), SubSeq(O, 1, Len(O) - 1),
                  a, n, enough)
  <2>1. /\ O # <<>> /\ LastOperand(input, X, O, a, n, most)
        /\ node = Binary(O[Len(O)], X[Len(X) - 1], X[Len(X)])
    BY DEF X, O, node
  <2> QED
    BY <1>1, <1>3, <1>5, <2>1, Evaluated
<1> QED
  BY <1>4, <1>6

LEMMA EvalStays ==
    ASSUME NEW F, Inv(F), at \in {"binary", "reduce"}, operator_stack # <<>>, rpn_eval(top_op)
    PROVE  UNCHANGED <<input, next, callers, at, ops, expr, op, status>>
<1>1. Len(operand_stack) = Len(operator_stack) + 1 /\ operator_stack \in Seq(BinaryOps)
  BY DEF Inv, Typed, StackInv
<1>2. Len(operator_stack) \in Nat /\ Len(operator_stack) >= 1
  BY <1>1, LenProperties, EmptySeq
<1> QED
  BY <1>1, <1>2 DEF rpn_eval, outcome

LEMMA BinaryBuilds ==
    ASSUME IsLanguage(Derivable), NEW F, Includes(F), Inv(F), Built(F.symbols),
           TakeOperator \/ Reduce \/ PushOperator \/ ConsumeRemaining \/ EndOfBinary
    PROVE  Built(F.symbols)'
<1> DEFINE S == F.symbols
           a == From(callers, Len(callers))
<1>0. status = "parsing"
  BY DEF TakeOperator, Reduce, PushOperator, ConsumeRemaining, EndOfBinary, Running
<1>1. /\ Typed(F) /\ next \in Nat /\ next \in 0..Len(input) /\ Len(input) \in Nat
      /\ input \in Seq(Kind) /\ operator_stack \in Seq(BinaryOps)
      /\ a \in Nat /\ AllWait(S, input, callers) /\ Runs(S, input, a, next)
  BY <1>0, Ready
<1>2. \A n \in Int : \A most : LastOperand(input, operand_stack, operator_stack, a, n, most) => a <= n
  BY <1>1 DEF LastOperand
<1>3. operator_stack # <<>> => top_op \in BinaryOps
  <2>1. operator_stack # <<>> => Len(operator_stack) \in 1..Len(operator_stack)
    BY <1>1, LenProperties, EmptySeq
  <2> QED
    BY <1>1, <2>1, ElementOfSeq DEF top_op
<1>4. at = "reduce" => /\ op \in BinaryOps /\ ops = <<>> /\ next > a /\ input[next] = op
                       /\ LastOperand(input, operand_stack, operator_stack, a, next - 1, left(op))
                       /\ left(op) \in 1..7
  BY <1>1, Ranks DEF Runs, Current, Inv, StackInv
<1>5. at = "binary" /\ peek \notin BinaryOps =>
         LastOperand(input, operand_stack, operator_stack, a, next, 7)
  <2>1. at = "binary" /\ peek \notin BinaryOps =>
           ~(next + 1 \in 1..Len(input) /\ input[next + 1] \in BinaryOps)
    BY <1>1, PeekIs
  <2> QED
    BY <1>1, <2>1 DEF Runs, Current
<1>6. at = "binary" => ops = <<>>
  BY <1>1 DEF Runs, Current
<1>7. ASSUME TakeOperator PROVE Built(S)'
  <2>1. at = "binary" /\ omnomnom(<<BinaryOps>>)
    BY <1>7 DEF TakeOperator, Running
  <2>2. /\ next' = next + 1 /\ next + 1 \in 1..Len(input)
        /\ peek = input[next + 1] /\ peek \in BinaryOps
    BY <1>1, <2>1, KindSets, EatenOne
  <2>3. LastOperand(input, operand_stack, operator_stack, a, next, 0)
    BY <1>1, <2>1, <2>2 DEF Runs, Current
  <2>4. left(peek) \in 0..7 /\ 0 \in 0..7
    BY <2>2, Ranks
  <2>5. LastOperand(input, operand_stack, operator_stack, a, next, left(peek))
    BY <2>3, <2>4, LevelEnough
  <2>6. a <= next /\ (next + 1) - 1 = next
    BY <1>1, <1>2, <2>3
  <2>7. Current(S, input, "reduce", operand_stack, operator_stack, <<>>, expr, peek, a, next + 1)
    BY <1>1, <2>2, <2>5, <2>6 DEF Current, UnaryPlaces
  <2> HIDE DEF a
  <2>8. /\ input' = input /\ callers' = callers /\ at' = "reduce" /\ expr' = expr
        /\ operand_stack' = operand_stack /\ operator_stack' = operator_stack
        /\ ops' = <<>> /\ op' = peek
    BY <1>6, <1>7, <2>1 DEF TakeOperator, stacks
  <2> QED
    BY <1>1, <2>2, <2>7, <2>8, BuiltStays DEF a
<1>8. ASSUME Reduce PROVE Built(S)'
  <2>1. at = "reduce" /\ operator_stack # <<>> /\ rpn_eval(top_op) /\ BindsBefore(op)
    BY <1>8 DEF Reduce, Running
  <2>2. rank(top_op) <= left(op)
    BY <1>3, <1>4, <2>1, BeforeFits DEF BindsBefore
  <2>3. next - 1 \in Nat /\ next - 1 <= Len(input) /\ left(op) \in 0..7
    BY <1>1, <1>4, <2>1
  <2>4. LastOperand(input, operand_stack', operator_stack', a, next - 1, left(op))
    BY <1>1, <1>4, <2>1, <2>2, <2>3, EvalBuilds
  <2>5. PICK X, O : X = operand_stack' /\ O = operator_stack'
    OBVIOUS
  <2>6. Current(S, input, "reduce", X, O, <<>>, expr, op, a, next)
    BY <1>4, <2>1, <2>4, <2>5 DEF Current, UnaryPlaces
  <2> HIDE DEF a
  <2>7. /\ input' = input /\ callers' = callers /\ at' = "reduce" /\ expr' = expr
        /\ ops' = <<>> /\ op' = op /\ next' = next
    BY <1>4, <2>1, EvalStays
  <2> QED
    BY <1>1, <2>5, <2>6, <2>7, BuiltStays DEF a
<1>9. ASSUME ConsumeRemaining PROVE Built(S)'
  <2>1. /\ at = "binary" /\ peek \notin BinaryOps /\ operator_stack # <<>> /\ rpn_eval(top_op)
    BY <1>9 DEF ConsumeRemaining, Running
  <2>2. rank(top_op) <= 7
    BY <1>3, <2>1, Ranks
  <2>3. LastOperand(input, operand_stack', operator_stack', a, next, 7)
    BY <1>1, <1>5, <2>1, <2>2, EvalBuilds
  <2>4. PICK X, O : X = operand_stack' /\ O = operator_stack'
    OBVIOUS
  <2>5. ~(next + 1 \in 1..Len(input) /\ input[next + 1] \in BinaryOps)
    BY <1>1, <2>1, PeekIs
  <2>6. Current(S, input, "binary", X, O, <<>>, expr, op, a, next)
    BY <2>3, <2>4, <2>5 DEF Current, UnaryPlaces
  <2> HIDE DEF a
  <2>7. /\ input' = input /\ callers' = callers /\ at' = "binary" /\ expr' = expr
        /\ ops' = <<>> /\ op' = op /\ next' = next
    BY <1>6, <2>1, EvalStays
  <2> QED
    BY <1>1, <2>4, <2>6, <2>7, BuiltStays DEF a
<1>10. ASSUME PushOperator PROVE Built(S)'
  <2> DEFINE O == Append(operator_stack, op)
  <2>1. at = "reduce"
    BY <1>10 DEF PushOperator, Running
  <2>2. next \in 1..Len(input) /\ input[next] \in BinaryOps /\ input[next] = op
    BY <1>1, <1>4, <2>1
  <2>3. Operands(input, operand_stack, O, a, next)
    BY <1>1, <1>4, <2>1, <2>2, PushedOperator
  <2>4. O \in Seq(BinaryOps)
    BY <1>1, <1>4, <2>1, AppendProperties
  <2> HIDE DEF O
  <2>5. Partial(S, input, "unary", operand_stack, O, <<>>, expr, a, next)
    BY <1>1, <2>3, <2>4, BegunOperand
  <2>6. Current(S, input, "unary", operand_stack, O, <<>>, expr, "none", a, next)
    BY <2>5 DEF Current
  <2> HIDE DEF a
  <2>7. /\ input' = input /\ callers' = callers /\ at' = "unary" /\ expr' = expr
        /\ operand_stack' = operand_stack /\ operator_stack' = O
        /\ ops' = <<>> /\ op' = "none" /\ next' = next
    BY <1>4, <1>10, <2>1 DEF PushOperator, O
  <2> QED
    BY <1>1, <2>6, <2>7, BuiltStays DEF a
<1>11. ASSUME EndOfBinary PROVE Built(S)'
  <2>1. at = "binary" /\ peek \notin BinaryOps /\ operator_stack = <<>>
    BY <1>11 DEF EndOfBinary, Running
  <2>2. CASE Len(operand_stack) # 1
    BY <1>11, <2>2, Stops DEF EndOfBinary, Panic
  <2>3. CASE Len(operand_stack) = 1
    <3>1. LastOperand(input, operand_stack, operator_stack, a, next, 7)
      BY <1>5, <2>1
    <3>2. a <= next
      BY <1>1, <1>2, <3>1
    <3>3. a <= next /\ <<Word(input, a, next), operand_stack[1]>> \in Derivable.expression
      <4>1. a \in 0..Len(input) /\ LastOperand(input, operand_stack, <<>>, a, next, 7)
        BY <1>1, <2>1, <3>1, <3>2
      <4> QED
        BY <1>1, <4>1, OnlyOperand
    <3>4. Current(S, input, "return", operand_stack, operator_stack, <<>>, operand_stack[1], op,
                  a, next)
      BY <3>3 DEF Current, UnaryPlaces
    <3> HIDE DEF a
    <3>5. /\ input' = input /\ callers' = callers /\ at' = "return" /\ expr' = operand_stack[1]
          /\ operand_stack' = operand_stack /\ operator_stack' = operator_stack
          /\ ops' = <<>> /\ op' = op /\ next' = next
      BY <1>6, <1>11, <2>1, <2>3 DEF EndOfBinary, Goto, stacks
    <3> QED
      BY <1>1, <3>4, <3>5, BuiltStays DEF a
  <2> QED
    BY <2>2, <2>3
<1> QED
  BY <1>7, <1>8, <1>9, <1>10, <1>11
\* The caller gets the expression, and consumes the token behind it.
LEMMA Returned ==
    ASSUME NEW F, Includes(F), Inv(F), Built(F.symbols),
           NEW from \in Waiting, ReturnsTo(from), NEW A \in SUBSET Kind, omnomnom(<<A>>),
           NEW to, NEW f,
           \A x, y \in Seq(Kind) :
              /\ <<y, expr>> \in Derivable.expression
              /\ Begun(F.symbols, from, <<x, caller.expr>>)
              => Begun(F.symbols, to, <<x \o (y \o <<peek>>), f>>)
    PROVE  /\ next' \in next..Len(input) /\ ops = <<>> /\ operator_stack = <<>>
           /\ Partial(F.symbols, input, to, caller.operand_stack, caller.operator_stack, caller.ops,
                      f, From(callers, Len(callers) - 1), next')
<1> DEFINE S == F.symbols
           m == Len(callers)
           a == From(callers, m)
           b == From(callers, m - 1)
           c == callers[m]
           y == Word(input, a, next)
<1>0. status = "parsing" /\ at = "return" /\ callers # <<>> /\ caller.at = from
  BY DEF ReturnsTo, Running
<1>1. /\ Typed(F) /\ input \in Seq(Kind) /\ callers \in Seq(Activation(F)) /\ next \in Nat
      /\ Len(input) \in Nat /\ operator_stack \in Seq(BinaryOps)
      /\ AllWait(S, input, callers) /\ Runs(S, input, a, next)
  BY <1>0, Ready
<1>2. m \in Nat /\ m >= 1 /\ caller = c /\ m \in 1..m
  BY <1>0, <1>1, LenProperties, EmptySeq DEF caller
<1>3. c \in Activation(F)
  BY <1>1, <1>2, ElementOfSeq
<1>4. /\ c.at = from /\ c.start \in Nat /\ c.operator_stack \in Seq(BinaryOps)
      /\ c.ops \in Seq(UnaryOps)
  BY <1>0, <1>2, <1>3 DEF Activation
<1>5. a = c.start /\ b \in Nat
  <2>1. b \in Nat
    <3>1. m - 1 \in 0..m
      BY <1>2
    <3> QED
      BY <1>1, <3>1, StartsAreNat
  <2> QED
    BY <1>2, <2>1 DEF From
<1>6. Partial(S, input, from, c.operand_stack, c.operator_stack, c.ops, c.expr, b, a)
  BY <1>1, <1>2, <1>4, <1>5 DEF AllWait, Waits
<1>7. ops = <<>> /\ a <= next /\ <<y, expr>> \in Derivable.expression
  BY <1>0, <1>1 DEF Runs, Current
<1>8. operator_stack = <<>>
  BY <1>0, <1>1, EmptySeq DEF Inv, StackInv
<1>9. /\ next' = next + 1 /\ next + 1 \in 1..Len(input) /\ next' \in next..Len(input)
      /\ peek = input[next + 1]
  BY <1>1, EatenOne
<1>10. PICK n : n = next'
  OBVIOUS
<1>11. Word(input, a, n) = y \o <<peek>> /\ y \in Seq(Kind) /\ n \in a..Len(input)
  <2>1. a \in Nat /\ next \in a..Len(input) /\ n = next + 1
    BY <1>1, <1>4, <1>5, <1>7, <1>9, <1>10
  <2>2. y \in Seq(Kind)
    BY <1>1, <2>1, WordSeq
  <2>3. Word(input, a, next + 1) = Word(input, a, next) \o <<input[next + 1]>>
    BY <1>1, <1>7, <1>9, <2>1, WordNext
  <2>4. n \in a..Len(input)
    BY <1>1, <1>9, <2>1
  <2> QED
    BY <1>9, <2>1, <2>2, <2>3, <2>4
<1> HIDE DEF y
<1>12. \A x \in Seq(Kind) : Begun(S, from, <<x, c.expr>>)
                              => Begun(S, to, <<x \o Word(input, a, n), f>>)
  BY <1>2, <1>7, <1>11
<1> HIDE DEF a, b, c, m
<1>13. Partial(S, input, to, c.operand_stack, c.operator_stack, c.ops, f, b, n)
  BY <1>1, <1>4, <1>5, <1>6, <1>11, <1>12, Longer
<1> QED
  BY <1>2, <1>7, <1>8, <1>9, <1>10, <1>13 DEF b, m

LEMMA ReturnsBuild ==
    ASSUME IsLanguage(Derivable), NEW F, Includes(F), Inv(F), Built(F.symbols), Returns
    PROVE  Built(F.symbols)'
<1> DEFINE S == F.symbols
           a == From(callers, Len(callers) - 1)
<1> SUFFICES ASSUME status = "parsing", Returns PROVE Built(S)'
  BY Stops DEF Returns, ParenthesisReturns, IndexReturns, SizeReturns, ArgumentsReturn, NextArgument,
     Accept, NoEndOfExpression, ReturnsTo, Running
<1>1. /\ Typed(F) /\ expr \in Seq(S) /\ Kind \cup Constructors \subseteq S
      /\ callers \in Seq(Activation(F)) /\ AllWait(S, input, callers)
  BY Ready
<1>2. callers # <<>> => caller.expr \in Seq(S) /\ caller \in Activation(F)
  <2>1. ASSUME callers # <<>> PROVE caller.expr \in Seq(S) /\ caller \in Activation(F)
    <3>1. Len(callers) \in 1..Len(callers)
      BY <1>1, <2>1, LenProperties, EmptySeq
    <3>2. caller \in Activation(F)
      BY <1>1, <3>1, ElementOfSeq DEF caller
    <3> QED
      BY <3>2 DEF Activation, Trees
  <2> QED
    BY <2>1
<1>3. \A x, y \in Seq(Kind) :
         callers # <<>> /\ <<y, expr>> \in Derivable.expression =>
           /\ Begun(S, "parenthesis", <<x, caller.expr>>) =>
                 Begun(S, "postfix", <<x \o (y \o <<")">>), expr>>)
           /\ Begun(S, "index", <<x, caller.expr>>) =>
                 Begun(S, "postfix", <<x \o (y \o <<"]">>), ArrayAccess(caller.expr, expr)>>)
           /\ Begun(S, "size", <<x, caller.expr>>) =>
                 Begun(S, "dimensions", <<x \o (y \o <<"]">>), caller.expr \o expr>>)
           /\ Begun(S, "arguments", <<x, caller.expr>>) =>
                 /\ Begun(S, "postfix", <<x \o (y \o <<")">>), Append(caller.expr \o expr, ")")>>)
                 /\ Begun(S, "arguments", <<x \o (y \o <<",">>), caller.expr \o expr>>)
  BY <1>1, <1>2, BegunReturns
<1>4. ASSUME NEW to \in {"postfix", "dimensions"}, NEW f, callers # <<>>, Return(to, f),
             Partial(S, input, to, caller.operand_stack, caller.operator_stack, caller.ops,
                     f, a, next')
      PROVE  Built(S)'
  <2>1. to \in UnaryPlaces
    BY DEF UnaryPlaces
  <2>2. PICK n : n = next'
    OBVIOUS
  <2> HIDE DEF a
  <2> QED
    BY <1>1, <1>4, <2>1, <2>2, BuiltReturns DEF a
<1>5. /\ {")"} \in SUBSET Kind /\ {"]"} \in SUBSET Kind /\ {","} \in SUBSET Kind
      /\ {"parenthesis", "index", "size", "arguments"} = Waiting
  BY KindSets DEF Waiting
<1>6. \A A \in SUBSET Kind : omnomnom(<<A>>) => peek \in A
  BY <1>1, EatenOne
<1>7. ASSUME ParenthesisReturns PROVE Built(S)'
  <2>1. /\ ReturnsTo("parenthesis") /\ omnomnom(<<{")"}>>) /\ Return("postfix", expr)
        /\ callers # <<>>
    BY <1>7 DEF ParenthesisReturns, ReturnsTo
  <2>2. peek = ")"
    BY <1>5, <1>6, <2>1
  <2>3. Partial(S, input, "postfix", caller.operand_stack, caller.operator_stack, caller.ops,
                expr, a, next')
    BY <1>3, <1>5, <2>1, <2>2, Returned
  <2> QED
    BY <1>4, <2>1, <2>3
<1>8. ASSUME IndexReturns PROVE Built(S)'
  <2>1. /\ ReturnsTo("index") /\ omnomnom(<<{"]"}>>) /\ callers # <<>>
        /\ Return("postfix", ArrayAccess(caller.expr, expr))
    BY <1>8 DEF IndexReturns, ReturnsTo
  <2>2. peek = "]"
    BY <1>5, <1>6, <2>1
  <2>3. Partial(S, input, "postfix", caller.operand_stack, caller.operator_stack, caller.ops,
                ArrayAccess(caller.expr, expr), a, next')
    BY <1>3, <1>5, <2>1, <2>2, Returned
  <2> QED
    BY <1>4, <2>1, <2>3
<1>9. ASSUME SizeReturns PROVE Built(S)'
  <2>1. /\ ReturnsTo("size") /\ omnomnom(<<{"]"}>>) /\ callers # <<>>
        /\ Return("dimensions", caller.expr \o expr)
    BY <1>9 DEF SizeReturns, ReturnsTo
  <2>2. peek = "]"
    BY <1>5, <1>6, <2>1
  <2>3. Partial(S, input, "dimensions", caller.operand_stack, caller.operator_stack, caller.ops,
                caller.expr \o expr, a, next')
    BY <1>3, <1>5, <2>1, <2>2, Returned
  <2> QED
    BY <1>4, <2>1, <2>3
<1>10. ASSUME ArgumentsReturn PROVE Built(S)'
  <2>1. /\ ReturnsTo("arguments") /\ omnomnom(<<{")"}>>) /\ callers # <<>>
        /\ Return("postfix", Append(caller.expr \o expr, ")"))
    BY <1>10 DEF ArgumentsReturn, ReturnsTo
  <2>2. peek = ")"
    BY <1>5, <1>6, <2>1
  <2>3. Partial(S, input, "postfix", caller.operand_stack, caller.operator_stack, caller.ops,
                Append(caller.expr \o expr, ")"), a, next')
    BY <1>3, <1>5, <2>1, <2>2, Returned
  <2> QED
    BY <1>4, <2>1, <2>3
<1>11. ASSUME NextArgument PROVE Built(S)'
  <2>1. ReturnsTo("arguments") /\ omnomnom(<<{","}>>) /\ callers # <<>> /\ caller.at = "arguments"
    BY <1>11 DEF NextArgument, ReturnsTo
  <2>2. peek = ","
    BY <1>5, <1>6, <2>1
  <2>3. /\ Partial(S, input, "arguments", caller.operand_stack, caller.operator_stack, caller.ops,
                   caller.expr \o expr, a, next')
        /\ next' \in next..Len(input) /\ ops = <<>> /\ operator_stack = <<>>
    <3>1. \A x, y \in Seq(Kind) :
             /\ <<y, expr>> \in Derivable.expression
             /\ Begun(S, "arguments", <<x, caller.expr>>)
             => Begun(S, "arguments", <<x \o (y \o <<peek>>), caller.expr \o expr>>)
      BY <1>3, <2>1, <2>2
    <3>2. /\ {","} \in SUBSET Kind /\ "arguments" \in Waiting
          /\ ReturnsTo("arguments") /\ omnomnom(<<{","}>>)
      BY <1>5, <2>1
    <3>3. Partial(S, input, "arguments", caller.operand_stack, caller.operator_stack, caller.ops,
                  caller.expr \o expr, a, next')
      BY <3>1, <3>2, Returned
    <3>4. next' \in next..Len(input) /\ ops = <<>> /\ operator_stack = <<>>
      BY <3>1, <3>2, Returned
    <3> QED
      BY <3>3, <3>4
  <2>4. PICK n : n = next'
    OBVIOUS
  <2> DEFINE c == [caller EXCEPT !.start = n, !.expr = caller.expr \o expr]
             s == [callers EXCEPT ![Len(callers)] = c]
  <2>5. /\ c.at = "arguments" /\ c.start = n /\ c.expr = caller.expr \o expr
        /\ c.operand_stack = caller.operand_stack /\ c.operator_stack = caller.operator_stack
        /\ c.ops = caller.ops
    BY <1>2, <2>1 DEF Activation
  <2>6. /\ callers' = s /\ input' = input /\ at' = "unary" /\ operand_stack' = <<>>
        /\ operator_stack' = <<>> /\ ops' = <<>> /\ expr' = <<>> /\ op' = op /\ next' = n
    BY <1>11, <2>3, <2>4 DEF NextArgument
  <2> HIDE DEF c
  <2>7. Waits(S, input, c, a)
    BY <2>3, <2>4, <2>5 DEF Waits
  <2>8. From(s, Len(s)) = n /\ AllWait(S, input, s)
    BY <1>1, <2>1, <2>5, <2>7, StackTop
  <2>9. Current(S, input, "unary", <<>>, <<>>, <<>>, <<>>, op, n, n)
    <3>1. input \in Seq(Kind) /\ n \in 0..Len(input)
      BY <1>1, <2>3, <2>4, LenProperties DEF Typed
    <3>2. Partial(S, input, "unary", <<>>, <<>>, <<>>, <<>>, n, n)
      BY <3>1, BegunFresh
    <3> QED
      BY <3>2 DEF Current
  <2> HIDE DEF s
  <2> QED
    BY <2>6, <2>8, <2>9 DEF Built, Runs
<1>12. ASSUME Accept \/ NoEndOfExpression PROVE Built(S)'
  <2>1. status' # "parsing"
    BY <1>12, UnexpectedStops DEF Accept, NoEndOfExpression
  <2> QED
    BY <2>1, Stops
<1> QED
  BY <1>7, <1>8, <1>9, <1>10, <1>11, <1>12 DEF Returns

LEMMA ExpressionsBuild ==
    ASSUME IsLanguage(Derivable), NEW F, Includes(F), Inv(F), Built(F.symbols), Next
    PROVE  Built(F.symbols)'
BY PrimaryBuilds, PostfixBuilds, UnaryBuilds, BinaryBuilds, ReturnsBuild
   DEF Next, BinaryExpression

(***************************************************************************)
(* The first activation begins with the first token.                       *)
(***************************************************************************)
LEMMA InitBuilt == Init => Built(ExpressionFunctions.symbols)
<1> SUFFICES ASSUME Init PROVE Built(ExpressionFunctions.symbols)
  OBVIOUS
<1> DEFINE S == ExpressionFunctions.symbols
<1>1. input \in Seq(Kind) /\ 0 \in 0..Len(input)
  BY FilesAssumption, LenProperties DEF Init
<1>2. Partial(S, input, "unary", <<>>, <<>>, <<>>, <<>>, 0, 0)
  BY <1>1, BegunFresh
<1>3. Current(S, input, "unary", <<>>, <<>>, <<>>, <<>>, "none", 0, 0)
  BY <1>2 DEF Current
<1>4. Len(callers) = 0 /\ From(callers, Len(callers)) = 0 /\ AllWait(S, input, callers)
  BY EmptySeq DEF Init, From, AllWait
<1> HIDE DEF S
<1>5. Built(S)
  BY <1>3, <1>4 DEF Built, Runs, Init
<1> QED
  BY <1>5 DEF S

LEMMA AcceptedIsDerived ==
    ASSUME NEW F, Includes(F), Inv(F), Built(F.symbols), Accept
    PROVE  BuildsTheTree'
<1>1. status = "parsing" /\ at = "return" /\ callers = <<>>
  BY DEF Accept, Running
<1>2. Len(callers) = 0 /\ From(callers, Len(callers)) = 0
  BY <1>1, EmptySeq DEF From
<1>3. <<Word(input, 0, next), expr>> \in Derivable.expression
  BY <1>1, <1>2 DEF Built, Runs, Current
<1>4. next \in Nat /\ (next + 1) - 1 = next /\ 0 + 1 = 1
  BY <1>1, Ready
<1>5. input' = input /\ expr' = expr /\ next' = next + 1
  BY DEF Accept
<1> QED
  BY <1>3, <1>4, <1>5 DEF BuildsTheTree, Word

LEMMA OnlyAcceptAccepts ==
    ASSUME Next
    PROVE  status = "parsing" /\ (Accept \/ status' # "accepted")
<1>1. \A wanted : omnomnom(wanted) => status' = status
  BY DEF omnomnom, outcome
<1>2. \A wanted : Unexpected(wanted) => status' = "error"
  BY DEF Unexpected, Reject
<1>3. \A o : rpn_eval(o) => status' = status \/ status' = "panicked"
  BY DEF rpn_eval, Panic, outcome
<1>4. \A callee, upTo : Arguments(callee, upTo) => status' = status
  BY <1>1 DEF Arguments
<1>5. ASSUME Primary PROVE status = "parsing" /\ status' # "accepted"
  BY <1>1, <1>2, <1>4, <1>5 DEF Primary, Literal, Var, ThisMethodInvocation, Parenthesis, NoPrimary,
     New, NewObject, NewArrayOf, NewTypeAtEnd, NewUnexpected, NewArrayDimension, NewArrayDone,
     NewArrayAtEnd, Running, Reject, outcome
<1>6. ASSUME Postfix PROVE status = "parsing" /\ status' # "accepted"
  BY <1>1, <1>2, <1>4, <1>6 DEF Postfix, MethodInvocation, MemberReference, NoMember, Index,
     EndOfPostfix, Running, outcome
<1>7. ASSUME UnaryOp \/ ApplyUnary \/ BinaryExpression
      PROVE  status = "parsing" /\ status' # "accepted"
  BY <1>1, <1>3, <1>7 DEF UnaryOp, ApplyUnary, BinaryExpression, PushOperand, TakeOperator, Reduce,
     PushOperator, ConsumeRemaining, EndOfBinary, Panic, Running, outcome
<1>8. ASSUME Returns PROVE status = "parsing" /\ (Accept \/ status' # "accepted")
  BY <1>1, <1>2, <1>8 DEF Returns, ParenthesisReturns, IndexReturns, SizeReturns, ArgumentsReturn,
     NextArgument, Accept, NoEndOfExpression, ReturnsTo, Running
<1> QED
  BY <1>5, <1>6, <1>7, <1>8 DEF Next

(***************************************************************************)
(* Whatever is accepted is an expression of the grammar with its tree, in  *)
(* every language that is closed under the rules (parser.rs:541-743).      *)
(***************************************************************************)
THEOREM ParserBuildsTheTree ==
    ASSUME IsLanguage(Derivable)
    PROVE  Spec => []BuildsTheTree
<1> DEFINE F == ExpressionFunctions
           SoundInv == Inv(F) /\ Built(F.symbols) /\ BuildsTheTree
<1>1. Init => SoundInv
  BY InitInv, InitBuilt DEF Init, BuildsTheTree
<1>2. SoundInv /\ [Next]_vars => SoundInv'
  <2> SUFFICES ASSUME SoundInv, [Next]_vars PROVE SoundInv'
    OBVIOUS
  <2>0. Includes(F)
    BY DEF Includes, ExpressionFunctions
  <2> HIDE DEF F
  <2>1. Includes(F) /\ Inv(F)'
    BY <2>0, StepInv
  <2>2. CASE Next
    <3>1. Built(F.symbols)'
      BY <2>1, <2>2, ExpressionsBuild
    <3>2. BuildsTheTree'
      BY <2>1, <2>2, OnlyAcceptAccepts, AcceptedIsDerived DEF BuildsTheTree
    <3> QED
      BY <2>1, <3>1, <3>2
  <2>3. CASE UNCHANGED vars
    <3>1. Built(F.symbols)' /\ BuildsTheTree'
      BY <2>3 DEF vars, stacks, outcome, Built, Runs, AllWait, Waits, From, BuildsTheTree
    <3> QED
      BY <2>1, <3>1
  <2> QED
    BY <2>2, <2>3
<1> QED
  BY <1>1, <1>2, PTL DEF Spec

-----------------------------------------------------------------------------
\* Places of activations that may have consumed nothing yet.
Fresh == {"file", "program", "unary", "type", "block", "block statement", "statement"}

\* The first activation is one of the top, hence what returns has a caller.
Called == /\ at \notin Top => callers # <<>>
          /\ callers # <<>> => callers[1].at \in Top

F == ParserFunctions

\* An expression calls nothing but expressions.
Nested == /\ \A i \in 2..Len(callers) :
                 callers[i - 1].at \in Waiting => callers[i].at \in Waiting
          /\ at \notin Places /\ callers # <<>> => caller.at \notin Waiting

ParseInv == /\ Inv(F)
            /\ Called
            /\ Nested
            /\ Progress(Fresh, 0)

-----------------------------------------------------------------------------
(***************************************************************************)
(* What a handler does.  Reads(k): it consumes at least k tokens.          *)
(***************************************************************************)
Reads(k) == /\ next' \in next + k..Len(input)
            /\ UNCHANGED outcome

GoesOn == \E to \in F.places \ Places, e \in Trees(F) :
              /\ Goto(to, e)
              /\ at \notin Places
              /\ at \in Top => to \in Top
              /\ Reads(0)
              /\ to \in Fresh \/ at \notin Fresh \/ Reads(1)

Invokes == \E to \in Fresh, from \in F.waits \ Waiting, e \in Trees(F) :
               /\ Invoke(to, from, e)
               /\ at \notin Places
               /\ at \in Top => from \in Top
               /\ Reads(0)

Finishes == /\ \E e \in Trees(F) : Finish(e)
            /\ at \notin Top
            /\ at \in Places => caller.at \notin Waiting
            /\ Reads(0)
            /\ at \notin Fresh \/ Reads(1)

Fails == \E k \in next + 1..Len(input) + 1 : Reject(k)

Accepts == \E e \in Trees(F) : AcceptFile(e)

-----------------------------------------------------------------------------
(***************************************************************************)
(* Consuming tokens, and the trees that are built.                         *)
(***************************************************************************)
LEMMA Read ==
    ASSUME ParseInv, NEW wanted \in Seq(SUBSET Kind), Len(wanted) \in {1, 2, 3, 10},
           omnomnom(wanted)
    PROVE  Reads(1) /\ Reads(0)
<1>1. Typed(F) /\ next \in Nat /\ Len(wanted) \in Nat /\ Len(input) \in Nat
  BY LenProperties DEF ParseInv, Inv, Typed
<1>2. next' \in 0..Len(input) /\ next' = next + Len(wanted) /\ UNCHANGED outcome
  BY <1>1, Consumed DEF omnomnom
<1>3. Len(wanted) >= 1
  OBVIOUS
<1>4. next' \in next + 1..Len(input) /\ next' \in next + 0..Len(input)
  BY <1>1, <1>2, <1>3
<1> QED
  BY <1>2, <1>4 DEF Reads

LEMMA ReadOne ==
    ASSUME ParseInv, NEW A \in SUBSET Kind
    PROVE  /\ omnomnom(<<A>>) => Reads(1) /\ Reads(0) /\ peek \in A
           /\ \A B \in SUBSET Kind : omnomnom(<<A, B>>) => Reads(1) /\ Reads(0)
           /\ \A B, C \in SUBSET Kind : omnomnom(<<A, B, C>>) => Reads(1) /\ Reads(0)
<1>1. omnomnom(<<A>>) => Reads(1) /\ Reads(0)
  BY Wanted, Read, Zenon
<1>2. omnomnom(<<A>>) => peek \in A
  BY ConsumedOne DEF ParseInv, Inv
<1>3. ASSUME NEW B \in SUBSET Kind, omnomnom(<<A, B>>) PROVE Reads(1) /\ Reads(0)
  BY <1>3, Wanted, Read, Zenon
<1>4. ASSUME NEW B \in SUBSET Kind, NEW C \in SUBSET Kind, omnomnom(<<A, B, C>>)
      PROVE  Reads(1) /\ Reads(0)
  BY <1>4, Wanted, Read, Zenon
<1> QED
  BY <1>1, <1>2, <1>3, <1>4

LEMMA Stayed ==
    ASSUME ParseInv, Stay
    PROVE  Reads(0)
<1>1. next \in 0..Len(input) /\ Len(input) \in Nat
  BY LenProperties DEF ParseInv, Inv, Typed
<1> QED
  BY <1>1 DEF Stay, Reads

LEMMA Failed ==
    ASSUME ParseInv, NEW wanted \in Seq(SUBSET Kind), Unexpected(wanted)
    PROVE  Fails
<1>1. PICK i \in DOMAIN wanted : /\ \A j \in 1..(i - 1) : token(next + j) \in wanted[j]
                                /\ Reject(next + i)
  BY DEF Unexpected
<1>2. Len(wanted) \in Nat /\ i \in 1..Len(wanted)
        /\ \A j \in 1..Len(wanted) : wanted[j] \in SUBSET Kind
  BY LenProperties, ElementOfSeq
<1>3. next \in Nat /\ Len(input) \in Nat /\ next <= Len(input) /\ Typed(F)
  BY LenProperties DEF ParseInv, Inv, Typed
<1>4. next + i \in next + 1..(Len(input) + 1)
  <2>1. CASE i = 1
    BY <1>2, <1>3, <2>1
  <2>2. CASE i # 1
    <3>1. token(next + (i - 1)) \in Kind
      BY <1>1, <1>2, <2>2
    <3>2. next + (i - 1) \in 1..Len(input)
      BY <1>2, <1>3, <3>1, TokenWithin
    <3> QED
      BY <1>2, <1>3, <3>2
  <2> QED
    BY <2>1, <2>2
<1> QED
  BY <1>1, <1>4 DEF Fails

LEMMA FailedOne ==
    ASSUME ParseInv, NEW A \in SUBSET Kind
    PROVE  /\ Unexpected(<<A>>) => Fails
           /\ \A B \in SUBSET Kind : Unexpected(<<A, B>>) => Fails
           /\ \A B, C \in SUBSET Kind : Unexpected(<<A, B, C>>) => Fails
<1>1. Unexpected(<<A>>) => Fails
  BY Wanted, Failed
<1>2. ASSUME NEW B \in SUBSET Kind, Unexpected(<<A, B>>) PROVE Fails
  BY <1>2, Wanted, Failed
<1>3. ASSUME NEW B \in SUBSET Kind, NEW C \in SUBSET Kind, Unexpected(<<A, B, C>>) PROVE Fails
  BY <1>3, Wanted, Failed
<1> QED
  BY <1>1, <1>2, <1>3

LEMMA Symbols == /\ \A s \in Nodes : s \in F.symbols
                 /\ \A s \in Kind : s \in F.symbols
                 /\ "ArrayOf" \in F.symbols
                 /\ Includes(F)
BY DEF F, ParserFunctions, Constructors, Includes

(***************************************************************************)
(* A tree that is extended by the symbols s and t is a tree.               *)
(***************************************************************************)
LEMMA Extended ==
    ASSUME NEW e \in Trees(F), NEW s \in F.symbols, NEW t \in F.symbols
    PROVE  /\ Append(e, s) \in Trees(F)
           /\ <<s>> \in Trees(F)
           /\ <<s, t>> \in Trees(F)
           /\ <<s>> \o e \in Trees(F)
           /\ e \o <<s, t>> \in Trees(F)
<1>1. /\ <<s>> \in Trees(F) /\ <<s, t>> \in Trees(F) /\ Append(e, s) \in Trees(F)
      /\ \A x, y \in Trees(F) : x \o y \in Trees(F)
  BY ExprClosed
<1> QED
  BY <1>1

LEMMA Sets ==
    /\ Identifiers \in SUBSET Kind /\ BasicTypes \in SUBSET Kind
    /\ \A k \in Keywords \cup {"void", "String"} : {k} \in SUBSET Kind
    /\ \A k \in {"(", ")", "[", "]", "{", "}", ",", ";", "="} : {k} \in SUBSET Kind
    /\ {"public", "}"} \in SUBSET Kind /\ {"(", ";"} \in SUBSET Kind
    /\ {",", ")"} \in SUBSET Kind /\ {"throws", "{"} \in SUBSET Kind
    /\ {"=", ";"} \in SUBSET Kind
BY DEF Kind, Keywords, BasicTypes, Identifiers, BinaryOps

LEMMA MainMethodWanted == /\ MainMethodTokens \in Seq(SUBSET Kind)
                          /\ Len(MainMethodTokens) = 10
<1> DEFINE T == SUBSET Kind
<1>1. /\ Identifiers \in T /\ {"public"} \in T /\ {"static"} \in T /\ {"void"} \in T
      /\ {"("} \in T /\ {"String"} \in T /\ {"["} \in T /\ {"]"} \in T /\ {")"} \in T
  BY Sets DEF Keywords
<1> HIDE DEF T
<1>2. MainMethodTokens \in Seq(T) /\ Len(MainMethodTokens) = 10
  BY <1>1 DEF MainMethodTokens
<1> QED
  BY <1>2 DEF T

-----------------------------------------------------------------------------
(***************************************************************************)
(* Each handler does one of the five.                                      *)
(***************************************************************************)
Handled == GoesOn \/ Invokes \/ Finishes \/ Fails \/ Accepts

LEMMA ClassesHandled ==
    ASSUME ParseInv, Classes
    PROVE  Handled
<1>1. expr \in Trees(F)
  BY DEF ParseInv, Inv, Typed
<1>2. /\ "Empty" \in F.symbols /\ "Program" \in F.symbols /\ "ClassDeclaration" \in F.symbols
      /\ "}" \in F.symbols
  BY Symbols DEF Nodes, Kind
<1>3. {"program", "class"} \subseteq (F.places \ Places) \cap Top
  BY DEF F, ParserFunctions, Places, Top
<1>4. ClassTokens \in Seq(SUBSET Kind) /\ Len(ClassTokens) = 3
  <2>1. {"class"} \in SUBSET Kind /\ Identifiers \in SUBSET Kind /\ {"{"} \in SUBSET Kind
    BY Sets DEF Keywords
  <2> QED
    BY <2>1, Wanted, Zenon DEF ClassTokens
<1>5. CASE EmptyFile
  <2>1. <<"Empty">> \in Trees(F)
    BY <1>2, ExprClosed, Zenon
  <2> QED
    BY <1>5, <2>1 DEF EmptyFile, Handled, Accepts
<1>6. CASE Program
  <2>1. Goto("program", <<"Program">>) /\ Stay /\ at = "file"
    BY <1>6 DEF Program, Running
  <2>2. <<"Program">> \in Trees(F)
    BY <1>2, ExprClosed, Zenon
  <2>3. "program" \in Fresh /\ at \in Top /\ at \notin Places
    BY <2>1 DEF Fresh, Top, Places
  <2> QED
    BY <1>3, <2>1, <2>2, <2>3, Stayed DEF Handled, GoesOn
<1>7. CASE EndOfFile
  BY <1>1, <1>7 DEF EndOfFile, Handled, Accepts
<1>8. CASE ClassDeclaration
  <2>1. Goto("class", Append(expr, "ClassDeclaration")) /\ at = "program" /\ omnomnom(ClassTokens)
    BY <1>8 DEF ClassDeclaration, Running
  <2>2. Append(expr, "ClassDeclaration") \in Trees(F)
    BY <1>1, <1>2, Extended
  <2>3. at \in Top /\ at \notin Places
    BY <2>1 DEF Top, Places
  <2>4. Reads(0) /\ Reads(1)
    BY <1>4, <2>1, Read
  <2> QED
    BY <1>3, <2>1, <2>2, <2>3, <2>4 DEF Handled, GoesOn
<1>9. CASE NoClassDeclaration
  BY <1>4, <1>9, Failed DEF NoClassDeclaration, Handled
<1>10. CASE EndOfClass
  <2>1. Goto("program", Append(expr, "}")) /\ at = "class" /\ omnomnom(<<{"}"}>>)
    BY <1>10 DEF EndOfClass, Running
  <2>2. Append(expr, "}") \in Trees(F)
    BY <1>1, <1>2, Extended
  <2>3. at \in Top /\ at \notin Places
    BY <2>1 DEF Top, Places
  <2>4. Reads(0) /\ Reads(1)
    BY <2>1, Sets, ReadOne
  <2> QED
    BY <1>3, <2>1, <2>2, <2>3, <2>4 DEF Handled, GoesOn
<1> QED
  BY <1>5, <1>6, <1>7, <1>8, <1>9, <1>10 DEF Classes

LEMMA MembersHandled ==
    ASSUME ParseInv, Members
    PROVE  Handled
<1>1. expr \in Trees(F)
  BY DEF ParseInv, Inv, Typed
<1>2. /\ "MainMethod" \in F.symbols /\ "Field" \in F.symbols /\ "Method" \in F.symbols
      /\ ")" \in F.symbols /\ "Parameter" \in F.symbols /\ "Block" \in F.symbols
  BY Symbols DEF Nodes, Kind
<1>3. /\ {"method rest", "class"} \subseteq (F.places \ Places) \cap Top
      /\ {"member", "parameter", "class"} \subseteq (F.waits \ Waiting) \cap Top
      /\ {"type", "block"} \subseteq Fresh
  BY DEF F, ParserFunctions, Places, Top, Fresh, Waiting
<1>4. RestTokens \in Seq(SUBSET Kind) /\ Len(RestTokens) = 3
  <2>1. {"throws"} \in SUBSET Kind /\ Identifiers \in SUBSET Kind /\ {"{"} \in SUBSET Kind
    BY Sets DEF Keywords
  <2> QED
    BY <2>1, Wanted, Zenon DEF RestTokens
<1>5. CASE MainMethod
  <2>1. /\ Goto("method rest", Append(expr, "MainMethod"))
        /\ at = "class" /\ omnomnom(MainMethodTokens)
    BY <1>5 DEF MainMethod, Running
  <2>2. Append(expr, "MainMethod") \in Trees(F)
    BY <1>1, <1>2, Extended
  <2>3. at \in Top /\ at \notin Places
    BY <2>1 DEF Top, Places
  <2>4. Reads(0) /\ Reads(1)
    BY <2>1, MainMethodWanted, Read
  <2> QED
    BY <1>3, <2>1, <2>2, <2>3, <2>4 DEF Handled, GoesOn
<1>6. CASE TypedMember
  <2>1. Invoke("type", "member", expr) /\ at = "class" /\ omnomnom(<<{"public"}>>)
    BY <1>6 DEF TypedMember, Running
  <2>2. {"public"} \in SUBSET Kind
    BY Sets DEF Keywords
  <2>3. Reads(0)
    BY <2>1, <2>2, ReadOne
  <2>4. at \notin Places
    BY <2>1 DEF Places
  <2> QED
    BY <1>1, <1>3, <2>1, <2>3, <2>4 DEF Handled, Invokes
<1>7. CASE NoClassMember
  <2>1. Unexpected(<<{"public", "}"}>>) \/ Unexpected(MainMethodTokens)
    BY <1>7 DEF NoClassMember
  <2> QED
    BY <2>1, Sets, FailedOne, MainMethodWanted, Failed DEF Handled
<1>8. CASE Field
  <2>1. Goto("class", Append(expr, "Field")) /\ at = "member" /\ omnomnom(<<Identifiers, {";"}>>)
    BY <1>8 DEF Field, Running
  <2>2. Append(expr, "Field") \in Trees(F)
    BY <1>1, <1>2, Extended
  <2>3. at \in Top /\ at \notin Places
    BY <2>1 DEF Top, Places
  <2>4. Reads(0) /\ Reads(1)
    BY <2>1, Sets, ReadOne
  <2> QED
    BY <1>3, <2>1, <2>2, <2>3, <2>4 DEF Handled, GoesOn
<1>9. CASE Method
  <2>1. at = "member"
    BY <1>9 DEF Method, Running
  <2>2. at \in Top /\ at \notin Places
    BY <2>1 DEF Top, Places
  <2>3. CASE /\ omnomnom(<<Identifiers, {"("}, {")"}>>)
             /\ Goto("method rest", expr \o <<"Method", ")">>)
    <3>1. expr \o <<"Method", ")">> \in Trees(F)
      BY <1>1, <1>2, Extended
    <3>2. Reads(0) /\ Reads(1)
      BY <2>3, Sets, ReadOne
    <3> QED
      BY <1>3, <2>2, <2>3, <3>1, <3>2 DEF Handled, GoesOn
  <2>4. CASE /\ omnomnom(<<Identifiers, {"("}>>)
             /\ Invoke("type", "parameter", Append(expr, "Method"))
    <3>1. Append(expr, "Method") \in Trees(F)
      BY <1>1, <1>2, Extended
    <3>2. Reads(0)
      BY <2>4, Sets, ReadOne
    <3> QED
      BY <1>3, <2>2, <2>4, <3>1, <3>2 DEF Handled, Invokes
  <2> QED
    BY <1>9, <2>3, <2>4 DEF Method
<1>10. CASE NoMemberEnd
  <2>1. Unexpected(<<Identifiers, {"(", ";"}>>)
    BY <1>10 DEF NoMemberEnd
  <2> QED
    BY <2>1, Sets, FailedOne DEF Handled
<1>11. CASE NextParameter
  <2>1. /\ Invoke("type", "parameter", Append(expr, "Parameter"))
        /\ at = "parameter" /\ omnomnom(<<Identifiers, {","}>>)
    BY <1>11 DEF NextParameter, Running
  <2>2. Append(expr, "Parameter") \in Trees(F)
    BY <1>1, <1>2, Extended
  <2>3. Reads(0)
    BY <2>1, Sets, ReadOne
  <2>4. at \notin Places
    BY <2>1 DEF Places
  <2> QED
    BY <1>3, <2>1, <2>2, <2>3, <2>4 DEF Handled, Invokes
<1>12. CASE LastParameter
  <2>1. /\ Goto("method rest", expr \o <<"Parameter", ")">>)
        /\ at = "parameter" /\ omnomnom(<<Identifiers, {")"}>>)
    BY <1>12 DEF LastParameter, Running
  <2>2. expr \o <<"Parameter", ")">> \in Trees(F)
    BY <1>1, <1>2, Extended
  <2>3. at \in Top /\ at \notin Places
    BY <2>1 DEF Top, Places
  <2>4. Reads(0) /\ Reads(1)
    BY <2>1, Sets, ReadOne
  <2> QED
    BY <1>3, <2>1, <2>2, <2>3, <2>4 DEF Handled, GoesOn
<1>13. CASE NoParameterEnd
  <2>1. Unexpected(<<Identifiers, {",", ")"}>>)
    BY <1>13 DEF NoParameterEnd
  <2> QED
    BY <2>1, Sets, FailedOne DEF Handled
<1>14. CASE Body
  <2>1. /\ Invoke("block", "class", Append(expr, "Block")) /\ at = "method rest"
        /\ omnomnom(<<{"{"}>>) \/ omnomnom(RestTokens)
    BY <1>14 DEF Body, Running
  <2>2. Append(expr, "Block") \in Trees(F)
    BY <1>1, <1>2, Extended
  <2>3. Reads(0)
    BY <1>4, <2>1, Sets, ReadOne, Read
  <2>4. at \notin Places
    BY <2>1 DEF Places
  <2> QED
    BY <1>3, <2>1, <2>2, <2>3, <2>4 DEF Handled, Invokes
<1>15. CASE NoBody
  <2>1. Unexpected(<<{"throws", "{"}>>) \/ Unexpected(RestTokens)
    BY <1>15 DEF NoBody
  <2> QED
    BY <1>4, <2>1, Sets, FailedOne, Failed DEF Handled
<1> QED
  BY <1>5, <1>6, <1>7, <1>8, <1>9, <1>10, <1>11, <1>12, <1>13, <1>14, <1>15 DEF Members

LEMMA TypesHandled ==
    ASSUME ParseInv, Types
    PROVE  Handled
<1>1. expr \in Trees(F)
  BY DEF ParseInv, Inv, Typed
<1>2. /\ "Type" \in F.symbols /\ "ArrayOf" \in F.symbols /\ \A k \in Kind : k \in F.symbols
  BY Symbols DEF Nodes
<1>3. /\ "array type" \in F.places \ Places
      /\ {"type", "array type"} \cap (Places \cup Top) = {}
      /\ "array type" \notin Fresh
  BY DEF F, ParserFunctions, Places, Top, Fresh
<1>4. {"["} \in SUBSET Kind /\ {"]"} \in SUBSET Kind /\ BasicTypes \in SUBSET Kind
  BY Sets
<1>5. CASE BasicType
  <2>1. Goto("array type", <<"Type", peek>>) /\ at = "type" /\ omnomnom(<<BasicTypes>>)
    BY <1>5 DEF BasicType, Running
  <2>2. Reads(0) /\ Reads(1) /\ peek \in Kind
    BY <1>4, <2>1, ReadOne
  <2>3. <<"Type", peek>> \in Trees(F)
    <3>1. "Type" \in F.symbols /\ peek \in F.symbols
      BY <1>2, <2>2
    <3> QED
      BY <3>1, ExprClosed, Zenon
  <2> QED
    BY <1>3, <2>1, <2>2, <2>3 DEF Handled, GoesOn
<1>6. CASE NoBasicType
  BY <1>4, <1>6, FailedOne DEF NoBasicType, Handled
<1>7. CASE ArrayType
  <2>1. /\ Goto("array type", <<"ArrayOf">> \o expr) /\ at = "array type"
        /\ omnomnom(<<{"["}, {"]"}>>)
    BY <1>7 DEF ArrayType, Running
  <2>2. Reads(0) /\ Reads(1)
    BY <1>4, <2>1, ReadOne
  <2>3. <<"ArrayOf">> \o expr \in Trees(F)
    BY <1>1, <1>2, Extended
  <2> QED
    BY <1>3, <2>1, <2>2, <2>3 DEF Handled, GoesOn
<1>8. CASE NoArrayType
  BY <1>4, <1>8, FailedOne DEF NoArrayType, Handled
<1>9. CASE EndOfType
  <2>1. Finish(expr) /\ at = "array type" /\ Reads(0)
    BY <1>9, Stayed DEF EndOfType, Running
  <2> QED
    BY <1>1, <1>3, <2>1 DEF Handled, Finishes
<1> QED
  BY <1>5, <1>6, <1>7, <1>8, <1>9 DEF Types

LEMMA StatementsHandled ==
    ASSUME ParseInv, Statements
    PROVE  Handled
<1>1. expr \in Trees(F)
  BY DEF ParseInv, Inv, Typed
<1>2. {"Block", "EmptyStatement", "If", "While", "Return", "LocalVariableDeclaration",
       "Expression", "Some", "None", "}"} \subseteq F.symbols
  BY Symbols DEF Nodes, Kind
<1>3. /\ {"block", "statement"} \subseteq F.places \ Places
      /\ {"block", "if arm", "else arm", "while body", "semicolon", "variable"}
             \subseteq F.waits \ Waiting
      /\ {"unary", "type", "block", "block statement", "statement"} \subseteq Fresh
      /\ {"if arm", "else arm", "while body", "semicolon", "variable"} \cap Fresh = {}
      /\ {"block", "block statement", "statement", "if arm", "else arm", "while body",
           "semicolon", "variable"} \cap (Places \cup Top) = {}
  BY DEF F, ParserFunctions, Places, Top, Fresh, Waiting
<1>4. /\ \A k \in {"(", ")", "{", "}", ";", "=", "if", "else", "while", "return"} :
             {k} \in SUBSET Kind
      /\ {"=", ";"} \in SUBSET Kind /\ Identifiers \in SUBSET Kind
  BY Sets DEF Keywords
<1>5. AtStatement => at \in {"block statement", "statement"}
  BY DEF AtStatement, Running
<1>6. CASE EndOfBlock
  <2>1. Finish(Append(expr, "}")) /\ omnomnom(<<{"}"}>>)
    BY <1>6 DEF EndOfBlock
  <2>2. at = "block"
    BY <1>6 DEF EndOfBlock, Running
  <2>3. Reads(0) /\ Reads(1)
    BY <1>4, <2>1, ReadOne
  <2>4. Append(expr, "}") \in Trees(F)
    BY <1>1, <1>2, Extended
  <2> QED
    BY <1>3, <2>1, <2>2, <2>3, <2>4 DEF Handled, Finishes
<1>7. CASE NextStatement
  <2>1. Invoke("block statement", "block", expr) /\ Stay
    BY <1>7 DEF NextStatement
  <2>2. at = "block"
    BY <1>7 DEF NextStatement, Running
  <2>3. Reads(0)
    BY <2>1, Stayed
  <2> QED
    BY <1>1, <1>3, <2>1, <2>2, <2>3 DEF Handled, Invokes
<1>8. CASE Block
  <2>1. Goto("block", Append(expr, "Block")) /\ omnomnom(<<{"{"}>>)
    BY <1>8 DEF Block
  <2>2. at \in {"block statement", "statement"}
    BY <1>5, <1>8 DEF Block
  <2>3. Reads(0) /\ Reads(1)
    BY <1>4, <2>1, ReadOne
  <2>4. Append(expr, "Block") \in Trees(F)
    BY <1>1, <1>2, Extended
  <2> QED
    BY <1>3, <2>1, <2>2, <2>3, <2>4 DEF Handled, GoesOn
<1>9. CASE EmptyStatement
  <2>1. Finish(Append(expr, "EmptyStatement")) /\ omnomnom(<<{";"}>>)
    BY <1>9 DEF EmptyStatement
  <2>2. at \in {"block statement", "statement"}
    BY <1>5, <1>9 DEF EmptyStatement
  <2>3. Reads(0) /\ Reads(1)
    BY <1>4, <2>1, ReadOne
  <2>4. Append(expr, "EmptyStatement") \in Trees(F)
    BY <1>1, <1>2, Extended
  <2> QED
    BY <1>3, <2>1, <2>2, <2>3, <2>4 DEF Handled, Finishes
<1>10. CASE If
  <2>1. Invoke("unary", "if arm", Append(expr, "If")) /\ omnomnom(<<{"if"}, {"("}>>)
    BY <1>10 DEF If, Call
  <2>2. at \in {"block statement", "statement"}
    BY <1>5, <1>10 DEF If
  <2>3. Reads(0)
    BY <1>4, <2>1, ReadOne
  <2>4. Append(expr, "If") \in Trees(F)
    BY <1>1, <1>2, Extended
  <2> QED
    BY <1>3, <2>1, <2>2, <2>3, <2>4 DEF Handled, Invokes
<1>11. CASE IfArm
  <2>1. Invoke("statement", "else arm", expr) /\ omnomnom(<<{")"}>>)
    BY <1>11 DEF IfArm
  <2>2. at = "if arm"
    BY <1>11 DEF IfArm, Running
  <2>3. Reads(0)
    BY <1>4, <2>1, ReadOne
  <2> QED
    BY <1>1, <1>3, <2>1, <2>2, <2>3 DEF Handled, Invokes
<1>12. CASE ElseArm
  <2>1. Goto("statement", Append(expr, "Some")) /\ omnomnom(<<{"else"}>>)
    BY <1>12 DEF ElseArm
  <2>2. at = "else arm"
    BY <1>12 DEF ElseArm, Running
  <2>3. Reads(0) /\ Reads(1)
    BY <1>4, <2>1, ReadOne
  <2>4. Append(expr, "Some") \in Trees(F)
    BY <1>1, <1>2, Extended
  <2> QED
    BY <1>3, <2>1, <2>2, <2>3, <2>4 DEF Handled, GoesOn
<1>13. CASE NoElseArm
  <2>1. Finish(Append(expr, "None")) /\ Stay
    BY <1>13 DEF NoElseArm
  <2>2. at = "else arm"
    BY <1>13 DEF NoElseArm, Running
  <2>3. Reads(0)
    BY <2>1, Stayed
  <2>4. Append(expr, "None") \in Trees(F)
    BY <1>1, <1>2, Extended
  <2> QED
    BY <1>3, <2>1, <2>2, <2>3, <2>4 DEF Handled, Finishes
<1>14. CASE While
  <2>1. Invoke("unary", "while body", Append(expr, "While")) /\ omnomnom(<<{"while"}, {"("}>>)
    BY <1>14 DEF While, Call
  <2>2. at \in {"block statement", "statement"}
    BY <1>5, <1>14 DEF While
  <2>3. Reads(0)
    BY <1>4, <2>1, ReadOne
  <2>4. Append(expr, "While") \in Trees(F)
    BY <1>1, <1>2, Extended
  <2> QED
    BY <1>3, <2>1, <2>2, <2>3, <2>4 DEF Handled, Invokes
<1>15. CASE WhileBody
  <2>1. Goto("statement", expr) /\ omnomnom(<<{")"}>>)
    BY <1>15 DEF WhileBody
  <2>2. at = "while body"
    BY <1>15 DEF WhileBody, Running
  <2>3. Reads(0) /\ Reads(1)
    BY <1>4, <2>1, ReadOne
  <2> QED
    BY <1>1, <1>3, <2>1, <2>2, <2>3 DEF Handled, GoesOn
<1>16. CASE ReturnNothing
  <2>1. Finish(expr \o <<"Return", "None">>) /\ omnomnom(<<{"return"}, {";"}>>)
    BY <1>16 DEF ReturnNothing
  <2>2. at \in {"block statement", "statement"}
    BY <1>5, <1>16 DEF ReturnNothing
  <2>3. Reads(0) /\ Reads(1)
    BY <1>4, <2>1, ReadOne
  <2>4. expr \o <<"Return", "None">> \in Trees(F)
    BY <1>1, <1>2, Extended
  <2> QED
    BY <1>3, <2>1, <2>2, <2>3, <2>4 DEF Handled, Finishes
<1>17. CASE ReturnValue
  <2>1. Invoke("unary", "semicolon", expr \o <<"Return", "Some">>) /\ omnomnom(<<{"return"}>>)
    BY <1>17 DEF ReturnValue, Call
  <2>2. at \in {"block statement", "statement"}
    BY <1>5, <1>17 DEF ReturnValue
  <2>3. Reads(0)
    BY <1>4, <2>1, ReadOne
  <2>4. expr \o <<"Return", "Some">> \in Trees(F)
    BY <1>1, <1>2, Extended
  <2> QED
    BY <1>3, <2>1, <2>2, <2>3, <2>4 DEF Handled, Invokes
<1>18. CASE UndecidedStatement
  <2>1. Reject(Len(input) + 1)
    BY <1>18 DEF UndecidedStatement
  <2>2. next \in Nat /\ Len(input) \in Nat /\ next <= Len(input)
    BY LenProperties DEF ParseInv, Inv, Typed
  <2>3. Len(input) + 1 \in next + 1..Len(input) + 1
    BY <2>2
  <2> QED
    BY <2>1, <2>3 DEF Handled, Fails
<1>19. CASE LocalVariableDeclaration
  <2>1. Invoke("type", "variable", Append(expr, "LocalVariableDeclaration")) /\ Stay
    BY <1>19 DEF LocalVariableDeclaration
  <2>2. at \in {"block statement", "statement"}
    BY <1>5, <1>19 DEF LocalVariableDeclaration
  <2>3. Reads(0)
    BY <2>1, Stayed
  <2>4. Append(expr, "LocalVariableDeclaration") \in Trees(F)
    BY <1>1, <1>2, Extended
  <2> QED
    BY <1>3, <2>1, <2>2, <2>3, <2>4 DEF Handled, Invokes
<1>20. CASE Variable
  <2>1. at = "variable"
    BY <1>20 DEF Variable, Running
  <2>2. CASE omnomnom(<<Identifiers, {";"}>>) /\ Finish(Append(expr, "None"))
    <3>1. Append(expr, "None") \in Trees(F)
      BY <1>1, <1>2, Extended
    <3>2. Reads(0)
      BY <1>4, <2>2, ReadOne
    <3> QED
      BY <1>3, <2>1, <2>2, <3>1, <3>2 DEF Handled, Finishes
  <2>3. CASE omnomnom(<<Identifiers, {"="}>>) /\ Call("semicolon", Append(expr, "Some"))
    <3>1. Append(expr, "Some") \in Trees(F)
      BY <1>1, <1>2, Extended
    <3>2. Reads(0)
      BY <1>4, <2>3, ReadOne
    <3> QED
      BY <1>3, <2>1, <2>3, <3>1, <3>2 DEF Handled, Invokes, Call
  <2> QED
    BY <1>20, <2>2, <2>3 DEF Variable
<1>21. CASE ExpressionStatement
  <2>1. Invoke("unary", "semicolon", Append(expr, "Expression")) /\ Stay
    BY <1>21 DEF ExpressionStatement, Call
  <2>2. at \in {"block statement", "statement"}
    BY <1>5, <1>21 DEF ExpressionStatement
  <2>3. Reads(0)
    BY <2>1, Stayed
  <2>4. Append(expr, "Expression") \in Trees(F)
    BY <1>1, <1>2, Extended
  <2> QED
    BY <1>3, <2>1, <2>2, <2>3, <2>4 DEF Handled, Invokes
<1>22. CASE Semicolon
  <2>1. Finish(expr) /\ omnomnom(<<{";"}>>)
    BY <1>22 DEF Semicolon
  <2>2. at = "semicolon"
    BY <1>22 DEF Semicolon, Running
  <2>3. Reads(0) /\ Reads(1)
    BY <1>4, <2>1, ReadOne
  <2> QED
    BY <1>1, <1>3, <2>1, <2>2, <2>3 DEF Handled, Finishes
<1>23. CASE NoStatement
  <2>1. \/ \E k \in {"if", "while"} : Unexpected(<<{k}, {"("}>>)
        \/ Unexpected(<<{")"}>>) \/ Unexpected(<<{";"}>>)
        \/ Unexpected(<<Identifiers, {"=", ";"}>>)
    BY <1>23 DEF NoStatement
  <2> QED
    BY <1>4, <2>1, FailedOne DEF Handled
<1>24. CASE ExpressionReturns
  <2>1. Finish(expr) /\ Stay /\ at = "return" /\ caller.at \notin Waiting
    BY <1>24 DEF ExpressionReturns, Running
  <2>2. Reads(0)
    BY <2>1, Stayed
  <2>3. at \notin Fresh /\ at \notin Top
    BY <2>1 DEF Fresh, Top
  <2> QED
    BY <1>1, <2>1, <2>2, <2>3 DEF Handled, Finishes
<1> QED
  BY <1>6, <1>7, <1>8, <1>9, <1>10, <1>11, <1>12, <1>13, <1>14, <1>15, <1>16, <1>17,
     <1>18, <1>19, <1>20, <1>21, <1>22, <1>23, <1>24
     DEF Statements

-----------------------------------------------------------------------------
(***************************************************************************)
(* Who has called whom, after each of the things a step does to the stack. *)
(***************************************************************************)
LEMMA StackStays ==
    ASSUME ParseInv, callers' = callers, at \in Top => at' \in Top,
           at \in Places => at' \in Places
    PROVE  Called' /\ Nested'
BY DEF ParseInv, Called, Nested, caller

LEMMA StackGrows ==
    ASSUME ParseInv, NEW c, callers' = Append(callers, c), at \in Top => c.at \in Top,
           at \in Places => c.at \in Waiting, at' \in Places \/ c.at \notin Waiting
    PROVE  Called' /\ Nested'
<1> DEFINE n == Len(callers)
<1>1. callers \in Seq(Activation(F)) /\ n \in Nat
  BY LenProperties DEF ParseInv, Inv, Typed
<1>2. /\ Len(callers') = n + 1
      /\ \A i \in 1..n : callers'[i] = callers[i]
      /\ callers'[n + 1] = c
  BY <1>1, AppendAny
<1>3. callers' # <<>>
  BY <1>1, <1>2
<1>4. callers'[1].at \in Top
  <2>1. CASE n = 0
    <3>1. callers = <<>>
      BY <1>1, <2>1, EmptySeq
    <3> QED
      BY <1>2, <2>1, <3>1 DEF ParseInv, Called
  <2>2. CASE n # 0
    <3>1. callers # <<>> /\ 1 \in 1..n
      BY <1>1, <2>2, EmptySeq
    <3> QED
      BY <1>2, <3>1 DEF ParseInv, Called
  <2> QED
    BY <2>1, <2>2
<1>5. ASSUME NEW i \in 2..Len(callers'), callers'[i - 1].at \in Waiting
      PROVE  callers'[i].at \in Waiting
  <2>1. CASE i = n + 1
    <3>1. callers[n].at \in Waiting /\ callers # <<>>
      BY <1>1, <1>2, <1>5, <2>1, EmptySeq
    <3>2. at \in Places
      BY <3>1 DEF ParseInv, Nested, caller
    <3> QED
      BY <1>2, <2>1, <3>2
  <2>2. CASE i # n + 1
    <3>1. i \in 2..n /\ i \in 1..n /\ i - 1 \in 1..n
      BY <1>1, <1>2, <2>2
    <3> QED
      BY <1>2, <1>5, <3>1 DEF ParseInv, Nested
  <2> QED
    BY <2>1, <2>2
<1>6. caller' = c
  BY <1>2 DEF caller
<1> QED
  BY <1>3, <1>4, <1>5, <1>6 DEF Called, Nested

LEMMA StackShrinks ==
    ASSUME ParseInv, callers # <<>>, callers' = SubSeq(callers, 1, Len(callers) - 1),
           at' \notin Top => Len(callers) # 1, at' \in Places \/ caller.at \notin Waiting
    PROVE  Called' /\ Nested'
<1> DEFINE n == Len(callers)
<1>1. callers \in Seq(Activation(F)) /\ n \in Nat /\ n >= 1
  BY StartsAreNat DEF ParseInv, Inv, Typed
<1>2. n - 1 \in 0..Len(callers)
  BY <1>1
<1>3. /\ callers' \in Seq(Activation(F)) /\ Len(callers') = n - 1
      /\ \A i \in 1..(n - 1) : callers'[i] = callers[i]
  BY <1>1, <1>2, Popped
<1>4. Called'
  <2>1. ASSUME at' \notin Top PROVE callers' # <<>>
    <3>1. Len(callers') # 0
      BY <1>1, <1>3, <2>1
    <3> QED
      BY <3>1, EmptySeq
  <2>2. ASSUME callers' # <<>> PROVE callers'[1].at \in Top
    <3>1. 1 \in 1..(n - 1)
      BY <1>1, <1>3, <2>2, EmptySeq
    <3> QED
      BY <1>3, <3>1 DEF ParseInv, Called
  <2> QED
    BY <2>1, <2>2 DEF Called
<1>5. ASSUME NEW i \in 2..Len(callers'), callers'[i - 1].at \in Waiting
      PROVE  callers'[i].at \in Waiting
  <2>1. i \in 2..n /\ i \in 1..(n - 1) /\ i - 1 \in 1..(n - 1)
    BY <1>1, <1>3
  <2> QED
    BY <1>3, <1>5, <2>1 DEF ParseInv, Nested
<1>6. ASSUME at' \notin Places, callers' # <<>> PROVE caller'.at \notin Waiting
  <2>1. n \in 2..n /\ n - 1 \in 1..(n - 1)
    BY <1>1, <1>3, <1>6, EmptySeq
  <2>2. caller' = callers[n - 1]
    BY <1>3, <2>1 DEF caller
  <2>3. callers[n].at \notin Waiting
    BY <1>6 DEF caller
  <2> QED
    BY <2>1, <2>2, <2>3 DEF ParseInv, Nested
<1> QED
  BY <1>4, <1>5, <1>6 DEF Nested

LEMMA StackTopChanges ==
    ASSUME ParseInv, callers # <<>>, NEW c, callers' = [callers EXCEPT ![Len(callers)] = c],
           c.at = caller.at, at' \in Places
    PROVE  Called' /\ Nested'
<1> DEFINE n == Len(callers)
<1>1. callers \in Seq(Activation(F)) /\ n \in Nat /\ n >= 1
  BY StartsAreNat DEF ParseInv, Inv, Typed
<1>2. /\ Len(callers') = n
      /\ \A i \in 1..n : callers'[i] = IF i = n THEN c ELSE callers[i]
  BY <1>1
<1>3. \A i \in 1..n : callers'[i].at = callers[i].at
  BY <1>2 DEF caller
<1>4. callers'[1].at \in Top
  <2>1. 1 \in 1..n
    BY <1>1
  <2> QED
    BY <1>3, <2>1 DEF ParseInv, Called
<1>5. ASSUME NEW i \in 2..Len(callers'), callers'[i - 1].at \in Waiting
      PROVE  callers'[i].at \in Waiting
  <2>1. i \in 2..n /\ i \in 1..n /\ i - 1 \in 1..n
    BY <1>1, <1>2
  <2> QED
    BY <1>3, <1>5, <2>1 DEF ParseInv, Nested
<1>6. callers' # <<>>
  <2>1. Len(callers') # 0
    BY <1>1, <1>2
  <2> QED
    BY <2>1, EmptySeq
<1> QED
  BY <1>4, <1>5, <1>6 DEF Called, Nested

-----------------------------------------------------------------------------
(***************************************************************************)
(* Each of the five things a handler does keeps the invariant of the       *)
(* locals, and is one of the steps that make progress.                     *)
(***************************************************************************)
Steps == Stays(Fresh) \/ Calls(Fresh, 0) \/ ReturnsFrom \/ CallsAgain(Fresh, 0)

LEMMA Reading ==
    ASSUME ParseInv, Reads(0)
    PROVE  /\ next' \in 0..Len(input) /\ next' >= next /\ next' >= next + 0
           /\ status' = status /\ error' = error
           /\ Reads(1) => next' > next
<1>1. next \in Nat /\ Len(input) \in Nat
  BY LenProperties DEF ParseInv, Inv, Typed
<1> QED
  BY <1>1 DEF Reads, outcome

LEMMA HandledSteps ==
    ASSUME ParseInv, Handled
    PROVE  Inv(F)' /\ Called' /\ Nested' /\ Steps
<1>1. Inv(F) /\ Typed(F)
  BY DEF ParseInv, Inv
<1>2. CASE GoesOn
  <2>1. PICK to \in F.places \ Places, e \in Trees(F) :
             /\ Goto(to, e)
             /\ at \notin Places
             /\ at \in Top => to \in Top
             /\ to \in Fresh \/ at \notin Fresh \/ Reads(1)
    BY <1>2 DEF GoesOn
  <2>2. at \notin HasOperand /\ to \notin HasOperand
    BY <2>1 DEF HasOperand, Places
  <2>3. /\ next' \in 0..Len(input) /\ next' >= next /\ status' = status /\ error' = error
        /\ Reads(1) => next' > next
    BY <1>2, Reading DEF GoesOn
  <2>4. callers' = callers /\ at' = to
    BY <2>1 DEF Goto
  <2>5. Inv(F)'
    BY <1>1, <2>1, <2>2, <2>3, GotoKeeps
  <2>6. Called' /\ Nested'
    BY <2>1, <2>4, StackStays
  <2>7. Stays(Fresh)
    BY <2>1, <2>3, GotoStays
  <2> QED
    BY <2>5, <2>6, <2>7 DEF Steps
<1>3. CASE Invokes
  <2>1. PICK to \in Fresh, from \in F.waits \ Waiting, e \in Trees(F) :
             /\ Invoke(to, from, e)
             /\ at \notin Places
             /\ at \in Top => from \in Top
    BY <1>3 DEF Invokes
  <2>2. at \notin HasOperand /\ to \notin HasOperand /\ to \in F.places /\ from \in F.waits
    BY <2>1 DEF HasOperand, Places, Fresh, F, ParserFunctions, Top
  <2>3. next' \in 0..Len(input) /\ next' >= next + 0 /\ status' = status /\ error' = error
    BY <1>3, Reading DEF Invokes
  <2>4. Inv(F)'
    BY <1>1, <2>1, <2>2, <2>3, InvokeKeeps
  <2>5. Called' /\ Nested'
    <3> DEFINE c == [at |-> from, start |-> next', operand_stack |-> operand_stack,
                     operator_stack |-> operator_stack, ops |-> ops, expr |-> e]
    <3>1. c.at = from /\ callers' = Append(callers, c)
      BY <2>1 DEF Invoke
    <3> HIDE DEF c
    <3> QED
      BY <2>1, <3>1, StackGrows
  <2>6. Calls(Fresh, 0)
    BY <2>1, <2>3, InvokeCalls
  <2> QED
    BY <2>4, <2>5, <2>6 DEF Steps
<1>4. CASE Finishes
  <2>1. PICK e \in Trees(F) : Return(caller.at, caller.expr \o e)
    BY <1>4 DEF Finishes, Finish
  <2>2. at \notin Top /\ callers # <<>>
    BY <1>4 DEF Finishes, ParseInv, Called
  <2>3. caller.at \notin Waiting
    BY <1>4, <2>2 DEF Finishes, ParseInv, Nested
  <2>4. /\ next' \in 0..Len(input) /\ next' >= next /\ status' = status /\ error' = error
        /\ Reads(1) => next' > next
    BY <1>4, Reading DEF Finishes
  <2>5. caller \in Activation(F)
    <3>1. callers \in Seq(Activation(F)) /\ Len(callers) \in 1..Len(callers)
      <4>1. callers \in Seq(Activation(F))
        BY <1>1 DEF Typed
      <4>2. Len(callers) \in Nat /\ Len(callers) >= 1
        BY <1>1, <2>2, StartsAreNat
      <4> QED
        BY <4>1, <4>2
    <3> QED
      BY <3>1, ElementOfSeq DEF caller
  <2>6. caller.at \in F.waits /\ caller.expr \in Trees(F)
    BY <2>5 DEF Activation
  <2>7. caller.at \in F.places /\ caller.at \notin HasOperand
    BY <2>3, <2>6 DEF F, ParserFunctions, HasOperand, Top
  <2>8. caller.expr \o e \in Trees(F)
    BY <2>6, ExprClosed
  <2>9. Inv(F)'
    BY <1>1, <2>1, <2>2, <2>4, <2>7, <2>8, ReturnKeeps
  <2>10. Called' /\ Nested'
    <3>1. callers' = SubSeq(callers, 1, Len(callers) - 1) /\ at' = caller.at
      BY <2>1 DEF Return
    <3>2. at' \notin Top => Len(callers) # 1
      BY <2>2, <3>1 DEF ParseInv, Called, caller
    <3> QED
      BY <2>2, <2>3, <3>1, <3>2, StackShrinks
  <2>11. ReturnsFrom
    <3>1. /\ From(callers, Len(callers)) \in Nat /\ next \in Nat /\ next' \in Nat
          /\ From(callers, Len(callers)) <= next
          /\ at \notin Fresh => From(callers, Len(callers)) < next
      BY <1>1, <2>4, StartsAreNat, LenProperties DEF ParseInv, Progress
    <3>2. From(callers, Len(callers)) < next'
      BY <1>4, <2>4, <3>1 DEF Finishes
    <3> QED
      BY <2>1, <2>2, <2>4, <3>2, ReturnReturns
  <2> QED
    BY <2>9, <2>10, <2>11 DEF Steps
<1>5. CASE Fails
  <2>1. next \in Nat /\ Len(input) \in Nat
    BY <1>1, LenProperties DEF Typed
  <2>2. PICK k \in next + 1..Len(input) + 1 : Reject(k)
    BY <1>5 DEF Fails
  <2>3. k \in 1..(Len(input) + 1) /\ k \in Nat /\ k >= next
    BY <2>1, <2>2
  <2>4. callers' = callers /\ at' = at
    BY <2>2 DEF Reject
  <2> QED
    BY <1>1, <2>2, <2>3, <2>4, RejectKeeps, RejectStays, StackStays DEF Steps
<1>6. CASE Accepts
  <2>1. PICK e \in Trees(F) : AcceptFile(e)
    BY <1>6 DEF Accepts
  <2>2. /\ UNCHANGED <<input, next, callers, at, operand_stack, operator_stack, ops, op, error>>
        /\ expr' = e /\ status' = "accepted"
    BY <2>1 DEF AcceptFile, stacks
  <2>3. Inv(F)'
    BY <1>1, <2>2 DEF Inv, Typed, StackInv, PrecedenceInv, Climbing
  <2>4. Called' /\ Nested'
    BY <2>2, StackStays
  <2>5. Stays(Fresh)
    BY <1>1, <2>2, LenProperties DEF Stays, Typed
  <2> QED
    BY <2>3, <2>4, <2>5 DEF Steps
<1> QED
  BY <1>2, <1>3, <1>4, <1>5, <1>6 DEF Handled

(***************************************************************************)
(* The handlers of expressions.                                            *)
(***************************************************************************)
LEMMA Expressions ==
    ASSUME ParseInv, Next
    PROVE  at \in Places /\ at' \in Places
<1>1. at \in Places
  <2>1. CASE UnaryOp \/ ApplyUnary
    BY <2>1 DEF UnaryOp, ApplyUnary, Running, Places
  <2>2. CASE Primary
    BY <2>2 DEF Primary, Literal, Var, ThisMethodInvocation, Parenthesis, NoPrimary, New,
       NewObject, NewArrayOf, NewTypeAtEnd, NewUnexpected, NewArrayDimension, NewArrayDone,
       NewArrayAtEnd, Running, Places
  <2>3. CASE Postfix
    BY <2>3 DEF Postfix, MethodInvocation, MemberReference, NoMember, Index, EndOfPostfix,
       Running, Places
  <2>4. CASE BinaryExpression
    BY <2>4 DEF BinaryExpression, PushOperand, TakeOperator, Reduce, PushOperator,
       ConsumeRemaining, EndOfBinary, Running, Places
  <2>5. CASE Returns
    BY <2>5 DEF Returns, ParenthesisReturns, IndexReturns, SizeReturns, ArgumentsReturn,
       NextArgument, Accept, NoEndOfExpression, ReturnsTo, Running, Places
  <2> QED
    BY <2>1, <2>2, <2>3, <2>4, <2>5 DEF Next
<1>2. at' \in Places
  <2> DEFINE G == [symbols |-> F.symbols, places |-> Places, waits |-> F.waits]
  <2>1. Includes(G) /\ G.symbols = F.symbols /\ G.places = Places /\ G.waits = F.waits
    BY Symbols DEF Includes
  <2> HIDE DEF G
  <2>2. Activation(G) = Activation(F) /\ Trees(G) = Trees(F)
    BY <2>1 DEF Activation, Trees
  <2>3. Inv(G)
    BY <1>1, <2>1, <2>2 DEF ParseInv, Inv, Typed
  <2>4. Inv(G)'
    BY <2>1, <2>3, StepInv
  <2> QED
    BY <2>1, <2>4 DEF Inv, Typed
<1> QED
  BY <1>1, <1>2

LEMMA ExpressionSteps ==
    ASSUME ParseInv, Next
    PROVE  Inv(F)' /\ Called' /\ Nested' /\ Steps
<1>1. at \in Places /\ at' \in Places /\ at \notin Top /\ at' \notin Top /\ callers # <<>>
  <2>1. at \in Places /\ at' \in Places
    BY Expressions
  <2>2. Places \cap Top = {}
    BY DEF Places, Top
  <2> QED
    BY <2>1, <2>2 DEF ParseInv, Called
<1>2. Inv(F)'
  BY Symbols, StepInv DEF ParseInv
<1>3. Typed(F) /\ Typed(F)' /\ Progress(Fresh, 0)
  BY <1>2 DEF ParseInv, Inv
<1>4. Places \cap Fresh = {"unary"} /\ Places \cap Top = {} /\ Waiting \cap Top = {}
  BY DEF Places, Fresh, Top, Waiting
<1>5. Steps
  BY <1>3, <1>4, NextSteps DEF Steps
<1>6. Returns => caller.at \in Waiting
  BY <1>1 DEF Returns, ParenthesisReturns, IndexReturns, SizeReturns, ArgumentsReturn,
     NextArgument, Accept, NoEndOfExpression, ReturnsTo, Waiting
<1>7. Stays(Fresh) \/ Calls(Fresh, 0) \/ Returns
  <2>1. CASE UnaryOp \/ ApplyUnary \/ BinaryExpression
    BY <1>3, <1>4, <2>1, UnaryAndBinarySteps
  <2>2. CASE Primary
    BY <1>3, <1>4, <2>2, PrimarySteps
  <2>3. CASE Postfix
    BY <1>3, <1>4, <2>3, PostfixSteps
  <2> QED
    BY <2>1, <2>2, <2>3 DEF Next
<1>8. Called' /\ Nested'
  <2>1. CASE Stays(Fresh)
    BY <1>1, <2>1, StackStays DEF Stays
  <2>2. CASE Calls(Fresh, 0)
    <3>1. PICK c : c.at \in Waiting /\ callers' = Append(callers, c)
      BY <1>1, <2>2 DEF Calls
    <3> QED
      BY <1>1, <3>1, StackGrows
  <2>3. CASE Returns /\ ReturnsFrom
    <3>1. Len(callers) # 1
      BY <1>1, <1>4, <1>6, <2>3 DEF ParseInv, Called, caller
    <3> QED
      BY <1>1, <2>3, <3>1, StackShrinks DEF ReturnsFrom
  <2>4. CASE CallsAgain(Fresh, 0)
    <3>1. PICK c : c.at = caller.at /\ callers' = [callers EXCEPT ![Len(callers)] = c]
      BY <2>4 DEF CallsAgain
    <3> QED
      BY <1>1, <3>1, StackTopChanges
  <2> QED
    BY <1>5, <1>7, <2>1, <2>2, <2>3, <2>4 DEF Steps
<1> QED
  BY <1>2, <1>5, <1>8

-----------------------------------------------------------------------------
LEMMA ParseInitInv == ParseInit => ParseInv
<1> SUFFICES ASSUME ParseInit PROVE ParseInv
  OBVIOUS
<1>1. /\ input \in Seq(Kind) /\ next = 0 /\ callers = <<>> /\ at = "file"
      /\ operand_stack = <<>> /\ operator_stack = <<>> /\ ops = <<>> /\ expr = <<>>
      /\ op = "none" /\ status = "parsing" /\ error = 0 /\ Len(input) \in Nat
  BY FilesAssumption, LenProperties DEF ParseInit
<1>2. Len(callers) = 0 /\ Len(operator_stack) = 0 /\ Len(operand_stack) = 0
  BY <1>1, EmptySeq
<1>3. <<>> \in Trees(F) /\ "file" \in F.places
  BY ExprClosed DEF F, ParserFunctions, Top
<1>4. Typed(F)
  BY <1>1, <1>3 DEF Typed
<1>5. StackInv /\ PrecedenceInv
  BY <1>1, <1>2 DEF StackInv, HasOperand, PrecedenceInv, Climbing
<1>6. Called /\ Nested
  BY <1>1, <1>2 DEF Called, Nested, Top
<1>7. Progress(Fresh, 0)
  BY <1>1, <1>2 DEF Progress, From, Fresh
<1> QED
  BY <1>4, <1>5, <1>6, <1>7 DEF ParseInv, Inv

LEMMA ParseSteps ==
    ASSUME ParseInv, ParseNext
    PROVE  ParseInv' /\ Steps
<1>1. Inv(F)' /\ Called' /\ Nested' /\ Steps
  BY ExpressionSteps, ClassesHandled, MembersHandled, TypesHandled, StatementsHandled,
     HandledSteps DEF ParseNext
<1>2. Progress(Fresh, 0)'
  <2>1. Typed(F) /\ Typed(F)' /\ Progress(Fresh, 0)
    BY <1>1 DEF ParseInv, Inv
  <2> QED
    BY <1>1, <2>1, StepsProgress DEF Steps
<1> QED
  BY <1>1, <1>2 DEF ParseInv

LEMMA ParseStepInv == ParseInv /\ [ParseNext]_vars => ParseInv'
<1>1. ASSUME ParseInv, UNCHANGED vars PROVE ParseInv'
  <2>1. UNCHANGED <<input, next, callers, at, operand_stack, operator_stack, ops, expr, op,
                    status, error>>
    BY <1>1 DEF vars, stacks, outcome
  <2> QED
    BY <1>1, <2>1 DEF ParseInv, Inv, Typed, StackInv, PrecedenceInv, Climbing, Called, Nested,
       caller, Progress, From
<1> QED
  BY <1>1, ParseSteps

LEMMA ProgramsInv == ParseSpec => []ParseInv
BY ParseInitInv, ParseStepInv, PTL DEF ParseSpec

(***************************************************************************)
(* The locals of every function of the parser stay what they are declared  *)
(* as, and no token is consumed beyond the end of the file.                *)
(***************************************************************************)
THEOREM ProgramTypes == ParseSpec => []ProgramTypeOK
<1>1. ParseInv => ProgramTypeOK
  BY DEF ParseInv, Inv, ProgramTypeOK, F
<1> QED
  BY ProgramsInv, <1>1, PTL

(***************************************************************************)
(* The assertions of the shunting yard hold wherever a statement calls it  *)
(* (parser.rs:548, 586).                                                   *)
(***************************************************************************)
THEOREM ProgramAssertionsHold == ParseSpec => []AssertionsHold
<1>1. ParseInv => AssertionsHold
  BY DEF ParseInv, Inv, StackInv, AssertionsHold
<1> QED
  BY ProgramsInv, <1>1, PTL

(***************************************************************************)
(* So does the order of the operators it defers (parser.rs:568-577).       *)
(***************************************************************************)
THEOREM ProgramPrecedence == ParseSpec => []PrecedenceInv
<1>1. ParseInv => PrecedenceInv
  BY DEF ParseInv, Inv
<1> QED
  BY ProgramsInv, <1>1, PTL

(***************************************************************************)
(* Whatever a function of the parser returns, it has consumed a token      *)
(* since it was called (parser.rs:177-183).                                *)
(***************************************************************************)
THEOREM ParserReturnsConsume == ParseSpec => ReturnsConsume
<1> DEFINE Consume == Len(callers') < Len(callers) => caller.start < next'
<1>1. ASSUME ParseInv, [ParseNext]_vars PROVE [Consume]_vars
  <2>1. callers \in Seq(Activation(F)) /\ Len(callers) \in Nat
    BY <1>1, LenProperties DEF ParseInv, Inv, Typed
  <2>2. CASE ParseNext
    <3>1. Steps
      BY <1>1, <2>2, ParseSteps
    <3>2. CASE Stays(Fresh)
      BY <2>1, <3>2 DEF Stays
    <3>3. CASE Calls(Fresh, 0)
      <4>1. PICK c : callers' = Append(callers, c)
        BY <3>3 DEF Calls
      <4>2. Len(callers') = Len(callers) + 1
        BY <2>1, <4>1, AppendAny
      <4> QED
        BY <2>1, <4>2
    <3>4. CASE ReturnsFrom
      <4>1. Len(callers) # 0
        BY <2>1, <3>4, EmptySeq DEF ReturnsFrom
      <4> QED
        BY <3>4, <4>1 DEF ReturnsFrom, From, caller
    <3>5. CASE CallsAgain(Fresh, 0)
      <4>1. Len(callers') = Len(callers)
        BY <2>1, <3>5 DEF CallsAgain
      <4> QED
        BY <2>1, <4>1
    <3> QED
      BY <3>1, <3>2, <3>3, <3>4, <3>5 DEF Steps
  <2>3. CASE UNCHANGED vars
    BY <2>3
  <2> QED
    BY <1>1, <2>2, <2>3
<1>2. ReturnsConsume <=> [][Consume]_vars
  BY PTL DEF ReturnsConsume
<1> HIDE DEF Consume
<1> QED
  BY ProgramsInv, <1>1, <1>2, PTL DEF ParseSpec

-----------------------------------------------------------------------------
(***************************************************************************)
(* Whole programs.  The activations of statements and of what is at the    *)
(* top hold no operands; what each of them has read, with the tree it has  *)
(* built, is told by what may still come behind it: it is the beginning of *)
(* whatever a rule of the grammar makes of it.                             *)
(*                                                                         *)
(* After(p, X, Y): what is derived in X, behind the phrase p, is in Y.     *)
(***************************************************************************)
Phrase == Phrases(F.symbols)

After(p, X, Y) == \A x \in X \cap Phrase : Then(p, x) \in Y

NoWords == <<<<>>, <<>>>>
Semi == <<<<";">>, <<>>>>
Paren == <<<<")">>, <<>>>>
Else == <<<<"else">>, <<"Some">>>>
NoElse == <<<<>>, <<"None">>>>

\* What is put in front of a statement and leaves its ending as it is.
BeginsStatement(p) == /\ After(p, Derivable.closed, Derivable.closed)
                      /\ After(p, Derivable.open, Derivable.open)

\* An `if` with its statement: an `else` may follow, unless one could have
\* been taken by the statement.
BehindArm(p, ahead) == /\ Then(p, NoElse) \in Derivable.open
                       /\ ahead = "else" => BeginsStatement(Then(p, Else))

Arms(ahead) == Derivable.closed \cup IF ahead = "else" THEN {} ELSE Derivable.open

BehindCondition(p) ==
    /\ After(p, Derivable.closed \cup Derivable.open,
             {x \in Phrase : Then(x, NoElse) \in Derivable.open})
    /\ After(p, Derivable.closed, {x \in Phrase : BeginsStatement(Then(x, Else))})

BehindType(p) ==
    \A id \in Identifiers :
        /\ Then(p, <<<<id, ";">>, <<"None">>>>) \in Derivable.declaration
        /\ After(Then(p, <<<<id, "=">>, <<"Some">>>>), Derivable.expression,
                 {x \in Phrase : Then(x, Semi) \in Derivable.declaration})

(***************************************************************************)
(* At the top: p may be followed by any classes, by any members with the   *)
(* brace behind them, by the body of a method, by the rest of its block,   *)
(* by the rest of a member or of a parameter behind its type.              *)
(***************************************************************************)
Wholes == {x \in Phrase : x[1] # <<>> => x \in Derivable.program}

BeforeClasses == {p \in Phrase : After(p, Derivable.classes, Wholes)}
BeforeMembers == {p \in Phrase : After(p, Derivable.members, BeforeClasses)}
BeforeBody == {p \in Phrase : After(p, Bodies(Identifiers, Derivable.block), BeforeMembers)}
InBody == {p \in Phrase : After(p, Derivable.block, BeforeMembers)}

BehindParameterType ==
    {p \in Phrase : \A id \in Identifiers :
        /\ Then(p, <<<<id, ")">>, <<"Parameter", ")">>>>) \in BeforeBody
        /\ After(Then(p, <<<<id, ",">>, <<"Parameter">>>>), Derivable.parameters, BeforeBody)}

BehindMemberType ==
    {p \in Phrase : \A id \in Identifiers :
        /\ Then(p, <<<<id, ";">>, <<"Field">>>>) \in BeforeMembers
        /\ Then(p, <<<<id, "(", ")">>, <<"Method", ")">>>>) \in BeforeBody
        /\ After(Then(p, <<<<id, "(">>, <<"Method">>>>), Derivable.parameters, BeforeBody)}

(***************************************************************************)
(* What the activation at `place` has read, p, with the token `ahead` next *)
(* and its caller at `below`.                                              *)
(***************************************************************************)
\* Where an activation waits for an expression.
Expecting == Waiting \cup {"if arm", "while body", "semicolon"}

Statementlike == {"statement", "if arm", "else arm", "while body", "semicolon"}

Reached(place, below, p, ahead) ==
    /\ place = "file" => p = NoWords
    /\ place = "program" => p \in BeforeClasses /\ (p[1] # <<>> \/ ahead # EOF)
    /\ place = "class" => p \in BeforeMembers
    /\ place = "member" => p \in BehindMemberType
    /\ place = "parameter" => p \in BehindParameterType
    /\ place = "method rest" => p \in BeforeBody
    /\ place = "type" => p = NoWords
    /\ place = "array type" => p \in Derivable.type
    /\ place \in {"type", "array type"} => below \in {"member", "parameter", "variable"}
    /\ place = "variable" => BehindType(p) /\ below = "block"
    /\ place = "block" =>
          /\ After(p, Derivable.block, IF below = "class" THEN Derivable.block ELSE Derivable.closed)
          /\ below \in {"class", "block", "else arm"}
    /\ place = "block statement" => p = NoWords /\ below = "block"
    /\ place = "statement" => BeginsStatement(p)
    /\ place = "if arm" => BehindCondition(Then(p, Paren))
    /\ place = "else arm" => BehindArm(p, ahead)
    /\ place = "while body" => BeginsStatement(Then(p, Paren))
    /\ place = "semicolon" =>
          Then(p, Semi) \in Derivable.closed
                            \cup IF below = "block" THEN Derivable.declaration ELSE {}
    /\ place \in Statementlike => below \in {"block", "else arm"}
    /\ place \in Places => below \in Expecting
    /\ place \in Top => below = "none"

\* What it may be given by a function it has called.
Returnable(place, ahead) ==
    CASE place = "class" -> Derivable.block
      [] place = "block" -> BlockStatements(Derivable)
      [] place = "else arm" -> Arms(ahead)
      [] place \in {"member", "parameter", "variable"} -> Derivable.type
      [] place \in {"if arm", "while body", "semicolon"} -> Derivable.expression
      [] OTHER -> {}

\* It is suspended there.
Awaits(place, below, p) ==
    \A ahead : \A r \in Returnable(place, ahead) \cap Phrase :
        Reached(place, below, Then(p, r), ahead)

-----------------------------------------------------------------------------
Below(stack, i) == IF i = 0 THEN "none" ELSE stack[i].at

Suspended(t, c, below, a) ==
    IF c.at \in Waiting
    THEN below \in Expecting
    ELSE Awaits(c.at, below, <<Word(t, a, c.start), c.expr>>)

AllSuspended(t, stack) ==
    \A i \in 1..Len(stack) :
        Suspended(t, stack[i], Below(stack, i - 1), From(stack, i - 1))

here == <<Word(input, From(callers, Len(callers)), next), expr>>

WellBegun == status = "parsing" =>
                /\ Reached(at, Below(callers, Len(callers)), here, peek)
                /\ AllSuspended(input, callers)

-----------------------------------------------------------------------------
(***************************************************************************)
(* Phrases behind each other.                                              *)
(***************************************************************************)
LEMMA ThenRegroups == \A p, q, r \in Phrase : Then(Then(p, q), r) = Then(p, Then(q, r))
BY ThenAssociative DEF Phrase

LEMMA ThenIsPhrase == \A p, q \in Phrase : Then(p, q) \in Phrase
BY ThenPhrase DEF Phrase

LEMMA PhraseIs ==
    /\ \A w \in Seq(Kind), e \in Seq(F.symbols) : <<w, e>> \in Phrase
    /\ \A p \in Phrase : /\ p[1] \in Seq(Kind) /\ p[2] \in Seq(F.symbols)
                         /\ p = <<p[1], p[2]>>
    /\ \A p, q \in Phrase : Then(p, q) \in Phrase
    /\ \A p, q, r \in Phrase : Then(Then(p, q), r) = Then(p, Then(q, r))
BY PhraseParts, ThenIsPhrase, ThenRegroups DEF Phrase

LEMMA NoWordsThen ==
    /\ NoWords \in Phrase
    /\ \A p \in Phrase : Then(NoWords, p) = p /\ Then(p, NoWords) = p
<1>1. <<>> \in Seq(Kind) /\ <<>> \in Seq(F.symbols)
  OBVIOUS
<1>2. NoWords \in Phrase
  BY <1>1, PhraseIs DEF NoWords
<1>3. ASSUME NEW p \in Phrase PROVE Then(NoWords, p) = p /\ Then(p, NoWords) = p
  <2>1. p[1] \in Seq(Kind) /\ p[2] \in Seq(F.symbols) /\ p = <<p[1], p[2]>>
    BY PhraseIs
  <2>2. /\ <<>> \o p[1] = p[1] /\ p[1] \o <<>> = p[1]
        /\ <<>> \o p[2] = p[2] /\ p[2] \o <<>> = p[2]
    BY <2>1, ConcatEmptySeq
  <2>3. NoWords[1] = <<>> /\ NoWords[2] = <<>>
    BY DEF NoWords
  <2> QED
    BY <2>1, <2>2, <2>3 DEF Then
<1> QED
  BY <1>2, <1>3

LEMMA AfterThen ==
    ASSUME NEW p \in Phrase, NEW q \in Phrase, NEW X, NEW Y, NEW Z, After(p, Y, Z), After(q, X, Y)
    PROVE  After(Then(p, q), X, Z)
<1> SUFFICES ASSUME NEW x \in X \cap Phrase PROVE Then(Then(p, q), x) \in Z
  BY DEF After
<1>1. Then(q, x) \in Y \cap Phrase
  BY PhraseIs DEF After
<1>2. Then(p, Then(q, x)) \in Z
  BY <1>1 DEF After
<1> QED
  BY <1>2, PhraseIs

LEMMA BeginsThen ==
    ASSUME NEW p \in Phrase, NEW q \in Phrase, BeginsStatement(p), BeginsStatement(q)
    PROVE  BeginsStatement(Then(p, q))
BY AfterThen DEF BeginsStatement

LEMMA NoWordsBegins ==
    BeginsStatement(NoWords) /\ \A X : After(NoWords, X, X)
BY NoWordsThen DEF BeginsStatement, After

-----------------------------------------------------------------------------
(***************************************************************************)
(* Tokens with the symbols they are read as.                               *)
(***************************************************************************)
LEMMA ProgramSymbols ==
    /\ \A k \in Nodes \cup Kind \cup {"ArrayOf"} : k \in F.symbols /\ <<k>> \in Seq(F.symbols)
    /\ \A k, l \in Nodes \cup Kind : <<k, l>> \in Seq(F.symbols)
    /\ \A k \in Kind : <<k>> \in Seq(Kind)
    /\ \A k, l \in Kind : <<k, l>> \in Seq(Kind)
    /\ \A k, l, m \in Kind : <<k, l, m>> \in Seq(Kind)
    /\ \A k, l, m, o \in Kind : <<k, l, m, o>> \in Seq(Kind)
    /\ <<>> \in Seq(Kind) /\ <<>> \in Seq(F.symbols)
    /\ Identifiers \subseteq Kind /\ BasicTypes \subseteq Kind
<1> DEFINE S == F.symbols
<1>1. \A k \in Nodes \cup Kind \cup {"ArrayOf"} : k \in S
  BY Symbols
<1>2. Identifiers \subseteq Kind /\ BasicTypes \subseteq Kind
  BY Sets
<1> HIDE DEF S
<1>3. /\ \A k \in S : <<k>> \in Seq(S)
      /\ \A k, l \in S : <<k, l>> \in Seq(S)
  OBVIOUS
<1>4. /\ \A k \in Kind : <<k>> \in Seq(Kind)
      /\ \A k, l \in Kind : <<k, l>> \in Seq(Kind)
      /\ \A k, l, m \in Kind : <<k, l, m>> \in Seq(Kind)
      /\ \A k, l, m, o \in Kind : <<k, l, m, o>> \in Seq(Kind)
  OBVIOUS
<1>5. <<>> \in Seq(Kind) /\ <<>> \in Seq(S)
  OBVIOUS
<1> QED
  BY <1>1, <1>2, <1>3, <1>4, <1>5 DEF S

LEMMA TokensAreKinds ==
    {"(", ")", "[", "]", "{", "}", ",", ";", "=", "else", "if", "while", "return", "public",
     "static", "void", "String", "class", "throws"} \subseteq Kind
BY DEF Kind, Keywords, BasicTypes, Identifiers, BinaryOps

\* The phrases of this section.
LEMMA SmallPhrases ==
    /\ Semi \in Phrase /\ Paren \in Phrase /\ Else \in Phrase /\ NoElse \in Phrase
    /\ \A n \in Nodes : /\ <<<<>>, <<n>>>> \in Phrase
                        /\ \A m \in Nodes \cup Kind : <<<<>>, <<n, m>>>> \in Phrase
    /\ \A k \in Kind : /\ <<<<k>>, <<>>>> \in Phrase
                       /\ \A n \in Nodes \cup Kind : <<<<k>>, <<n>>>> \in Phrase
                       /\ \A n, m \in Nodes \cup Kind : <<<<k>>, <<n, m>>>> \in Phrase
    /\ \A k, l \in Kind : /\ <<<<k, l>>, <<>>>> \in Phrase
                          /\ \A n \in Nodes \cup Kind : <<<<k, l>>, <<n>>>> \in Phrase
                          /\ \A n, m \in Nodes \cup Kind : <<<<k, l>>, <<n, m>>>> \in Phrase
    /\ \A k, l, m \in Kind : /\ \A n \in Nodes : <<<<k, l, m>>, <<n>>>> \in Phrase
                             /\ \A n, o \in Nodes \cup Kind : <<<<k, l, m>>, <<n, o>>>> \in Phrase
<1>1. \A w \in Seq(Kind), e \in Seq(F.symbols) : <<w, e>> \in Phrase
  BY PhraseIs
<1>2. /\ \A k \in Nodes \cup Kind : <<k>> \in Seq(F.symbols)
      /\ \A k, l \in Nodes \cup Kind : <<k, l>> \in Seq(F.symbols)
      /\ <<>> \in Seq(Kind) /\ <<>> \in Seq(F.symbols)
  BY ProgramSymbols
<1>3. /\ \A k \in Kind : <<k>> \in Seq(Kind)
      /\ \A k, l \in Kind : <<k, l>> \in Seq(Kind)
      /\ \A k, l, m \in Kind : <<k, l, m>> \in Seq(Kind)
  BY ProgramSymbols
<1>4. Semi \in Phrase /\ Paren \in Phrase /\ Else \in Phrase /\ NoElse \in Phrase
  <2>1. ";" \in Kind /\ ")" \in Kind /\ "else" \in Kind /\ "Some" \in Nodes /\ "None" \in Nodes
    BY TokensAreKinds DEF Nodes
  <2> QED
    BY <1>1, <1>2, <1>3, <2>1 DEF Semi, Paren, Else, NoElse
<1> QED
  BY <1>1, <1>2, <1>3, <1>4

(***************************************************************************)
(* What the rules derive, as phrases behind each other.                    *)
(***************************************************************************)
LEMMA EnclosedIs ==
    ASSUME NEW open \in Seq(Kind), NEW node \in Seq(F.symbols), NEW close \in Seq(Kind), NEW X,
           NEW x \in X \cap Phrase
    PROVE  /\ Then(Then(<<open, node>>, x), <<close, <<>>>>) \in Enclosed(open, node, X, close)
           /\ close = <<>> => Then(<<open, node>>, x) \in Enclosed(open, node, X, close)
<1> DEFINE e == <<open \o x[1] \o close, node \o x[2]>>
<1>1. e \in Enclosed(open, node, X, close)
  BY InEnclosed
<1>2. x[1] \in Seq(Kind) /\ x[2] \in Seq(F.symbols)
  BY PhraseIs
<1>3. open \o x[1] \in Seq(Kind) /\ node \o x[2] \in Seq(F.symbols)
  BY <1>2, ConcatProperties
<1>4. (open \o x[1]) \o <<>> = open \o x[1] /\ (node \o x[2]) \o <<>> = node \o x[2]
  BY <1>3, ConcatEmptySeq
<1>5. Then(<<open, node>>, x) = <<open \o x[1], node \o x[2]>>
  BY DEF Then
<1>6. Then(Then(<<open, node>>, x), <<close, <<>>>>) = <<(open \o x[1]) \o close, (node \o x[2]) \o <<>>>>
  BY <1>5 DEF Then
<1> QED
  BY <1>1, <1>4, <1>5, <1>6

LEMMA TypesDerived ==
    ASSUME IsProgramLanguage(Derivable)
    PROVE  /\ \A t \in BasicTypes : <<<<t>>, <<"Type", t>>>> \in Derivable.type
           /\ \A p \in Derivable.type \cap Phrase :
                 <<p[1] \o <<"[", "]">>, <<"ArrayOf">> \o p[2]>> \in Derivable.type
<1>1. SimpleTypes(BasicTypes) \subseteq Derivable.type /\ Dimensions(Derivable.type) \subseteq Derivable.type
  BY DEF IsProgramLanguage, AnyTypes
<1>2. \A t \in BasicTypes : <<<<t>>, <<"Type", t>>>> \in Derivable.type
  BY <1>1 DEF SimpleTypes
<1>3. ASSUME NEW p \in Derivable.type \cap Phrase
      PROVE  <<p[1] \o <<"[", "]">>, <<"ArrayOf">> \o p[2]>> \in Derivable.type
  <2>1. <<<<>> \o p[1] \o <<"[", "]">>, <<"ArrayOf">> \o p[2]>> \in Dimensions(Derivable.type)
    BY InEnclosed DEF Dimensions
  <2>2. <<>> \o p[1] = p[1]
    BY PhraseIs, ConcatEmptySeq
  <2> QED
    BY <1>1, <2>1, <2>2
<1> QED
  BY <1>2, <1>3

-----------------------------------------------------------------------------
(***************************************************************************)
(* Statements.                                                             *)
(***************************************************************************)
LEMMA NamedIs ==
    ASSUME NEW X, NEW N, NEW suffix, NEW x \in X \cap Phrase, NEW id \in N
    PROVE  Then(x, <<<<id>>, suffix>>) \in Named(X, N, suffix)
<1> DEFINE b(y, i) == <<Append(y[1], i), y[2] \o suffix>>
<1>1. Named(X, N, suffix) = {b(y, i) : y \in X, i \in N}
  BY DEF Named
<1> HIDE DEF b
<1>2. b(x, id) \in Named(X, N, suffix)
  BY <1>1
<1>3. Append(x[1], id) = x[1] \o <<id>>
  <2> DEFINE T == Kind \cup {id}
             w == x[1]
  <2>1. w \in Seq(T) /\ id \in T
    BY PhraseIs
  <2> HIDE DEF T, w
  <2>2. Append(w, id) = w \o <<id>>
    BY <2>1, AppendIsConcat
  <2> QED
    BY <2>2 DEF w
<1> QED
  BY <1>2, <1>3 DEF b, Then

LEMMA BlocksDerived ==
    ASSUME IsProgramLanguage(Derivable)
    PROVE  /\ After(<<<<"{">>, <<"Block">>>>, Derivable.block, Derivable.closed)
           /\ <<<<"}">>, <<"}">>>> \in Derivable.block
           /\ \A s \in BlockStatements(Derivable) \cap Phrase :
                 After(s, Derivable.block, Derivable.block)
<1>1. /\ Blocks(Derivable.block) \subseteq Derivable.closed
      /\ ClosingBrace \subseteq Derivable.block
      /\ Concat(BlockStatements(Derivable), Derivable.block) \subseteq Derivable.block
  BY DEF IsProgramLanguage, ClosedStatements
<1>2. <<"{">> \in Seq(Kind) /\ <<"Block">> \in Seq(F.symbols) /\ <<>> \in Seq(Kind)
  BY ProgramSymbols, TokensAreKinds DEF Nodes
<1>3. \A r \in Derivable.block \cap Phrase :
         Then(<<<<"{">>, <<"Block">>>>, r) \in Blocks(Derivable.block)
  BY <1>2, EnclosedIs DEF Blocks
<1>4. <<<<"}">>, <<"}">>>> \in ClosingBrace
  BY DEF ClosingBrace, Terminal
<1>5. \A s \in BlockStatements(Derivable), r \in Derivable.block :
         Then(s, r) \in Concat(BlockStatements(Derivable), Derivable.block)
  BY InConcat
<1> QED
  BY <1>1, <1>3, <1>4, <1>5 DEF After

LEMMA SimpleDerived ==
    ASSUME IsProgramLanguage(Derivable)
    PROVE  /\ <<<<";">>, <<"EmptyStatement">>>> \in Derivable.closed
           /\ <<<<"return", ";">>, <<"Return", "None">>>> \in Derivable.closed
           /\ \A e \in Derivable.expression \cap Phrase :
                 /\ Then(Then(<<<<"return">>, <<"Return", "Some">>>>, e), Semi) \in Derivable.closed
                 /\ Then(Then(<<<<>>, <<"Expression">>>>, e), Semi) \in Derivable.closed
<1> DEFINE E == Derivable.expression
<1>1. /\ EmptyStatements \subseteq Derivable.closed /\ Returning(E) \subseteq Derivable.closed
      /\ ExpressionStatements(E) \subseteq Derivable.closed
  BY DEF IsProgramLanguage, ClosedStatements
<1>2. <<<<";">>, <<"EmptyStatement">>>> \in EmptyStatements
  BY DEF EmptyStatements, Terminal
<1>3. <<<<"return", ";">>, <<"Return", "None">>>> \in Returning(E)
  BY DEF Returning, Terminal
<1>4. /\ <<"return">> \in Seq(Kind) /\ <<"Return", "Some">> \in Seq(F.symbols) /\ <<";">> \in Seq(Kind)
      /\ <<>> \in Seq(Kind) /\ <<"Expression">> \in Seq(F.symbols)
  BY ProgramSymbols, TokensAreKinds DEF Nodes
<1> HIDE DEF E
<1>5. ASSUME NEW e \in E \cap Phrase
      PROVE  /\ Then(Then(<<<<"return">>, <<"Return", "Some">>>>, e), Semi) \in Returning(E)
             /\ Then(Then(<<<<>>, <<"Expression">>>>, e), Semi) \in ExpressionStatements(E)
  BY <1>4, EnclosedIs DEF Returning, ExpressionStatements, Semi
<1> QED
  BY <1>1, <1>2, <1>3, <1>5 DEF E

LEMMA WhileDerived ==
    ASSUME IsProgramLanguage(Derivable), NEW e \in Derivable.expression \cap Phrase
    PROVE  BeginsStatement(Then(Then(<<<<"while", "(">>, <<"While">>>>, e), Paren))
<1> DEFINE E == Derivable.expression
           c == Then(Then(<<<<"while", "(">>, <<"While">>>>, e), Paren)
<1>1. /\ WhileLoops(E, Derivable.closed) \subseteq Derivable.closed
      /\ WhileLoops(E, Derivable.open) \subseteq Derivable.open
  BY DEF IsProgramLanguage, ClosedStatements, OpenStatements
<1>2. /\ <<"while", "(">> \in Seq(Kind) /\ <<"While">> \in Seq(F.symbols) /\ <<")">> \in Seq(Kind)
  BY ProgramSymbols, TokensAreKinds DEF Nodes
<1>3. c \in Enclosed(<<"while", "(">>, <<"While">>, E, <<")">>)
  BY <1>2, EnclosedIs DEF Paren
<1> HIDE DEF c
<1>4. \A X : \A s \in X : Then(c, s) \in WhileLoops(E, X)
  BY <1>3, InConcat DEF WhileLoops
<1> QED
  BY <1>1, <1>4 DEF BeginsStatement, After, c

LEMMA IfDerived ==
    ASSUME IsProgramLanguage(Derivable), NEW e \in Derivable.expression \cap Phrase
    PROVE  BehindCondition(Then(Then(<<<<"if", "(">>, <<"If">>>>, e), Paren))
<1> DEFINE E == Derivable.expression
           begin == <<<<"if", "(">>, <<"If">>>>
           c == Then(Then(begin, e), Paren)
           S == Derivable.closed \cup Derivable.open
<1>1. /\ IfElses(E, Derivable.closed, Derivable.closed) \subseteq Derivable.closed
      /\ IfElses(E, Derivable.closed, Derivable.open) \subseteq Derivable.open
      /\ Ifs(E, S) \subseteq Derivable.open
  BY DEF IsProgramLanguage, ClosedStatements, OpenStatements
<1>2. /\ <<"if", "(">> \in Seq(Kind) /\ <<"If">> \in Seq(F.symbols) /\ <<")">> \in Seq(Kind)
      /\ <<"else">> \in Seq(Kind) /\ <<"Some">> \in Seq(F.symbols) /\ <<>> \in Seq(Kind)
  BY ProgramSymbols, TokensAreKinds DEF Nodes
<1>3. c \in Conditions(E)
  BY <1>2, EnclosedIs DEF Paren, Conditions
<1>4. begin \in Phrase /\ Paren \in Phrase /\ Else \in Phrase /\ NoElse \in Phrase
  BY SmallPhrases, <1>2, PhraseIs
<1> HIDE DEF begin
<1>5. c \in Phrase
  BY <1>4, PhraseIs
<1> HIDE DEF c, S
<1>6. ASSUME NEW s \in S \cap Phrase
      PROVE  /\ Then(c, s) \in Phrase
             /\ Then(Then(c, s), NoElse) \in Derivable.open
  <2>1. NoElse \in Terminal(<<>>, <<"None">>)
    BY DEF NoElse, Terminal
  <2>2. Then(c, Then(s, NoElse)) \in Ifs(E, S)
    BY <1>3, <2>1, InConcat DEF Ifs
  <2>3. Then(Then(c, s), NoElse) = Then(c, Then(s, NoElse))
    BY <1>4, <1>5, ThenRegroups
  <2>4. Then(c, s) \in Phrase
    BY <1>5, ThenIsPhrase
  <2> QED
    BY <1>1, <2>2, <2>3, <2>4
<1>7. ASSUME NEW s \in Derivable.closed \cap Phrase
      PROVE  Then(c, s) \in Phrase /\ BeginsStatement(Then(Then(c, s), Else))
  <2>1. ASSUME NEW R, NEW r \in R \cap Phrase
        PROVE  Then(Then(Then(c, s), Else), r) \in IfElses(E, Derivable.closed, R)
    <3>1. Then(Else, r) \in Enclosed(<<"else">>, <<"Some">>, R, <<>>)
      BY <1>2, EnclosedIs DEF Else
    <3>2. Then(c, Then(s, Then(Else, r))) \in IfElses(E, Derivable.closed, R)
      BY <1>3, <3>1, InConcat DEF IfElses
    <3>3. Then(c, s) \in Phrase /\ Then(Else, r) \in Phrase
      BY <1>4, <1>5, ThenIsPhrase
    <3>4. Then(Then(Then(c, s), Else), r) = Then(Then(c, s), Then(Else, r))
      BY <1>4, <3>3, ThenRegroups
    <3>5. Then(Then(c, s), Then(Else, r)) = Then(c, Then(s, Then(Else, r)))
      BY <1>5, <3>3, ThenRegroups
    <3> QED
      BY <3>2, <3>4, <3>5
  <2> QED
    BY <1>1, <1>5, <2>1, PhraseIs DEF BeginsStatement, After
<1> QED
  BY <1>6, <1>7 DEF BehindCondition, After, S, c, begin

-----------------------------------------------------------------------------
(***************************************************************************)
(* Declarations, members and classes.                                      *)
(***************************************************************************)
Word1(k) == <<<<k>>, <<>>>>
Last == <<<<")">>, <<")">>>>

LEMMA PairOf ==
    ASSUME NEW S, NEW a \in S, NEW b \in S
    PROVE  <<a>> \o <<b>> = <<a, b>>
<1> DEFINE x == <<a>>
           y == <<b>>
           z == <<a, b>>
<1>1. x \in Seq(S) /\ Len(x) = 1 /\ x[1] = a
  OBVIOUS
<1>2. y \in Seq(S) /\ Len(y) = 1 /\ y[1] = b
  OBVIOUS
<1>3. z \in Seq(S) /\ Len(z) = 2 /\ z[1] = a /\ z[2] = b
  OBVIOUS
<1> HIDE DEF x, y, z
<1>4. /\ x \o y \in Seq(S) /\ Len(x \o y) = Len(x) + Len(y)
      /\ \A i \in 1..Len(x) + Len(y) : (x \o y)[i] = IF i <= Len(x) THEN x[i] ELSE y[i - Len(x)]
  BY <1>1, <1>2, ConcatProperties
<1>5. x \o y = z
  BY <1>1, <1>2, <1>3, <1>4, SeqEqual
<1> QED
  BY <1>5 DEF x, y, z

\* The next token, and the symbol it is read as.
LEMMA TokenThen ==
    /\ \A k, l \in Kind : \A e \in Seq(F.symbols) :
          Then(Word1(k), <<<<l>>, e>>) = <<<<k, l>>, e>>
    /\ \A k, l \in Kind : \A n \in Nodes :
          /\ Then(<<<<k>>, <<n>>>>, Word1(l)) = <<<<k, l>>, <<n>>>>
          /\ Then(<<<<k>>, <<n>>>>, Last) = <<<<k, ")">>, <<n, ")">>>>
          /\ Then(<<<<k, l>>, <<n>>>>, Last) = <<<<k, l, ")">>, <<n, ")">>>>
<1>0. ")" \in Kind
  BY TokensAreKinds
<1>1. /\ \A k, l \in Kind : <<k>> \o <<l>> = <<k, l>>
      /\ \A n \in Nodes : <<n>> \o <<")">> = <<n, ")">>
  <2>1. \A n \in Nodes : n \in F.symbols /\ ")" \in F.symbols
    BY <1>0, ProgramSymbols
  <2> QED
    BY <2>1, PairOf
<1>2. \A k, l \in Kind : <<k, l>> \o <<")">> = <<k, l, ")">>
  <2> DEFINE c == ")"
  <2>1. c \in Kind
    BY <1>0
  <2> HIDE DEF c
  <2>2. \A k, l \in Kind : <<k, l>> \o <<c>> = <<k, l, c>>
    BY <2>1, OneBehind
  <2> QED
    BY <2>2 DEF c
<1>3. \A e \in Seq(F.symbols) : <<>> \o e = e
  BY ConcatEmptySeq
<1>4. \A n \in Nodes : <<n>> \o <<>> = <<n>>
  BY ProgramSymbols, ConcatEmptySeq
<1>5. \A k, l \in Kind : \A e \in Seq(F.symbols) :
         Then(Word1(k), <<<<l>>, e>>) = <<<<k, l>>, e>>
  BY <1>1, <1>3 DEF Then, Word1
<1>6. \A k, l \in Kind : \A n \in Nodes : Then(<<<<k>>, <<n>>>>, Word1(l)) = <<<<k, l>>, <<n>>>>
  BY <1>1, <1>4 DEF Then, Word1
<1>7. \A k \in Kind : \A n \in Nodes :
         Then(<<<<k>>, <<n>>>>, Last) = <<<<k, ")">>, <<n, ")">>>>
  BY <1>0, <1>1 DEF Then, Last
<1>8. \A k, l \in Kind : \A n \in Nodes :
         Then(<<<<k, l>>, <<n>>>>, Last) = <<<<k, l, ")">>, <<n, ")">>>>
  BY <1>1, <1>2 DEF Then, Last
<1> QED
  BY <1>5, <1>6, <1>7, <1>8

LEMMA DeclarationDerived ==
    ASSUME IsProgramLanguage(Derivable), NEW t \in Derivable.type \cap Phrase
    PROVE  BehindType(Then(<<<<>>, <<"LocalVariableDeclaration">>>>, t))
<1> DEFINE E == Derivable.expression
           N == Named(Derivable.type, Identifiers, <<>>)
           begin == <<<<>>, <<"LocalVariableDeclaration">>>>
           none == <<<<";">>, <<"None">>>>
           some == <<<<"=">>, <<"Some">>>>
<1>1. Variables(Derivable.type, Identifiers, Initializers(E)) \subseteq Derivable.declaration
  BY DEF IsProgramLanguage, Declarations
<1>2. /\ <<>> \in Seq(Kind) /\ <<"LocalVariableDeclaration">> \in Seq(F.symbols)
      /\ <<";">> \in Seq(Kind) /\ <<"=">> \in Seq(Kind) /\ <<"Some">> \in Seq(F.symbols)
      /\ <<"None">> \in Seq(F.symbols) /\ "=" \in Kind /\ ";" \in Kind /\ "Some" \in Nodes
  BY ProgramSymbols, TokensAreKinds DEF Nodes
<1>3. begin \in Phrase /\ none \in Phrase /\ some \in Phrase /\ Semi \in Phrase
  BY <1>2, PhraseIs, SmallPhrases
<1>4. none \in Initializers(E)
  BY DEF Initializers, Terminal
<1>5. \A e \in E \cap Phrase : Then(Then(some, e), Semi) \in Initializers(E)
  BY <1>2, EnclosedIs DEF Initializers, Semi
<1>6. ASSUME NEW id \in Identifiers, NEW i \in Initializers(E) \cap Phrase
      PROVE  Then(begin, Then(Then(t, Word1(id)), i)) \in Derivable.declaration
  <2>1. Then(t, Word1(id)) \in N /\ Word1(id) \in Phrase
    BY NamedIs, SmallPhrases, ProgramSymbols DEF Word1
  <2>2. Then(Then(t, Word1(id)), i) \in Concat(N, Initializers(E)) \cap Phrase
    BY <2>1, InConcat, PhraseIs
  <2>3. Then(begin, Then(Then(t, Word1(id)), i)) \in Variables(Derivable.type, Identifiers, Initializers(E))
    BY <1>2, <2>2, EnclosedIs DEF Variables
  <2> QED
    BY <1>1, <2>3
<1> SUFFICES ASSUME NEW id \in Identifiers
             PROVE  /\ Then(Then(begin, t), <<<<id, ";">>, <<"None">>>>) \in Derivable.declaration
                    /\ \A e \in E \cap Phrase :
                          LET x == Then(Then(Then(begin, t), <<<<id, "=">>, <<"Some">>>>), e)
                          IN  x \in Phrase /\ Then(x, Semi) \in Derivable.declaration
  BY DEF BehindType, After
<1>7. Word1(id) \in Phrase /\ id \in Kind
  BY SmallPhrases, ProgramSymbols DEF Word1
<1>8. Then(Word1(id), none) = <<<<id, ";">>, <<"None">>>>
  BY <1>2, <1>7, TokenThen
<1>9. Then(Word1(id), some) = <<<<id, "=">>, <<"Some">>>>
  BY <1>2, <1>7, TokenThen
<1> HIDE DEF begin, none, some
<1>10. Then(Then(begin, t), Then(Word1(id), none)) \in Derivable.declaration
  <2>1. Then(Then(begin, t), Then(Word1(id), none)) = Then(begin, Then(t, Then(Word1(id), none)))
    BY <1>3, <1>7, PhraseIs
  <2>2. Then(t, Then(Word1(id), none)) = Then(Then(t, Word1(id)), none)
    BY <1>3, <1>7, PhraseIs
  <2> QED
    BY <1>3, <1>4, <1>6, <2>1, <2>2
<1>11. ASSUME NEW e \in E \cap Phrase
       PROVE  LET x == Then(Then(Then(begin, t), Then(Word1(id), some)), e)
              IN  x \in Phrase /\ Then(x, Semi) \in Derivable.declaration
  <2> DEFINE a == Then(begin, t)
             b == Then(Word1(id), some)
             i == Then(Then(some, e), Semi)
  <2>1. a \in Phrase /\ b \in Phrase /\ i \in Phrase /\ Then(e, Semi) \in Phrase
    BY <1>3, <1>7, PhraseIs
  <2>2. Then(Then(a, b), e) \in Phrase
    BY <2>1, PhraseIs
  <2>3. Then(Then(Then(a, b), e), Semi) = Then(a, Then(b, Then(e, Semi)))
    <3> HIDE DEF a, b
    <3> DEFINE ab == Then(a, b)
               es == Then(e, Semi)
    <3>1. ab \in Phrase /\ es \in Phrase
      BY <2>1, PhraseIs
    <3>2. Then(ab, es) = Then(a, Then(b, es))
      <4> HIDE DEF es
      <4> QED
        BY <2>1, <3>1, PhraseIs
    <3>3. Then(Then(ab, e), Semi) = Then(ab, Then(e, Semi))
      <4> HIDE DEF ab
      <4> QED
        BY <1>3, <3>1, PhraseIs
    <3> QED
      BY <3>2, <3>3
  <2>4. Then(b, Then(e, Semi)) = Then(Word1(id), i)
    BY <1>3, <1>7, <2>1, PhraseIs
  <2>5. Then(a, Then(Word1(id), i)) = Then(begin, Then(Then(t, Word1(id)), i))
    <3> HIDE DEF i
    <3>1. Then(a, Then(Word1(id), i)) = Then(begin, Then(t, Then(Word1(id), i)))
      BY <1>3, <1>7, <2>1, PhraseIs
    <3> QED
      BY <1>7, <2>1, <3>1, PhraseIs
  <2>6. i \in Initializers(E) \cap Phrase
    BY <1>5, <2>1
  <2> QED
    BY <1>6, <2>2, <2>3, <2>4, <2>5, <2>6
<1> QED
  BY <1>8, <1>9, <1>10, <1>11

LEMMA MembersFollow ==
    ASSUME IsProgramLanguage(Derivable), NEW p \in BeforeMembers
    PROVE  /\ Then(p, <<<<"}">>, <<"}">>>>) \in BeforeClasses
           /\ \A x \in ClassMembers(Derivable) \cap Phrase : Then(p, x) \in BeforeMembers
           /\ \A h \in Phrase :
                 (\A b \in Bodies(Identifiers, Derivable.block) \cap Phrase : Then(h, b) \in ClassMembers(Derivable))
                 => Then(p, h) \in BeforeBody
<1> DEFINE brace == <<<<"}">>, <<"}">>>>
<1>1. /\ p \in Phrase /\ After(p, Derivable.members, BeforeClasses)
      /\ ClosingBrace \subseteq Derivable.members
      /\ Concat(ClassMembers(Derivable), Derivable.members) \subseteq Derivable.members
  BY DEF IsProgramLanguage, BeforeMembers
<1>2. brace \in ClosingBrace /\ brace \in Phrase
  BY SmallPhrases, TokensAreKinds DEF ClosingBrace, Terminal
<1>3. ASSUME NEW x \in ClassMembers(Derivable) \cap Phrase PROVE Then(p, x) \in BeforeMembers
  <2>1. After(x, Derivable.members, Derivable.members)
    BY <1>1, InConcat DEF After
  <2> QED
    BY <1>1, <2>1, AfterThen, PhraseIs DEF BeforeMembers
<1>4. ASSUME NEW h \in Phrase,
             \A b \in Bodies(Identifiers, Derivable.block) \cap Phrase : Then(h, b) \in ClassMembers(Derivable)
      PROVE  Then(p, h) \in BeforeBody
  <2> SUFFICES ASSUME NEW b \in Bodies(Identifiers, Derivable.block) \cap Phrase
               PROVE  Then(Then(p, h), b) \in BeforeMembers
    BY <1>1, PhraseIs DEF BeforeBody, After
  <2>1. Then(h, b) \in ClassMembers(Derivable) \cap Phrase
    BY <1>4, PhraseIs
  <2>2. Then(p, Then(h, b)) \in BeforeMembers
    BY <1>3, <2>1
  <2> QED
    BY <1>1, <2>2, PhraseIs
<1>5. Then(p, brace) \in BeforeClasses
  BY <1>1, <1>2 DEF After
<1> QED
  BY <1>3, <1>4, <1>5

LEMMA Grouped ==
    ASSUME NEW a \in Phrase, NEW b \in Phrase, NEW c \in Phrase, NEW d \in Phrase
    PROVE  Then(a, Then(Then(b, c), d)) = Then(Then(a, b), Then(c, d))
<1> DEFINE cd == Then(c, d)
<1>0. \A p, q, r \in Phrase : Then(Then(p, q), r) = Then(p, Then(q, r)) /\ Then(p, q) \in Phrase
  BY PhraseIs
<1>1. cd \in Phrase /\ Then(Then(b, c), d) = Then(b, cd)
  BY <1>0
<1> HIDE DEF cd
<1>2. Then(a, Then(b, cd)) = Then(Then(a, b), cd)
  BY <1>0, <1>1
<1> QED
  BY <1>1, <1>2 DEF cd

LEMMA Regrouped ==
    ASSUME NEW a \in Phrase, NEW b \in Phrase, NEW c \in Phrase, NEW d \in Phrase, NEW e \in Phrase
    PROVE  Then(a, Then(Then(b, Then(c, d)), e)) = Then(Then(Then(a, b), c), Then(d, e))
<1> DEFINE de == Then(d, e)
           cd == Then(c, d)
           ab == Then(a, b)
<1>0. \A p, q, r \in Phrase : Then(Then(p, q), r) = Then(p, Then(q, r)) /\ Then(p, q) \in Phrase
  BY PhraseIs
<1>1. de \in Phrase /\ cd \in Phrase /\ ab \in Phrase /\ Then(cd, e) = Then(c, de)
  BY <1>0
<1> HIDE DEF de, cd, ab
<1>2. Then(a, Then(Then(b, cd), e)) = Then(ab, Then(cd, e))
  BY <1>1, Grouped DEF ab
<1>3. Then(ab, Then(c, de)) = Then(Then(ab, c), de)
  BY <1>0, <1>1
<1> QED
  BY <1>1, <1>2, <1>3 DEF de, cd, ab

LEMMA ParametersFollow ==
    ASSUME IsProgramLanguage(Derivable), NEW p \in Phrase, After(p, Derivable.parameters, BeforeBody),
           NEW t \in Derivable.type \cap Phrase
    PROVE  Then(p, t) \in BehindParameterType
<1> DEFINE N == Named(Derivable.type, Identifiers, <<"Parameter">>)
<1>1. /\ LastArguments(N) \subseteq Derivable.parameters
      /\ FurtherArguments(N, Derivable.parameters) \subseteq Derivable.parameters
  BY DEF IsProgramLanguage, ParameterLists
<1> HIDE DEF N
<1>2. /\ <<>> \in Seq(Kind) /\ <<>> \in Seq(F.symbols) /\ <<",">> \in Seq(Kind)
      /\ "," \in Kind /\ ")" \in Kind /\ "Parameter" \in Nodes
  BY ProgramSymbols, TokensAreKinds DEF Nodes
<1>3. Last \in NoArguments /\ Last \in Phrase /\ Word1(",") \in Phrase
  BY <1>2, SmallPhrases DEF Last, Word1, NoArguments, Terminal
<1> SUFFICES ASSUME NEW id \in Identifiers
             PROVE  /\ Then(Then(p, t), <<<<id, ")">>, <<"Parameter", ")">>>>) \in BeforeBody
                    /\ \A a \in Derivable.parameters \cap Phrase :
                          Then(Then(Then(p, t), <<<<id, ",">>, <<"Parameter">>>>), a) \in BeforeBody
  BY PhraseIs DEF BehindParameterType, After
<1> DEFINE n == <<<<id>>, <<"Parameter">>>>
<1>4. n \in Phrase /\ id \in Kind
  BY <1>2, SmallPhrases, ProgramSymbols
<1>5. Then(t, n) \in N
  BY NamedIs DEF N
<1>6. /\ Then(n, Last) = <<<<id, ")">>, <<"Parameter", ")">>>>
      /\ Then(n, Word1(",")) = <<<<id, ",">>, <<"Parameter">>>>
  BY <1>2, <1>4, TokenThen
<1> HIDE DEF n
<1>7. Then(Then(p, t), Then(n, Last)) \in BeforeBody
  <2>1. Then(Then(t, n), Last) \in Derivable.parameters \cap Phrase
    <3>1. Then(Then(t, n), Last) \in LastArguments(N)
      BY <1>3, <1>5, InConcat DEF LastArguments
    <3>2. Then(t, n) \in Phrase
      BY <1>4, PhraseIs
    <3>3. Then(Then(t, n), Last) \in Phrase
      BY <1>3, <3>2, PhraseIs
    <3> QED
      BY <1>1, <3>1, <3>3
  <2>2. Then(p, Then(Then(t, n), Last)) = Then(Then(p, t), Then(n, Last))
    <3>1. t \in Phrase /\ Last \in Phrase /\ n \in Phrase
      BY <1>3, <1>4
    <3> QED
      BY <3>1, Grouped
  <2> QED
    BY <2>1, <2>2 DEF After
<1>8. ASSUME NEW a \in Derivable.parameters \cap Phrase
      PROVE  Then(Then(Then(p, t), Then(n, Word1(","))), a) \in BeforeBody
  <2> DEFINE c == Word1(",")
             r == Then(c, a)
  <2>1. r \in Enclosed(<<",">>, <<>>, Derivable.parameters, <<>>) /\ r \in Phrase /\ c \in Phrase
    BY <1>2, <1>3, EnclosedIs, PhraseIs DEF Word1
  <2>2. Then(n, c) \in Phrase /\ Then(p, t) \in Phrase
    BY <1>4, <2>1, PhraseIs
  <2>3. Then(Then(Then(p, t), Then(n, c)), a) = Then(Then(p, t), Then(Then(n, c), a))
    <3> DEFINE x == Then(p, t)
               y == Then(n, c)
    <3>1. x \in Phrase /\ y \in Phrase
      BY <2>2
    <3> HIDE DEF x, y
    <3>2. Then(Then(x, y), a) = Then(x, Then(y, a))
      BY <3>1, PhraseIs
    <3> QED
      BY <3>2 DEF x, y
  <2> HIDE DEF c
  <2>4. Then(Then(n, c), a) = Then(n, r)
    <3>1. n \in Phrase /\ c \in Phrase /\ a \in Phrase
      BY <1>4, <2>1
    <3>2. Then(Then(n, c), a) = Then(n, Then(c, a))
      BY <3>1, ThenRegroups
    <3> QED
      BY <3>2
  <2> HIDE DEF r
  <2>5. Then(Then(t, n), r) \in Derivable.parameters \cap Phrase
    <3>1. Then(Then(t, n), r) \in FurtherArguments(N, Derivable.parameters)
      BY <1>5, <2>1, InConcat DEF FurtherArguments
    <3>2. Then(t, n) \in Phrase
      BY <1>4, PhraseIs
    <3>3. Then(Then(t, n), r) \in Phrase
      BY <2>1, <3>2, PhraseIs
    <3> QED
      BY <1>1, <3>1, <3>3
  <2>6. Then(p, Then(Then(t, n), r)) = Then(Then(p, t), Then(n, r))
    <3>1. t \in Phrase /\ r \in Phrase /\ n \in Phrase
      BY <1>4, <2>1
    <3> QED
      BY <3>1, Grouped
  <2>7. Then(p, Then(Then(t, n), r)) \in BeforeBody
    BY <2>5 DEF After
  <2> QED
    BY <2>3, <2>4, <2>6, <2>7 DEF c
<1> QED
  BY <1>6, <1>7, <1>8

\* A member: its type and its name, and a body.
LEMMA TypedMembersFollow ==
    ASSUME IsProgramLanguage(Derivable), NEW p \in BeforeMembers, NEW t \in Derivable.type \cap Phrase
    PROVE  Then(Then(p, Word1("public")), t) \in BehindMemberType
<1> DEFINE P == NoArguments \cup Derivable.parameters
           B == Bodies(Identifiers, Derivable.block)
           pub == Word1("public")
           q == Then(Then(p, pub), t)
<1>1. /\ Fields(Derivable.type, Identifiers) \subseteq ClassMembers(Derivable)
      /\ Methods(Derivable.type, Identifiers, P, B) \subseteq ClassMembers(Derivable)
  BY DEF ClassMembers
<1>2. /\ <<>> \in Seq(Kind) /\ <<>> \in Seq(F.symbols) /\ <<"public">> \in Seq(Kind)
      /\ <<";">> \in Seq(Kind) /\ <<"(">> \in Seq(Kind)
      /\ "(" \in Kind /\ ";" \in Kind /\ ")" \in Kind /\ "public" \in Kind
      /\ "Field" \in Nodes /\ "Method" \in Nodes
  BY ProgramSymbols, TokensAreKinds DEF Nodes
<1>3. /\ p \in Phrase /\ pub \in Phrase /\ Word1(";") \in Phrase /\ Word1("(") \in Phrase
      /\ Last \in Phrase /\ Last \in NoArguments
  BY <1>2, SmallPhrases DEF BeforeMembers, Word1, Last, NoArguments, Terminal
<1>4. q \in Phrase
  BY <1>3, PhraseIs
<1> SUFFICES ASSUME NEW id \in Identifiers
             PROVE  /\ Then(q, <<<<id, ";">>, <<"Field">>>>) \in BeforeMembers
                    /\ Then(q, <<<<id, "(", ")">>, <<"Method", ")">>>>) \in BeforeBody
                    /\ \A a \in Derivable.parameters \cap Phrase :
                          Then(Then(q, <<<<id, "(">>, <<"Method">>>>), a) \in BeforeBody
  BY <1>4 DEF BehindMemberType, After
<1> DEFINE field == <<<<id>>, <<"Field">>>>
           method == <<<<id>>, <<"Method">>>>
           open == Word1("(")
           semi == Word1(";")
<1>5. field \in Phrase /\ method \in Phrase /\ id \in Kind
  BY <1>2, SmallPhrases, ProgramSymbols
<1>6. /\ Then(t, field) \in Named(Derivable.type, Identifiers, <<"Field">>)
      /\ Then(t, method) \in Named(Derivable.type, Identifiers, <<"Method">>)
  BY NamedIs
<1>7. /\ Then(field, semi) = <<<<id, ";">>, <<"Field">>>>
      /\ Then(method, open) = <<<<id, "(">>, <<"Method">>>>
      /\ Then(<<<<id, "(">>, <<"Method">>>>, Last) = <<<<id, "(", ")">>, <<"Method", ")">>>>
  BY <1>2, <1>5, TokenThen
<1> HIDE DEF field, method, P, B
<1>8. Then(q, Then(field, semi)) \in BeforeMembers
  <2> DEFINE x == Then(t, field)
             y == Then(Then(pub, x), semi)
  <2>1. x \in Phrase
    BY <1>5, PhraseIs
  <2> HIDE DEF x
  <2>2. y \in Fields(Derivable.type, Identifiers)
    BY <1>2, <1>6, <2>1, EnclosedIs DEF Fields, Word1, x
  <2>3. Then(pub, x) \in Phrase /\ semi \in Phrase
    BY <1>3, <2>1, PhraseIs
  <2>4. y \in Phrase
    BY <2>3, PhraseIs
  <2> HIDE DEF y
  <2>5. Then(p, y) \in BeforeMembers
    BY <1>1, <2>2, <2>4, MembersFollow
  <2> HIDE DEF pub, semi
  <2>6. Then(p, y) = Then(Then(Then(p, pub), t), Then(field, semi))
    <3>1. p \in Phrase /\ pub \in Phrase
      BY <1>3 DEF pub
    <3> QED
      BY <1>5, <2>3, <3>1, Regrouped DEF y, x
  <2> QED
    BY <2>5, <2>6
<1>9. ASSUME NEW a \in P \cap Phrase PROVE Then(Then(q, Then(method, open)), a) \in BeforeBody
  <2> DEFINE x == Then(t, method)
             y == Then(Then(pub, x), open)
             h == Then(y, a)
  <2>1. x \in Phrase
    BY <1>5, PhraseIs
  <2> HIDE DEF x
  <2>2. y \in Enclosed(<<"public">>, <<>>, Named(Derivable.type, Identifiers, <<"Method">>), <<"(">>)
    BY <1>2, <1>6, <2>1, EnclosedIs DEF Word1, x
  <2>3. Then(pub, x) \in Phrase /\ open \in Phrase
    BY <1>3, <2>1, PhraseIs
  <2>4. y \in Phrase
    BY <2>3, PhraseIs
  <2>5. h \in Phrase
    BY <2>4, PhraseIs
  <2>6. Then(p, y) = Then(q, Then(method, open))
    <3>1. p \in Phrase /\ pub \in Phrase
      BY <1>3
    <3> HIDE DEF pub, open
    <3> QED
      BY <1>5, <2>3, <3>1, Regrouped DEF x
  <2> HIDE DEF y
  <2>7. ASSUME NEW b \in B \cap Phrase PROVE Then(h, b) \in ClassMembers(Derivable)
    <3>1. Then(a, b) \in Concat(P, B)
      BY InConcat
    <3>2. Then(y, Then(a, b)) \in Methods(Derivable.type, Identifiers, P, B)
      BY <2>2, <3>1, InConcat DEF Methods
    <3>3. Then(y, Then(a, b)) = Then(h, b)
      BY <2>4, PhraseIs
    <3> QED
      BY <1>1, <3>2, <3>3
  <2> HIDE DEF h
  <2>8. Then(p, h) \in BeforeBody
    BY <2>5, <2>7, MembersFollow DEF B
  <2>9. Then(p, h) = Then(Then(p, y), a)
    <3>1. p \in Phrase /\ y \in Phrase /\ a \in Phrase
      BY <1>3, <2>4
    <3>2. Then(Then(p, y), a) = Then(p, Then(y, a))
      BY <3>1, ThenRegroups
    <3> QED
      BY <3>2 DEF h
  <2> QED
    BY <2>6, <2>8, <2>9
<1>10. Then(q, Then(Then(method, open), Last)) \in BeforeBody
  <2> DEFINE m == Then(method, open)
  <2>1. m \in Phrase /\ Last \in P
    BY <1>3, <1>5, PhraseIs DEF P
  <2>2. Then(Then(q, m), Last) \in BeforeBody
    BY <1>3, <1>9, <2>1
  <2>3. Last \in Phrase /\ q \in Phrase
    BY <1>3, <1>4
  <2> HIDE DEF m, q
  <2>4. Then(Then(q, m), Last) = Then(q, Then(m, Last))
    BY <2>1, <2>3, PhraseIs
  <2> QED
    BY <2>2, <2>4 DEF m
<1>11. \A a \in Derivable.parameters \cap Phrase : Then(Then(q, Then(method, open)), a) \in BeforeBody
  BY <1>9 DEF P
<1> HIDE DEF q
<1> QED
  BY <1>7, <1>8, <1>10, <1>11
MainTokens(id, arg) == <<"public", "static", "void", id, "(", "String", "[", "]", arg, ")">>

LEMMA MainMethodFollows ==
    ASSUME IsProgramLanguage(Derivable), NEW p \in BeforeMembers,
           NEW id \in Identifiers, NEW arg \in Identifiers
    PROVE  Then(p, <<MainTokens(id, arg), <<"MainMethod">>>>) \in BeforeBody
<1> DEFINE B == Bodies(Identifiers, Derivable.block)
           m(i, a) == <<MainTokens(i, a), <<"MainMethod">>>>
           heads == {m(i, a) : i \in Identifiers, a \in Identifiers}
           h == m(id, arg)
<1>1. Concat(heads, B) \subseteq ClassMembers(Derivable)
  BY DEF ClassMembers, MainMethods, MainTokens
<1>2. h \in heads
  <2> HIDE DEF m
  <2> QED
    OBVIOUS
<1>3. h \in Phrase
  <2>1. /\ "public" \in Kind /\ "static" \in Kind /\ "void" \in Kind /\ "(" \in Kind
        /\ "String" \in Kind /\ "[" \in Kind /\ "]" \in Kind /\ ")" \in Kind
        /\ id \in Kind /\ arg \in Kind
    BY TokensAreKinds, ProgramSymbols
  <2>2. MainTokens(id, arg) \in Seq(Kind)
    BY <2>1 DEF MainTokens
  <2>3. <<"MainMethod">> \in Seq(F.symbols)
    BY ProgramSymbols DEF Nodes
  <2> QED
    BY <2>2, <2>3, PhraseIs
<1> HIDE DEF h, heads, B
<1>4. \A b \in B \cap Phrase : Then(h, b) \in ClassMembers(Derivable)
  BY <1>1, <1>2, InConcat
<1>5. Then(p, h) \in BeforeBody
  BY <1>3, <1>4, MembersFollow DEF B
<1> QED
  BY <1>5 DEF h

LEMMA BodyFollows ==
    ASSUME IsProgramLanguage(Derivable), NEW p \in BeforeBody
    PROVE  /\ Then(p, <<<<"{">>, <<"Block">>>>) \in InBody
           /\ \A id \in Identifiers : Then(p, <<<<"throws", id, "{">>, <<"Block">>>>) \in InBody
<1> DEFINE L == Derivable.block
           open == <<<<"{">>, <<"Block">>>>
           t(id) == <<<<"throws", id>>, <<>>>>
           throws == {t(id) : id \in Identifiers}
           X == Nothing \cup throws
<1>1. Bodies(Identifiers, L) = Concat(X, Blocks(L))
  BY DEF Bodies
<1>2. /\ <<"{">> \in Seq(Kind) /\ <<"Block">> \in Seq(F.symbols) /\ <<>> \in Seq(Kind)
      /\ "throws" \in Kind /\ "{" \in Kind /\ "Block" \in Nodes
  BY ProgramSymbols, TokensAreKinds DEF Nodes
<1>3. p \in Phrase /\ After(p, Bodies(Identifiers, L), BeforeMembers)
  BY DEF BeforeBody
<1>4. open \in Phrase /\ NoWords \in Phrase /\ NoWords \in X
  BY <1>2, SmallPhrases, NoWordsThen DEF NoWords, Nothing, Terminal
<1>5. \A r \in L \cap Phrase : Then(open, r) \in Blocks(L)
  BY <1>2, EnclosedIs DEF Blocks
<1>6. \A id \in Identifiers : t(id) \in X
  <2> HIDE DEF t
  <2> QED
    OBVIOUS
<1>7. \A id \in Identifiers : t(id) \in Phrase
  BY <1>2, SmallPhrases, ProgramSymbols
<1>8. \A id \in Identifiers : Then(t(id), open) = <<<<"throws", id, "{">>, <<"Block">>>>
  <2> SUFFICES ASSUME NEW id \in Identifiers
               PROVE  Then(t(id), open) = <<<<"throws", id, "{">>, <<"Block">>>>
    OBVIOUS
  <2> DEFINE a == "throws"
             c == "{"
  <2>1. a \in Kind /\ id \in Kind /\ c \in Kind
    BY <1>2, ProgramSymbols
  <2> HIDE DEF a, c
  <2>2. <<a, id>> \o <<c>> = <<a, id, c>>
    BY <2>1, OneBehind
  <2>3. <<>> \o <<"Block">> = <<"Block">>
    BY <1>2, ConcatEmptySeq
  <2> QED
    BY <2>2, <2>3 DEF Then, a, c
<1> HIDE DEF open, t, X
<1>9. ASSUME NEW x \in X \cap Phrase PROVE Then(p, Then(x, open)) \in InBody
  <2>1. Then(x, open) \in Phrase
    BY <1>4, PhraseIs
  <2> DEFINE y == Then(x, open)
  <2>2. ASSUME NEW r \in L \cap Phrase PROVE Then(Then(p, y), r) \in BeforeMembers
    <3>1. Then(x, Then(open, r)) \in Bodies(Identifiers, L)
      BY <1>1, <1>5, InConcat
    <3>2. Then(x, Then(open, r)) = Then(y, r)
      BY <1>4, PhraseIs
    <3>3. Then(y, r) \in Phrase
      BY <2>1, PhraseIs
    <3>4. Then(p, Then(y, r)) \in BeforeMembers
      BY <1>3, <3>1, <3>2, <3>3 DEF After
    <3> HIDE DEF y
    <3> QED
      BY <1>3, <2>1, <3>4, PhraseIs DEF y
  <2>3. Then(p, y) \in Phrase
    BY <1>3, <2>1, PhraseIs
  <2> HIDE DEF y
  <2>4. Then(p, y) \in InBody
    BY <2>2, <2>3 DEF InBody, After
  <2> QED
    BY <2>4 DEF y
<1>10. Then(p, open) \in InBody
  BY <1>4, <1>9, NoWordsThen
<1>11. \A id \in Identifiers : Then(p, Then(t(id), open)) \in InBody
  BY <1>6, <1>7, <1>9
<1> QED
  BY <1>8, <1>10, <1>11 DEF open

LEMMA ClassesFollow ==
    ASSUME IsProgramLanguage(Derivable)
    PROVE  /\ <<<<>>, <<"Empty">>>> \in Derivable.program
           /\ <<<<>>, <<"Program">>>> \in BeforeClasses
           /\ \A p \in BeforeClasses :
                 /\ p[1] # <<>> => p \in Derivable.program
                 /\ \A id \in Identifiers :
                       Then(p, <<<<"class", id, "{">>, <<"ClassDeclaration">>>>) \in BeforeMembers
<1> DEFINE C == Derivable.classes
           M == Derivable.members
           e(c) == <<c[1], IF c[1] = <<>> THEN <<"Empty">> ELSE <<"Program">> \o c[2]>>
           h(id) == <<<<"class", id, "{">>, <<"ClassDeclaration">>>>
           heads == {h(id) : id \in Identifiers}
           start == <<<<>>, <<"Program">>>>
<1>1. /\ Nothing \subseteq C /\ Concat(Concat(heads, M), C) \subseteq C
      /\ {e(c) : c \in C} \subseteq Derivable.program
  BY DEF IsProgramLanguage, ClassDeclarations, Programs
<1>2. /\ "class" \in Kind /\ "{" \in Kind /\ "ClassDeclaration" \in Nodes /\ "Program" \in Nodes
      /\ Identifiers \subseteq Kind /\ <<>> \in Seq(Kind) /\ <<"Program">> \in Seq(F.symbols)
  BY ProgramSymbols, TokensAreKinds DEF Nodes
<1>3. NoWords \in C /\ NoWords \in Phrase
  BY <1>1, NoWordsThen DEF Nothing, Terminal, NoWords
<1>4. \A c \in C : e(c) \in Derivable.program
  <2> HIDE DEF e
  <2> QED
    BY <1>1
<1>5. <<<<>>, <<"Empty">>>> \in Derivable.program
  BY <1>3, <1>4 DEF NoWords
<1>6. start \in BeforeClasses
  <2>1. start \in Phrase
    BY <1>2, PhraseIs
  <2>2. ASSUME NEW c \in C \cap Phrase PROVE Then(start, c) \in Wholes
    <3>1. <<>> \o c[1] = c[1]
      BY PhraseIs, ConcatEmptySeq
    <3>2. Then(start, c) = <<c[1], <<"Program">> \o c[2]>>
      BY <3>1 DEF Then
    <3>3. Then(start, c) \in Phrase
      BY <2>1, PhraseIs
    <3> QED
      BY <1>4, <3>2, <3>3 DEF Wholes
  <2> QED
    BY <2>1, <2>2 DEF BeforeClasses, After
<1>7. ASSUME NEW p \in BeforeClasses, p[1] # <<>> PROVE p \in Derivable.program
  <2>1. p \in Phrase /\ Then(p, NoWords) \in Wholes
    BY <1>3 DEF BeforeClasses, After
  <2>2. p \in Wholes
    BY <2>1, NoWordsThen
  <2> QED
    BY <1>7, <2>2 DEF Wholes
<1>8. ASSUME NEW p \in BeforeClasses, NEW id \in Identifiers PROVE Then(p, h(id)) \in BeforeMembers
  <2> DEFINE b == h(id)
  <2>1. b \in heads
    <3> HIDE DEF h
    <3> QED
      OBVIOUS
  <2>2. b \in Phrase
    BY <1>2, SmallPhrases
  <2>3. p \in Phrase /\ After(p, C, Wholes)
    BY DEF BeforeClasses
  <2> HIDE DEF b, heads
  <2>4. ASSUME NEW m \in M \cap Phrase PROVE Then(Then(p, b), m) \in BeforeClasses
    <3> DEFINE y == Then(b, m)
    <3>1. y \in Concat(heads, M) /\ y \in Phrase
      BY <2>1, <2>2, InConcat, PhraseIs
    <3>2. Then(Then(p, b), m) = Then(p, y)
      BY <2>2, <2>3, PhraseIs
    <3> HIDE DEF y
    <3>3. After(y, C, C)
      BY <1>1, <3>1, InConcat DEF After
    <3>4. After(Then(p, y), C, Wholes) /\ Then(p, y) \in Phrase
      BY <2>3, <3>1, <3>3, AfterThen, PhraseIs
    <3>5. Then(p, y) \in BeforeClasses
      BY <3>4 DEF BeforeClasses
    <3> QED
      BY <3>2, <3>5
  <2>5. Then(p, b) \in BeforeMembers
    BY <2>2, <2>3, <2>4, PhraseIs DEF BeforeMembers, After
  <2> QED
    BY <2>5 DEF b
<1> QED
  BY <1>5, <1>6, <1>7, <1>8

-----------------------------------------------------------------------------
(***************************************************************************)
(* Statements behind what has been read in front of them.                  *)
(***************************************************************************)
LEMMA Inwards ==
    ASSUME NEW a \in Phrase, NEW b \in Phrase, NEW c \in Phrase, NEW d \in Phrase
    PROVE  Then(Then(Then(a, b), c), d) = Then(a, Then(Then(b, c), d))
<1> DEFINE ab == Then(a, b)
<1>0. \A p, q, r \in Phrase : Then(Then(p, q), r) = Then(p, Then(q, r)) /\ Then(p, q) \in Phrase
  BY PhraseIs
<1>1. ab \in Phrase
  BY <1>0
<1>2. Then(a, Then(Then(b, c), d)) = Then(ab, Then(c, d))
  BY Grouped
<1> HIDE DEF ab
<1>3. Then(Then(ab, c), d) = Then(ab, Then(c, d))
  BY <1>0, <1>1
<1> QED
  BY <1>2, <1>3 DEF ab

LEMMA BehindConditionThen ==
    ASSUME NEW p \in Phrase, BeginsStatement(p), NEW c \in Phrase, BehindCondition(c)
    PROVE  BehindCondition(Then(p, c))
<1> DEFINE S == Derivable.closed \cup Derivable.open
<1>0. \A x, y, z \in Phrase : Then(Then(x, y), z) = Then(x, Then(y, z)) /\ Then(x, y) \in Phrase
  BY PhraseIs
<1>1. NoElse \in Phrase /\ Else \in Phrase
  BY SmallPhrases
<1>2. ASSUME NEW s \in S \cap Phrase
      PROVE  Then(Then(Then(p, c), s), NoElse) \in Derivable.open
  <2> DEFINE x == Then(Then(c, s), NoElse)
  <2>1. x \in Derivable.open
    BY DEF BehindCondition, After
  <2>2. x \in Phrase
    BY <1>0, <1>1
  <2>3. Then(p, x) \in Derivable.open
    BY <2>1, <2>2 DEF BeginsStatement, After
  <2> QED
    BY <1>1, <2>3, Inwards
<1>3. ASSUME NEW s \in Derivable.closed \cap Phrase
      PROVE  BeginsStatement(Then(Then(Then(p, c), s), Else))
  <2> DEFINE x == Then(Then(c, s), Else)
  <2>1. BeginsStatement(x)
    BY DEF BehindCondition, After
  <2>2. x \in Phrase
    BY <1>0, <1>1
  <2>3. BeginsStatement(Then(p, x))
    BY <2>1, <2>2, BeginsThen
  <2> QED
    BY <1>1, <2>3, Inwards
<1>4. \A s \in Phrase : Then(Then(p, c), s) \in Phrase
  BY <1>0
<1> QED
  BY <1>2, <1>3, <1>4 DEF BehindCondition, After

LEMMA StatementsBegin ==
    ASSUME IsProgramLanguage(Derivable), NEW p \in Phrase, BeginsStatement(p)
    PROVE  /\ Then(p, <<<<";">>, <<"EmptyStatement">>>>) \in Derivable.closed
           /\ Then(p, <<<<"return", ";">>, <<"Return", "None">>>>) \in Derivable.closed
           /\ After(Then(p, <<<<"{">>, <<"Block">>>>), Derivable.block, Derivable.closed)
           /\ \A e \in Derivable.expression \cap Phrase :
                 /\ Then(Then(Then(p, <<<<"return">>, <<"Return", "Some">>>>), e), Semi) \in Derivable.closed
                 /\ Then(Then(Then(p, <<<<>>, <<"Expression">>>>), e), Semi) \in Derivable.closed
                 /\ BeginsStatement(Then(Then(Then(p, <<<<"while", "(">>, <<"While">>>>), e), Paren))
                 /\ BehindCondition(Then(Then(Then(p, <<<<"if", "(">>, <<"If">>>>), e), Paren))
<1> DEFINE empty == <<<<";">>, <<"EmptyStatement">>>>
           none == <<<<"return", ";">>, <<"Return", "None">>>>
           block == <<<<"{">>, <<"Block">>>>
           some == <<<<"return">>, <<"Return", "Some">>>>
           expression == <<<<>>, <<"Expression">>>>
           while == <<<<"while", "(">>, <<"While">>>>
           if == <<<<"if", "(">>, <<"If">>>>
<1>1. /\ ";" \in Kind /\ "return" \in Kind /\ "{" \in Kind /\ "while" \in Kind /\ "if" \in Kind
      /\ "(" \in Kind /\ "EmptyStatement" \in Nodes /\ "Return" \in Nodes /\ "None" \in Nodes
      /\ "Block" \in Nodes /\ "Some" \in Nodes /\ "Expression" \in Nodes /\ "While" \in Nodes
      /\ "If" \in Nodes
  BY TokensAreKinds DEF Nodes
<1>2. empty \in Phrase /\ none \in Phrase /\ block \in Phrase
  BY <1>1, SmallPhrases
<1>3. some \in Phrase /\ expression \in Phrase
  BY <1>1, SmallPhrases
<1>4. while \in Phrase /\ if \in Phrase
  BY <1>1, SmallPhrases
<1>5. Semi \in Phrase /\ Paren \in Phrase
  BY SmallPhrases
<1>6. /\ empty \in Derivable.closed /\ none \in Derivable.closed
      /\ \A e \in Derivable.expression \cap Phrase :
            /\ Then(Then(some, e), Semi) \in Derivable.closed
            /\ Then(Then(expression, e), Semi) \in Derivable.closed
  BY SimpleDerived
<1>7. After(block, Derivable.block, Derivable.closed)
  BY BlocksDerived
<1>8. \A e \in Derivable.expression \cap Phrase :
         /\ BeginsStatement(Then(Then(while, e), Paren))
         /\ BehindCondition(Then(Then(if, e), Paren))
  BY WhileDerived, IfDerived
<1> HIDE DEF empty, none, block, some, expression, while, if
<1>9. /\ \A s \in Derivable.closed \cap Phrase : Then(p, s) \in Derivable.closed
      /\ After(p, Derivable.closed, Derivable.closed)
  BY DEF BeginsStatement, After
<1>10. Then(p, empty) \in Derivable.closed /\ Then(p, none) \in Derivable.closed
  BY <1>2, <1>6, <1>9
<1>11. After(Then(p, block), Derivable.block, Derivable.closed)
  BY <1>2, <1>7, <1>9, AfterThen
<1>12. ASSUME NEW x \in Phrase, NEW e \in Derivable.expression \cap Phrase,
              Then(Then(x, e), Semi) \in Derivable.closed
       PROVE  Then(Then(Then(p, x), e), Semi) \in Derivable.closed
  <2>1. Then(x, e) \in Phrase
    BY PhraseIs
  <2>2. Then(Then(x, e), Semi) \in Phrase
    BY <1>5, <2>1, PhraseIs
  <2>3. Then(p, Then(Then(x, e), Semi)) \in Derivable.closed
    BY <1>9, <1>12, <2>2
  <2> QED
    BY <1>5, <2>3, Inwards
<1>13. ASSUME NEW x \in Phrase, NEW e \in Phrase
       PROVE  /\ Then(Then(x, e), Paren) \in Phrase
              /\ Then(Then(Then(p, x), e), Paren) = Then(p, Then(Then(x, e), Paren))
  <2>1. Then(x, e) \in Phrase
    BY PhraseIs
  <2>2. Then(Then(x, e), Paren) \in Phrase
    BY <1>5, <2>1, PhraseIs
  <2> QED
    BY <1>5, <2>2, Inwards
<1>14. ASSUME NEW e \in Derivable.expression \cap Phrase
       PROVE  /\ BeginsStatement(Then(Then(Then(p, while), e), Paren))
              /\ BehindCondition(Then(Then(Then(p, if), e), Paren))
  BY <1>4, <1>8, <1>13, BeginsThen, BehindConditionThen
<1>15. \A e \in Derivable.expression \cap Phrase :
          /\ Then(Then(Then(p, some), e), Semi) \in Derivable.closed
          /\ Then(Then(Then(p, expression), e), Semi) \in Derivable.closed
  BY <1>3, <1>6, <1>12
<1> QED
  BY <1>10, <1>11, <1>14, <1>15 DEF empty, none, block, some, expression, while, if

-----------------------------------------------------------------------------
(***************************************************************************)
(* What is reached at each place, and what each place may be given.        *)
(***************************************************************************)
LEMMA ReachedTop ==
    ASSUME NEW below, NEW p, NEW ahead
    PROVE  /\ Reached("file", below, p, ahead) <=> p = NoWords /\ below = "none"
           /\ Reached("program", below, p, ahead) <=>
                 p \in BeforeClasses /\ (p[1] # <<>> \/ ahead # EOF) /\ below = "none"
           /\ Reached("class", below, p, ahead) <=> p \in BeforeMembers /\ below = "none"
           /\ Reached("member", below, p, ahead) <=> p \in BehindMemberType /\ below = "none"
           /\ Reached("parameter", below, p, ahead) <=> p \in BehindParameterType /\ below = "none"
           /\ Reached("method rest", below, p, ahead) <=> p \in BeforeBody /\ below = "none"
BY DEF Reached, Statementlike, Places, Top

LEMMA ReachedBelow ==
    ASSUME NEW below, NEW p, NEW ahead
    PROVE  /\ Reached("type", below, p, ahead) <=>
                 p = NoWords /\ below \in {"member", "parameter", "variable"}
           /\ Reached("array type", below, p, ahead) <=>
                 p \in Derivable.type /\ below \in {"member", "parameter", "variable"}
           /\ Reached("variable", below, p, ahead) <=> BehindType(p) /\ below = "block"
           /\ Reached("block", below, p, ahead) <=>
                 /\ After(p, Derivable.block, IF below = "class" THEN Derivable.block ELSE Derivable.closed)
                 /\ below \in {"class", "block", "else arm"}
           /\ Reached("block statement", below, p, ahead) <=> p = NoWords /\ below = "block"
           /\ \A place \in Places :
                 Reached(place, below, p, ahead) <=>
                    below \in Expecting
BY DEF Reached, Statementlike, Places, Top

LEMMA ReachedStatement ==
    ASSUME NEW below, NEW p, NEW ahead
    PROVE  /\ Reached("statement", below, p, ahead) <=>
                 BeginsStatement(p) /\ below \in {"block", "else arm"}
           /\ Reached("if arm", below, p, ahead) <=>
                 BehindCondition(Then(p, Paren)) /\ below \in {"block", "else arm"}
           /\ Reached("else arm", below, p, ahead) <=>
                 BehindArm(p, ahead) /\ below \in {"block", "else arm"}
           /\ Reached("while body", below, p, ahead) <=>
                 BeginsStatement(Then(p, Paren)) /\ below \in {"block", "else arm"}
           /\ Reached("semicolon", below, p, ahead) <=>
                 /\ Then(p, Semi) \in Derivable.closed
                                      \cup IF below = "block" THEN Derivable.declaration ELSE {}
                 /\ below \in {"block", "else arm"}
BY DEF Reached, Statementlike, Places, Top

LEMMA ReturnableTo ==
    ASSUME NEW ahead
    PROVE  /\ Returnable("class", ahead) = Derivable.block
           /\ Returnable("block", ahead) = BlockStatements(Derivable)
           /\ Returnable("else arm", ahead) = Arms(ahead)
           /\ \A place \in {"member", "parameter", "variable"} : Returnable(place, ahead) = Derivable.type
           /\ \A place \in {"if arm", "while body", "semicolon"} :
                 Returnable(place, ahead) = Derivable.expression
BY DEF Returnable

-----------------------------------------------------------------------------
(***************************************************************************)
(* What the handlers do to the activations.                                *)
(***************************************************************************)
LEMMA WellReady ==
    ASSUME ParseInv, WellBegun, status = "parsing"
    PROVE  /\ Typed(F) /\ input \in Seq(Kind) /\ callers \in Seq(Activation(F)) /\ expr \in Seq(F.symbols)
           /\ Len(callers) \in Nat /\ next \in Nat /\ Len(input) \in Nat /\ next <= Len(input)
           /\ From(callers, Len(callers)) \in Nat /\ From(callers, Len(callers)) <= next
           /\ here \in Phrase /\ here[1] = Word(input, From(callers, Len(callers)), next)
           /\ here[2] = expr
           /\ Reached(at, Below(callers, Len(callers)), here, peek)
           /\ AllSuspended(input, callers)
<1>1. Typed(F) /\ Progress(Fresh, 0)
  BY DEF ParseInv, Inv
<1>2. /\ input \in Seq(Kind) /\ callers \in Seq(Activation(F)) /\ expr \in Seq(F.symbols)
      /\ next \in 0..Len(input)
  BY <1>1 DEF Typed, Trees
<1>3. Len(callers) \in Nat /\ Len(input) \in Nat /\ next \in Nat /\ next <= Len(input)
  BY <1>2, LenProperties
<1>4. From(callers, Len(callers)) \in Nat
  BY <1>1, <1>3, StartsAreNat
<1>5. From(callers, Len(callers)) <= next
  BY <1>1 DEF Progress
<1> DEFINE a == From(callers, Len(callers))
<1>6. next \in a..Len(input)
  BY <1>3, <1>4, <1>5
<1>7. Word(input, a, next) \in Seq(Kind)
  BY <1>2, <1>4, <1>6, WordSeq
<1>8. here \in Phrase
  BY <1>2, <1>7, PhraseIs DEF here
<1> QED
  BY <1>1, <1>2, <1>3, <1>4, <1>5, <1>8 DEF here, WellBegun

LEMMA SuspendedLonger ==
    ASSUME NEW T, NEW stack \in Seq(T), NEW c, NEW t, AllSuspended(t, stack),
           Suspended(t, c, Below(stack, Len(stack)), From(stack, Len(stack)))
    PROVE  LET s == Append(stack, c)
           IN  /\ From(s, Len(s)) = c.start /\ Below(s, Len(s)) = c.at
               /\ AllSuspended(t, s)
<1> DEFINE m == Len(stack)
           s == Append(stack, c)
<1>1. m \in Nat
  BY LenProperties
<1>2. Len(s) = m + 1 /\ (\A i \in 1..m : s[i] = stack[i]) /\ s[m + 1] = c
  BY AppendAny
<1> HIDE DEF m, s
<1>3. \A i \in 0..m : From(s, i) = From(stack, i) /\ Below(s, i) = Below(stack, i)
  BY <1>1, <1>2 DEF From, Below
<1>4. From(s, m + 1) = c.start /\ Below(s, m + 1) = c.at
  BY <1>1, <1>2 DEF From, Below
<1>5. AllSuspended(t, s)
  <2> SUFFICES ASSUME NEW i \in 1..m + 1
               PROVE  Suspended(t, s[i], Below(s, i - 1), From(s, i - 1))
    BY <1>2 DEF AllSuspended
  <2>1. CASE i = m + 1
    <3>1. i - 1 = m /\ m \in 0..m
      BY <1>1, <2>1
    <3>2. From(s, i - 1) = From(stack, m) /\ Below(s, i - 1) = Below(stack, m) /\ s[i] = c
      BY <1>2, <1>3, <2>1, <3>1
    <3> QED
      BY <3>2 DEF m
  <2>2. CASE i # m + 1
    <3>1. i \in 1..m /\ i - 1 \in 0..m
      BY <1>1, <2>2
    <3>2. s[i] = stack[i] /\ From(s, i - 1) = From(stack, i - 1) /\ Below(s, i - 1) = Below(stack, i - 1)
      BY <1>2, <1>3, <3>1
    <3>3. Suspended(t, stack[i], Below(stack, i - 1), From(stack, i - 1))
      BY <3>1 DEF AllSuspended, m
    <3> QED
      BY <3>2, <3>3
  <2> QED
    BY <2>1, <2>2
<1> QED
  BY <1>2, <1>4, <1>5 DEF m, s

LEMMA SuspendedShorter ==
    ASSUME NEW T, NEW stack \in Seq(T), stack # <<>>, NEW t, AllSuspended(t, stack)
    PROVE  LET m == Len(stack)
               s == SubSeq(stack, 1, m - 1)
           IN  /\ From(s, Len(s)) = From(stack, m - 1) /\ Below(s, Len(s)) = Below(stack, m - 1)
               /\ AllSuspended(t, s)
               /\ Suspended(t, stack[m], Below(stack, m - 1), From(stack, m - 1))
<1> DEFINE m == Len(stack)
           s == SubSeq(stack, 1, m - 1)
<1>1. m \in Nat /\ m >= 1
  BY LenProperties, EmptySeq
<1>2. Len(s) = m - 1 /\ \A i \in 1..m - 1 : s[i] = stack[i]
  <2>1. m - 1 \in 0..Len(stack)
    BY <1>1
  <2>2. /\ Len(SubSeq(stack, 1, m - 1)) = m - 1
        /\ \A i \in 1..m - 1 : SubSeq(stack, 1, m - 1)[i] = stack[i]
    BY <2>1, Popped
  <2> QED
    BY <2>2
<1> HIDE DEF m, s
<1>3. \A i \in 0..m - 1 : From(s, i) = From(stack, i) /\ Below(s, i) = Below(stack, i)
  BY <1>1, <1>2 DEF From, Below
<1>4. AllSuspended(t, s)
  <2> SUFFICES ASSUME NEW i \in 1..m - 1
               PROVE  Suspended(t, s[i], Below(s, i - 1), From(s, i - 1))
    BY <1>2 DEF AllSuspended
  <2>1. i \in 1..m /\ i - 1 \in 0..m - 1
    BY <1>1
  <2>2. Suspended(t, stack[i], Below(stack, i - 1), From(stack, i - 1))
    BY <2>1 DEF AllSuspended, m
  <2> QED
    BY <1>2, <1>3, <2>1, <2>2
<1>5. Suspended(t, stack[m], Below(stack, m - 1), From(stack, m - 1))
  BY <1>1 DEF AllSuspended, m
<1>6. From(s, m - 1) = From(stack, m - 1) /\ Below(s, m - 1) = Below(stack, m - 1)
  BY <1>1, <1>3
<1> QED
  BY <1>2, <1>4, <1>5, <1>6 DEF m, s

LEMMA SuspendedTop ==
    ASSUME NEW T, NEW stack \in Seq(T), stack # <<>>, NEW c, NEW t, AllSuspended(t, stack),
           c.at \in Waiting, c.at = stack[Len(stack)].at
    PROVE  LET s == [stack EXCEPT ![Len(stack)] = c]
           IN  AllSuspended(t, s) /\ Below(s, Len(s)) = c.at
<1> DEFINE m == Len(stack)
           s == [stack EXCEPT ![Len(stack)] = c]
<1>1. m \in Nat /\ m >= 1
  BY LenProperties, EmptySeq
<1>2. Len(s) = m /\ s[m] = c /\ \A i \in 1..m - 1 : s[i] = stack[i]
  BY <1>1
<1> HIDE DEF m, s
<1>3. \A i \in 0..m - 1 : From(s, i) = From(stack, i) /\ Below(s, i) = Below(stack, i)
  BY <1>1, <1>2 DEF From, Below
<1>4. AllSuspended(t, s)
  <2> SUFFICES ASSUME NEW i \in 1..m
               PROVE  Suspended(t, s[i], Below(s, i - 1), From(s, i - 1))
    BY <1>2 DEF AllSuspended
  <2>1. From(s, i - 1) = From(stack, i - 1) /\ Below(s, i - 1) = Below(stack, i - 1)
    BY <1>1, <1>3
  <2>2. CASE i = m
    <3>1. Suspended(t, stack[m], Below(stack, m - 1), From(stack, m - 1)) /\ stack[m].at = c.at
      BY <1>1 DEF AllSuspended, m
    <3> QED
      BY <1>2, <2>1, <2>2, <3>1 DEF Suspended
  <2>3. CASE i # m
    <3>1. i \in 1..m - 1
      BY <1>1, <2>3
    <3>2. Suspended(t, stack[i], Below(stack, i - 1), From(stack, i - 1))
      BY DEF AllSuspended, m
    <3> QED
      BY <1>2, <2>1, <3>1, <3>2
  <2> QED
    BY <2>2, <2>3
<1>5. Below(s, m) = c.at
  BY <1>1, <1>2 DEF Below
<1> QED
  BY <1>2, <1>4, <1>5 DEF m, s

\* The running activation goes on at another place.
LEMMA WellStays ==
    ASSUME ParseInv, WellBegun, status = "parsing", NEW to, NEW e, Goto(to, e),
           next' \in next..Len(input),
           Reached(to, Below(callers, Len(callers)), <<here[1] \o Word(input, next, next'), e>>, peek')
    PROVE  WellBegun'
<1> DEFINE a == From(callers, Len(callers))
<1>1. PICK n : n = next'
  OBVIOUS
<1>2. /\ input \in Seq(Kind) /\ a \in Nat /\ next \in a..Len(input) /\ n \in next..Len(input)
      /\ here[1] = Word(input, a, next) /\ AllSuspended(input, callers)
  BY <1>1, WellReady
<1>3. here[1] \o Word(input, next, n) = Word(input, a, n)
  BY <1>2, WordConcat
<1>4. input' = input /\ callers' = callers /\ at' = to /\ expr' = e
  BY DEF Goto
<1>5. here' = <<here[1] \o Word(input, next, next'), e>>
  BY <1>1, <1>3, <1>4 DEF here
<1>6. AllSuspended(input, callers)' /\ Reached(at', Below(callers, Len(callers))', here', peek')
  BY <1>2, <1>4, <1>5
<1> QED
  BY <1>6 DEF WellBegun

\* It calls a function.
LEMMA WellCalls ==
    ASSUME ParseInv, WellBegun, status = "parsing", NEW to, NEW from, NEW e, Invoke(to, from, e),
           from \notin Waiting, next' \in next..Len(input),
           Awaits(from, Below(callers, Len(callers)), <<here[1] \o Word(input, next, next'), e>>),
           Reached(to, from, NoWords, peek')
    PROVE  WellBegun'
<1> DEFINE a == From(callers, Len(callers))
           b == Below(callers, Len(callers))
<1>1. PICK n : n = next'
  OBVIOUS
<1>2. /\ input \in Seq(Kind) /\ a \in Nat /\ next \in a..Len(input) /\ n \in next..Len(input)
      /\ here[1] = Word(input, a, next) /\ AllSuspended(input, callers)
      /\ callers \in Seq(Activation(F)) /\ n \in Nat
  BY <1>1, WellReady
<1>3. here[1] \o Word(input, next, n) = Word(input, a, n)
  BY <1>2, WordConcat
<1> DEFINE c == [at |-> from, start |-> n, operand_stack |-> operand_stack,
                 operator_stack |-> operator_stack, ops |-> ops, expr |-> e]
           s == Append(callers, c)
<1>4. input' = input /\ callers' = s /\ at' = to /\ expr' = <<>>
  BY <1>1 DEF Invoke
<1>5. c.at = from /\ c.start = n /\ c.expr = e
  OBVIOUS
<1> HIDE DEF c
<1>6. Suspended(input, c, b, a)
  BY <1>1, <1>3, <1>5 DEF Suspended
<1>7. From(s, Len(s)) = n /\ Below(s, Len(s)) = from /\ AllSuspended(input, s)
  BY <1>2, <1>5, <1>6, SuspendedLonger
<1> HIDE DEF s
<1>8. here' = NoWords
  <2>1. Word(input, n, n) = <<>>
    BY <1>2, WordEmpty
  <2> QED
    BY <1>1, <1>4, <1>7, <2>1 DEF here, NoWords
<1>9. AllSuspended(input, callers)' /\ Reached(at', Below(callers, Len(callers))', here', peek')
  BY <1>4, <1>7, <1>8
<1> QED
  BY <1>9 DEF WellBegun

\* It returns.
LEMMA WellReturns ==
    ASSUME ParseInv, WellBegun, status = "parsing", NEW e \in Seq(F.symbols), Finish(e),
           next' \in next..Len(input), callers # <<>>, caller.at \notin Waiting,
           <<here[1] \o Word(input, next, next'), e>> \in Returnable(caller.at, peek')
    PROVE  WellBegun'
<1> DEFINE m == Len(callers)
           a == From(callers, m)
           b == From(callers, m - 1)
           below == Below(callers, m - 1)
           s == SubSeq(callers, 1, m - 1)
<1>1. PICK n : n = next'
  OBVIOUS
<1>2. /\ Typed(F) /\ input \in Seq(Kind) /\ a \in Nat /\ next \in a..Len(input) /\ n \in next..Len(input)
      /\ n \in Nat /\ Len(input) \in Nat
      /\ here[1] = Word(input, a, next) /\ AllSuspended(input, callers)
      /\ callers \in Seq(Activation(F)) /\ m \in Nat
  BY <1>1, WellReady
<1>3. here[1] \o Word(input, next, n) = Word(input, a, n)
  BY <1>2, WordConcat
<1>4. m >= 1 /\ m - 1 \in 0..m /\ m \in 1..m
  BY <1>2, EmptySeq
<1>5. b \in Nat /\ b <= a
  <2>1. From(callers, m - 1) + 0 <= From(callers, m)
    BY <1>4 DEF ParseInv, Progress
  <2>2. b \in Nat
    BY <1>2, <1>4, StartsAreNat
  <2> QED
    BY <1>2, <2>1, <2>2
<1>6. caller = callers[m] /\ caller.start = a /\ caller.expr \in Seq(F.symbols)
  <2>1. callers[m] \in Activation(F)
    BY <1>2, <1>4, ElementOfSeq
  <2> QED
    BY <1>4, <2>1 DEF caller, From, Activation, Trees
<1>7. /\ From(s, Len(s)) = b /\ Below(s, Len(s)) = below /\ AllSuspended(input, s)
      /\ Suspended(input, callers[m], below, b)
  BY <1>2, SuspendedShorter
<1>8. input' = input /\ callers' = s /\ at' = caller.at /\ expr' = caller.expr \o e
  BY DEF Finish, Return
<1> DEFINE p == <<Word(input, b, a), caller.expr>>
           r == <<Word(input, a, n), e>>
<1>9. Awaits(caller.at, below, p)
  BY <1>6, <1>7 DEF Suspended
<1>10. a \in b..Len(input) /\ n \in a..Len(input)
  BY <1>2, <1>5
<1>11. Word(input, a, n) \in Seq(Kind) /\ Word(input, b, a) \o Word(input, a, n) = Word(input, b, n)
  BY <1>2, <1>5, <1>10, WordSeq, WordConcat
<1>12. r \in Phrase
  BY <1>11, PhraseIs
<1>13. r \in Returnable(caller.at, peek')
  BY <1>1, <1>3
<1>14. Reached(caller.at, below, Then(p, r), peek')
  BY <1>9, <1>12, <1>13 DEF Awaits
<1>15. Then(p, r) = <<Word(input, b, n), caller.expr \o e>>
  BY <1>11 DEF Then
<1> HIDE DEF s, b, below
<1>16. here' = <<Word(input, b, n), caller.expr \o e>>
  BY <1>1, <1>7, <1>8 DEF here
<1>17. AllSuspended(input, callers)' /\ Reached(at', Below(callers, Len(callers))', here', peek')
  BY <1>7, <1>8, <1>14, <1>15, <1>16
<1> QED
  BY <1>17 DEF WellBegun

\* The same, with the tokens w that are read now and the symbols t for them.
LEMMA ReadsOn ==
    ASSUME ParseInv, WellBegun, status = "parsing", NEW w, NEW t,
           next' \in next..Len(input), Word(input, next, next') = w
    PROVE  /\ \A to : /\ Goto(to, expr \o t)
                      /\ Reached(to, Below(callers, Len(callers)), Then(here, <<w, t>>), peek')
                      => WellBegun'
           /\ \A to, from :
                 /\ Invoke(to, from, expr \o t) /\ from \notin Waiting
                 /\ Awaits(from, Below(callers, Len(callers)), Then(here, <<w, t>>))
                 /\ Reached(to, from, NoWords, peek')
                 => WellBegun'
<1>1. Then(here, <<w, t>>) = <<here[1] \o Word(input, next, next'), expr \o t>>
  BY WellReady DEF Then
<1> QED
  BY <1>1, WellStays, WellCalls

LEMMA ReadsToEnd ==
    ASSUME ParseInv, WellBegun, status = "parsing", at \notin Top, at \notin Places,
           NEW w, NEW t \in Seq(F.symbols), Finish(expr \o t),
           next' \in next..Len(input), Word(input, next, next') = w,
           Then(here, <<w, t>>) \in Returnable(caller.at, peek')
    PROVE  WellBegun'
<1> DEFINE e == expr \o t
           r == <<here[1] \o w, caller.expr \o e>>
<1>1. expr \in Seq(F.symbols) /\ here[2] = expr /\ here \in Phrase
  BY WellReady
<1>2. e \in Seq(F.symbols)
  BY <1>1, ConcatProperties
<1>3. callers # <<>>
  BY DEF ParseInv, Called
<1>4. caller.at \notin Waiting
  BY <1>3 DEF ParseInv, Nested
<1>5. Then(here, <<w, t>>) = <<here[1] \o Word(input, next, next'), e>>
  BY <1>1 DEF Then
<1>6. Finish(e)
  OBVIOUS
<1> HIDE DEF e
<1> QED
  BY <1>2, <1>3, <1>4, <1>5, <1>6, WellReturns

LEMMA WellStops ==
    ASSUME status' # "parsing"
    PROVE  WellBegun'
BY DEF WellBegun

(***************************************************************************)
(* The tokens that are read.                                               *)
(***************************************************************************)
LEMMA NothingRead ==
    ASSUME ParseInv, Stay, input' = input
    PROVE  next' \in next..Len(input) /\ Word(input, next, next') = <<>> /\ peek' = peek
<1>1. next \in Nat /\ Len(input) \in Nat /\ next <= Len(input) /\ next' = next
  BY LenProperties DEF ParseInv, Inv, Typed, Stay
<1>2. Word(input, next, next) = <<>>
  BY <1>1, WordEmpty
<1> QED
  BY <1>1, <1>2 DEF peek, peek_nth, token

LEMMA OneRead ==
    ASSUME ParseInv, NEW A \in SUBSET Kind, omnomnom(<<A>>)
    PROVE  next' \in next..Len(input) /\ Word(input, next, next') = <<peek>> /\ peek \in A
BY EatenOne DEF ParseInv, Inv

LEMMA TokenRead ==
    ASSUME ParseInv, NEW k \in Kind, omnomnom(<<{k}>>)
    PROVE  next' \in next..Len(input) /\ Word(input, next, next') = <<k>> /\ peek = k
<1> DEFINE A == {k}
<1>1. A \in SUBSET Kind /\ omnomnom(<<A>>) /\ \A x \in A : x = k
  OBVIOUS
<1> HIDE DEF A
<1> QED
  BY <1>1, OneRead

LEMMA TwoRead ==
    ASSUME ParseInv, NEW k \in Kind, NEW l \in Kind
    PROVE  /\ omnomnom(<<{k}, {l}>>) =>
                 next' \in next..Len(input) /\ Word(input, next, next') = <<k, l>> /\ peek = k
           /\ omnomnom(<<Identifiers, {l}>>) =>
                 /\ next' \in next..Len(input)
                 /\ \E id \in Identifiers : Word(input, next, next') = <<id, l>>
<1> DEFINE A == {k}
           B == {l}
<1>1. /\ A \in SUBSET Kind /\ B \in SUBSET Kind /\ Identifiers \in SUBSET Kind
      /\ (\A x \in A : x = k) /\ (\A x \in B : x = l)
  BY Sets
<1>2. Typed(F)
  BY DEF ParseInv, Inv
<1> HIDE DEF A, B
<1>3. ASSUME omnomnom(<<A, B>>)
      PROVE  next' \in next..Len(input) /\ Word(input, next, next') = <<k, l>> /\ peek = k
  BY <1>1, <1>2, <1>3, EatenTwo
<1>4. ASSUME omnomnom(<<Identifiers, B>>)
      PROVE  /\ next' \in next..Len(input)
             /\ \E id \in Identifiers : Word(input, next, next') = <<id, l>>
  BY <1>1, <1>2, <1>4, EatenTwo
<1> QED
  BY <1>3, <1>4 DEF A, B

LEMMA ThreeRead ==
    ASSUME ParseInv, NEW k \in Kind, NEW l \in Kind
    PROVE  /\ omnomnom(<<Identifiers, {k}, {l}>>) =>
                 /\ next' \in next..Len(input)
                 /\ \E id \in Identifiers : Word(input, next, next') = <<id, k, l>>
           /\ omnomnom(<<{k}, Identifiers, {l}>>) =>
                 /\ next' \in next..Len(input)
                 /\ \E id \in Identifiers : Word(input, next, next') = <<k, id, l>>
<1> DEFINE A == {k}
           B == {l}
<1>1. /\ A \in SUBSET Kind /\ B \in SUBSET Kind /\ Identifiers \in SUBSET Kind
      /\ (\A x \in A : x = k) /\ (\A x \in B : x = l)
  BY Sets
<1>2. Typed(F)
  BY DEF ParseInv, Inv
<1> HIDE DEF A, B
<1>3. ASSUME omnomnom(<<Identifiers, A, B>>)
      PROVE  /\ next' \in next..Len(input)
             /\ \E id \in Identifiers : Word(input, next, next') = <<id, k, l>>
  BY <1>1, <1>2, <1>3, EatenThree
<1>4. ASSUME omnomnom(<<A, Identifiers, B>>)
      PROVE  /\ next' \in next..Len(input)
             /\ \E id \in Identifiers : Word(input, next, next') = <<k, id, l>>
  BY <1>1, <1>2, <1>4, EatenThree
<1> QED
  BY <1>3, <1>4 DEF A, B

LEMMA MainMethodRead ==
    ASSUME ParseInv, omnomnom(MainMethodTokens)
    PROVE  /\ next' \in next..Len(input)
           /\ \E id, arg \in Identifiers : Word(input, next, next') = MainTokens(id, arg)
<1> DEFINE wanted == MainMethodTokens
           id == input[next + 4]
           arg == input[next + 9]
           v == Word(input, next, next')
           w == MainTokens(id, arg)
<1>1. /\ Typed(F) /\ input \in Seq(Kind) /\ next \in Nat /\ Len(input) \in Nat
  BY LenProperties DEF ParseInv, Inv, Typed
<1>2. /\ next' = next + 10 /\ next' \in next..Len(input)
      /\ \A i \in 1..10 : next + i \in 1..Len(input) /\ input[next + i] \in MainMethodTokens[i]
  BY <1>1, MainMethodWanted, EatenTokens
<1>3. PICK n : n = next'
  OBVIOUS
<1>4. /\ input[next + 1] = "public" /\ input[next + 2] = "static" /\ input[next + 3] = "void"
      /\ id \in Identifiers /\ input[next + 5] = "(" /\ input[next + 6] = "String"
      /\ input[next + 7] = "[" /\ input[next + 8] = "]" /\ arg \in Identifiers
      /\ input[next + 10] = ")"
  BY <1>2 DEF MainMethodTokens
<1>5. v \in Seq(Kind) /\ Len(v) = 10
  <2>1. Word(input, next, n) \in Seq(Kind) /\ Len(Word(input, next, n)) = n - next
    BY <1>1, <1>2, <1>3, WordSeq
  <2> QED
    BY <1>1, <1>2, <1>3, <2>1
<1>6. \A i \in 1..10 : v[i] = input[next + i]
  <2>1. \A i \in next + 1..n : input[i] \in Kind
    <3> SUFFICES ASSUME NEW i \in next + 1..n PROVE input[i] \in Kind
      OBVIOUS
    <3>1. i \in 1..Len(input)
      BY <1>1, <1>2, <1>3
    <3> QED
      BY <1>1, <3>1, ElementOfSeq
  <2>2. \A i \in 1..(n - (next + 1) + 1) : SubSeq(input, next + 1, n)[i] = input[(next + 1) + i - 1]
    <3>1. next + 1 \in Int /\ n \in Int
      BY <1>1, <1>2, <1>3
    <3> QED
      BY <2>1, <3>1, SubSeqProperties
  <2> SUFFICES ASSUME NEW i \in 1..10 PROVE v[i] = input[next + i]
    OBVIOUS
  <2>3. i \in 1..(n - (next + 1) + 1) /\ (next + 1) + i - 1 = next + i
    BY <1>1, <1>2, <1>3
  <2> QED
    BY <1>3, <2>2, <2>3 DEF Word
<1>7. /\ w \in Seq(Kind) /\ Len(w) = 10
      /\ w[1] = "public" /\ w[2] = "static" /\ w[3] = "void" /\ w[4] = id /\ w[5] = "("
      /\ w[6] = "String" /\ w[7] = "[" /\ w[8] = "]" /\ w[9] = arg /\ w[10] = ")"
  <2>1. /\ "public" \in Kind /\ "static" \in Kind /\ "void" \in Kind /\ "(" \in Kind
        /\ "String" \in Kind /\ "[" \in Kind /\ "]" \in Kind /\ ")" \in Kind
        /\ id \in Kind /\ arg \in Kind
    BY <1>4, TokensAreKinds, ProgramSymbols
  <2> HIDE DEF id, arg
  <2> QED
    BY <2>1 DEF MainTokens
<1> HIDE DEF v, w
<1>8. \A i \in 1..10 : v[i] = w[i]
  BY <1>4, <1>6, <1>7
<1>9. v = w
  BY <1>5, <1>7, <1>8, SeqEqual
<1> QED
  BY <1>2, <1>4, <1>9 DEF v, w

-----------------------------------------------------------------------------
(***************************************************************************)
(* Every handler keeps it.                                                 *)
(***************************************************************************)
LEMMA Appended ==
    ASSUME ParseInv, NEW s
    PROVE  Append(expr, s) = expr \o <<s>>
<1> DEFINE T == F.symbols \cup {s}
<1>1. expr \in Seq(T) /\ s \in T
  BY DEF ParseInv, Inv, Typed, Trees
<1> HIDE DEF T
<1> QED
  BY <1>1, AppendIsConcat

LEMMA ClassesWell ==
    ASSUME IsProgramLanguage(Derivable), ParseInv, WellBegun, Classes
    PROVE  WellBegun' /\ (status' = "accepted" => BuildsTheProgram')
<1> DEFINE below == Below(callers, Len(callers))
<1>0. status = "parsing"
  BY DEF Classes, EmptyFile, Program, EndOfFile, ClassDeclaration, NoClassDeclaration, EndOfClass, Running
<1>1. /\ here \in Phrase /\ here[2] = expr /\ Reached(at, below, here, peek)
      /\ here[1] = Word(input, From(callers, Len(callers)), next)
      /\ input \in Seq(Kind) /\ callers \in Seq(Activation(F)) /\ Len(callers) \in Nat
      /\ next \in Nat /\ Len(input) \in Nat /\ next <= Len(input)
  BY <1>0, WellReady
<1>2. \A wanted : omnomnom(wanted) => status' = status
  BY DEF omnomnom, outcome
<1>3. Stay => status' = status
  BY DEF Stay, outcome
<1>4. ASSUME below = "none", peek = EOF
      PROVE  here[1] = input
  <2>1. callers = <<>> /\ Len(callers) = 0
    <3>1. ASSUME Len(callers) # 0 PROVE FALSE
      <4>1. Len(callers) \in 1..Len(callers) /\ below = callers[Len(callers)].at
        BY <1>1, <3>1 DEF Below
      <4>2. callers[Len(callers)] \in Activation(F)
        BY <1>1, <4>1, ElementOfSeq
      <4>3. callers[Len(callers)].at \in F.waits
        BY <4>2 DEF Activation
      <4> QED
        BY <1>4, <4>1, <4>3 DEF F, ParserFunctions, Waiting
    <3> QED
      BY <1>1, <3>1, EmptySeq
  <2>2. next = Len(input)
    <3>1. next + 1 \notin 1..Len(input)
      <4>1. ASSUME next + 1 \in 1..Len(input) PROVE FALSE
        <5>1. peek = input[next + 1]
          BY <4>1, PeekIs DEF ParseInv, Inv
        <5>2. input[next + 1] \in Kind
          BY <1>1, <4>1, ElementOfSeq
        <5> QED
          BY <1>4, <5>1, <5>2 DEF EOF, Kind, UnaryOps, BinaryOps, Literals, Identifiers, BasicTypes, Keywords
      <4> QED
        BY <4>1
    <3> QED
      BY <1>1, <3>1
  <2>3. here[1] = SubSeq(input, 1, Len(input))
    BY <1>1, <2>1, <2>2 DEF From, Word
  <2>4. SubSeq(input, 1, Len(input)) = input
    BY <1>1, SubSeqFull
  <2> QED
    BY <2>3, <2>4
<1>5. CASE EmptyFile
  <2>1. peek = EOF /\ status' = "accepted" /\ expr' = <<"Empty">> /\ input' = input /\ at = "file"
    BY <1>5 DEF EmptyFile, AcceptFile, Running
  <2>2. here = NoWords /\ below = "none"
    BY <1>1, <2>1, ReachedTop
  <2>3. input = <<>>
    BY <1>4, <2>1, <2>2 DEF NoWords
  <2>4. BuildsTheProgram'
    BY <2>1, <2>3, ClassesFollow DEF BuildsTheProgram
  <2> QED
    BY <2>1, <2>4, WellStops
<1>6. CASE Program
  <2>1. Goto("program", <<"Program">>) /\ Stay /\ at = "file" /\ peek # EOF /\ input' = input
    BY <1>6 DEF Program, Running, Goto
  <2>2. here = NoWords /\ below = "none"
    BY <1>1, <2>1, ReachedTop
  <2>3. next' \in next..Len(input) /\ Word(input, next, next') = <<>> /\ peek' = peek
    BY <2>1, NothingRead
  <2> DEFINE t == <<"Program">>
             start == <<<<>>, t>>
  <2>4. expr \o t = t
    <3>1. expr = <<>>
      BY <1>1, <2>2 DEF NoWords
    <3>2. t \in Seq({"Program"})
      OBVIOUS
    <3> HIDE DEF t
    <3> QED
      BY <3>1, <3>2, ConcatEmptySeq
  <2>5. start \in BeforeClasses
    BY ClassesFollow
  <2>6. Then(here, start) = start
    BY <2>2, <2>5, NoWordsThen DEF BeforeClasses
  <2>7. Reached("program", below, start, peek')
    BY <2>1, <2>2, <2>3, <2>5, ReachedTop
  <2> HIDE DEF below
  <2>8. WellBegun'
    BY <1>0, <2>1, <2>3, <2>4, <2>6, <2>7, ReadsOn DEF below
  <2> QED
    BY <1>0, <1>3, <2>1, <2>8
<1>7. CASE EndOfFile
  <2>1. peek = EOF /\ status' = "accepted" /\ expr' = expr /\ input' = input /\ at = "program"
    BY <1>7 DEF EndOfFile, AcceptFile, Running
  <2>2. here \in BeforeClasses /\ here[1] # <<>> /\ below = "none"
    BY <1>1, <2>1, ReachedTop
  <2>3. here \in Derivable.program
    BY <2>2, ClassesFollow
  <2>4. here = <<input, expr>>
    <3>1. here = <<here[1], here[2]>>
      BY <1>1, PhraseIs
    <3> QED
      BY <1>1, <1>4, <2>1, <2>2, <3>1
  <2>5. BuildsTheProgram'
    BY <2>1, <2>3, <2>4 DEF BuildsTheProgram
  <2> QED
    BY <2>1, <2>5, WellStops
<1>8. CASE ClassDeclaration
  <2>1. Goto("class", Append(expr, "ClassDeclaration")) /\ at = "program" /\ omnomnom(ClassTokens)
    BY <1>8 DEF ClassDeclaration, Running
  <2>2. /\ next' \in next..Len(input)
        /\ \E id \in Identifiers : Word(input, next, next') = <<"class", id, "{">>
    <3>1. omnomnom(<<{"class"}, Identifiers, {"{"}>>)
      BY <2>1 DEF ClassTokens
    <3> QED
      BY <3>1, ThreeRead, TokensAreKinds
  <2>3. PICK id \in Identifiers : Word(input, next, next') = <<"class", id, "{">>
    BY <2>2
  <2>4. here \in BeforeClasses /\ below = "none"
    BY <1>1, <2>1, ReachedTop
  <2>5. Then(here, <<<<"class", id, "{">>, <<"ClassDeclaration">>>>) \in BeforeMembers
    BY <2>4, ClassesFollow
  <2>6. Reached("class", below, Then(here, <<<<"class", id, "{">>, <<"ClassDeclaration">>>>), peek')
    BY <2>4, <2>5, ReachedTop
  <2>7. Goto("class", expr \o <<"ClassDeclaration">>)
    BY <2>1, Appended
  <2>8. WellBegun'
    BY <1>0, <2>2, <2>3, <2>6, <2>7, ReadsOn
  <2> QED
    BY <1>0, <1>2, <2>1, <2>8
<1>9. CASE NoClassDeclaration
  BY <1>9, WellStops DEF NoClassDeclaration, Unexpected, Reject
<1>10. CASE EndOfClass
  <2>1. Goto("program", Append(expr, "}")) /\ at = "class" /\ omnomnom(<<{"}"}>>)
    BY <1>10 DEF EndOfClass, Running
  <2>2. next' \in next..Len(input) /\ Word(input, next, next') = <<"}">>
    BY <2>1, TokenRead, TokensAreKinds
  <2>3. here \in BeforeMembers /\ below = "none"
    BY <1>1, <2>1, ReachedTop
  <2> DEFINE p == Then(here, <<<<"}">>, <<"}">>>>)
  <2>4. p \in BeforeClasses
    BY <2>3, MembersFollow
  <2>5. p[1] # <<>>
    <3> DEFINE x == here[1]
               y == <<"}">>
    <3>1. p[1] = x \o y
      BY DEF Then
    <3>2. x \in Seq(Kind)
      BY <1>1, PhraseIs
    <3>3. y \in Seq(Kind) /\ Len(y) = 1
      <4>1. y \in Seq(Kind)
        BY ProgramSymbols, TokensAreKinds
      <4> QED
        BY <4>1
    <3> HIDE DEF x, y
    <3>4. Len(x \o y) = Len(x) + Len(y) /\ Len(x) \in Nat
      BY <3>2, <3>3, ConcatProperties, LenProperties
    <3>5. Len(x \o y) # 0
      BY <3>3, <3>4
    <3> QED
      BY <3>1, <3>5, EmptySeq
  <2> HIDE DEF p
  <2>6. Reached("program", below, p, peek')
    BY <2>3, <2>4, <2>5, ReachedTop
  <2>7. Goto("program", expr \o <<"}">>)
    BY <2>1, Appended
  <2>8. WellBegun'
    BY <1>0, <2>2, <2>6, <2>7, ReadsOn DEF p
  <2> QED
    BY <1>0, <1>2, <2>1, <2>8
<1> QED
  BY <1>5, <1>6, <1>7, <1>8, <1>9, <1>10 DEF Classes

LEMMA MembersWell ==
    ASSUME IsProgramLanguage(Derivable), ParseInv, WellBegun, Members
    PROVE  WellBegun' /\ status' # "accepted"
<1> DEFINE below == Below(callers, Len(callers))
<1>0. status = "parsing"
  BY DEF Members, MainMethod, TypedMember, NoClassMember, Field, Method, NoMemberEnd, NextParameter,
     LastParameter, NoParameterEnd, Body, NoBody, Running
<1>1. here \in Phrase /\ here[2] = expr /\ Reached(at, below, here, peek)
  BY <1>0, WellReady
<1>2. \A wanted : omnomnom(wanted) => status' = status
  BY DEF omnomnom, outcome
<1>3. \A wanted : Unexpected(wanted) => status' = "error"
  BY DEF Unexpected, Reject
<1>4. /\ "public" \in Kind /\ ";" \in Kind /\ "(" \in Kind /\ ")" \in Kind /\ "," \in Kind
      /\ "{" \in Kind /\ "throws" \in Kind /\ "Method" \in Nodes /\ "Parameter" \in Nodes
  BY TokensAreKinds DEF Nodes
<1> HIDE DEF below
<1>5. ASSUME NoClassMember \/ NoMemberEnd \/ NoParameterEnd \/ NoBody
      PROVE  WellBegun' /\ status' # "accepted"
  <2>1. status' = "error"
    BY <1>3, <1>5 DEF NoClassMember, NoMemberEnd, NoParameterEnd, NoBody
  <2> QED
    BY <2>1, WellStops
<1>6. CASE MainMethod
  <2>1. /\ Goto("method rest", expr \o <<"MainMethod">>) /\ at = "class"
        /\ omnomnom(MainMethodTokens)
    BY <1>6, Appended DEF MainMethod, Running
  <2>2. PICK id \in Identifiers, arg \in Identifiers : Word(input, next, next') = MainTokens(id, arg)
    BY <2>1, MainMethodRead
  <2> DEFINE w == MainTokens(id, arg)
             p == Then(here, <<w, <<"MainMethod">>>>)
  <2>3. here \in BeforeMembers /\ below = "none"
    BY <1>1, <2>1, ReachedTop
  <2>4. p \in BeforeBody
    BY <2>3, MainMethodFollows
  <2> HIDE DEF w, p
  <2>5. Reached("method rest", below, p, peek')
    BY <2>3, <2>4, ReachedTop
  <2>6. next' \in next..Len(input) /\ Word(input, next, next') = w
    BY <2>1, <2>2, MainMethodRead DEF w
  <2>7. WellBegun'
    BY <1>0, <2>1, <2>5, <2>6, ReadsOn DEF p, below
  <2> QED
    BY <1>0, <1>2, <2>1, <2>7
<1>7. CASE TypedMember
  <2>1. Invoke("type", "member", expr) /\ at = "class" /\ omnomnom(<<{"public"}>>)
    BY <1>7 DEF TypedMember, Running
  <2>2. next' \in next..Len(input) /\ Word(input, next, next') = <<"public">>
    BY <1>4, <2>1, TokenRead
  <2>3. here \in BeforeMembers /\ below = "none"
    BY <1>1, <2>1, ReachedTop
  <2> DEFINE p == Then(here, Word1("public"))
  <2>4. \A t \in Derivable.type \cap Phrase : Then(p, t) \in BehindMemberType
    BY <2>3, TypedMembersFollow
  <2> HIDE DEF p
  <2>5. Awaits("member", below, p)
    BY <2>3, <2>4, ReturnableTo, ReachedTop DEF Awaits
  <2>6. Reached("type", "member", NoWords, peek')
    BY ReachedBelow
  <2>7. expr \o <<>> = expr
    BY <1>1, PhraseIs, ConcatEmptySeq
  <2>8. WellBegun'
    BY <1>0, <2>1, <2>2, <2>5, <2>6, <2>7, ReadsOn DEF Waiting, p, Word1, below
  <2> QED
    BY <1>0, <1>2, <2>1, <2>8
<1>8. CASE Field
  <2>1. Goto("class", expr \o <<"Field">>) /\ at = "member" /\ omnomnom(<<Identifiers, {";"}>>)
    BY <1>8, Appended DEF Field, Running
  <2>2. next' \in next..Len(input)
    BY <1>4, <2>1, TwoRead
  <2>3. PICK id \in Identifiers : Word(input, next, next') = <<id, ";">>
    BY <1>4, <2>1, TwoRead
  <2> DEFINE p == Then(here, <<<<id, ";">>, <<"Field">>>>)
  <2>4. p \in BeforeMembers /\ below = "none"
    BY <1>1, <2>1, ReachedTop DEF BehindMemberType
  <2> HIDE DEF p
  <2>5. Reached("class", below, p, peek')
    BY <2>4, ReachedTop
  <2>6. WellBegun'
    BY <1>0, <2>1, <2>2, <2>3, <2>5, ReadsOn DEF p, below
  <2> QED
    BY <1>0, <1>2, <2>1, <2>6
<1>9. CASE Method
  <2>1. at = "member"
    BY <1>9 DEF Method, Running
  <2>2. here \in BehindMemberType /\ below = "none"
    BY <1>1, <2>1, ReachedTop
  <2>3. CASE /\ omnomnom(<<Identifiers, {"("}, {")"}>>)
             /\ Goto("method rest", expr \o <<"Method", ")">>)
    <3>1. next' \in next..Len(input)
      BY <1>4, <2>3, ThreeRead
    <3>2. PICK id \in Identifiers : Word(input, next, next') = <<id, "(", ")">>
      BY <1>4, <2>3, ThreeRead
    <3> DEFINE p == Then(here, <<<<id, "(", ")">>, <<"Method", ")">>>>)
    <3>3. p \in BeforeBody
      BY <2>2 DEF BehindMemberType
    <3> HIDE DEF p
    <3>4. Reached("method rest", below, p, peek')
      BY <2>2, <3>3, ReachedTop
    <3>5. WellBegun'
      BY <1>0, <2>3, <3>1, <3>2, <3>4, ReadsOn DEF p, below
    <3> QED
      BY <1>0, <1>2, <2>3, <3>5
  <2>4. CASE /\ omnomnom(<<Identifiers, {"("}>>)
             /\ Invoke("type", "parameter", Append(expr, "Method"))
    <3>1. next' \in next..Len(input)
      BY <1>4, <2>4, TwoRead
    <3>2. PICK id \in Identifiers : Word(input, next, next') = <<id, "(">>
      BY <1>4, <2>4, TwoRead
    <3> DEFINE q == <<<<id, "(">>, <<"Method">>>>
               p == Then(here, q)
    <3>3. After(p, Derivable.parameters, BeforeBody)
      BY <2>2 DEF BehindMemberType
    <3>4. p \in Phrase
      <4>1. q \in Phrase
        BY <1>4, SmallPhrases, ProgramSymbols
      <4> HIDE DEF q
      <4> QED
        BY <1>1, <4>1, PhraseIs
    <3> HIDE DEF p
    <3>5. \A t \in Derivable.type \cap Phrase : Then(p, t) \in BehindParameterType
      BY <3>3, <3>4, ParametersFollow
    <3>6. Awaits("parameter", below, p)
      BY <2>2, <3>5, ReturnableTo, ReachedTop DEF Awaits
    <3>7. Reached("type", "parameter", NoWords, peek')
      BY ReachedBelow
    <3>8. Invoke("type", "parameter", expr \o <<"Method">>)
      BY <2>4, Appended
    <3>9. WellBegun'
      BY <1>0, <3>1, <3>2, <3>6, <3>7, <3>8, ReadsOn DEF Waiting, p, below
    <3> QED
      BY <1>0, <1>2, <2>4, <3>9
  <2> QED
    BY <1>9, <2>3, <2>4 DEF Method
<1>10. CASE NextParameter
  <2>1. /\ Invoke("type", "parameter", expr \o <<"Parameter">>)
        /\ at = "parameter" /\ omnomnom(<<Identifiers, {","}>>)
    BY <1>10, Appended DEF NextParameter, Running
  <2>2. next' \in next..Len(input)
    BY <1>4, <2>1, TwoRead
  <2>3. PICK id \in Identifiers : Word(input, next, next') = <<id, ",">>
    BY <1>4, <2>1, TwoRead
  <2> DEFINE q == <<<<id, ",">>, <<"Parameter">>>>
             p == Then(here, q)
  <2>4. After(p, Derivable.parameters, BeforeBody) /\ below = "none"
    BY <1>1, <2>1, ReachedTop DEF BehindParameterType
  <2>5. p \in Phrase
    <3>1. q \in Phrase
      BY <1>4, SmallPhrases, ProgramSymbols
    <3> HIDE DEF q
    <3> QED
      BY <1>1, <3>1, PhraseIs
  <2> HIDE DEF p
  <2>6. \A t \in Derivable.type \cap Phrase : Then(p, t) \in BehindParameterType
    BY <2>4, <2>5, ParametersFollow
  <2>7. Awaits("parameter", below, p)
    BY <2>4, <2>6, ReturnableTo, ReachedTop DEF Awaits
  <2>8. Reached("type", "parameter", NoWords, peek')
    BY ReachedBelow
  <2>9. WellBegun'
    BY <1>0, <2>1, <2>2, <2>3, <2>7, <2>8, ReadsOn DEF Waiting, p, below
  <2> QED
    BY <1>0, <1>2, <2>1, <2>9
<1>11. CASE LastParameter
  <2>1. /\ Goto("method rest", expr \o <<"Parameter", ")">>)
        /\ at = "parameter" /\ omnomnom(<<Identifiers, {")"}>>)
    BY <1>11 DEF LastParameter, Running
  <2>2. next' \in next..Len(input)
    BY <1>4, <2>1, TwoRead
  <2>3. PICK id \in Identifiers : Word(input, next, next') = <<id, ")">>
    BY <1>4, <2>1, TwoRead
  <2> DEFINE p == Then(here, <<<<id, ")">>, <<"Parameter", ")">>>>)
  <2>4. p \in BeforeBody /\ below = "none"
    BY <1>1, <2>1, ReachedTop DEF BehindParameterType
  <2> HIDE DEF p
  <2>5. Reached("method rest", below, p, peek')
    BY <2>4, ReachedTop
  <2>6. WellBegun'
    BY <1>0, <2>1, <2>2, <2>3, <2>5, ReadsOn DEF p, below
  <2> QED
    BY <1>0, <1>2, <2>1, <2>6
<1>12. CASE Body
  <2>1. /\ Invoke("block", "class", expr \o <<"Block">>) /\ at = "method rest"
        /\ omnomnom(<<{"{"}>>) \/ omnomnom(<<{"throws"}, Identifiers, {"{"}>>)
    BY <1>12, Appended DEF Body, Running, RestTokens
  <2>2. /\ next' \in next..Len(input)
        /\ \/ Word(input, next, next') = <<"{">>
           \/ \E id \in Identifiers : Word(input, next, next') = <<"throws", id, "{">>
    BY <1>4, <2>1, TokenRead, ThreeRead
  <2> DEFINE w == Word(input, next, next')
             p == Then(here, <<w, <<"Block">>>>)
  <2>3. here \in BeforeBody /\ below = "none"
    BY <1>1, <2>1, ReachedTop
  <2>4. p \in InBody
    BY <2>2, <2>3, BodyFollows
  <2>5. next' \in next..Len(input) /\ Word(input, next, next') = w
    BY <2>2
  <2> HIDE DEF w, p
  <2>6. Awaits("class", below, p)
    BY <2>3, <2>4, ReturnableTo, ReachedTop DEF Awaits, InBody, After
  <2>7. Reached("block", "class", NoWords, peek')
    BY ReachedBelow, NoWordsBegins
  <2>8. WellBegun'
    BY <1>0, <2>1, <2>5, <2>6, <2>7, ReadsOn DEF Waiting, p, below
  <2> QED
    BY <1>0, <1>2, <2>1, <2>8
<1> QED
  BY <1>5, <1>6, <1>7, <1>8, <1>9, <1>10, <1>11, <1>12 DEF Members

LEMMA CallerBelow ==
    ASSUME ParseInv, at \notin Top
    PROVE  Below(callers, Len(callers)) = caller.at
<1>1. callers # <<>> /\ callers \in Seq(Activation(F))
  BY DEF ParseInv, Called, Inv, Typed
<1>2. Len(callers) # 0
  BY <1>1, EmptySeq
<1> QED
  BY <1>2 DEF Below, caller

LEMMA TypesWell ==
    ASSUME IsProgramLanguage(Derivable), ParseInv, WellBegun, Types
    PROVE  WellBegun' /\ status' # "accepted"
<1> DEFINE below == Below(callers, Len(callers))
<1>0. status = "parsing"
  BY DEF Types, BasicType, NoBasicType, ArrayType, NoArrayType, EndOfType, Running
<1>1. here \in Phrase /\ here[2] = expr /\ Reached(at, below, here, peek)
  BY <1>0, WellReady
<1>2. \A wanted : omnomnom(wanted) => status' = status
  BY DEF omnomnom, outcome
<1>3. \A wanted : Unexpected(wanted) => status' = "error"
  BY DEF Unexpected, Reject
<1>4. "[" \in Kind /\ "]" \in Kind /\ BasicTypes \in SUBSET Kind
  BY TokensAreKinds, Sets
<1>5. CASE NoBasicType \/ NoArrayType
  <2>1. status' = "error"
    BY <1>3, <1>5 DEF NoBasicType, NoArrayType
  <2> QED
    BY <2>1, WellStops
<1>6. CASE BasicType
  <2>1. Goto("array type", <<"Type", peek>>) /\ at = "type" /\ omnomnom(<<BasicTypes>>)
    BY <1>6 DEF BasicType, Running
  <2>2. next' \in next..Len(input) /\ Word(input, next, next') = <<peek>> /\ peek \in BasicTypes
    BY <1>4, <2>1, OneRead
  <2>3. here = NoWords /\ below \in {"member", "parameter", "variable"}
    BY <1>1, <2>1, ReachedBelow
  <2>4. <<<<peek>>, <<"Type", peek>>>> \in Derivable.type
    BY <2>2, TypesDerived
  <2>5. here[1] \o <<peek>> = <<peek>>
    <3>1. here[1] = <<>> /\ peek \in Kind
      BY <1>4, <2>2, <2>3 DEF NoWords
    <3>2. <<peek>> \in Seq(Kind)
      BY <3>1, ProgramSymbols
    <3> QED
      BY <3>1, <3>2, ConcatEmptySeq
  <2>6. Reached("array type", below, <<here[1] \o Word(input, next, next'), <<"Type", peek>>>>, peek')
    BY <2>2, <2>3, <2>4, <2>5, ReachedBelow
  <2>7. WellBegun'
    BY <1>0, <2>1, <2>2, <2>6, WellStays
  <2> QED
    BY <1>0, <1>2, <2>1, <2>7
<1>7. CASE ArrayType
  <2>1. /\ Goto("array type", <<"ArrayOf">> \o expr) /\ at = "array type"
        /\ omnomnom(<<{"["}, {"]"}>>)
    BY <1>7 DEF ArrayType, Running
  <2>2. next' \in next..Len(input) /\ Word(input, next, next') = <<"[", "]">>
    BY <1>4, <2>1, TwoRead
  <2>3. here \in Derivable.type \cap Phrase /\ below \in {"member", "parameter", "variable"}
    BY <1>1, <2>1, ReachedBelow
  <2>4. <<here[1] \o <<"[", "]">>, <<"ArrayOf">> \o here[2]>> \in Derivable.type
    BY <2>3, TypesDerived
  <2>5. Reached("array type", below, <<here[1] \o Word(input, next, next'), <<"ArrayOf">> \o expr>>, peek')
    <3> DEFINE p == <<here[1] \o <<"[", "]">>, <<"ArrayOf">> \o here[2]>>
    <3>1. p \in Derivable.type
      BY <2>4
    <3>2. p = <<here[1] \o Word(input, next, next'), <<"ArrayOf">> \o expr>>
      BY <1>1, <2>2
    <3> HIDE DEF p
    <3>3. Reached("array type", below, p, peek')
      BY <2>3, <3>1, ReachedBelow
    <3> QED
      BY <3>2, <3>3
  <2>6. WellBegun'
    BY <1>0, <2>1, <2>2, <2>5, WellStays
  <2> QED
    BY <1>0, <1>2, <2>1, <2>6
<1>8. CASE EndOfType
  <2>1. Finish(expr) /\ Stay /\ at = "array type" /\ input' = input
    BY <1>8 DEF EndOfType, Running, Finish, Return
  <2>2. next' \in next..Len(input) /\ Word(input, next, next') = <<>>
    BY <2>1, NothingRead
  <2>3. here \in Derivable.type /\ below \in {"member", "parameter", "variable"}
    BY <1>1, <2>1, ReachedBelow
  <2>4. at \notin Top /\ at \notin Places
    BY <2>1 DEF Top, Places
  <2>5. here \in Returnable(caller.at, peek')
    BY <2>3, <2>4, CallerBelow, ReturnableTo
  <2>6. Then(here, NoWords) = here /\ expr \o <<>> = expr /\ <<>> \in Seq(F.symbols)
    BY <1>1, NoWordsThen, PhraseIs, ConcatEmptySeq
  <2>7. WellBegun'
    BY <1>0, <2>1, <2>2, <2>4, <2>5, <2>6, ReadsToEnd DEF NoWords
  <2>8. status' = status
    BY <2>1 DEF Stay, outcome
  <2> QED
    BY <1>0, <2>7, <2>8
<1> QED
  BY <1>5, <1>6, <1>7, <1>8 DEF Types

LEMMA BlockStatementsAre ==
    /\ Derivable.closed \subseteq BlockStatements(Derivable)
    /\ Derivable.open \subseteq BlockStatements(Derivable)
    /\ Derivable.declaration \subseteq BlockStatements(Derivable)
    /\ \A ahead : /\ Derivable.closed \subseteq Arms(ahead)
                  /\ ahead # "else" => Derivable.open \subseteq Arms(ahead)
BY DEF BlockStatements, Arms

\* A statement that ends.
LEMMA StatementEnds ==
    ASSUME ParseInv, WellBegun, status = "parsing", at \notin Top, at \notin Places,
           NEW w, NEW t \in Seq(F.symbols), Finish(expr \o t),
           next' \in next..Len(input), Word(input, next, next') = w,
           caller.at \in {"block", "else arm"},
           Then(here, <<w, t>>) \in Derivable.closed \cup IF peek' # "else" THEN Derivable.open ELSE {}
    PROVE  WellBegun'
<1> DEFINE p == Then(here, <<w, t>>)
<1>1. p \in Derivable.closed \/ (p \in Derivable.open /\ peek' # "else")
  OBVIOUS
<1> HIDE DEF p
<1>2. p \in BlockStatements(Derivable) /\ p \in Arms(peek')
  BY <1>1, BlockStatementsAre
<1>3. p \in Returnable(caller.at, peek')
  <2>1. CASE caller.at = "block"
    BY <1>2, <2>1, ReturnableTo
  <2>2. CASE caller.at = "else arm"
    BY <1>2, <2>2, ReturnableTo
  <2> QED
    BY <2>1, <2>2
<1> QED
  BY <1>3, ReadsToEnd DEF p

(***************************************************************************)
(* A statement begins: what has been read is put in front of a statement,  *)
(* of a block or of another one.                                           *)
(***************************************************************************)
LEMMA AtStatementWell ==
    ASSUME ParseInv, WellBegun, AtStatement
    PROVE  /\ status = "parsing" /\ at \notin Top /\ at \notin Places
           /\ here \in Phrase /\ here[2] = expr /\ BeginsStatement(here)
           /\ Below(callers, Len(callers)) = caller.at /\ caller.at \in {"block", "else arm"}
           /\ allow_local_var_decl => here = NoWords /\ caller.at = "block"
<1> DEFINE below == Below(callers, Len(callers))
<1>1. status = "parsing" /\ at \in {"statement", "block statement"}
  BY DEF AtStatement, Running
<1>2. at \notin Top /\ at \notin Places
  BY <1>1 DEF Top, Places
<1>3. here \in Phrase /\ here[2] = expr /\ Reached(at, below, here, peek)
  BY <1>1, WellReady
<1>4. below = caller.at
  BY <1>2, CallerBelow
<1> HIDE DEF below
<1>5. CASE at = "statement"
  <2>1. BeginsStatement(here) /\ below \in {"block", "else arm"}
    BY <1>3, <1>5, ReachedStatement
  <2> QED
    BY <1>1, <1>2, <1>3, <1>4, <1>5, <2>1 DEF below, allow_local_var_decl
<1>6. CASE at = "block statement"
  <2>1. here = NoWords /\ below = "block"
    BY <1>3, <1>6, ReachedBelow
  <2> QED
    BY <1>1, <1>2, <1>3, <1>4, <2>1, NoWordsBegins DEF below
<1> QED
  BY <1>1, <1>5, <1>6

LEMMA SimpleWell ==
    ASSUME IsProgramLanguage(Derivable), ParseInv, WellBegun,
           Block \/ EmptyStatement \/ ReturnNothing
    PROVE  WellBegun' /\ status' # "accepted"
<1>1. AtStatement
  BY DEF Block, EmptyStatement, ReturnNothing
<1>2. /\ status = "parsing" /\ at \notin Top /\ at \notin Places
      /\ here \in Phrase /\ BeginsStatement(here)
      /\ Below(callers, Len(callers)) = caller.at /\ caller.at \in {"block", "else arm"}
  BY <1>1, AtStatementWell
<1>3. \A wanted : omnomnom(wanted) => status' = status
  BY DEF omnomnom, outcome
<1>4. "{" \in Kind /\ ";" \in Kind /\ "return" \in Kind
  BY TokensAreKinds
<1>5. /\ <<"EmptyStatement">> \in Seq(F.symbols) /\ <<"Return", "None">> \in Seq(F.symbols)
  BY ProgramSymbols DEF Nodes
<1>6. CASE Block
  <2>1. Goto("block", expr \o <<"Block">>) /\ omnomnom(<<{"{"}>>)
    BY <1>6, Appended DEF Block
  <2>2. next' \in next..Len(input) /\ Word(input, next, next') = <<"{">>
    BY <1>4, <2>1, TokenRead
  <2> DEFINE p == Then(here, <<<<"{">>, <<"Block">>>>)
  <2>3. After(p, Derivable.block, Derivable.closed)
    BY <1>2, StatementsBegin
  <2> HIDE DEF p
  <2>4. Reached("block", caller.at, p, peek')
    <3> DEFINE c == caller.at
    <3>1. c \in {"block", "else arm"}
      BY <1>2
    <3> HIDE DEF c
    <3>2. Reached("block", c, p, peek')
      BY <2>3, <3>1, ReachedBelow
    <3> QED
      BY <3>2 DEF c
  <2>5. WellBegun'
    BY <1>2, <2>1, <2>2, <2>4, ReadsOn DEF p
  <2> QED
    BY <1>2, <1>3, <2>1, <2>5
<1>7. CASE EmptyStatement
  <2>1. Finish(expr \o <<"EmptyStatement">>) /\ omnomnom(<<{";"}>>)
    BY <1>7, Appended DEF EmptyStatement
  <2>2. next' \in next..Len(input) /\ Word(input, next, next') = <<";">>
    BY <1>4, <2>1, TokenRead
  <2>3. Then(here, <<<<";">>, <<"EmptyStatement">>>>) \in Derivable.closed
    BY <1>2, StatementsBegin
  <2>4. WellBegun'
    BY <1>2, <1>5, <2>1, <2>2, <2>3, StatementEnds
  <2> QED
    BY <1>2, <1>3, <2>1, <2>4
<1>8. CASE ReturnNothing
  <2>1. Finish(expr \o <<"Return", "None">>) /\ omnomnom(<<{"return"}, {";"}>>)
    BY <1>8 DEF ReturnNothing
  <2>2. next' \in next..Len(input) /\ Word(input, next, next') = <<"return", ";">>
    BY <1>4, <2>1, TwoRead
  <2>3. Then(here, <<<<"return", ";">>, <<"Return", "None">>>>) \in Derivable.closed
    BY <1>2, StatementsBegin
  <2>4. WellBegun'
    BY <1>2, <1>5, <2>1, <2>2, <2>3, StatementEnds
  <2> QED
    BY <1>2, <1>3, <2>1, <2>4
<1> QED
  BY <1>6, <1>7, <1>8

\* A statement that calls parse_expression.
LEMMA ExpressionFollows ==
    ASSUME NEW place \in {"if arm", "while body", "semicolon"}, NEW below, NEW p,
           \A ahead : \A e \in Derivable.expression \cap Phrase :
              Reached(place, below, Then(p, e), ahead)
    PROVE  /\ Awaits(place, below, p) /\ place \notin Waiting
           /\ \A ahead : Reached("unary", place, NoWords, ahead)
<1>1. \A ahead : Returnable(place, ahead) = Derivable.expression
  BY ReturnableTo
<1>2. Awaits(place, below, p)
  BY <1>1 DEF Awaits
<1>3. "unary" \in Places /\ place \in Expecting /\ place \notin Waiting
  BY DEF Places, Expecting, Waiting
<1> QED
  BY <1>2, <1>3, ReachedBelow

LEMMA CallingWell ==
    ASSUME IsProgramLanguage(Derivable), ParseInv, WellBegun,
           If \/ While \/ ReturnValue \/ ExpressionStatement
    PROVE  WellBegun' /\ status' # "accepted"
<1> DEFINE c == caller.at
           if == Then(here, <<<<"if", "(">>, <<"If">>>>)
           while == Then(here, <<<<"while", "(">>, <<"While">>>>)
           some == Then(here, <<<<"return">>, <<"Return", "Some">>>>)
           expression == Then(here, <<<<>>, <<"Expression">>>>)
<1>1. AtStatement
  BY DEF If, While, ReturnValue, ExpressionStatement
<1>2. /\ status = "parsing" /\ here \in Phrase /\ BeginsStatement(here)
      /\ Below(callers, Len(callers)) = c /\ c \in {"block", "else arm"}
  BY <1>1, AtStatementWell
<1>3. \A wanted : omnomnom(wanted) => status' = status
  BY DEF omnomnom, outcome
<1>4. "if" \in Kind /\ "(" \in Kind /\ "while" \in Kind /\ "return" \in Kind
  BY TokensAreKinds
<1>5. \A e \in Derivable.expression \cap Phrase :
         /\ Then(Then(some, e), Semi) \in Derivable.closed
         /\ Then(Then(expression, e), Semi) \in Derivable.closed
         /\ BeginsStatement(Then(Then(while, e), Paren))
         /\ BehindCondition(Then(Then(if, e), Paren))
  BY <1>2, StatementsBegin
<1> HIDE DEF c, if, while, some, expression
<1>6. CASE If
  <2>1. Invoke("unary", "if arm", expr \o <<"If">>) /\ omnomnom(<<{"if"}, {"("}>>)
    BY <1>6, Appended DEF If, Call
  <2>2. next' \in next..Len(input) /\ Word(input, next, next') = <<"if", "(">>
    BY <1>4, <2>1, TwoRead
  <2>3. \A ahead : \A e \in Derivable.expression \cap Phrase : Reached("if arm", c, Then(if, e), ahead)
    BY <1>2, <1>5, ReachedStatement
  <2>4. /\ Awaits("if arm", c, if) /\ "if arm" \notin Waiting
        /\ Reached("unary", "if arm", NoWords, peek')
    BY <2>3, ExpressionFollows
  <2>5. WellBegun'
    BY <1>2, <2>1, <2>2, <2>4, ReadsOn DEF if
  <2> QED
    BY <1>2, <1>3, <2>1, <2>5
<1>7. CASE While
  <2>1. Invoke("unary", "while body", expr \o <<"While">>) /\ omnomnom(<<{"while"}, {"("}>>)
    BY <1>7, Appended DEF While, Call
  <2>2. next' \in next..Len(input) /\ Word(input, next, next') = <<"while", "(">>
    BY <1>4, <2>1, TwoRead
  <2>3. \A ahead : \A e \in Derivable.expression \cap Phrase :
           Reached("while body", c, Then(while, e), ahead)
    BY <1>2, <1>5, ReachedStatement
  <2>4. /\ Awaits("while body", c, while) /\ "while body" \notin Waiting
        /\ Reached("unary", "while body", NoWords, peek')
    BY <2>3, ExpressionFollows
  <2>5. WellBegun'
    BY <1>2, <2>1, <2>2, <2>4, ReadsOn DEF while
  <2> QED
    BY <1>2, <1>3, <2>1, <2>5
<1>8. CASE ReturnValue
  <2>1. Invoke("unary", "semicolon", expr \o <<"Return", "Some">>) /\ omnomnom(<<{"return"}>>)
    BY <1>8 DEF ReturnValue, Call
  <2>2. next' \in next..Len(input) /\ Word(input, next, next') = <<"return">>
    BY <1>4, <2>1, TokenRead
  <2>3. \A ahead : \A e \in Derivable.expression \cap Phrase :
           Reached("semicolon", c, Then(some, e), ahead)
    BY <1>2, <1>5, ReachedStatement
  <2>4. /\ Awaits("semicolon", c, some) /\ "semicolon" \notin Waiting
        /\ Reached("unary", "semicolon", NoWords, peek')
    BY <2>3, ExpressionFollows
  <2>5. WellBegun'
    BY <1>2, <2>1, <2>2, <2>4, ReadsOn DEF some
  <2> QED
    BY <1>2, <1>3, <2>1, <2>5
<1>9. CASE ExpressionStatement
  <2>1. Invoke("unary", "semicolon", expr \o <<"Expression">>) /\ Stay /\ input' = input
    BY <1>9, Appended DEF ExpressionStatement, Call, Invoke
  <2>2. next' \in next..Len(input) /\ Word(input, next, next') = <<>>
    BY <2>1, NothingRead
  <2>3. \A ahead : \A e \in Derivable.expression \cap Phrase :
           Reached("semicolon", c, Then(expression, e), ahead)
    BY <1>2, <1>5, ReachedStatement
  <2>4. /\ Awaits("semicolon", c, expression) /\ "semicolon" \notin Waiting
        /\ Reached("unary", "semicolon", NoWords, peek')
    BY <2>3, ExpressionFollows
  <2>5. WellBegun'
    BY <1>2, <2>1, <2>2, <2>4, ReadsOn DEF expression
  <2> QED
    BY <1>2, <2>1, <2>5 DEF Stay, outcome
<1> QED
  BY <1>6, <1>7, <1>8, <1>9

\* A declaration, with its type and behind it.
LEMMA DeclarationWell ==
    ASSUME IsProgramLanguage(Derivable), ParseInv, WellBegun, LocalVariableDeclaration
    PROVE  WellBegun' /\ status' # "accepted"
<1> DEFINE begin == <<<<>>, <<"LocalVariableDeclaration">>>>
<1>1. AtStatement /\ allow_local_var_decl /\ Stay
      /\ Invoke("type", "variable", expr \o <<"LocalVariableDeclaration">>)
  BY Appended DEF LocalVariableDeclaration, DeclarationAhead, TypeAhead
<1>2. /\ status = "parsing" /\ here = NoWords /\ Below(callers, Len(callers)) = "block"
  BY <1>1, AtStatementWell
<1>3. next' \in next..Len(input) /\ Word(input, next, next') = <<>>
  BY <1>1, NothingRead DEF Invoke
<1>4. begin \in Phrase
  BY SmallPhrases DEF Nodes
<1>5. \A t \in Derivable.type \cap Phrase : BehindType(Then(begin, t))
  BY DeclarationDerived
<1> HIDE DEF begin
<1>6. Then(here, begin) = begin
  BY <1>2, <1>4, NoWordsThen
<1>7. Awaits("variable", "block", begin)
  BY <1>5, ReturnableTo, ReachedBelow DEF Awaits
<1>8. Reached("type", "variable", NoWords, peek') /\ "variable" \notin Waiting
  BY ReachedBelow DEF Waiting
<1>9. WellBegun'
  BY <1>1, <1>2, <1>3, <1>6, <1>7, <1>8, ReadsOn DEF begin
<1> QED
  BY <1>1, <1>2, <1>9 DEF Stay, outcome

LEMMA VariableWell ==
    ASSUME IsProgramLanguage(Derivable), ParseInv, WellBegun, Variable
    PROVE  WellBegun' /\ status' # "accepted"
<1>1. status = "parsing" /\ at = "variable" /\ at \notin Top /\ at \notin Places
  BY DEF Variable, Running, Top, Places
<1>2. here \in Phrase /\ BehindType(here) /\ Below(callers, Len(callers)) = "block"
  BY <1>1, WellReady, ReachedBelow
<1>3. caller.at = "block"
  BY <1>1, <1>2, CallerBelow
<1>4. \A wanted : omnomnom(wanted) => status' = status
  BY DEF omnomnom, outcome
<1>5. ";" \in Kind /\ "=" \in Kind /\ <<"None">> \in Seq(F.symbols)
  BY TokensAreKinds, ProgramSymbols DEF Nodes
<1>6. CASE omnomnom(<<Identifiers, {";"}>>) /\ Finish(Append(expr, "None"))
  <2>1. PICK id \in Identifiers : Word(input, next, next') = <<id, ";">>
    BY <1>5, <1>6, TwoRead
  <2>2. next' \in next..Len(input) /\ Finish(expr \o <<"None">>)
    BY <1>5, <1>6, TwoRead, Appended
  <2> DEFINE p == Then(here, <<<<id, ";">>, <<"None">>>>)
  <2>3. p \in Derivable.declaration
    BY <1>2 DEF BehindType
  <2> HIDE DEF p
  <2>4. p \in Returnable(caller.at, peek')
    BY <1>3, <2>3, BlockStatementsAre, ReturnableTo
  <2>5. WellBegun'
    BY <1>1, <1>5, <2>1, <2>2, <2>4, ReadsToEnd DEF p
  <2> QED
    BY <1>1, <1>4, <1>6, <2>5
<1>7. CASE omnomnom(<<Identifiers, {"="}>>) /\ Call("semicolon", Append(expr, "Some"))
  <2>1. PICK id \in Identifiers : Word(input, next, next') = <<id, "=">>
    BY <1>5, <1>7, TwoRead
  <2>2. next' \in next..Len(input) /\ Invoke("unary", "semicolon", expr \o <<"Some">>)
    BY <1>5, <1>7, TwoRead, Appended DEF Call
  <2> DEFINE p == Then(here, <<<<id, "=">>, <<"Some">>>>)
  <2>3. \A e \in Derivable.expression \cap Phrase : Then(Then(p, e), Semi) \in Derivable.declaration
    BY <1>2 DEF BehindType, After
  <2> HIDE DEF p
  <2>4. \A ahead : \A e \in Derivable.expression \cap Phrase :
           Reached("semicolon", "block", Then(p, e), ahead)
    BY <2>3, ReachedStatement
  <2>5. /\ Awaits("semicolon", "block", p) /\ "semicolon" \notin Waiting
        /\ Reached("unary", "semicolon", NoWords, peek')
    BY <2>4, ExpressionFollows
  <2>6. WellBegun'
    BY <1>1, <1>2, <2>1, <2>2, <2>5, ReadsOn DEF p
  <2> QED
    BY <1>1, <1>4, <1>7, <2>6
<1> QED
  BY <1>6, <1>7 DEF Variable

\* Between the parts of a statement.
LEMMA ArmsWell ==
    ASSUME IsProgramLanguage(Derivable), ParseInv, WellBegun,
           IfArm \/ ElseArm \/ NoElseArm \/ WhileBody \/ Semicolon
    PROVE  WellBegun' /\ status' # "accepted"
<1> DEFINE c == caller.at
<1>1. /\ status = "parsing" /\ at \in {"if arm", "else arm", "while body", "semicolon"}
      /\ at \notin Top /\ at \notin Places
  BY DEF IfArm, ElseArm, NoElseArm, WhileBody, Semicolon, Running, Top, Places
<1>2. /\ here \in Phrase /\ here[2] = expr /\ expr \in Seq(F.symbols) /\ Reached(at, c, here, peek)
      /\ Below(callers, Len(callers)) = c
  BY <1>1, WellReady, CallerBelow
<1>3. c \in {"block", "else arm"}
  BY <1>1, <1>2, ReachedStatement
<1> HIDE DEF c
<1>4. \A wanted : omnomnom(wanted) => status' = status
  BY DEF omnomnom, outcome
<1>5. /\ ")" \in Kind /\ ";" \in Kind /\ "else" \in Kind
      /\ <<"None">> \in Seq(F.symbols) /\ <<>> \in Seq(F.symbols)
  BY TokensAreKinds, ProgramSymbols DEF Nodes
<1>6. expr \o <<>> = expr
  BY <1>2, ConcatEmptySeq
<1>7. CASE IfArm
  <2>1. /\ Invoke("statement", "else arm", expr \o <<>>) /\ omnomnom(<<{")"}>>) /\ at = "if arm"
    BY <1>6, <1>7 DEF IfArm, Running
  <2>2. next' \in next..Len(input) /\ Word(input, next, next') = <<")">>
    BY <1>5, <2>1, TokenRead
  <2> DEFINE p == Then(here, Paren)
  <2>3. BehindCondition(p)
    BY <1>2, <2>1, ReachedStatement
  <2> HIDE DEF p
  <2>4. Awaits("else arm", c, p)
    <3> SUFFICES ASSUME NEW ahead, NEW r \in Arms(ahead) \cap Phrase
                 PROVE  BehindArm(Then(p, r), ahead)
      BY <1>3, ReturnableTo, ReachedStatement DEF Awaits
    <3>1. r \in Derivable.closed \cup Derivable.open /\ (ahead = "else" => r \in Derivable.closed)
      BY DEF Arms
    <3> QED
      BY <2>3, <3>1 DEF BehindCondition, BehindArm, After
  <2>5. Reached("statement", "else arm", NoWords, peek') /\ "else arm" \notin Waiting
    BY NoWordsBegins, ReachedStatement DEF Waiting
  <2>6. WellBegun'
    BY <1>1, <1>2, <2>1, <2>2, <2>4, <2>5, ReadsOn DEF p, Paren
  <2> QED
    BY <1>1, <1>4, <2>1, <2>6
<1>8. CASE ElseArm
  <2>1. Goto("statement", expr \o <<"Some">>) /\ omnomnom(<<{"else"}>>) /\ at = "else arm"
    BY <1>8, Appended DEF ElseArm, Running
  <2>2. next' \in next..Len(input) /\ Word(input, next, next') = <<"else">> /\ peek = "else"
    BY <1>5, <2>1, TokenRead
  <2> DEFINE p == Then(here, Else)
  <2>3. BeginsStatement(p)
    BY <1>2, <2>1, <2>2, ReachedStatement DEF BehindArm
  <2> HIDE DEF p
  <2>4. Reached("statement", c, p, peek')
    BY <1>3, <2>3, ReachedStatement
  <2>5. WellBegun'
    BY <1>1, <1>2, <2>1, <2>2, <2>4, ReadsOn DEF p, Else
  <2> QED
    BY <1>1, <1>4, <2>1, <2>5
<1>9. CASE NoElseArm
  <2>1. /\ Finish(expr \o <<"None">>) /\ Stay /\ at = "else arm" /\ peek # "else"
        /\ input' = input
    BY <1>9, Appended DEF NoElseArm, Running, Finish, Return
  <2>2. next' \in next..Len(input) /\ Word(input, next, next') = <<>> /\ peek' # "else"
    BY <2>1, NothingRead
  <2>3. Then(here, <<<<>>, <<"None">>>>) \in Derivable.open
    BY <1>2, <2>1, ReachedStatement DEF BehindArm, NoElse
  <2>4. WellBegun'
    BY <1>1, <1>3, <1>5, <2>1, <2>2, <2>3, StatementEnds DEF c
  <2> QED
    BY <1>1, <2>1, <2>4 DEF Stay, outcome
<1>10. CASE WhileBody
  <2>1. Goto("statement", expr \o <<>>) /\ omnomnom(<<{")"}>>) /\ at = "while body"
    BY <1>6, <1>10 DEF WhileBody, Running
  <2>2. next' \in next..Len(input) /\ Word(input, next, next') = <<")">>
    BY <1>5, <2>1, TokenRead
  <2> DEFINE p == Then(here, Paren)
  <2>3. BeginsStatement(p)
    BY <1>2, <2>1, ReachedStatement
  <2> HIDE DEF p
  <2>4. Reached("statement", c, p, peek')
    BY <1>3, <2>3, ReachedStatement
  <2>5. WellBegun'
    BY <1>1, <1>2, <2>1, <2>2, <2>4, ReadsOn DEF p, Paren
  <2> QED
    BY <1>1, <1>4, <2>1, <2>5
<1>11. CASE Semicolon
  <2>1. Finish(expr \o <<>>) /\ omnomnom(<<{";"}>>) /\ at = "semicolon"
    BY <1>6, <1>11 DEF Semicolon, Running
  <2>2. next' \in next..Len(input) /\ Word(input, next, next') = <<";">>
    BY <1>5, <2>1, TokenRead
  <2> DEFINE p == Then(here, Semi)
  <2>3. p \in Derivable.closed \/ (p \in Derivable.declaration /\ c = "block")
    <3> DEFINE D == Derivable.declaration
    <3>1. p \in Derivable.closed \cup IF c = "block" THEN D ELSE {}
      BY <1>2, <2>1, ReachedStatement
    <3> HIDE DEF p, D
    <3> QED
      BY <3>1 DEF D
  <2> HIDE DEF p
  <2>4. p \in Returnable(c, peek')
    <3>1. CASE c = "block"
      BY <2>3, <3>1, BlockStatementsAre, ReturnableTo
    <3>2. CASE c = "else arm"
      BY <2>3, <3>2, BlockStatementsAre, ReturnableTo
    <3> QED
      BY <1>3, <3>1, <3>2
  <2>5. WellBegun'
    BY <1>1, <1>5, <2>1, <2>2, <2>4, ReadsToEnd DEF p, Semi, c
  <2> QED
    BY <1>1, <1>4, <2>1, <2>5
<1> QED
  BY <1>7, <1>8, <1>9, <1>10, <1>11

LEMMA BlockWell ==
    ASSUME IsProgramLanguage(Derivable), ParseInv, WellBegun, EndOfBlock \/ NextStatement
    PROVE  WellBegun' /\ status' # "accepted"
<1> DEFINE c == caller.at
           L == IF c = "class" THEN Derivable.block ELSE Derivable.closed
<1>1. status = "parsing" /\ at = "block" /\ at \notin Top /\ at \notin Places
  BY DEF EndOfBlock, NextStatement, Running, Top, Places
<1>2. /\ here \in Phrase /\ here[2] = expr /\ expr \in Seq(F.symbols) /\ Reached(at, c, here, peek)
      /\ Below(callers, Len(callers)) = c
  BY <1>1, WellReady, CallerBelow
<1> HIDE DEF c
<1>3. After(here, Derivable.block, L) /\ c \in {"class", "block", "else arm"}
  BY <1>1, <1>2, ReachedBelow
<1>4. "}" \in Kind /\ <<"}">> \in Seq(F.symbols)
  BY TokensAreKinds, ProgramSymbols
<1>5. CASE EndOfBlock
  <2>1. Finish(expr \o <<"}">>) /\ omnomnom(<<{"}"}>>)
    BY <1>5, Appended DEF EndOfBlock
  <2>2. next' \in next..Len(input) /\ Word(input, next, next') = <<"}">>
    BY <1>4, <2>1, TokenRead
  <2>3. <<<<"}">>, <<"}">>>> \in Derivable.block \cap Phrase
    BY <1>4, BlocksDerived, SmallPhrases
  <2> DEFINE p == Then(here, <<<<"}">>, <<"}">>>>)
  <2>4. p \in L
    BY <1>3, <2>3 DEF After
  <2> HIDE DEF p
  <2>5. p \in Returnable(c, peek')
    <3>1. CASE c = "class"
      BY <2>4, <3>1, ReturnableTo
    <3>2. CASE c = "block"
      BY <2>4, <3>2, BlockStatementsAre, ReturnableTo
    <3>3. CASE c = "else arm"
      BY <2>4, <3>3, BlockStatementsAre, ReturnableTo
    <3> QED
      BY <1>3, <3>1, <3>2, <3>3
  <2>6. WellBegun'
    BY <1>1, <1>4, <2>1, <2>2, <2>5, ReadsToEnd DEF p, c
  <2> QED
    BY <1>1, <2>1, <2>6 DEF omnomnom, outcome
<1>6. CASE NextStatement
  <2>1. Invoke("block statement", "block", expr \o <<>>) /\ Stay /\ input' = input
    BY <1>2, <1>6, ConcatEmptySeq DEF NextStatement, Invoke
  <2>2. next' \in next..Len(input) /\ Word(input, next, next') = <<>>
    BY <2>1, NothingRead
  <2>3. Then(here, NoWords) = here
    BY <1>2, NoWordsThen
  <2>4. Awaits("block", c, here)
    <3> HIDE DEF L
    <3>1. ASSUME NEW s \in BlockStatements(Derivable) \cap Phrase
          PROVE  After(Then(here, s), Derivable.block, L)
      BY <1>2, <1>3, BlocksDerived, AfterThen
    <3> QED
      BY <1>3, <3>1, ReturnableTo, ReachedBelow DEF Awaits, L
  <2>5. Reached("block statement", "block", NoWords, peek') /\ "block" \notin Waiting
    BY ReachedBelow DEF Waiting
  <2>6. WellBegun'
    BY <1>1, <1>2, <2>1, <2>2, <2>3, <2>4, <2>5, ReadsOn DEF NoWords
  <2> QED
    BY <1>1, <2>1, <2>6 DEF Stay, outcome
<1> QED
  BY <1>5, <1>6

\* An expression is returned to a statement.
LEMMA ExpressionReturnsWell ==
    ASSUME ParseInv, Built(F.symbols), WellBegun, ExpressionReturns
    PROVE  WellBegun' /\ status' # "accepted"
<1> DEFINE c == caller.at
<1>1. /\ status = "parsing" /\ at = "return" /\ at \notin Top /\ at \in Places /\ Stay
      /\ Finish(expr) /\ callers # <<>> /\ caller.at \notin Waiting /\ input' = input
  BY DEF ExpressionReturns, Running, Top, Places, Finish, Return
<1>2. /\ here \in Phrase /\ here[2] = expr /\ expr \in Seq(F.symbols)
      /\ Reached(at, Below(callers, Len(callers)), here, peek)
      /\ Below(callers, Len(callers)) = c
  BY <1>1, WellReady, CallerBelow
<1> HIDE DEF c
<1>3. c \in {"if arm", "while body", "semicolon"}
  <2>1. c \in Expecting
    BY <1>1, <1>2, ReachedBelow
  <2> QED
    BY <1>1, <2>1 DEF Expecting, c
<1>4. here \in Derivable.expression
  BY <1>1 DEF Built, Runs, Current, here
<1>5. next' \in next..Len(input) /\ Word(input, next, next') = <<>>
  BY <1>1, NothingRead
<1>6. <<here[1] \o Word(input, next, next'), expr>> = here
  <2>1. here[1] \o <<>> = here[1] /\ here = <<here[1], here[2]>>
    BY <1>2, PhraseIs, ConcatEmptySeq
  <2> QED
    BY <1>2, <1>5, <2>1
<1>7. here \in Returnable(c, peek')
  BY <1>3, <1>4, ReturnableTo
<1>8. WellBegun'
  BY <1>1, <1>2, <1>5, <1>6, <1>7, WellReturns DEF c
<1> QED
  BY <1>1, <1>8 DEF Stay, outcome

LEMMA StatementsWell ==
    ASSUME IsProgramLanguage(Derivable), ParseInv, Built(F.symbols), WellBegun, Statements
    PROVE  WellBegun' /\ status' # "accepted"
<1>1. CASE UndecidedStatement \/ NoStatement
  <2>1. \A wanted : Unexpected(wanted) => status' = "error"
    BY DEF Unexpected, Reject
  <2>2. status' = "error"
    BY <1>1, <2>1 DEF UndecidedStatement, NoStatement, Reject
  <2> QED
    BY <2>2, WellStops
<1>2. CASE ~(UndecidedStatement \/ NoStatement)
  BY <1>2, SimpleWell, CallingWell, DeclarationWell, VariableWell, ArmsWell, BlockWell,
     ExpressionReturnsWell DEF Statements
<1> QED
  BY <1>1, <1>2

-----------------------------------------------------------------------------
(***************************************************************************)
(* The handlers of expressions change only the activations above the       *)
(* statement that waits for the expression.                                *)
(***************************************************************************)
LEMMA InputStays ==
    ASSUME Next
    PROVE  input' = input
<1>1. \A to, e : Goto(to, e) => input' = input
  BY DEF Goto
<1>2. \A wanted : Unexpected(wanted) => input' = input
  BY DEF Unexpected, Reject
<1>3. \A o : rpn_eval(o) => input' = input
  BY DEF rpn_eval, Panic
<1>4. \A from, e : Call(from, e) => input' = input
  BY DEF Call, Invoke
<1>5. \A callee, upTo : Arguments(callee, upTo) => input' = input
  BY <1>1, <1>4 DEF Arguments
<1>6. \A to, e : Return(to, e) => input' = input
  BY DEF Return
<1>7. CASE Primary
  BY <1>1, <1>2, <1>4, <1>5, <1>7 DEF Primary, Literal, Var, ThisMethodInvocation, Parenthesis,
     NoPrimary, New, NewObject, NewArrayOf, NewTypeAtEnd, NewUnexpected, NewArrayDimension,
     NewArrayDone, NewArrayAtEnd, Reject
<1>8. CASE Postfix
  BY <1>1, <1>2, <1>4, <1>5, <1>8 DEF Postfix, MethodInvocation, MemberReference, NoMember, Index,
     EndOfPostfix
<1>9. CASE UnaryOp \/ ApplyUnary \/ BinaryExpression
  BY <1>1, <1>3, <1>9 DEF UnaryOp, ApplyUnary, BinaryExpression, PushOperand, TakeOperator, Reduce,
     PushOperator, ConsumeRemaining, EndOfBinary, Panic
<1>10. CASE Returns
  BY <1>2, <1>6, <1>10 DEF Returns, ParenthesisReturns, IndexReturns, SizeReturns, ArgumentsReturn,
     NextArgument, Accept, NoEndOfExpression
<1> QED
  BY <1>7, <1>8, <1>9, <1>10 DEF Next

LEMMA ExpressionsWell ==
    ASSUME ParseInv, WellBegun, Next
    PROVE  WellBegun' /\ status' # "accepted"
<1> DEFINE m == Len(callers)
           below == Below(callers, m)
<1>1. at \in Places /\ at' \in Places /\ at \notin Top /\ callers # <<>>
  <2>1. at \in Places /\ at' \in Places
    BY Expressions
  <2>2. Places \cap Top = {}
    BY DEF Places, Top
  <2> QED
    BY <2>1, <2>2 DEF ParseInv, Called
<1>2. status = "parsing" /\ status' # "accepted"
  BY <1>1, OnlyAcceptAccepts DEF Accept
<1>3. /\ Reached(at, below, here, peek) /\ AllSuspended(input, callers)
      /\ callers \in Seq(Activation(F))
  BY <1>2, WellReady
<1>4. below \in Expecting
  BY <1>1, <1>3, ReachedBelow
<1>5. input' = input
  BY InputStays
<1>6. SUFFICES AllSuspended(input, callers') /\ Below(callers', Len(callers')) \in Expecting
  <2>1. Reached(at', Below(callers', Len(callers')), here', peek')
    BY <1>1, <1>6, ReachedBelow
  <2>2. AllSuspended(input', callers')
    BY <1>5, <1>6
  <2> QED
    BY <1>2, <2>1, <2>2 DEF WellBegun
<1>7. Waiting \subseteq Expecting
  BY DEF Expecting
<1>8. Typed(F) /\ Typed(F)' /\ Progress(Fresh, 0) /\ Places \cap Fresh = {"unary"}
  <2>1. Inv(F)'
    BY ExpressionSteps
  <2> QED
    BY <2>1 DEF ParseInv, Inv, Places, Fresh
<1>9. Stays(Fresh) \/ Calls(Fresh, 0) \/ Returns
  <2>1. CASE UnaryOp \/ ApplyUnary \/ BinaryExpression
    BY <1>8, <2>1, UnaryAndBinarySteps
  <2>2. CASE Primary
    BY <1>8, <2>2, PrimarySteps
  <2>3. CASE Postfix
    BY <1>8, <2>3, PostfixSteps
  <2> QED
    BY <2>1, <2>2, <2>3 DEF Next
<1>10. CASE Stays(Fresh)
  BY <1>3, <1>4, <1>10 DEF Stays
<1>11. CASE Calls(Fresh, 0)
  <2>1. PICK c : c.at \in Waiting /\ callers' = Append(callers, c)
    BY <1>1, <1>11 DEF Calls
  <2>2. Suspended(input, c, below, From(callers, m))
    BY <1>4, <2>1 DEF Suspended
  <2>3. Below(Append(callers, c), Len(Append(callers, c))) = c.at /\ AllSuspended(input, Append(callers, c))
    BY <1>3, <2>2, SuspendedLonger
  <2> QED
    BY <1>7, <2>1, <2>3
<1>12. CASE Returns /\ ReturnsFrom
  <2> DEFINE s == SubSeq(callers, 1, m - 1)
  <2>1. caller.at \in Waiting
    BY <1>1, <1>12 DEF Returns, ParenthesisReturns, IndexReturns, SizeReturns, ArgumentsReturn,
       NextArgument, Accept, NoEndOfExpression, ReturnsTo, Waiting
  <2>2. callers' = s
    BY <1>12 DEF ReturnsFrom
  <2>3. /\ Below(s, Len(s)) = Below(callers, m - 1) /\ AllSuspended(input, s)
        /\ Suspended(input, callers[m], Below(callers, m - 1), From(callers, m - 1))
    BY <1>1, <1>3, SuspendedShorter
  <2> HIDE DEF s
  <2>4. Below(s, Len(s)) \in Expecting
    BY <2>1, <2>3 DEF Suspended, caller
  <2> QED
    BY <2>2, <2>3, <2>4
<1>13. CASE Returns /\ CallsAgain(Fresh, 0)
  <2>1. caller.at \in Waiting
    BY <1>1, <1>13 DEF Returns, ParenthesisReturns, IndexReturns, SizeReturns, ArgumentsReturn,
       NextArgument, Accept, NoEndOfExpression, ReturnsTo, Waiting
  <2>2. PICK c : c.at = caller.at /\ callers' = [callers EXCEPT ![m] = c]
    BY <1>13 DEF CallsAgain
  <2> DEFINE s == [callers EXCEPT ![m] = c]
  <2>3. AllSuspended(input, s) /\ Below(s, Len(s)) = c.at
    BY <1>1, <1>3, <2>1, <2>2, SuspendedTop DEF caller
  <2> HIDE DEF s
  <2>4. callers' = s
    BY <2>2 DEF s
  <2> QED
    BY <1>7, <2>1, <2>2, <2>3, <2>4
<1>14. CASE Returns
  BY <1>8, <1>10, <1>12, <1>13, <1>14, ReturnsSteps
<1> QED
  BY <1>9, <1>10, <1>11, <1>14

-----------------------------------------------------------------------------
(***************************************************************************)
(* The handlers of programs leave the invariant of expressions alone: they *)
(* are at none of its places, or begin an expression.                      *)
(***************************************************************************)
LEMMA HandledBuilt ==
    ASSUME ParseInv, Built(F.symbols), status = "parsing", Handled
    PROVE  Built(F.symbols)'
<1> DEFINE S == F.symbols
           a == From(callers, Len(callers))
<1>1. /\ Typed(F) /\ AllWait(S, input, callers) /\ next \in Nat /\ Len(input) \in Nat
      /\ callers \in Seq(Activation(F))
  BY Symbols, Ready DEF ParseInv
<1>2. PICK n : n = next'
  OBVIOUS
<1>3. Reads(0) => n \in 0..Len(input)
  BY <1>2, Reading
<1> HIDE DEF S
<1>4. CASE GoesOn
  <2>1. PICK to \in F.places \ Places, e \in Trees(F) : Goto(to, e)
    BY <1>4 DEF GoesOn
  <2>2. input' = input /\ callers' = callers /\ at' = to
    BY <2>1 DEF Goto
  <2>3. \A x1, x2, x3, x4, x5 : Current(S, input, to, x1, x2, x3, x4, x5, a, n)
    BY <2>1 DEF Current, UnaryPlaces, Places
  <2> HIDE DEF a
  <2>4. Current(S, input, at', operand_stack', operator_stack', ops', expr', op', a, n)
    BY <2>2, <2>3
  <2> QED
    BY <1>1, <1>2, <2>2, <2>4, BuiltStays DEF a, S
<1>5. CASE Invokes
  <2>1. PICK to \in Fresh, from \in F.waits \ Waiting, e \in Trees(F) : Invoke(to, from, e)
    BY <1>5 DEF Invokes
  <2>2. to \in Places => to = "unary"
    BY DEF Fresh, Places
  <2>3. n \in 0..Len(input)
    BY <1>3, <1>5 DEF Invokes
  <2> QED
    BY <1>1, <1>2, <2>1, <2>2, <2>3, BuiltCalls DEF S
<1>6. CASE Finishes
  <2>1. PICK e \in Trees(F) : Return(caller.at, caller.expr \o e)
    BY <1>6 DEF Finishes, Finish
  <2>2. callers # <<>>
    BY <1>6 DEF Finishes, ParseInv, Called
  <2>3. caller.at \notin Waiting
    BY <1>6, <2>2 DEF Finishes, ParseInv, Nested
  <2>4. caller \in Activation(F)
    <3>1. Len(callers) \in Nat /\ Len(callers) >= 1
      BY <1>1, <2>2, StartsAreNat
    <3> QED
      BY <1>1, <3>1, ElementOfSeq DEF caller
  <2>5. caller.at \notin Places
    BY <2>3, <2>4 DEF Activation, F, ParserFunctions, Places
  <2> QED
    BY <1>1, <1>2, <2>1, <2>2, <2>5, BuiltReturns DEF S
<1>7. CASE Fails \/ Accepts
  <2>1. status' # "parsing"
    BY <1>7 DEF Fails, Accepts, Reject, AcceptFile
  <2> QED
    BY <2>1, Stops
<1> QED
  BY <1>4, <1>5, <1>6, <1>7 DEF Handled

-----------------------------------------------------------------------------
(***************************************************************************)
(* The invariant of the parser, with what it has built.                    *)
(***************************************************************************)
ProgramInv == /\ ParseInv
              /\ Built(F.symbols)
              /\ WellBegun
              /\ BuildsTheProgram

LEMMA ProgramInit == ParseInit => ProgramInv
<1> SUFFICES ASSUME ParseInit PROVE ProgramInv
  OBVIOUS
<1>1. /\ ParseInv /\ input \in Seq(Kind) /\ next = 0 /\ callers = <<>> /\ at = "file"
      /\ expr = <<>> /\ status = "parsing"
  BY ParseInitInv, FilesAssumption DEF ParseInit
<1>2. Len(callers) = 0 /\ From(callers, Len(callers)) = 0 /\ Below(callers, Len(callers)) = "none"
  BY <1>1, EmptySeq DEF From, Below
<1>3. Built(F.symbols)
  <2> DEFINE S == F.symbols
  <2> HIDE DEF S
  <2>1. AllWait(S, input, callers)
    BY <1>2 DEF AllWait
  <2>2. Runs(S, input, From(callers, Len(callers)), next)
    BY <1>1 DEF Runs, Current, UnaryPlaces
  <2> QED
    BY <2>1, <2>2 DEF Built, S
<1>4. here = NoWords
  BY <1>1, <1>2, WordEmpty DEF here, NoWords
<1>5. AllSuspended(input, callers)
  BY <1>2 DEF AllSuspended
<1>6. Reached(at, Below(callers, Len(callers)), here, peek)
  BY <1>1, <1>2, <1>4, ReachedTop
<1> QED
  BY <1>1, <1>3, <1>5, <1>6 DEF ProgramInv, WellBegun, BuildsTheProgram

LEMMA ProgramRuns ==
    ASSUME Classes \/ Members \/ Types \/ Statements
    PROVE  status = "parsing"
<1>1. CASE Classes
  BY <1>1 DEF Classes, EmptyFile, Program, EndOfFile, ClassDeclaration, NoClassDeclaration,
     EndOfClass, Running
<1>2. CASE Members
  BY <1>2 DEF Members, MainMethod, TypedMember, NoClassMember, Field, Method, NoMemberEnd,
     NextParameter, LastParameter, NoParameterEnd, Body, NoBody, Running
<1>3. CASE Types
  BY <1>3 DEF Types, BasicType, NoBasicType, ArrayType, NoArrayType, EndOfType, Running
<1>4. CASE Statements
  BY <1>4 DEF Statements, EndOfBlock, NextStatement, Block, EmptyStatement, If, IfArm, ElseArm,
     NoElseArm, While, WhileBody, ReturnNothing, ReturnValue, UndecidedStatement,
     LocalVariableDeclaration, Variable, ExpressionStatement, Semicolon, NoStatement,
     ExpressionReturns, AtStatement, Running
<1> QED
  BY <1>1, <1>2, <1>3, <1>4

LEMMA ProgramStep ==
    ASSUME IsProgramLanguage(Derivable), ProgramInv, [ParseNext]_vars
    PROVE  ProgramInv'
<1>1. ParseInv'
  BY ParseStepInv DEF ProgramInv
<1>2. ParseInv /\ Built(F.symbols) /\ WellBegun /\ BuildsTheProgram
  BY DEF ProgramInv
<1>3. CASE Next
  <2>1. Built(F.symbols)'
    BY <1>2, <1>3, Symbols, ExpressionsBuild DEF IsProgramLanguage, ParseInv
  <2>2. WellBegun' /\ BuildsTheProgram'
    BY <1>2, <1>3, ExpressionsWell DEF BuildsTheProgram
  <2> QED
    BY <1>1, <2>1, <2>2 DEF ProgramInv
<1>4. CASE Classes \/ Members \/ Types \/ Statements
  <2>1. WellBegun' /\ (status' = "accepted" => BuildsTheProgram')
    BY <1>2, <1>4, ClassesWell, MembersWell, TypesWell, StatementsWell
  <2>2. BuildsTheProgram'
    BY <2>1 DEF BuildsTheProgram
  <2>3. Handled
    BY <1>2, <1>4, ClassesHandled, MembersHandled, TypesHandled, StatementsHandled
  <2>4. Built(F.symbols)'
    BY <1>2, <1>4, <2>3, ProgramRuns, HandledBuilt
  <2> QED
    BY <1>1, <2>1, <2>2, <2>4 DEF ProgramInv
<1>5. CASE UNCHANGED vars
  <2>1. UNCHANGED <<input, next, callers, at, operand_stack, operator_stack, ops, expr, op, status>>
    BY <1>5 DEF vars, stacks, outcome
  <2>2. Built(F.symbols)'
    BY <1>2, <2>1 DEF Built, Runs
  <2>3. here' = here /\ peek' = peek
    BY <2>1 DEF here, peek, peek_nth, token
  <2>4. WellBegun' /\ BuildsTheProgram'
    BY <1>2, <2>1, <2>3 DEF WellBegun, BuildsTheProgram
  <2> QED
    BY <1>1, <2>2, <2>4 DEF ProgramInv
<1> QED
  BY <1>3, <1>4, <1>5 DEF ParseNext

(***************************************************************************)
(* Whatever file is accepted is a program of the grammar with its tree, in *)
(* every language that is closed under the rules: the `else` belongs to    *)
(* the innermost `if`, and no lookahead leads to another tree than that of *)
(* what is read then (parser.rs:288-526, 541-743).                         *)
(***************************************************************************)
THEOREM ParserBuildsTheProgram ==
    ASSUME IsProgramLanguage(Derivable)
    PROVE  ParseSpec => []BuildsTheProgram
<1>1. ParseInit => ProgramInv
  BY ProgramInit
<1>2. ProgramInv /\ [ParseNext]_vars => ProgramInv'
  BY ProgramStep
<1>3. ProgramInv => BuildsTheProgram
  BY DEF ProgramInv
<1> QED
  BY <1>1, <1>2, <1>3, PTL DEF ParseSpec
=============================================================================
