------------------------------ MODULE MCParser ------------------------------
(***************************************************************************)
(* Parser on every program over small sets of members and statements, and  *)
(* on every beginning of one with every token after it; compared with what *)
(* the grammar derives.                                                    *)
(***************************************************************************)
EXTENDS Grammar, FiniteSets

CONSTANTS StatementLen,       \* tokens in the body of a method,
          WrongLen,           \* and in a body with a wrong token
          NestedLen,          \* the same for bodies that nest statements only
          WrongNestedLen

BodyTokens == {"identifier", "[", "]", "=", "int", ";", "{", "}", "return",
                    "if", "while", "else", "(", ")"}
NestedTokens == {"identifier", ";", "if", "while", "else", "(", ")"}

Lists(T, n) == BlocksUpTo(T, Language(T \ {"(", ")"}, FirstReadInnermost, n), n)

Names == {"identifier"}

\* Programs of one class with one method; only the statements vary.
WithBody(lists) ==
    Programs(ClassDeclarations(Names, Concat(
        Methods(SimpleTypes({"void"}), Names, NoArguments, Blocks(lists)), ClosingBrace)))

MethodsWith(n, nested) == WithBody(Lists(BodyTokens, n) \cup Lists(NestedTokens, nested))

\* Programs whose bodies are empty.
MemberTypes == SimpleTypes({"boolean"}) \cup Dimensions(SimpleTypes({"String"}))
EmptyBodies == Bodies(Names, ClosingBrace)
MemberParameters == NoArguments \cup ParametersUpTo(Named(MemberTypes, Names, <<"Parameter">>), 2)

ProgramsOf(members, classes) ==
    Programs(Repeated(ClassDeclarations(Names,
        Repeated(Fields(MemberTypes, Names) \cup MainMethods(Names, EmptyBodies)
                 \cup Methods(MemberTypes, Names, MemberParameters, EmptyBodies),
                 ClosingBrace, members)), Nothing, classes))

Derived == MethodsWith(StatementLen, NestedLen) \cup ProgramsOf(2, 1) \cup ProgramsOf(1, 2)

MCDerivable == [program |-> Derived]

ASSUME DerivedIsUnambiguous == Cardinality({x[1] : x \in Derived}) = Cardinality(Derived)

BeginningsOf(X) == UNION {{SubSeq(x[1], 1, k) : k \in 0..Len(x[1])} : x \in X}
Sentences == {x[1] : x \in Derived}
Beginnings == BeginningsOf(Derived)

Tokens == {"class", "public", "static", "throws", "void", "int", "identifier", "String",
           "{", "}", "(", ")", "[", "]", ";", ",", "=", "if", "else", "while", "return", "other"}

WrongBeginnings ==
    BeginningsOf(MethodsWith(WrongLen, WrongNestedLen) \cup ProgramsOf(1, 1))

MCFiles == Sentences \cup WrongBeginnings
           \cup {Append(b, t) : b \in WrongBeginnings, t \in Tokens}
-----------------------------------------------------------------------------
(***************************************************************************)
(* A rejected file is wrong, and wrong no later than at the token that is  *)
(* reported.  Only where a declaration of a primitive type may stand one   *)
(* or two more are looked at: `int ;` is reported at `int`                 *)
(* (parser.rs:496-504).                                                    *)
(***************************************************************************)
LookedAt == IF input[error] \notin {"int", "boolean", "void"} \/ error = Len(input) THEN error
            ELSE IF input[error + 1] = "[" /\ error + 1 < Len(input) THEN error + 2
            ELSE error + 1

SyntaxErrorIsReal ==
    status = "error" =>
        IF error > Len(input) THEN input \notin Sentences
        ELSE SubSeq(input, 1, LookedAt) \notin Beginnings

(***************************************************************************)
(* Parsing a file ends, however it is nested and wherever it is cut off.   *)
(***************************************************************************)
ParsingFileEnds == <>(status # "parsing")
=============================================================================
