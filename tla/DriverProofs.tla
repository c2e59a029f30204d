----------------------------- MODULE DriverProofs -----------------------------
(***************************************************************************)
(* What module Driver promises, for every set of files and every           *)
(* lookahead: the exit status tells, standard output is a beginning of the *)
(* full output, and no more than one error is reported.                    *)
(*                                                                         *)
(* The three need each other: what the status means is known where the     *)
(* command ends only because each place of the command remembers what has  *)
(* been read and lost on the way there (Place), that nothing but warnings  *)
(* has been told (Told), and that the numbers written are those read so    *)
(* far, but for one that is lost and not yet noticed (Written).            *)
(***************************************************************************)
EXTENDS Driver, SequenceTheorems, TLAPS

ParseCommands == {"--parsetest", "--print-ast", "--debug-dumpast", "--check"}
PrintCommands == {"--print-ast", "--debug-dumpast"}

NoErrorRead == \A i \in 1..read : file.items[i] \notin Faults

(***************************************************************************)
(* What is known at each place, also after the command has ended there.    *)
(***************************************************************************)
Place ==
    /\ pc = "setup" => /\ written = 0 /\ stdout = <<>> /\ read = 0
                       /\ ~lost /\ ~due /\ status = -1
    /\ pc = "echo" => /\ command = "echo" /\ file.io # "missing"
                      /\ lost = due /\ status \in {-1, 0}
                      /\ status = 0 => Right
    /\ pc = "lex" => /\ command = "--lextest" /\ file.io = "ok" /\ lost = due
                     /\ status = -1 => NoErrorRead
                     /\ status = 0 => Right
                     /\ status = 101 => ~Right /\ AtPanickingComment
                     /\ status # 1
    /\ pc = "parse" => /\ command \in ParseCommands /\ file.io = "ok"
                       /\ ~lost /\ ~due /\ written = 0 /\ stdout = <<>>
                       /\ status = -1 => NoErrorRead
                       /\ status = 0 => command = "--parsetest" /\ Right
                       /\ status = 101 => \/ command = "--check" /\ Right
                                          \/ ~Right /\ AtPanickingComment
                       /\ status # 1
    /\ pc = "print" => /\ command \in PrintCommands /\ Right
                       /\ status = 101 => lost /\ command = "--debug-dumpast"
                       /\ status # 1
    /\ pc = "failed" => /\ \/ file.io # "ok" /\ ~Right
                           \/ lost /\ command # "--print-ast"
                        /\ status # 0
    /\ pc = "statistics" => ~Right /\ status \in {-1, 1}

(***************************************************************************)
(* Nothing but warnings is told before the error or the failure.           *)
(***************************************************************************)
Told ==
    status # 1 =>
        \A i \in DOMAIN stderr :
            \/ stderr[i] = "warning"
            \/ /\ pc = "statistics" \/ (pc \in {"lex", "parse"} /\ status = 101)
               /\ stderr[i] = "error" /\ i = Len(stderr)

(***************************************************************************)
(* The numbers written so far, while the command goes on, and when it has  *)
(* ended with success.                                                     *)
(***************************************************************************)
TokensRead == {i \in 1..read : file.items[i] = "token"}

Written ==
    /\ pc = "lex" /\ status = -1 /\ ~due => Shown(stdout) = TokensRead
    /\ pc \in {"echo", "print"} /\ status = -1 =>
           /\ \A n \in Shown(stdout) : n <= written
           /\ ~lost => Shown(stdout) = 1..written
           /\ lost /\ command # "--print-ast" => due /\ 1..(written - 1) \subseteq Shown(stdout)
    /\ status = 0 /\ command # "--print-ast" =>
           OutputBefore(LastPiece - 1) \subseteq Shown(stdout)

IInv == TypeOK /\ Place /\ Told /\ Written /\ StdoutIsABeginning /\ OneError

-----------------------------------------------------------------------------
(***************************************************************************)
(* What the command asks of its file, command by command.                  *)
(***************************************************************************)
LEMMA RightIs ==
    /\ command = "echo" => (Right <=> file.io \notin {"missing", "directory"})
    /\ command = "--lextest" => (Right <=> file.io = "ok" /\ ~HasLexicalError)
    /\ command \in ParseCommands =>
           (Right <=> file.io = "ok" /\ ~HasLexicalError /\ file.wrong = 0)
  BY DEF Right, ParseCommands

(***************************************************************************)
(* A file has the type that the assumption gives it.                       *)
(***************************************************************************)
LEMMA FileType ==
    ASSUME NEW f \in Files
    PROVE  /\ f.items \in Seq(Items) /\ Len(f.items) \in Nat
           /\ DOMAIN f.items = 1..Len(f.items)
           /\ f.wrong \in Nat
<1>1. f \in [io : {"ok", "missing", "directory", "unmappable", "not ascii"}, items : Seq(Items), wrong : Nat]
  BY FilesAssumption DEF FilesAssumption
<1>2. f.items \in Seq(Items) /\ f.wrong \in Nat
  BY <1>1
<1> QED
  BY <1>2, LenProperties

(***************************************************************************)
(* A number that is larger than all those before it is appended.           *)
(***************************************************************************)
LEMMA Appended ==
    ASSUME NEW s \in Seq(Nat), NEW n \in Nat,
           \A i, j \in DOMAIN s : i < j => s[i] < s[j],
           \A x \in Shown(s) : x < n
    PROVE  LET t == Append(s, n)
           IN  /\ t \in Seq(Nat) /\ t # <<>>
               /\ t[Len(t)] = n
               /\ Shown(t) = Shown(s) \cup {n}
               /\ \A i, j \in DOMAIN t : i < j => t[i] < t[j]
<1> DEFINE t == Append(s, n)
<1>1. /\ t \in Seq(Nat) /\ t # <<>>
      /\ Len(s) \in Nat /\ Len(t) = Len(s) + 1
      /\ DOMAIN s = 1..Len(s) /\ DOMAIN t = 1..(Len(s) + 1)
      /\ \A i \in 1..Len(s) : t[i] = s[i] /\ s[i] \in Nat
      /\ t[Len(s) + 1] = n
  BY AppendProperties, LenProperties, ElementOfSeq
<1> HIDE DEF t
<1>2. \A i \in 1..Len(s) : s[i] \in Shown(s) /\ s[i] < n
  BY <1>1 DEF Shown
<1>3. Shown(t) = Shown(s) \cup {n}
  BY <1>1 DEF Shown
<1>4. ASSUME NEW i \in DOMAIN t, NEW j \in DOMAIN t, i < j PROVE t[i] < t[j]
  <2>1. i \in 1..Len(s)
    BY <1>1, <1>4
  <2>2. CASE j = Len(s) + 1
    BY <1>1, <1>2, <2>1, <2>2
  <2>3. CASE j # Len(s) + 1
    <3>1. j \in 1..Len(s)
      BY <1>1, <2>3
    <3> QED
      BY <1>1, <1>4, <2>1, <3>1
  <2> QED
    BY <2>2, <2>3
<1> QED
  BY <1>1, <1>3, <1>4 DEF t

-----------------------------------------------------------------------------
LEMMA TypeInit == Init => TypeOK
<1> SUFFICES ASSUME Init PROVE TypeOK
  OBVIOUS
<1>1. Len(file.items) \in Nat
  BY FileType DEF Init
<1>2. <<>> \in Seq(Nat) /\ <<>> \in Seq({"error", "warning", "failure", "aborted", "finished"})
  OBVIOUS
<1>3. /\ command \in Commands /\ file \in Files
      /\ pc \in {"setup", "echo", "lex", "parse", "print", "failed", "statistics"}
      /\ lost \in BOOLEAN /\ due \in BOOLEAN
  BY Zenon DEF Init
<1>4. read \in 0..Len(file.items) /\ stdout \in Seq(Nat) /\ written \in Nat
  BY <1>1, <1>2 DEF Init
<1>5. errors \in Nat /\ warnings \in Nat /\ status \in {-1, 0, 1, 101}
  BY DEF Init
<1>6. stderr \in Seq({"error", "warning", "failure", "aborted", "finished"})
  BY <1>2 DEF Init
<1> QED
  BY <1>3, <1>4, <1>5, <1>6, Zenon DEF TypeOK

(***************************************************************************)
(* The steps are made of a few parts, each of which keeps the types of     *)
(* what it changes.                                                        *)
(***************************************************************************)
Messages == {"error", "warning", "failure", "aborted", "finished"}
Places == {"setup", "echo", "lex", "parse", "print", "failed", "statistics"}

ReadOK == read \in 0..Len(file.items)
OutputOK == /\ stdout \in Seq(Nat) /\ written \in Nat
            /\ lost \in BOOLEAN /\ due \in BOOLEAN
MessagesOK == errors \in Nat /\ warnings \in Nat /\ stderr \in Seq(Messages)
PlaceOK == pc \in Places /\ status \in {-1, 0, 1, 101}

LEMMA TypeParts ==
    TypeOK <=> /\ command \in Commands /\ file \in Files
               /\ ReadOK /\ OutputOK /\ MessagesOK /\ PlaceOK
  BY DEF TypeOK, ReadOK, OutputOK, MessagesOK, PlaceOK, Messages, Places

LEMMA OutputParts ==
    ASSUME TypeOK
    PROVE  /\ \A n \in Nat : Writes(n) => OutputOK'
           /\ Loses \/ LosesUnnoticed => OutputOK'
           /\ UNCHANGED output => OutputOK'
<1>1. /\ stdout \in Seq(Nat) /\ written \in Nat
      /\ lost \in BOOLEAN /\ due \in BOOLEAN
  BY DEF TypeOK
<1>2. \A n \in Nat : Append(stdout, n) \in Seq(Nat)
  BY <1>1, AppendProperties
<1>3. ASSUME NEW n \in Nat, Writes(n) PROVE OutputOK'
  BY <1>1, <1>2, <1>3 DEF Writes, OutputOK
<1>4. ASSUME Loses \/ LosesUnnoticed PROVE OutputOK'
  <2>1. stdout' = stdout /\ written' = written + 1
    BY <1>4 DEF Loses, LosesUnnoticed
  <2>2. lost' \in BOOLEAN /\ due' \in BOOLEAN
    BY <1>4, Zenon DEF Loses, LosesUnnoticed
  <2> QED
    BY <1>1, <2>1, <2>2 DEF OutputOK
<1>5. UNCHANGED output => OutputOK'
  BY <1>1 DEF output, OutputOK
<1> QED
  BY <1>3, <1>4, <1>5, Zenon

LEMMA MessageParts ==
    ASSUME TypeOK
    PROVE  /\ Error => MessagesOK'
           /\ Warning => MessagesOK'
           /\ UNCHANGED messages => MessagesOK'
           /\ \A m \in Messages :
                 (stderr' = Append(stderr, m) \/ Tells(m) \/ UNCHANGED stderr)
                     /\ UNCHANGED <<errors, warnings>> => MessagesOK'
<1>1. errors \in Nat /\ warnings \in Nat /\ stderr \in Seq(Messages)
  BY DEF TypeOK, Messages
<1>2. "error" \in Messages /\ "warning" \in Messages
  BY DEF Messages
<1> DEFINE T(m) == stderr' = stderr \/ stderr' = Append(stderr, m)
<1>3. ASSUME NEW m \in Messages, T(m) PROVE stderr' \in Seq(Messages)
  BY <1>1, <1>3, AppendProperties
<1>4. \A m \in Messages : T(m) => stderr' \in Seq(Messages)
  BY <1>3
<1>5. Error => T("error") /\ errors' = errors + 1 /\ warnings' = warnings
  BY DEF Error, Tells
<1>6. Warning => T("warning") /\ warnings' = warnings + 1 /\ errors' = errors
  BY DEF Warning, Tells
<1>7. \A m \in Messages : Tells(m) => T(m)
  BY DEF Tells
<1>8. UNCHANGED messages => MessagesOK'
  BY <1>1 DEF messages, MessagesOK
<1>9. \A m \in Messages : UNCHANGED stderr => T(m)
  OBVIOUS
<1>10. \A m \in Messages : stderr' = Append(stderr, m) => T(m)
  OBVIOUS
<1> HIDE DEF T
<1>11. Error => MessagesOK'
  BY <1>1, <1>2, <1>4, <1>5 DEF MessagesOK
<1>12. Warning => MessagesOK'
  BY <1>1, <1>2, <1>4, <1>6 DEF MessagesOK
<1>13. ASSUME NEW m \in Messages,
              stderr' = Append(stderr, m) \/ Tells(m) \/ UNCHANGED stderr,
              UNCHANGED <<errors, warnings>>
       PROVE  MessagesOK'
  <2>1. T(m)
    BY <1>7, <1>9, <1>10, <1>13
  <2> QED
    BY <1>1, <1>4, <1>13, <2>1 DEF MessagesOK
<1> QED
  BY <1>8, <1>11, <1>12, <1>13

LEMMA PlaceParts ==
    ASSUME TypeOK
    PROVE  /\ \A where \in Places : Goto(where) => PlaceOK'
           /\ \A code \in {0, 1, 101} : Exit(code) => PlaceOK'
           /\ UNCHANGED <<pc, status>> => PlaceOK'
  BY DEF TypeOK, PlaceOK, Places, Goto, Exit

LEMMA ReadParts ==
    ASSUME TypeOK, UNCHANGED file
    PROVE  /\ \A expected : Takes(expected) => ReadOK'
           /\ UNCHANGED read => ReadOK'
  BY FileType DEF TypeOK, ReadOK, Takes

LEMMA TypeNext == TypeOK /\ [Next]_vars => TypeOK'
<1> SUFFICES ASSUME TypeOK, [Next]_vars PROVE TypeOK'
  OBVIOUS
<1>1. command \in Commands /\ file \in Files
  BY DEF TypeOK
<1>2. UNCHANGED <<command, file>>
  BY Zenon DEF Next, vars, Setup, Echo, ExitWithError, ExitWithStatistics, LextestToken,
     LextestError, LextestEnd, Dropped, ParserPulls, LexicalError, SyntaxError,
     Parsed, PrintPiece, PrettyPrintLoses, DumpFails, Printed
<1>3. UNCHANGED read \/ \E expected : Takes(expected)
  BY Zenon DEF Next, vars, Setup, Echo, ExitWithError, ExitWithStatistics, LextestToken,
     LextestError, LextestEnd, Dropped, ParserPulls, LexicalError, SyntaxError,
     Parsed, PrintPiece, PrettyPrintLoses, DumpFails, Printed
<1>4. \/ UNCHANGED output \/ Loses \/ LosesUnnoticed
      \/ Writes(written + 1) \/ Writes(read + 1)
  BY Zenon DEF Next, Succeeds, vars, Setup, Echo, ExitWithError, ExitWithStatistics, LextestToken,
     LextestError, LextestEnd, Dropped, ParserPulls, LexicalError, SyntaxError,
     Parsed, PrintPiece, PrettyPrintLoses, DumpFails, Printed
<1>5. \/ UNCHANGED messages \/ Error \/ Warning
      \/ \E m \in Messages :
            /\ stderr' = Append(stderr, m) \/ Tells(m) \/ UNCHANGED stderr
            /\ UNCHANGED <<errors, warnings>>
  <2>1. CASE ExitWithError
    BY <2>1 DEF ExitWithError, Messages
  <2>2. CASE ExitWithStatistics
    BY <2>2 DEF ExitWithStatistics, Messages
  <2>3. CASE LextestError \/ LexicalError
    BY <2>3, Zenon DEF LextestError, LexicalError, Fault
  <2> QED
    BY <2>1, <2>2, <2>3, Zenon DEF Next, vars, Setup, Echo, LextestToken,
        LextestEnd, Dropped, ParserPulls, SyntaxError,
       Parsed, PrintPiece, PrettyPrintLoses, DumpFails, Printed
<1>6. \/ UNCHANGED <<pc, status>>
      \/ \E where \in Places : Goto(where)
      \/ \E code \in {0, 1, 101} : Exit(code)
  <2>1. CASE Setup
    BY <2>1 DEF Setup, Places
  <2>2. CASE Parsed
    BY <2>2 DEF Parsed, Places
  <2>3. CASE DumpFails
    BY <2>3 DEF DumpFails, Places
  <2>4. CASE Echo
    BY <2>4 DEF Echo, Places
  <2>5. {"failed", "statistics"} \subseteq Places
    BY DEF Places
  <2>6. CASE LextestError \/ LexicalError
    BY <2>5, <2>6, Zenon DEF LextestError, LexicalError, Fault
  <2> QED
    BY <2>1, <2>2, <2>3, <2>4, <2>5, <2>6, Zenon DEF Next, vars, ExitWithError,
       ExitWithStatistics, LextestToken, LextestEnd, Dropped, ParserPulls, SyntaxError, PrintPiece, PrettyPrintLoses, Printed
<1>7. written + 1 \in Nat /\ read + 1 \in Nat
  BY FileType DEF TypeOK
<1>8. ReadOK'
  BY <1>2, <1>3, ReadParts, Zenon
<1>9. OutputOK'
  BY <1>4, <1>7, OutputParts
<1>10. MessagesOK'
  BY <1>5, MessageParts, Zenon
<1>11. PlaceOK'
  BY <1>6, PlaceParts, Zenon
<1>12. TypeOK' <=> /\ command' \in Commands /\ file' \in Files
                  /\ ReadOK' /\ OutputOK' /\ MessagesOK' /\ PlaceOK'
  BY DEF TypeOK, ReadOK, OutputOK, MessagesOK, PlaceOK, Messages, Places
<1> QED
  BY <1>1, <1>2, <1>8, <1>9, <1>10, <1>11, <1>12, Zenon

-----------------------------------------------------------------------------
(***************************************************************************)
(* What is asked of a file does not change.                                *)
(***************************************************************************)
LEMMA SameFile ==
    [Next]_vars => UNCHANGED <<command, file>>
  BY Zenon DEF Next, vars, Setup, Echo, ExitWithError, ExitWithStatistics, LextestToken,
     LextestError, LextestEnd, Dropped, ParserPulls, LexicalError, SyntaxError,
     Parsed, PrintPiece, PrettyPrintLoses, DumpFails, Printed

LEMMA SameRight ==
    UNCHANGED <<command, file>> => (Right' <=> Right)
  BY DEF Right, HasLexicalError

(***************************************************************************)
(* An item that is taken and is no fault leaves none behind; one that is a *)
(* fault makes the file wrong, and none at all makes it right.             *)
(***************************************************************************)
LEMMA Taken ==
    ASSUME TypeOK, UNCHANGED file, NEW expected
    PROVE  /\ NoErrorRead /\ Takes(expected) /\ expected \cap Faults = {} => NoErrorRead'
           /\ NoErrorRead /\ UNCHANGED read => NoErrorRead'
           /\ Takes(Faults) => HasLexicalError
           /\ NoErrorRead /\ read = Len(file.items) => ~HasLexicalError
<1>1. read \in Nat /\ DOMAIN file.items = 1..Len(file.items) /\ Len(file.items) \in Nat
  BY FileType DEF TypeOK
<1>2. ASSUME NoErrorRead, Takes(expected), expected \cap Faults = {} PROVE NoErrorRead'
  <2>1. \A i \in 1..(read + 1) : file.items[i] \notin Faults
    <3>1. \A i \in 1..(read + 1) : i \in 1..read \/ i = read + 1
      BY <1>1
    <3>2. file.items[read + 1] \notin Faults
      BY <1>2 DEF Takes, item
    <3> QED
      BY <1>2, <3>1, <3>2 DEF NoErrorRead
  <2>2. read' = read + 1 /\ file' = file
    BY <1>2 DEF Takes
  <2> QED
    BY <2>1, <2>2 DEF NoErrorRead
<1>3. NoErrorRead /\ UNCHANGED read => NoErrorRead'
  BY DEF NoErrorRead
<1>4. Takes(Faults) => HasLexicalError
  <2>1. SUFFICES ASSUME Takes(Faults) PROVE HasLexicalError
    OBVIOUS
  <2>2. read + 1 \in DOMAIN file.items /\ file.items[read + 1] \in Faults
    BY <1>1, <2>1 DEF Takes, item
  <2> QED
    BY <2>2 DEF HasLexicalError
<1>5. NoErrorRead /\ read = Len(file.items) => ~HasLexicalError
  BY <1>1 DEF NoErrorRead, HasLexicalError
<1> QED
  BY <1>2, <1>3, <1>4, <1>5

(***************************************************************************)
(* A panic stays with the comment it came of, which is taken.              *)
(***************************************************************************)
LEMMA FaultTaken ==
    ASSUME TypeOK, UNCHANGED file, Takes(Faults), item \in {"unclosed", "opening"}
    PROVE  AtPanickingComment'
<1>1. read \in Nat /\ read' = read + 1 /\ file.items[read + 1] \in {"unclosed", "opening"}
  BY FileType DEF TypeOK, Takes, item
<1> QED
  BY <1>1 DEF AtPanickingComment

LEMMA PlaceNext == TypeOK /\ Place /\ [Next]_vars => Place'
<1> SUFFICES ASSUME TypeOK, Place, [Next]_vars PROVE Place'
  OBVIOUS
<1>0. /\ UNCHANGED <<command, file>> /\ (Right' <=> Right)
      /\ command \in Commands
  BY SameFile, SameRight DEF TypeOK
<1>2. CASE Setup
  <2>1. command # "echo" /\ command # "--lextest" => command \in ParseCommands
    BY <1>0 DEF Commands, ParseCommands
  <2>2. read = 0 => NoErrorRead'
    BY <1>0, <1>2 DEF Setup, NoErrorRead
  <2>3. file.io # "ok" /\ command # "echo" => ~Right
    BY <1>0, <2>1, RightIs
  <2>4. file.io = "missing" /\ command = "echo" => ~Right
    BY RightIs
  <2>5. /\ read' = read /\ stdout' = stdout /\ written' = written
        /\ lost' = lost /\ due' = due
    BY <1>2 DEF Setup, output
  <2>6. /\ pc = "setup" /\ status = -1 /\ status' = status
        /\ read = 0 /\ written = 0 /\ stdout = <<>> /\ ~lost /\ ~due
    BY <1>2 DEF Setup, At, Goto, Place
  <2>7. \/ pc' = "failed" /\ file.io # "ok" /\ ~Right
        \/ pc' = "echo" /\ command = "echo" /\ file.io # "missing"
        \/ pc' = "lex" /\ command = "--lextest" /\ file.io = "ok"
        \/ pc' = "parse" /\ command \in ParseCommands /\ file.io = "ok"
    BY <1>2, <2>1, <2>3, <2>4 DEF Setup, Goto
  <2>8. lost' = due' /\ ~lost' /\ ~due'
    <3>1. lost \in BOOLEAN /\ due \in BOOLEAN
      BY DEF TypeOK
    <3> QED
      BY <2>5, <2>6, <3>1, Zenon
  <2> QED
    BY <1>0, <2>2, <2>5, <2>6, <2>7, <2>8 DEF Place
<1>3. CASE Echo
  <2>1. pc = "echo" /\ status = -1 /\ command = "echo" /\ file.io # "missing" /\ lost = due
    BY <1>3 DEF Echo, At, Place
  <2>2. Right <=> file.io # "directory"
    BY <2>1, RightIs
  <2>3. CASE file.io = "directory" /\ Goto("failed") /\ UNCHANGED output
    BY <1>0, <2>1, <2>2, <2>3 DEF Goto, Place
  <2>4. CASE file.io # "directory" /\ Exit(0) /\ UNCHANGED output
    BY <1>0, <2>1, <2>2, <2>4 DEF Exit, Place, output
  <2>5. CASE Succeeds(written + 1) /\ UNCHANGED <<pc, status>>
    <3>1. lost' = due'
      BY <2>1, <2>5 DEF Succeeds, Writes, LosesUnnoticed
    <3> QED
      BY <1>0, <2>1, <2>5, <3>1 DEF Place
  <2>6. CASE Loses /\ Goto("failed")
    BY <1>0, <2>1, <2>6 DEF Loses, Goto, Place
  <2> QED
    BY <1>3, <2>3, <2>4, <2>5, <2>6 DEF Echo
<1>4. CASE ExitWithError
  BY <1>0, <1>4 DEF ExitWithError, At, Exit, Place, output
<1>5. CASE ExitWithStatistics
  BY <1>0, <1>5 DEF ExitWithStatistics, At, Exit, Place, output
<1>6. CASE LextestToken
  <2>1. pc = "lex" /\ status = -1 /\ command = "--lextest" /\ file.io = "ok" /\ lost = due
    BY <1>6 DEF LextestToken, At, Place
  <2>2. NoErrorRead'
    BY <1>0, <1>6, <2>1, Taken DEF LextestToken, Place, Faults
  <2>3. CASE Succeeds(read + 1) /\ UNCHANGED <<pc, status>>
    <3>1. lost' = due'
      BY <2>1, <2>3 DEF Succeeds, Writes, LosesUnnoticed
    <3> QED
      BY <1>0, <2>1, <2>2, <2>3, <3>1 DEF Place
  <2>4. CASE Loses /\ Goto("failed")
    BY <1>0, <2>1, <2>4 DEF Loses, Goto, Place
  <2> QED
    BY <1>6, <2>3, <2>4 DEF LextestToken
<1>7. CASE LextestError
  <2>1. pc = "lex" /\ status = -1 /\ command = "--lextest" /\ file.io = "ok" /\ lost = due
    BY <1>7 DEF LextestError, At, Place
  <2>2. ~Right
    BY <1>0, <1>7, <2>1, Taken, RightIs DEF LextestError
  <2>3. UNCHANGED <<lost, due>> /\ Takes(Faults) /\ Fault
    BY <1>7 DEF LextestError, output
  <2>4. CASE Goto("statistics")
    BY <1>0, <2>1, <2>2, <2>4 DEF Goto, Place
  <2>5. CASE item \in {"unclosed", "opening"} /\ Exit(101)
    <3>1. AtPanickingComment'
      BY <1>0, <2>3, <2>5, FaultTaken
    <3> QED
      BY <1>0, <2>1, <2>2, <2>3, <2>5, <3>1 DEF Exit, Place
  <2> QED
    BY <2>3, <2>4, <2>5 DEF Fault
<1>8. CASE LextestEnd
  <2>1. /\ pc = "lex" /\ status = -1 /\ command = "--lextest" /\ file.io = "ok" /\ lost = due
        /\ NoErrorRead
    BY <1>8 DEF LextestEnd, At, Place
  <2>2. Right
    BY <1>0, <1>8, <2>1, Taken, RightIs DEF LextestEnd
  <2>3. CASE Succeeds(read + 1) /\ Exit(0)
    <3>1. lost' = due'
      BY <2>1, <2>3 DEF Succeeds, Writes, LosesUnnoticed
    <3> QED
      BY <1>0, <2>1, <2>2, <2>3, <3>1 DEF Exit, Place
  <2>4. CASE Loses /\ Goto("failed")
    BY <1>0, <2>1, <2>4 DEF Loses, Goto, Place
  <2> QED
    BY <1>8, <2>3, <2>4 DEF LextestEnd
<1>9. CASE Dropped
  <2>1. /\ UNCHANGED <<pc, status, stdout, written, lost, due>>
        /\ pc \in {"lex", "parse"} /\ status = -1
    BY <1>9 DEF Dropped, At, output
  <2>2. NoErrorRead'
    BY <1>0, <1>9, <2>1, Taken DEF Dropped, Place, Faults
  <2> QED
    BY <1>0, <2>1, <2>2 DEF Place
<1>10. CASE ParserPulls
  <2>1. UNCHANGED <<pc, status, stdout, written, lost, due>> /\ pc = "parse" /\ status = -1
    BY <1>10 DEF ParserPulls, At, output
  <2>2. NoErrorRead'
    BY <1>0, <1>10, <2>1, Taken DEF ParserPulls, Place, Faults
  <2> QED
    BY <1>0, <2>1, <2>2 DEF Place
<1>11. CASE LexicalError
  <2>1. pc = "parse" /\ status = -1 /\ command \in ParseCommands
    BY <1>11 DEF LexicalError, At, Place
  <2>2. ~Right
    BY <1>0, <1>11, <2>1, Taken, RightIs DEF LexicalError
  <2>3. UNCHANGED <<stdout, written, lost, due>> /\ Takes(Faults) /\ Fault
    BY <1>11 DEF LexicalError, output
  <2>4. CASE Goto("statistics")
    BY <1>0, <2>1, <2>2, <2>4 DEF Goto, Place
  <2>5. CASE item \in {"unclosed", "opening"} /\ Exit(101)
    <3>1. AtPanickingComment'
      BY <1>0, <2>3, <2>5, FaultTaken
    <3> QED
      BY <1>0, <2>1, <2>2, <2>3, <2>5, <3>1 DEF Exit, Place
  <2> QED
    BY <2>3, <2>4, <2>5 DEF Fault
<1>12. CASE SyntaxError
  <2>1. command \in ParseCommands => ~Right
    BY <1>12, RightIs DEF SyntaxError
  <2> QED
    BY <1>0, <1>12, <2>1 DEF SyntaxError, At, Goto, Place, output
<1>13. CASE Parsed
  <2>1. pc = "parse" /\ status = -1 /\ read' = read /\ UNCHANGED <<stdout, written, lost, due>>
    BY <1>13 DEF Parsed, At, output
  <2>2. NoErrorRead /\ ~HasLexicalError /\ NoErrorRead' /\ Right
    BY <1>0, <1>13, <2>1, Taken, RightIs DEF Parsed, Place
  <2>3. command \in ParseCommands /\ ~lost
    BY <2>1 DEF Place
  <2>4. \/ command = "--parsetest" /\ status' = 0 /\ pc' = pc
        \/ command = "--check" /\ status' = 101 /\ pc' = pc
        \/ command \in PrintCommands /\ pc' = "print" /\ status' = status
    BY <1>13, <2>3 DEF Parsed, Exit, Goto, ParseCommands, PrintCommands
  <2> QED
    BY <1>0, <2>1, <2>2, <2>3, <2>4 DEF Place
<1>14. CASE PrintPiece
  BY <1>0, <1>14 DEF PrintPiece, At, Place
<1>15. CASE PrettyPrintLoses
  BY <1>0, <1>15 DEF PrettyPrintLoses, At, Loses, Place
<1>16. CASE DumpFails
  BY <1>0, <1>16 DEF DumpFails, At, Exit, Goto, Loses, Place
<1>17. CASE Printed
  BY <1>0, <1>17 DEF Printed, At, Exit, Place, output
<1>18. CASE UNCHANGED vars
  <2>1. UNCHANGED <<pc, status, stdout, written, lost, due, read>>
    BY <1>18 DEF vars, output
  <2>2. (NoErrorRead => NoErrorRead') /\ (AtPanickingComment => AtPanickingComment')
    BY <1>0, <2>1 DEF NoErrorRead, AtPanickingComment
  <2> QED
    BY <1>0, <2>1, <2>2 DEF Place
<1> QED
  BY <1>2, <1>3, <1>4, <1>5, <1>6, <1>7, <1>8, <1>9, <1>10, <1>11, <1>12, <1>13,
     <1>14, <1>15, <1>16, <1>17, <1>18 DEF Next

-----------------------------------------------------------------------------
(***************************************************************************)
(* What is told when a message is appended.                                *)
(***************************************************************************)
LEMMA AppendedMessage ==
    ASSUME NEW s \in Seq(Messages), NEW m \in Messages
    PROVE  LET t == Append(s, m)
           IN  /\ Len(s) \in Nat /\ Len(t) = Len(s) + 1
               /\ DOMAIN s = 1..Len(s) /\ DOMAIN t = 1..Len(t)
               /\ \A i \in DOMAIN s : t[i] = s[i]
               /\ t[Len(t)] = m
  BY AppendProperties, LenProperties

(***************************************************************************)
(* Told and OneError change only with a message and with the place.        *)
(***************************************************************************)
LEMMA ToldNext ==
    TypeOK /\ Place /\ Told /\ OneError /\ [Next]_vars => Told' /\ OneError'
<1> SUFFICES ASSUME TypeOK, Place, Told, OneError, [Next]_vars PROVE Told' /\ OneError'
  OBVIOUS
<1>0. /\ stderr \in Seq(Messages) /\ errors \in Nat
      /\ Len(stderr) \in Nat /\ DOMAIN stderr = 1..Len(stderr)
  BY LenProperties DEF TypeOK, Messages
<1>1. ASSUME pc \in {"lex", "parse"}, status = -1, Error,
             Goto("statistics") \/ Exit(101)
      PROVE  Told' /\ OneError'
  <2>1. /\ errors' = 1
        /\ \/ pc' = "statistics" /\ status' = -1
           \/ pc' \in {"lex", "parse"} /\ status' = 101
    BY <1>0, <1>1 DEF Error, Goto, Exit, OneError
  <2>2. \A i \in 1..Len(stderr) : stderr[i] = "warning"
    BY <1>0, <1>1 DEF Told
  <2>3. \/ stderr' = stderr
        \/ /\ Len(stderr') = Len(stderr) + 1 /\ DOMAIN stderr' = 1..(Len(stderr) + 1)
           /\ \A i \in 1..Len(stderr) : stderr'[i] = stderr[i]
           /\ stderr'[Len(stderr) + 1] = "error"
    BY <1>0, <1>1, AppendedMessage DEF Error, Tells, Messages
  <2>4. \A i \in DOMAIN stderr' :
           stderr'[i] = "warning" \/ (stderr'[i] = "error" /\ i = Len(stderr'))
    BY <1>0, <2>2, <2>3
  <2>5. Len(stderr') \in Nat /\ DOMAIN stderr' = 1..Len(stderr')
    BY <1>0, <2>3
  <2> QED
    BY <2>1, <2>4, <2>5 DEF Told, OneError
<1>2. ASSUME pc \in {"lex", "parse"}, status = -1, Warning, UNCHANGED <<pc, status>>
      PROVE  Told' /\ OneError'
  <2>1. errors' = errors /\ errors = 0
    BY <1>0, <1>2 DEF Warning, OneError
  <2>2. \A i \in 1..Len(stderr) : stderr[i] = "warning"
    BY <1>0, <1>2 DEF Told
  <2>3. \/ stderr' = stderr
        \/ /\ DOMAIN stderr' = 1..(Len(stderr) + 1)
           /\ \A i \in 1..Len(stderr) : stderr'[i] = stderr[i]
           /\ stderr'[Len(stderr) + 1] = "warning"
    BY <1>0, <1>2, AppendedMessage DEF Warning, Tells, Messages
  <2>4. \A i \in DOMAIN stderr' : stderr'[i] = "warning"
    BY <1>0, <2>2, <2>3
  <2> QED
    BY <1>2, <2>1, <2>4 DEF Told, OneError
<1>3. ASSUME UNCHANGED messages, UNCHANGED <<pc, status>> \/ status = -1,
             pc' = pc \/ (pc # "statistics" /\ pc' # "statistics")
      PROVE  Told' /\ OneError'
  <2>1. stderr' = stderr /\ errors' = errors
    BY <1>3 DEF messages
  <2>2. CASE UNCHANGED <<pc, status>>
    BY <2>1, <2>2 DEF Told, OneError
  <2>3. CASE status = -1
    BY <1>3, <2>1, <2>3 DEF Told, OneError
  <2> QED
    BY <1>3, <2>2, <2>3
<1>4. CASE ExitWithError
  <2>1. /\ pc = "failed" /\ pc' = pc /\ status = -1 /\ errors' = errors /\ errors = 0
        /\ \A i \in 1..Len(stderr) : stderr[i] = "warning"
    BY <1>0, <1>4 DEF ExitWithError, At, Exit, Told, OneError
  <2>2. CASE stderr' = Append(stderr, "failure") /\ Exit(1)
    <3>1. /\ DOMAIN stderr' = 1..(Len(stderr) + 1)
          /\ \A i \in 1..Len(stderr) : stderr'[i] = stderr[i]
          /\ stderr'[Len(stderr) + 1] = "failure"
      BY <1>0, <2>2, AppendedMessage DEF Messages
    <3>2. \A i \in DOMAIN stderr' : stderr'[i] \in {"warning", "failure"}
      BY <1>0, <2>1, <3>1
    <3> QED
      BY <2>1, <2>2, <3>2 DEF Exit, Told, OneError
  <2>3. CASE Exit(101) /\ UNCHANGED stderr
    <3>1. UNCHANGED messages
      BY <1>4, <2>3 DEF ExitWithError, messages
    <3> QED
      BY <1>3, <2>1, <3>1
  <2> QED
    BY <1>4, <2>2, <2>3 DEF ExitWithError
<1>5. CASE ExitWithStatistics
  <2>1. /\ pc = "statistics" /\ pc' = pc /\ status = -1 /\ status' = 1
        /\ errors' = errors /\ errors = 1
    BY <1>5 DEF ExitWithStatistics, At, Exit, OneError
  <2>6. \A i \in 1..Len(stderr) :
            stderr[i] = "warning" \/ (stderr[i] = "error" /\ i = Len(stderr))
    <3>1. status # 1
      BY <2>1
    <3>2. \A i \in DOMAIN stderr :
              stderr[i] = "warning" \/ (stderr[i] = "error" /\ i = Len(stderr))
      BY <3>1, Zenon DEF Told
    <3> QED
      BY <1>0, <3>2
  <2>7. stderr' \in {stderr, Append(stderr, "aborted")}
    <3>1. (IF errors > 0 THEN "aborted" ELSE "finished") = "aborted"
      BY <2>1
    <3>2. Tells("aborted")
      BY <1>5, <3>1 DEF ExitWithStatistics
    <3> QED
      BY <3>2 DEF Tells
  <2>2. \/ stderr' = stderr
        \/ /\ Len(stderr') = Len(stderr) + 1 /\ DOMAIN stderr' = 1..(Len(stderr) + 1)
           /\ \A i \in 1..Len(stderr) : stderr'[i] = stderr[i]
           /\ stderr'[Len(stderr) + 1] = "aborted"
    BY <1>0, <2>7, AppendedMessage DEF Messages
  <2>3. CASE stderr' = stderr
    BY <1>0, <2>1, <2>3 DEF Told, OneError
  <2>4. CASE /\ Len(stderr') = Len(stderr) + 1 /\ DOMAIN stderr' = 1..(Len(stderr) + 1)
             /\ \A i \in 1..Len(stderr) : stderr'[i] = stderr[i]
             /\ stderr'[Len(stderr) + 1] = "aborted"
    <3>1. ASSUME NEW i \in DOMAIN stderr'
          PROVE  \/ stderr'[i] = "warning"
                 \/ stderr'[i] = "error" /\ i = Len(stderr)
                 \/ stderr'[i] = "aborted" /\ i = Len(stderr')
      <4>1. i \in 1..Len(stderr) \/ i = Len(stderr) + 1
        BY <1>0, <2>4
      <4> QED
        BY <2>4, <2>6, <4>1
    <3>2. ASSUME NEW i \in DOMAIN stderr', stderr'[i] = "error",
                 NEW j \in (i + 1)..Len(stderr')
          PROVE  stderr'[j] = "aborted"
      BY <1>0, <2>4, <3>1, <3>2
    <3> QED
      BY <2>1, <3>1, <3>2 DEF Told, OneError
  <2> QED
    BY <2>2, <2>3, <2>4
<1>6. CASE LextestError \/ LexicalError \/ SyntaxError
  <2>1. pc \in {"lex", "parse"} /\ status = -1
    BY <1>6 DEF LextestError, LexicalError, SyntaxError, At
  <2>2. \/ Error /\ (Goto("statistics") \/ Exit(101))
        \/ UNCHANGED messages /\ Exit(101)
    BY <1>6, Zenon DEF LextestError, LexicalError, SyntaxError, Fault
  <2>3. CASE UNCHANGED messages /\ Exit(101)
    BY <1>3, <2>1, <2>3 DEF Exit
  <2> QED
    BY <1>1, <2>1, <2>2, <2>3
<1>7. CASE Dropped
  <2>1. pc \in {"lex", "parse"} /\ status = -1 /\ UNCHANGED <<pc, status>>
    BY <1>7 DEF Dropped, At
  <2>2. Warning \/ UNCHANGED messages
    BY <1>7 DEF Dropped
  <2> QED
    BY <1>2, <1>3, <2>1, <2>2
<1>8. CASE \/ Setup \/ Echo \/ LextestToken \/ LextestEnd \/ ParserPulls \/ Parsed
           \/ PrintPiece \/ PrettyPrintLoses \/ DumpFails \/ Printed \/ UNCHANGED vars
  <2>1. UNCHANGED messages
    BY <1>8, Zenon DEF Setup, Echo, LextestToken, LextestEnd, ParserPulls, Parsed,
       PrintPiece, PrettyPrintLoses, DumpFails, Printed, vars
  <2>2. UNCHANGED <<pc, status>> \/ status = -1
    BY <1>8, Zenon DEF Setup, Echo, LextestToken, LextestEnd, ParserPulls, Parsed,
       PrintPiece, PrettyPrintLoses, DumpFails, Printed, vars, At
  <2>3. pc' = pc \/ (pc # "statistics" /\ pc' # "statistics")
    BY <1>8 DEF Setup, Echo, LextestToken, LextestEnd, ParserPulls, Parsed,
       PrintPiece, PrettyPrintLoses, DumpFails, Printed, vars, At, Goto, Exit
  <2> QED
    BY <1>3, <2>1, <2>2, <2>3
<1> QED
  BY <1>4, <1>5, <1>6, <1>7, <1>8 DEF Next

-----------------------------------------------------------------------------
(***************************************************************************)
(* A write that goes on where the output stopped.                          *)
(***************************************************************************)
LEMMA Wrote ==
    ASSUME TypeOK, StdoutIsABeginning, UNCHANGED <<command, file>>,
           NEW n \in Nat, Writes(n),
           \A x \in Shown(stdout) : x < n,
           command = "--print-ast" \/ Shown(stdout) \cup {n} = OutputBefore(n),
           command \in PrintCommands => Right,
           status' = 0 /\ command = "--lextest" => n = Len(file.items) + 1
    PROVE  StdoutIsABeginning' /\ Shown(stdout)' = Shown(stdout) \cup {n}
<1>1. stdout \in Seq(Nat) /\ \A i, j \in DOMAIN stdout : i < j => stdout[i] < stdout[j]
  BY DEF TypeOK, StdoutIsABeginning
<1>2. stdout' = Append(stdout, n)
  BY DEF Writes
<1>3. /\ stdout' # <<>> /\ stdout'[Len(stdout')] = n
      /\ Shown(stdout') = Shown(stdout) \cup {n}
      /\ \A i, j \in DOMAIN stdout' : i < j => stdout'[i] < stdout'[j]
  BY <1>1, <1>2, Appended
<1>4. Shown(stdout)' = Shown(stdout')
  BY DEF Shown
<1>5. OutputBefore(n)' = OutputBefore(n)
  BY DEF OutputBefore
<1>6. command # "--print-ast" => Shown(stdout)' = OutputBefore(stdout[Len(stdout)])'
  BY <1>3, <1>4, <1>5 DEF OutputBefore
<1>7. command' \in PrintCommands => Right'
  BY SameRight
<1> QED
  BY <1>3, <1>4, <1>6, <1>7 DEF StdoutIsABeginning, PrintCommands

(***************************************************************************)
(* A step that writes nothing keeps the output a beginning, unless it ends *)
(* a --lextest with success and no write was lost.                         *)
(***************************************************************************)
LEMMA WroteNothing ==
    ASSUME StdoutIsABeginning, UNCHANGED <<command, file, stdout>>,
           \/ UNCHANGED <<status, lost>>
           \/ status' # 0 \/ lost' \/ command # "--lextest"
    PROVE  StdoutIsABeginning'
<1>1. (Right' <=> Right)
  BY SameRight
<1>2. OutputBefore(stdout[Len(stdout)])' = OutputBefore(stdout[Len(stdout)])
  BY DEF OutputBefore
<1> QED
  BY <1>1, <1>2 DEF StdoutIsABeginning, Shown

(***************************************************************************)
(* What the full output is does not change either.                         *)
(***************************************************************************)
LEMMA SameOutput ==
    ASSUME UNCHANGED <<command, file>>
    PROVE  /\ OutputBefore(LastPiece - 1)' = OutputBefore(LastPiece - 1)
           /\ command = "echo" => OutputBefore(LastPiece - 1) = 1..(Len(file.items) - 1)
           /\ command \in PrintCommands => OutputBefore(LastPiece - 1) = 1..(Pieces - 1)
           /\ command = "--parsetest" => OutputBefore(LastPiece - 1) = 1..(-1)
<1>1. LastPiece' = LastPiece
  BY DEF LastPiece, Pieces
<1> QED
  BY <1>1 DEF LastPiece, OutputBefore, PrintCommands

LEMMA StdoutNext ==
    TypeOK /\ Place /\ Written /\ StdoutIsABeginning /\ [Next]_vars
        => Written' /\ StdoutIsABeginning'
<1> SUFFICES ASSUME TypeOK, Place, Written, StdoutIsABeginning, [Next]_vars
             PROVE  Written' /\ StdoutIsABeginning'
  OBVIOUS
<1>0. /\ UNCHANGED <<command, file>>
      /\ read \in Nat /\ Len(file.items) \in Nat /\ read <= Len(file.items)
      /\ DOMAIN file.items = 1..Len(file.items) /\ written \in Nat
      /\ OutputBefore(LastPiece - 1)' = OutputBefore(LastPiece - 1)
  BY SameFile, FileType, SameOutput DEF TypeOK
<1>1. Shown(<<>>) = {} /\ 1..0 = {}
  BY DEF Shown
<1>2. UNCHANGED stdout => Shown(stdout)' = Shown(stdout)
  BY DEF Shown
<1>b. Shown(stdout) \subseteq Nat
  BY ElementOfSeq, LenProperties DEF TypeOK, Shown
<1>3. ASSUME pc \in {"echo", "print"}, status = -1, Succeeds(written + 1),
             UNCHANGED <<pc, status>>, command # "--lextest",
             command \in PrintCommands => Right
      PROVE  Written' /\ StdoutIsABeginning'
  <2>1. /\ \A x \in Shown(stdout) : x <= written
        /\ ~lost => Shown(stdout) = 1..written
        /\ lost /\ command # "--print-ast" => due
    BY <1>3 DEF Written
  <2>2. ~due
    BY <1>3 DEF Succeeds, Writes, LosesUnnoticed
  <2>3. CASE Writes(written + 1)
    <3>1. \A x \in Shown(stdout) : x < written + 1
      BY <1>0, <1>b, <2>1
    <3>2. ~lost => Shown(stdout) \cup {written + 1} = 1..(written + 1)
      BY <1>0, <2>1
    <3>3. command = "--print-ast" \/ Shown(stdout) \cup {written + 1} = OutputBefore(written + 1)
      BY <1>3, <2>1, <2>2, <3>2 DEF OutputBefore
    <3>4. StdoutIsABeginning' /\ Shown(stdout)' = Shown(stdout) \cup {written + 1}
      BY <1>0, <1>3, <2>3, <3>1, <3>3, Wrote
    <3>5. written' = written + 1 /\ lost' = lost
      BY <2>3 DEF Writes
    <3>6. \A x \in Shown(stdout)' : x <= written'
      BY <1>0, <1>b, <2>1, <3>4, <3>5
    <3>7. ~lost' => Shown(stdout)' = 1..written'
      BY <3>2, <3>4, <3>5
    <3>8. ~(lost' /\ command' # "--print-ast")
      BY <1>0, <2>1, <2>2, <3>5
    <3> QED
      BY <1>3, <3>4, <3>6, <3>7, <3>8 DEF Written
  <2>4. CASE LosesUnnoticed
    <3>1. written' = written + 1 /\ stdout' = stdout
      BY <2>4 DEF LosesUnnoticed
    <3>2. lost' /\ due'
      BY <2>4, Zenon DEF LosesUnnoticed
    <3>3. \A x \in Shown(stdout)' : x <= written'
      BY <1>0, <1>2, <1>b, <2>1, <3>1
    <3>4. command # "--print-ast" => 1..(written' - 1) \subseteq Shown(stdout)'
      BY <1>0, <1>2, <2>1, <2>2, <3>1
    <3>5. StdoutIsABeginning'
      BY <1>0, <1>3, <3>1, WroteNothing
    <3> QED
      BY <1>0, <1>3, <3>2, <3>3, <3>4, <3>5 DEF Written
  <2> QED
    BY <1>3, <2>3, <2>4 DEF Succeeds
<1>4. ASSUME UNCHANGED stdout, pc' \in {"failed", "statistics"} \/ status' # -1,
             status' # 0 \/ command # "--lextest" \/ lost',
             status' = 0 /\ command # "--print-ast" =>
                 OutputBefore(LastPiece - 1) \subseteq Shown(stdout)
      PROVE  Written' /\ StdoutIsABeginning'
  BY <1>0, <1>2, <1>4, WroteNothing DEF Written
<1>5. CASE Setup
  <2>1. /\ pc = "setup" /\ UNCHANGED <<stdout, lost, status, written, read>>
        /\ read = 0 /\ written = 0 /\ stdout = <<>> /\ ~lost /\ status = -1
    BY <1>5 DEF Setup, At, Goto, output, Place
  <2>2. Shown(stdout)' = {} /\ TokensRead' = {}
    BY <1>1, <1>2, <2>1 DEF TokensRead
  <2>3. ~lost'
    BY <2>1
  <2>4. Written'
    BY <1>1, <2>1, <2>2, <2>3 DEF Written
  <2> QED
    BY <1>0, <2>1, <2>4, WroteNothing
<1>6. CASE Echo
  <2>1. pc = "echo" /\ status = -1 /\ command = "echo"
    BY <1>6 DEF Echo, At, Place
  <2>2. CASE Copied /\ Exit(0) /\ UNCHANGED output
    <3>1. 1..(written - 1) \subseteq Shown(stdout)
      BY <1>0, <2>1 DEF Written
    <3>2. OutputBefore(LastPiece - 1) \subseteq Shown(stdout)
      BY <1>0, <2>1, <2>2, <3>1, SameOutput DEF Copied
    <3> QED
      BY <1>4, <2>1, <2>2, <3>2 DEF Exit, output
  <2>3. CASE Succeeds(written + 1) /\ UNCHANGED <<pc, status>>
    BY <1>3, <2>1, <2>3 DEF PrintCommands
  <2>4. CASE (Loses \/ UNCHANGED output) /\ Goto("failed")
    BY <1>4, <2>1, <2>4 DEF Loses, Goto, output
  <2> QED
    BY <1>6, <2>2, <2>3, <2>4 DEF Echo
<1>7. CASE ExitWithError \/ ExitWithStatistics
  BY <1>4, <1>7 DEF ExitWithError, ExitWithStatistics, Exit, At, output
<1>8. CASE LextestError \/ LexicalError \/ SyntaxError
  <2>1. UNCHANGED stdout /\ status = -1
    BY <1>8 DEF LextestError, LexicalError, SyntaxError, At, output
  <2>2. Goto("statistics") \/ Exit(101)
    BY <1>8, Zenon DEF LextestError, LexicalError, SyntaxError, Fault
  <2> QED
    BY <1>4, <2>1, <2>2 DEF Goto, Exit
<1>9. CASE LextestToken
  <2>1. pc = "lex" /\ status = -1 /\ command = "--lextest"
    BY <1>9 DEF LextestToken, At, Place
  <2>2. ~due => Shown(stdout) = TokensRead
    BY <2>1 DEF Written
  <2>3. read < Len(file.items) /\ file.items[read + 1] = "token" /\ read' = read + 1
    BY <1>9 DEF LextestToken, Takes, item
  <2>4. CASE Writes(read + 1) /\ UNCHANGED <<pc, status>>
    <3>0. Shown(stdout) = TokensRead
      BY <2>2, <2>4 DEF Writes
    <3>1. \A x \in Shown(stdout) : x < read + 1
      BY <1>0, <3>0 DEF TokensRead
    <3>2. Shown(stdout) \cup {read + 1} = {i \in 1..(read + 1) : file.items[i] = "token"}
      BY <1>0, <2>3, <3>0 DEF TokensRead
    <3>3. OutputBefore(read + 1) = {i \in 1..(read + 1) : file.items[i] = "token"}
      BY <1>0, <2>1, <2>3 DEF OutputBefore
    <3>4. StdoutIsABeginning' /\ Shown(stdout)' = Shown(stdout) \cup {read + 1}
      BY <1>0, <2>1, <2>4, <3>1, <3>2, <3>3, Wrote DEF PrintCommands
    <3>5. TokensRead' = {i \in 1..(read + 1) : file.items[i] = "token"}
      BY <1>0, <2>3 DEF TokensRead
    <3> QED
      BY <2>1, <2>4, <3>2, <3>4, <3>5 DEF Written
  <2>5. CASE LosesUnnoticed /\ UNCHANGED <<pc, status>>
    <3>1. stdout' = stdout /\ pc' = "lex" /\ status' = -1
      BY <2>1, <2>5 DEF LosesUnnoticed
    <3>2. due'
      BY <2>5, Zenon DEF LosesUnnoticed
    <3>3. StdoutIsABeginning'
      BY <1>0, <3>1, WroteNothing
    <3> QED
      BY <3>1, <3>2, <3>3 DEF Written
  <2>6. CASE Loses /\ Goto("failed")
    BY <1>4, <2>1, <2>6 DEF Loses, Goto
  <2> QED
    BY <1>9, <2>4, <2>5, <2>6 DEF LextestToken, Succeeds
<1>10. CASE LextestEnd
  <2>1. /\ pc = "lex" /\ status = -1 /\ command = "--lextest" /\ read = Len(file.items)
        /\ UNCHANGED read
    BY <1>10 DEF LextestEnd, At, Place
  <2>2. ~due => Shown(stdout) = TokensRead
    BY <2>1 DEF Written
  <2>3. OutputBefore(LastPiece - 1) \subseteq TokensRead
    BY <1>0, <2>1 DEF OutputBefore, LastPiece, TokensRead
  <2>4. CASE Writes(read + 1) /\ Exit(0)
    <3>0. Shown(stdout) = TokensRead
      BY <2>2, <2>4 DEF Writes
    <3>1. \A x \in Shown(stdout) : x < read + 1
      BY <1>0, <3>0 DEF TokensRead
    <3>2. Shown(stdout) \cup {read + 1} = OutputBefore(read + 1)
      BY <1>0, <2>1, <3>0 DEF OutputBefore, TokensRead
    <3>3. StdoutIsABeginning' /\ Shown(stdout)' = Shown(stdout) \cup {read + 1}
      BY <1>0, <2>1, <2>4, <3>1, <3>2, Wrote DEF PrintCommands
    <3>4. status' = 0 /\ pc' = "lex"
      BY <2>1, <2>4 DEF Exit
    <3>5. OutputBefore(LastPiece - 1)' \subseteq Shown(stdout)'
      BY <1>0, <2>3, <3>0, <3>3
    <3> QED
      BY <3>3, <3>4, <3>5 DEF Written
  <2>5. CASE LosesUnnoticed /\ Exit(0)
    <3>1. stdout' = stdout /\ status' = 0 /\ pc' = "lex"
      BY <2>1, <2>5 DEF LosesUnnoticed, Exit
    <3>2. lost' /\ ~due
      BY <2>5, Zenon DEF LosesUnnoticed
    <3> QED
      BY <1>4, <2>2, <2>3, <3>1, <3>2
  <2>6. CASE Loses /\ Goto("failed")
    BY <1>4, <2>1, <2>6 DEF Loses, Goto
  <2> QED
    BY <1>10, <2>4, <2>5, <2>6 DEF LextestEnd, Succeeds
<1>11. CASE Dropped
  <2>1. /\ pc \in {"lex", "parse"} /\ status = -1
        /\ UNCHANGED <<pc, status, stdout, lost, due>>
    BY <1>11 DEF Dropped, At, output
  <2>2. /\ read < Len(file.items) /\ file.items[read + 1] # "token" /\ read' = read + 1
    BY <1>11 DEF Dropped, Takes, item
  <2>3. TokensRead' = TokensRead
    BY <1>0, <2>2 DEF TokensRead
  <2> QED
    BY <1>0, <1>2, <2>1, <2>3, WroteNothing DEF Written
<1>12. CASE ParserPulls
  <2>1. pc = "parse" /\ status = -1 /\ UNCHANGED <<pc, status, stdout, lost>>
    BY <1>12 DEF ParserPulls, At, output
  <2> QED
    BY <1>0, <2>1, WroteNothing DEF Written
<1>13. CASE Parsed
  <2>1. /\ pc = "parse" /\ status = -1 /\ command \in ParseCommands
        /\ UNCHANGED <<stdout, lost, written>> /\ written = 0 /\ stdout = <<>> /\ ~lost
    BY <1>13 DEF Parsed, At, output, Place
  <2>2. command # "--lextest"
    BY <2>1 DEF ParseCommands
  <2>3. \/ command = "--parsetest" /\ Exit(0)
        \/ Exit(101)
        \/ Goto("print")
    BY <1>13 DEF Parsed
  <2>4. CASE Goto("print")
    <3>1. Shown(stdout)' = {} /\ ~lost' /\ pc' = "print" /\ status' = -1 /\ written' = 0
      BY <1>1, <1>2, <2>1, <2>4 DEF Goto
    <3>2. StdoutIsABeginning'
      BY <1>0, <2>1, <2>2, WroteNothing
    <3> QED
      BY <1>1, <3>1, <3>2 DEF Written
  <2>5. CASE Exit(101)
    BY <1>4, <2>1, <2>5 DEF Exit
  <2>6. CASE command = "--parsetest" /\ Exit(0)
    <3>1. OutputBefore(LastPiece - 1) \subseteq Shown(stdout)
      BY <1>0, <2>6, SameOutput
    <3> QED
      BY <1>4, <2>1, <2>2, <2>6, <3>1 DEF Exit
  <2> QED
    BY <2>3, <2>4, <2>5, <2>6
<1>14. CASE PrintPiece
  <2>1. pc = "print" /\ status = -1 /\ UNCHANGED <<pc, status>> /\ Succeeds(written + 1)
    BY <1>14 DEF PrintPiece, At
  <2>2. command # "--lextest" /\ Right
    BY <2>1 DEF Place, PrintCommands
  <2> QED
    BY <1>3, <2>1, <2>2
<1>15. CASE PrettyPrintLoses
  <2>1. /\ pc = "print" /\ status = -1 /\ UNCHANGED <<pc, status, stdout>>
        /\ written' = written + 1 /\ command = "--print-ast"
    BY <1>15 DEF PrettyPrintLoses, At, Loses
  <2>2. lost'
    BY <1>15, Zenon DEF PrettyPrintLoses, Loses
  <2>3. \A x \in Shown(stdout)' : x <= written'
    BY <1>0, <1>2, <1>b, <2>1 DEF Written
  <2> QED
    BY <1>0, <2>1, <2>2, <2>3, WroteNothing DEF Written
<1>16. CASE DumpFails
  <2>1. stdout' = stdout /\ status = -1 /\ command # "--lextest"
    BY <1>16 DEF DumpFails, Loses, At
  <2>2. (pc' = "failed" /\ status' = -1) \/ status' = 101
    BY <1>16, <2>1 DEF DumpFails, Goto, Exit
  <2> QED
    BY <1>4, <2>1, <2>2
<1>17. CASE Printed
  <2>1. /\ pc = "print" /\ status = -1 /\ command \in PrintCommands
        /\ written = Pieces /\ Exit(0) /\ UNCHANGED output
    BY <1>17 DEF Printed, At, Place
  <2>2. command # "--print-ast" => 1..(written - 1) \subseteq Shown(stdout)
    BY <1>0, <2>1 DEF Written
  <2>3. command # "--print-ast" => OutputBefore(LastPiece - 1) \subseteq Shown(stdout)
    BY <1>0, <2>1, <2>2, SameOutput
  <2>4. command # "--lextest"
    BY <2>1 DEF PrintCommands
  <2> QED
    BY <1>4, <2>1, <2>3, <2>4 DEF Exit, output
<1>18. CASE UNCHANGED vars
  <2>1. UNCHANGED <<pc, status, stdout, written, lost, due, read>>
    BY <1>18 DEF vars, output
  <2>2. TokensRead' = TokensRead
    BY <1>0, <2>1 DEF TokensRead
  <2> QED
    BY <1>0, <1>2, <2>1, <2>2, WroteNothing DEF Written
<1> QED
  BY <1>5, <1>6, <1>7, <1>8, <1>9, <1>10, <1>11, <1>12, <1>13, <1>14, <1>15,
     <1>16, <1>17, <1>18 DEF Next

-----------------------------------------------------------------------------
LEMMA IInvInit == Init => IInv
<1> SUFFICES ASSUME Init PROVE IInv
  OBVIOUS
<1>1. TypeOK
  BY TypeInit
<1>2. /\ pc = "setup" /\ read = 0 /\ written = 0 /\ ~lost /\ ~due /\ status = -1
      /\ stdout = <<>> /\ stderr = <<>> /\ errors = 0
  BY DEF Init
<1>3. DOMAIN stderr = {} /\ DOMAIN stdout = {}
  BY <1>2
<1>4. Place /\ Told /\ Written
  BY <1>2, <1>3 DEF Place, Told, Written
<1>5. StdoutIsABeginning
  BY <1>2, <1>3 DEF StdoutIsABeginning
<1>6. OneError
  BY <1>2, <1>3 DEF OneError
<1> QED
  BY <1>1, <1>4, <1>5, <1>6 DEF IInv

LEMMA IInvNext == IInv /\ [Next]_vars => IInv'
  BY TypeNext, PlaceNext, ToldNext, StdoutNext, Zenon DEF IInv

(***************************************************************************)
(* Where a command may end with which status, and what it has told then,   *)
(* is all that its exit status promises.                                   *)
(***************************************************************************)
LEMMA IInvTells == IInv => ExitStatusTells
<1> SUFFICES ASSUME IInv, status # -1 PROVE ExitStatusTells
  BY DEF ExitStatusTells, Exited
<1>1. TypeOK /\ Place /\ Told /\ Written
  BY DEF IInv
<1>2. /\ pc \in Places \ {"setup"} /\ status \in {0, 1, 101}
      /\ stderr \in Seq(Messages)
  BY <1>1 DEF TypeOK, Places, Messages, Place
<1>3. ASSUME status = 0 PROVE Right /\ command # "--check"
  <2>1. pc \in {"echo", "lex", "parse", "print"}
    BY <1>1, <1>2, <1>3 DEF Place, Places
  <2> QED
    BY <1>1, <1>3, <2>1 DEF Place, PrintCommands
<1>4. status = 0 /\ command # "--print-ast" => OutputBefore(LastPiece - 1) \subseteq Shown(stdout)
  BY <1>1, Zenon DEF Written
<1>5. ASSUME Right, command # "--check", lost => command = "--print-ast"
      PROVE  status = 0
  BY <1>1, <1>2, <1>5 DEF Place, Places, PrintCommands
<1>6. ASSUME status = 101, ~(command = "--check" /\ Right), ~AtPanickingComment
      PROVE  (file.io # "ok" \/ lost) /\ OnlyWarned
  <2>1. pc \in {"print", "failed"} /\ (file.io # "ok" \/ lost)
    BY <1>1, <1>2, <1>6 DEF Place, Places
  <2>2. OnlyWarned
    BY <1>1, <1>6, <2>1 DEF Told, OnlyWarned
  <2> QED
    BY <2>1, <2>2
<1> QED
  BY <1>3, <1>4, <1>5, <1>6, Zenon DEF ExitStatusTells

LEMMA IInvAlways == Spec => []IInv
  BY IInvInit, IInvNext, PTL DEF Spec

-----------------------------------------------------------------------------
(***************************************************************************)
(* The exit status 0 means a right file and an output that is complete up  *)
(* to its last piece, but for --print-ast; nothing but --check, a comment  *)
(* or a failure that could not be told panics (main.rs:92-118).            *)
(***************************************************************************)
THEOREM DriverExitStatus == Spec => []ExitStatusTells
  BY IInvAlways, IInvTells, PTL

(***************************************************************************)
(* Standard output is a beginning of the full output (main.rs:206-311).    *)
(***************************************************************************)
THEOREM DriverStdout == Spec => []StdoutIsABeginning
<1>1. IInv => StdoutIsABeginning
  BY DEF IInv
<1> QED
  BY <1>1, IInvAlways, PTL

(***************************************************************************)
(* No more than one error, and no success told (diagnostics.rs:126-154).   *)
(***************************************************************************)
THEOREM DriverOneError == Spec => []OneError
<1>1. IInv => OneError
  BY DEF IInv
<1> QED
  BY <1>1, IInvAlways, PTL

(***************************************************************************)
(* The variables of the command keep their types, and no more items are    *)
(* read than the file has (main.rs:170-311).                               *)
(***************************************************************************)
THEOREM DriverTypeOK == Spec => []TypeOK
<1>1. IInv => TypeOK
  BY DEF IInv
<1> QED
  BY <1>1, IInvAlways, PTL
=============================================================================
