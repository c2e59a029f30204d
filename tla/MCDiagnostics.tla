--------------------------- MODULE MCDiagnostics ---------------------------
(***************************************************************************)
(* Diagnostics on every file of at most MaxLen characters over two         *)
(* alphabets, each file with every span: visible characters and newlines   *)
(* mixed with the characters that take several cells, and with carriage    *)
(* returns, which take none.                                               *)
(***************************************************************************)
EXTENDS Diagnostics

CONSTANT MaxLen

FilesOver(S) == UNION {[1..n -> S] : n \in 1..MaxLen}

MCFiles == FilesOver({"a", Tab, "c", LF}) \cup FilesOver({"a", CR, LF})
============================================================================
