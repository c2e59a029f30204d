------------------------------- MODULE MCDriver -------------------------------
(***************************************************************************)
(* Driver with every command on every file of at most MaxItems items, with *)
(* the syntax error at every token, at the end or nowhere, and on files    *)
(* that cannot be read.                                                    *)
(***************************************************************************)
EXTENDS Driver

CONSTANT MaxItems

Texts == {[io |-> "ok", items |-> s, wrong |-> w] :
             s \in UNION {[1..n -> Items] : n \in 0..MaxItems}, w \in 0..(MaxItems + 1)}

Unreadable == {[io |-> io, items |-> <<"token">>, wrong |-> 0] :
                  io \in {"missing", "directory", "unmappable", "not ascii"}}

MCFiles == Unreadable \cup
           {f \in Texts :
               /\ \/ f.wrong \in {0, Len(f.items) + 1}
                  \/ f.wrong \in DOMAIN f.items /\ f.items[f.wrong] = "token"
               /\ \A i \in DOMAIN f.items :
                      f.items[i] \in {"unclosed", "opening"} => i = Len(f.items)}
===============================================================================
