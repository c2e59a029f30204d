------------------------------ MODULE Interval ------------------------------
(***************************************************************************)
(* What a span promises (asciifile/span.rs:1-24): it is a set of           *)
(* characters of the file without gaps and never empty, which grows by as  *)
(* little as it has to and is cut to what it shares with another one.      *)
(***************************************************************************)
EXTENDS Integers, FiniteSetsExt

VARIABLES length,    \* of the file
          chars      \* the offsets of the characters

vars == <<length, chars>>

Init == /\ length \in Nat \ {0}
        /\ chars \in {{o} : o \in 0..(length - 1)}

Ranges == {a..b : a, b \in 0..(length - 1)} \ {{}}

Include(range) == chars' = Min(chars \cup range)..Max(chars \cup range)

Share(range) == /\ chars \cap range # {}
                /\ chars' = chars \cap range

Next == /\ \E range \in Ranges : Include(range) \/ Share(range)
        /\ UNCHANGED length

Spec == Init /\ [][Next]_vars
=============================================================================
