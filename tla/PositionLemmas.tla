--------------------------- MODULE PositionLemmas ---------------------------
(***************************************************************************)
(* Lemmas about the operators of Position and Span, for every file: a      *)
(* position is determined by its offset, the iterators visit the offsets   *)
(* in order, get_line() returns a line, and the spans of a file are its    *)
(* non-empty ranges.  The proofs about the modules that use positions      *)
(* rest on them.                                                           *)
(*                                                                         *)
(* An iterator is a recursive function.  That its recursion equation holds *)
(* is a lemma: the function of the positions at the offsets it passes      *)
(* satisfies the equation, hence so does the one that is chosen.           *)
(***************************************************************************)
EXTENDS Span, FiniteSetTheorems, WellFoundedInduction, TLAPS

(***************************************************************************)
(* A non-empty set of naturals below a bound has a largest element.        *)
(***************************************************************************)
LEMMA BoundedSetHasMax ==
    ASSUME NEW n \in Nat, NEW S \in SUBSET (0..n), S # {}
    PROVE  \E m \in S : \A j \in S : j <= m
<1> DEFINE D == {k \in 0..n : n - k \in S}
<1>1. D \subseteq Nat /\ D # {}
  <2>1. PICK s \in S : TRUE
    OBVIOUS
  <2>2. n - s \in 0..n /\ n - (n - s) = s
    OBVIOUS
  <2> QED
    BY <2>1, <2>2
<1>2. PICK d \in D : \A y \in D : ~(<<y, d>> \in OpToRel(<, Nat))
  BY <1>1, NatLessThanWellFounded, WFMin
<1>3. \A y \in D : d <= y
  <2> TAKE y \in D
  <2>1. <<y, d>> \in Nat \X Nat /\ ~(y < d)
    BY <1>1, <1>2 DEF OpToRel
  <2> QED
    BY <2>1
<1>4. \A j \in S : n - j \in D /\ j <= n - d
  <2> TAKE j \in S
  <2>1. n - j \in 0..n /\ n - (n - j) = j
    OBVIOUS
  <2>2. n - j \in D
    BY <2>1
  <2> QED
    BY <1>3, <2>2
<1> QED
  BY <1>4

(***************************************************************************)
(* rfind('\n').unwrap_or(0) is the last newline, if there is one.          *)
(***************************************************************************)
LEMMA RfindIsLastNewline ==
    ASSUME NEW f, NEW n \in Nat, newlines_before(f, n) # {}
    PROVE  /\ rfind_newline_or_0(f, n) \in newlines_before(f, n)
           /\ \A j \in newlines_before(f, n) : j <= rfind_newline_or_0(f, n)
<1>1. newlines_before(f, n) \in SUBSET (0..n)
  BY DEF newlines_before
<1>2. \E i \in newlines_before(f, n) : \A j \in newlines_before(f, n) : j <= i
  BY <1>1, BoundedSetHasMax
<1> QED
  BY <1>2 DEF rfind_newline_or_0

(***************************************************************************)
(* The newlines up to an offset, counted one offset further.               *)
(***************************************************************************)
LEMMA NewlinesStep ==
    ASSUME NEW f, NEW o \in Nat
    PROVE  /\ IsFiniteSet(newlines_through(f, o))
           /\ Cardinality(newlines_through(f, o)) \in Nat
           /\ newlines_through(f, o + 1) =
                IF f[o + 2] = LF THEN newlines_through(f, o) \cup {o + 1}
                                    ELSE newlines_through(f, o)
           /\ o + 1 \notin newlines_through(f, o)
           /\ Cardinality(newlines_through(f, o + 1)) =
                Cardinality(newlines_through(f, o))
                    + (IF f[o + 2] = LF THEN 1 ELSE 0)
<1>1. IsFiniteSet(0..o) /\ newlines_through(f, o) \in SUBSET (0..o)
  BY FS_Interval DEF newlines_through
<1>2. IsFiniteSet(newlines_through(f, o))
  BY <1>1, FS_Subset
<1>3. Cardinality(newlines_through(f, o)) \in Nat
  BY <1>2, FS_CardinalityType
<1>4. newlines_through(f, o + 1) =
        IF f[o + 2] = LF THEN newlines_through(f, o) \cup {o + 1}
                            ELSE newlines_through(f, o)
  <2>1. 0..o + 1 = (0..o) \cup {o + 1} /\ (o + 1) + 1 = o + 2
    OBVIOUS
  <2> QED
    BY <2>1 DEF newlines_through
<1>5. o + 1 \notin newlines_through(f, o)
  BY DEF newlines_through
<1>6. Cardinality(newlines_through(f, o) \cup {o + 1})
        = Cardinality(newlines_through(f, o)) + 1
  BY <1>2, <1>5, FS_AddElement
<1>7. CASE f[o + 2] = LF
  BY <1>2, <1>3, <1>4, <1>5, <1>6, <1>7
<1>8. CASE f[o + 2] # LF
  BY <1>2, <1>3, <1>4, <1>5, <1>8
<1> QED
  BY <1>7, <1>8

(***************************************************************************)
(* The position of an offset, determined by the text: PositionInv holds of *)
(* at most one row and column.  Both directions of the list therefore only *)
(* have to be shown to preserve it.                                        *)
(***************************************************************************)
At(f, p) == p \in PositionType /\ p.byte_offset < Len(f)
            /\ RowIsRight(f, p) /\ ColIsRight(f, p)

LEMMA ColFromLastNewline ==
    ASSUME NEW f, NEW p, NEW nl \in newlines_through(f, p.byte_offset),
           \A i \in newlines_through(f, p.byte_offset) : i <= nl,
           p.col = p.byte_offset - nl
    PROVE  ColIsRight(f, p)
BY DEF ColIsRight

LEMMA StartIsAt ==
    ASSUME NEW f \in Seq(Char) \ {<<>>}
    PROVE  At(f, at_file_start(f))
<1> DEFINE p == at_file_start(f)
<1>1. Len(f) \in Nat \ {0}
  OBVIOUS
<1>2. newlines_through(f, 0) = IF f[1] = LF THEN {0} ELSE {}
  <2>1. 0..0 = {0} /\ 0 + 1 = 1
    OBVIOUS
  <2> QED
    BY <2>1 DEF newlines_through
<1>3. Cardinality({}) = 0 /\ Cardinality({0}) = 1
  BY FS_EmptySet, FS_Singleton
<1>4. p \in PositionType /\ p.byte_offset = 0 /\ p.col = 0
        /\ p.row = IF f[1] = LF THEN 1 ELSE 0
  BY DEF at_file_start, PositionType
<1>5. RowIsRight(f, p)
  BY <1>2, <1>3, <1>4 DEF RowIsRight
<1>6. ColIsRight(f, p)
  BY <1>2, <1>4 DEF ColIsRight
<1> QED
  BY <1>1, <1>4, <1>5, <1>6 DEF At

LEMMA NextIsAt ==
    ASSUME NEW f \in Seq(Char) \ {<<>>}, NEW p, At(f, p), has_next(f, p)
    PROVE  At(f, next_of(f, p)) /\ next_of(f, p).byte_offset = p.byte_offset + 1
<1> DEFINE o == p.byte_offset
           q == next_of(f, p)
<1>1. p \in PositionType /\ o \in Nat /\ p.row \in Nat /\ p.col \in Nat
        /\ Len(f) \in Nat /\ o + 1 < Len(f)
  BY DEF At, PositionType, has_next
<1>2. q \in PositionType /\ q.byte_offset = o + 1
        /\ q.row = p.row + (IF f[o + 2] = LF THEN 1 ELSE 0)
        /\ q.col = IF f[o + 2] = LF THEN 0 ELSE p.col + 1
  <2>1. CASE f[o + 2] = LF
    <3>1. q = [row |-> p.row + 1, col |-> 0, byte_offset |-> o + 1]
      BY <2>1 DEF next_of, consume_char
    <3> QED
      BY <1>1, <2>1, <3>1 DEF PositionType
  <2>2. CASE f[o + 2] # LF
    <3>1. q = [row |-> p.row, col |-> p.col + 1, byte_offset |-> o + 1]
      BY <2>2 DEF next_of, consume_char
    <3> QED
      BY <1>1, <2>2, <3>1 DEF PositionType
  <2> QED
    BY <2>1, <2>2
<1>3. RowIsRight(f, q)
  BY <1>1, <1>2, NewlinesStep DEF RowIsRight, At
<1>4. ColIsRight(f, q)
  <2>1. ColIsRight(f, p)
    BY DEF At
  <2>2. \A i \in newlines_through(f, o) : i \in 0..o
    BY DEF newlines_through
  <2>3. CASE f[o + 2] = LF
    <3>1. newlines_through(f, o + 1) = newlines_through(f, o) \cup {o + 1}
      BY <1>1, <2>3, NewlinesStep
    <3>2. \A i \in newlines_through(f, o + 1) : i <= o + 1
      BY <1>1, <2>2, <3>1
    <3>3. o + 1 \in newlines_through(f, q.byte_offset)
            /\ (\A i \in newlines_through(f, q.byte_offset) : i <= o + 1)
            /\ q.col = q.byte_offset - (o + 1)
      BY <1>1, <1>2, <2>3, <3>1, <3>2
    <3> QED
      BY <3>3, ColFromLastNewline
  <2>4. CASE f[o + 2] # LF
    <3>1. newlines_through(f, o + 1) = newlines_through(f, o)
      BY <1>1, <2>4, NewlinesStep
    <3>2. CASE newlines_through(f, o) = {}
      BY <1>1, <1>2, <2>1, <2>4, <3>1, <3>2 DEF ColIsRight
    <3>3. CASE newlines_through(f, o) # {}
      <4>1. PICK nl \in newlines_through(f, o) :
                (\A i \in newlines_through(f, o) : i <= nl) /\ p.col = o - nl
        BY <2>1, <3>3 DEF ColIsRight
      <4>2. q.col = q.byte_offset - nl
        BY <1>1, <1>2, <2>2, <2>4, <4>1
      <4> QED
        BY <1>2, <3>1, <4>1, <4>2, ColFromLastNewline
    <3> QED
      BY <3>2, <3>3
  <2> QED
    BY <2>3, <2>4
<1> QED
  BY <1>1, <1>2, <1>3, <1>4 DEF At

LEMMA PrevIsAt ==
    ASSUME NEW f \in Seq(Char) \ {<<>>}, NEW p, At(f, p), has_prev(f, p)
    PROVE  At(f, prev_of(f, p)) /\ prev_of(f, p).byte_offset = p.byte_offset - 1
<1> DEFINE o == p.byte_offset
           q == prev_of(f, p)
<1>1. p \in PositionType /\ o \in Nat \ {0} /\ o - 1 \in Nat
        /\ (o - 1) + 1 = o /\ (o - 1) + 2 = o + 1
        /\ p.row \in Nat /\ p.col \in Nat
        /\ Len(f) \in Nat /\ o < Len(f)
  BY DEF At, PositionType, has_prev
<1>2. ColIsRight(f, p) /\ RowIsRight(f, p)
  BY DEF At
<1>3. \A i \in newlines_through(f, o - 1) : i \in 0..o - 1
  BY DEF newlines_through
<1>4. /\ newlines_through(f, o) =
           IF f[o + 1] = LF THEN newlines_through(f, o - 1) \cup {o}
                               ELSE newlines_through(f, o - 1)
      /\ Cardinality(newlines_through(f, o - 1)) \in Nat
      /\ Cardinality(newlines_through(f, o)) =
           Cardinality(newlines_through(f, o - 1))
               + (IF f[o + 1] = LF THEN 1 ELSE 0)
  <2> DEFINE m == o - 1
  <2>1. m \in Nat /\ m + 1 = o /\ m + 2 = o + 1
    BY <1>1
  <2> HIDE DEF m
  <2>2. /\ newlines_through(f, m + 1) =
               IF f[m + 2] = LF THEN newlines_through(f, m) \cup {m + 1}
                                ELSE newlines_through(f, m)
        /\ Cardinality(newlines_through(f, m)) \in Nat
        /\ Cardinality(newlines_through(f, m + 1)) =
               Cardinality(newlines_through(f, m)) + (IF f[m + 2] = LF THEN 1 ELSE 0)
    BY <2>1, NewlinesStep
  <2> QED
    BY <2>1, <2>2 DEF m
<1>5. CASE f[o + 1] = LF
  <2> DEFINE r == rfind_newline_or_0(f, o)
  <2>1. q = [row |-> p.row - 1, col |-> o - r - 1, byte_offset |-> o - 1]
    BY <1>5 DEF prev_of, chr
  <2>2. newlines_before(f, o) = newlines_through(f, o - 1)
    BY DEF newlines_before, newlines_through
  <2>3. p.row = Cardinality(newlines_through(f, o - 1)) + 1
    BY <1>2, <1>4, <1>5 DEF RowIsRight
  <2>4. CASE newlines_through(f, o - 1) = {}
    <3>1. r = 0
      BY <2>2, <2>4 DEF rfind_newline_or_0
    <3>2. q.col = o - 1 /\ q.byte_offset = o - 1 /\ q.row = p.row - 1
            /\ q \in PositionType
      BY <1>1, <1>4, <2>1, <2>3, <3>1 DEF PositionType
    <3> QED
      BY <1>1, <1>4, <2>3, <2>4, <3>2 DEF At, RowIsRight, ColIsRight
  <2>5. CASE newlines_through(f, o - 1) # {}
    <3>1. r \in newlines_through(f, o - 1) /\ \A j \in newlines_through(f, o - 1) : j <= r
      BY <1>1, <2>2, <2>5, RfindIsLastNewline
    <3>2. q.col = (o - 1) - r /\ q.byte_offset = o - 1 /\ q.row = p.row - 1
            /\ q \in PositionType
      BY <1>1, <1>3, <1>4, <2>1, <2>3, <3>1 DEF PositionType
    <3> QED
      BY <1>1, <1>4, <2>3, <2>5, <3>1, <3>2 DEF At, RowIsRight, ColIsRight
  <2> QED
    BY <2>4, <2>5
<1>6. CASE f[o + 1] # LF
  <2>1. q = [row |-> p.row, col |-> p.col - 1, byte_offset |-> o - 1]
    BY <1>6 DEF prev_of, chr
  <2>2. newlines_through(f, o) = newlines_through(f, o - 1)
    BY <1>4, <1>6
  <2>3. p.col \in Nat \ {0}
    <3>1. CASE newlines_through(f, o) = {}
      BY <1>1, <1>2, <3>1 DEF ColIsRight
    <3>2. CASE newlines_through(f, o) # {}
      <4>1. PICK nl \in newlines_through(f, o) : p.col = o - nl
        BY <1>2, <3>2 DEF ColIsRight
      <4> QED
        BY <1>1, <1>3, <2>2, <4>1
    <3> QED
      BY <3>1, <3>2
  <2>4. q.col = p.col - 1 /\ q.byte_offset = o - 1 /\ q.row = p.row
          /\ q \in PositionType
    BY <1>1, <2>1, <2>3 DEF PositionType
  <2>5. RowIsRight(f, q)
    BY <1>2, <2>2, <2>4 DEF RowIsRight
  <2>6. ColIsRight(f, q)
    <3>1. CASE newlines_through(f, o) = {}
      BY <1>1, <1>2, <2>2, <2>4, <3>1 DEF ColIsRight
    <3>2. CASE newlines_through(f, o) # {}
      <4>1. PICK nl \in newlines_through(f, o) :
                (\A i \in newlines_through(f, o) : i <= nl) /\ p.col = o - nl
        BY <1>2, <3>2 DEF ColIsRight
      <4>2. q.col = q.byte_offset - nl
        BY <1>1, <1>3, <2>2, <2>4, <4>1
      <4> QED
        BY <2>2, <2>4, <4>1, <4>2, ColFromLastNewline
    <3> QED
      BY <3>1, <3>2
  <2> QED
    BY <1>1, <2>4, <2>5, <2>6 DEF At
<1> QED
  BY <1>5, <1>6

(***************************************************************************)
(* Two valid positions of one offset are the same position.                *)
(***************************************************************************)
LEMMA AtIsUnique ==
    ASSUME NEW f, NEW p, NEW q, At(f, p), At(f, q), p.byte_offset = q.byte_offset
    PROVE  p = q
<1> DEFINE nls == newlines_through(f, p.byte_offset)
<1>1. p.row = q.row
  BY DEF At, RowIsRight
<1>2. p.byte_offset \in Nat /\ p.col \in Nat /\ q.col \in Nat
  BY DEF At, PositionType
<1>3. p.col = q.col
  <2>1. CASE nls = {}
    BY <2>1 DEF At, ColIsRight
  <2>2. CASE nls # {}
    <3>1. PICK a \in nls : (\A i \in nls : i <= a) /\ p.col = p.byte_offset - a
      BY <2>2 DEF At, ColIsRight
    <3>2. PICK b \in nls : (\A i \in nls : i <= b) /\ q.col = p.byte_offset - b
      BY <2>2 DEF At, ColIsRight
    <3>3. a \in Int /\ b \in Int
      BY <1>2, <3>1, <3>2 DEF newlines_through
    <3>4. a <= b /\ b <= a
      BY <3>1, <3>2
    <3> QED
      BY <3>1, <3>2, <3>3, <3>4
  <2> QED
    BY <2>1, <2>2
<1> QED
  BY <1>1, <1>3 DEF At, PositionType

(***************************************************************************)
(* Induction up to a bound, for a set that is closed under successor.      *)
(***************************************************************************)
LEMMA InductionUpTo ==
    ASSUME NEW n \in Nat, NEW S, 0 \in S,
           \A k \in 0..n - 1 : k \in S => k + 1 \in S
    PROVE  \A k \in 0..n : k \in S
<1> DEFINE D == {k \in 0..n : k \notin S}
<1>1. SUFFICES ASSUME D # {} PROVE FALSE
  OBVIOUS
<1>2. D \subseteq Nat
  OBVIOUS
<1>3. PICK d \in D : \A y \in D : ~(<<y, d>> \in OpToRel(<, Nat))
  BY <1>1, <1>2, NatLessThanWellFounded, WFMin
<1>4. d \in 1..n /\ d - 1 \in 0..n - 1 /\ (d - 1) + 1 = d /\ d - 1 < d
  <2>1. d \in 0..n /\ d # 0
    OBVIOUS
  <2> QED
    BY <2>1
<1>5. d - 1 \notin D
  BY <1>2, <1>3, <1>4 DEF OpToRel
<1> QED
  BY <1>4, <1>5

LEMMA BoundedSetHasMin ==
    ASSUME NEW n \in Nat, NEW S \in SUBSET (0..n), S # {}
    PROVE  \E m \in S : \A j \in S : m <= j
<1>1. S \subseteq Nat
  OBVIOUS
<1>2. PICK m \in S : \A y \in S : ~(<<y, m>> \in OpToRel(<, Nat))
  BY <1>1, NatLessThanWellFounded, WFMin
<1>3. \A j \in S : m <= j
  <2> TAKE j \in S
  <2>1. <<j, m>> \in Nat \X Nat /\ ~(j < m)
    BY <1>1, <1>2 DEF OpToRel
  <2> QED
    BY <2>1
<1> QED
  BY <1>3

(***************************************************************************)
(* Every offset has a position.                                            *)
(***************************************************************************)
LEMMA OffsetHasPosition ==
    ASSUME NEW f \in Seq(Char) \ {<<>>}, NEW o \in 0..Len(f) - 1
    PROVE  \E p : At(f, p) /\ p.byte_offset = o
<1> DEFINE n == Len(f) - 1
           S == {k \in 0..n : \E p : At(f, p) /\ p.byte_offset = k}
<1>1. n \in Nat /\ Len(f) \in Nat
  OBVIOUS
<1>2. 0 \in S
  <2>1. at_file_start(f).byte_offset = 0
    BY DEF at_file_start
  <2> QED
    BY <1>1, <2>1, StartIsAt
<1>3. ASSUME NEW k \in 0..n - 1, k \in S PROVE k + 1 \in S
  <2>1. PICK p : At(f, p) /\ p.byte_offset = k
    BY <1>3
  <2>2. has_next(f, p)
    BY <1>1, <2>1 DEF has_next
  <2>3. At(f, next_of(f, p)) /\ next_of(f, p).byte_offset = k + 1
    BY <2>1, <2>2, NextIsAt
  <2>4. k + 1 \in 0..n
    BY <1>1
  <2> QED
    BY <2>3, <2>4
<1> HIDE DEF S
<1>4. \A k \in 0..n : k \in S
  BY <1>1, <1>2, <1>3, InductionUpTo
<1> QED
  BY <1>4 DEF S

(***************************************************************************)
(* PositionIterator: the k-th position is the one k characters ahead.      *)
(***************************************************************************)
LEMMA IterVisits ==
    ASSUME NEW f \in Seq(Char) \ {<<>>}, NEW p, At(f, p)
    PROVE  LET walk == iter(f, p)
               n    == Len(f) - 1 - p.byte_offset
           IN  /\ n \in Nat
               /\ DOMAIN walk = 0..n
               /\ walk[0] = p
               /\ \A k \in 0..n : /\ At(f, walk[k])
                                  /\ walk[k].byte_offset = p.byte_offset + k
<1> DEFINE o == p.byte_offset
           n == Len(f) - 1 - o
           Equation(w) == w = [k \in 0..n |-> IF k = 0 THEN p ELSE next_of(f, w[k - 1])]
           W == [k \in 0..n |-> CHOOSE q : At(f, q) /\ q.byte_offset = o + k]
           walk == iter(f, p)
<1>1. o \in Nat /\ Len(f) \in Nat /\ o < Len(f) /\ n \in Nat
  BY DEF At, PositionType
<1>2. ASSUME NEW k \in 0..n PROVE At(f, W[k]) /\ W[k].byte_offset = o + k
  <2>1. o + k \in 0..Len(f) - 1
    BY <1>1
  <2> QED
    BY <2>1, OffsetHasPosition
<1>3. ASSUME NEW k \in 0..n PROVE W[k] = IF k = 0 THEN p ELSE next_of(f, W[k - 1])
  <2>1. CASE k = 0
    <3>1. W[0].byte_offset = o /\ At(f, W[0])
      BY <1>1, <1>2, <2>1
    <3> HIDE DEF W
    <3> QED
      BY <2>1, <3>1, AtIsUnique
  <2>2. CASE k # 0
    <3>1. k - 1 \in 0..n /\ k \in 1..n
      BY <1>1, <2>2
    <3>2. At(f, W[k - 1]) /\ W[k - 1].byte_offset = o + (k - 1)
      BY <1>2, <3>1
    <3>3. At(f, W[k]) /\ W[k].byte_offset = o + k
      BY <1>2
    <3> HIDE DEF W
    <3>4. has_next(f, W[k - 1])
      BY <1>1, <3>1, <3>2 DEF has_next
    <3>5. At(f, next_of(f, W[k - 1]))
            /\ next_of(f, W[k - 1]).byte_offset = o + (k - 1) + 1
      BY <3>2, <3>4, NextIsAt
    <3>6. o + (k - 1) + 1 = o + k
      BY <1>1
    <3>7. W[k] = next_of(f, W[k - 1])
      BY <3>3, <3>5, <3>6, AtIsUnique
    <3> QED
      BY <2>2, <3>7
  <2> QED
    BY <2>1, <2>2
<1>4. Equation(W)
  <2>1. W = [k \in 0..n |-> W[k]]
    OBVIOUS
  <2> HIDE DEF W
  <2>2. [k \in 0..n |-> W[k]] = [k \in 0..n |-> IF k = 0 THEN p ELSE next_of(f, W[k - 1])]
    BY <1>3
  <2> QED
    BY <2>1, <2>2
<1>5. Equation(walk)
  <2> HIDE DEF W, n
  <2>1. walk = CHOOSE w : Equation(w)
    BY DEF iter, n
  <2> HIDE DEF walk, Equation
  <2> QED
    BY <1>4, <2>1
<1> HIDE DEF W, n, walk
<1>6. DOMAIN walk = 0..n /\ walk[0] = p
        /\ \A k \in 1..n : walk[k] = next_of(f, walk[k - 1])
  BY <1>1, <1>5
<1> DEFINE S == {k \in 0..n : At(f, walk[k]) /\ walk[k].byte_offset = o + k}
<1>7. 0 \in S
  BY <1>1, <1>6
<1>8. ASSUME NEW k \in 0..n - 1, k \in S PROVE k + 1 \in S
  <2>1. At(f, walk[k]) /\ walk[k].byte_offset = o + k
    BY <1>8
  <2>2. has_next(f, walk[k])
    BY <1>1, <2>1 DEF has_next, n
  <2>3. walk[k + 1] = next_of(f, walk[k])
    <3>1. k + 1 \in 1..n /\ (k + 1) - 1 = k
      BY <1>1
    <3> QED
      BY <1>6, <3>1
  <2>4. At(f, walk[k + 1]) /\ walk[k + 1].byte_offset = (o + k) + 1
    BY <2>1, <2>2, <2>3, NextIsAt
  <2>5. (o + k) + 1 = o + (k + 1) /\ k + 1 \in 0..n
    BY <1>1
  <2> QED
    BY <2>4, <2>5
<1> HIDE DEF S
<1>9. \A k \in 0..n : k \in S
  BY <1>1, <1>7, <1>8, InductionUpTo
<1> QED
  BY <1>1, <1>6, <1>9 DEF S, n, walk

(***************************************************************************)
(* ReversePositionIterator: the k-th position is the one k characters back.*)
(***************************************************************************)
LEMMA ReverseIterVisits ==
    ASSUME NEW f \in Seq(Char) \ {<<>>}, NEW p, At(f, p)
    PROVE  LET walk == reverse_iter(f, p)
               n    == p.byte_offset
           IN  /\ n \in Nat
               /\ DOMAIN walk = 0..n
               /\ walk[0] = p
               /\ \A k \in 0..n : /\ At(f, walk[k])
                                  /\ walk[k].byte_offset = n - k
<1> DEFINE n == p.byte_offset
           Equation(w) == w = [k \in 0..n |-> IF k = 0 THEN p ELSE prev_of(f, w[k - 1])]
           W == [k \in 0..n |-> CHOOSE q : At(f, q) /\ q.byte_offset = n - k]
           walk == reverse_iter(f, p)
<1>1. Len(f) \in Nat /\ n < Len(f) /\ n \in Nat
  BY DEF At, PositionType
<1>2. ASSUME NEW k \in 0..n PROVE At(f, W[k]) /\ W[k].byte_offset = n - k
  <2>1. n - k \in 0..Len(f) - 1
    BY <1>1
  <2> QED
    BY <2>1, OffsetHasPosition
<1>3. ASSUME NEW k \in 0..n PROVE W[k] = IF k = 0 THEN p ELSE prev_of(f, W[k - 1])
  <2>1. CASE k = 0
    <3>1. W[0].byte_offset = n /\ At(f, W[0])
      BY <1>1, <1>2, <2>1
    <3> HIDE DEF W
    <3> QED
      BY <2>1, <3>1, AtIsUnique
  <2>2. CASE k # 0
    <3>1. k - 1 \in 0..n /\ k \in 1..n
      BY <1>1, <2>2
    <3>2. At(f, W[k - 1]) /\ W[k - 1].byte_offset = n - (k - 1)
      BY <1>2, <3>1
    <3>3. At(f, W[k]) /\ W[k].byte_offset = n - k
      BY <1>2
    <3> HIDE DEF W
    <3>4. has_prev(f, W[k - 1])
      BY <1>1, <3>1, <3>2 DEF has_prev
    <3>5. At(f, prev_of(f, W[k - 1]))
            /\ prev_of(f, W[k - 1]).byte_offset = n - (k - 1) - 1
      BY <3>2, <3>4, PrevIsAt
    <3>6. n - (k - 1) - 1 = n - k
      BY <1>1
    <3>7. W[k] = prev_of(f, W[k - 1])
      BY <3>3, <3>5, <3>6, AtIsUnique
    <3> QED
      BY <2>2, <3>7
  <2> QED
    BY <2>1, <2>2
<1>4. Equation(W)
  <2>1. W = [k \in 0..n |-> W[k]]
    OBVIOUS
  <2> HIDE DEF W
  <2>2. [k \in 0..n |-> W[k]] = [k \in 0..n |-> IF k = 0 THEN p ELSE prev_of(f, W[k - 1])]
    BY <1>3
  <2> QED
    BY <2>1, <2>2
<1>5. Equation(walk)
  <2> HIDE DEF W
  <2>1. walk = CHOOSE w : Equation(w)
    BY DEF reverse_iter
  <2> HIDE DEF walk, Equation
  <2> QED
    BY <1>4, <2>1
<1> HIDE DEF W, walk
<1>6. DOMAIN walk = 0..n /\ walk[0] = p
        /\ \A k \in 1..n : walk[k] = prev_of(f, walk[k - 1])
  BY <1>1, <1>5
<1> DEFINE S == {k \in 0..n : At(f, walk[k]) /\ walk[k].byte_offset = n - k}
<1>7. 0 \in S
  BY <1>1, <1>6
<1>8. ASSUME NEW k \in 0..n - 1, k \in S PROVE k + 1 \in S
  <2>1. At(f, walk[k]) /\ walk[k].byte_offset = n - k
    BY <1>8
  <2>2. has_prev(f, walk[k])
    BY <1>1, <2>1 DEF has_prev
  <2>3. walk[k + 1] = prev_of(f, walk[k])
    <3>1. k + 1 \in 1..n /\ (k + 1) - 1 = k
      BY <1>1
    <3> QED
      BY <1>6, <3>1
  <2>4. At(f, walk[k + 1]) /\ walk[k + 1].byte_offset = (n - k) - 1
    BY <2>1, <2>2, <2>3, PrevIsAt
  <2>5. (n - k) - 1 = n - (k + 1) /\ k + 1 \in 0..n
    BY <1>1
  <2> QED
    BY <2>4, <2>5
<1> HIDE DEF S
<1>9. \A k \in 0..n : k \in S
  BY <1>1, <1>7, <1>8, InductionUpTo
<1> QED
  BY <1>1, <1>6, <1>9 DEF S, walk

(***************************************************************************)
(* A line of a file: both ends are positions of the file, no character but *)
(* the last is a newline, and it can be moved outwards on neither side.    *)
(***************************************************************************)
IsLine(f, line) ==
    /\ line = [start |-> line.start, end |-> line.end]
    /\ At(f, line.start) /\ At(f, line.end)
    /\ line.start.byte_offset <= line.end.byte_offset
    /\ \A i \in line.start.byte_offset..line.end.byte_offset - 1 : f[i + 1] # LF
    /\ line.start.byte_offset = 0 \/ f[line.start.byte_offset] = LF
    /\ \/ line.end.byte_offset = Len(f) - 1
       \/ f[line.end.byte_offset + 1] = LF

LEMMA LineStartOpens ==
    ASSUME NEW f \in Seq(Char) \ {<<>>}, NEW p, At(f, p)
    PROVE  LET q == line_start(f, p)
           IN  /\ At(f, q) /\ q.byte_offset <= p.byte_offset
               /\ \A i \in q.byte_offset..p.byte_offset - 1 : f[i + 1] # LF
               /\ q.byte_offset = 0 \/ f[q.byte_offset] = LF
<1> DEFINE n == p.byte_offset
           back == reverse_iter(f, p)
           opens(q) == has_prev(f, q) => chr(f, prev_of(f, q)) = LF
           Hits == {k \in 0..n : opens(back[k])}
           first(k) == opens(back[k]) /\ \A j \in DOMAIN back : j < k => ~opens(back[j])
<1>1. /\ n \in Nat
      /\ DOMAIN back = 0..n
      /\ \A k \in 0..n : At(f, back[k]) /\ back[k].byte_offset = n - k
  BY ReverseIterVisits
<1> HIDE DEF back
<1>2. ASSUME NEW k \in 0..n PROVE opens(back[k]) <=> (k = n \/ f[n - k] = LF)
  <2>1. CASE k = n
    <3>1. n - n = 0 /\ back[k].byte_offset = n - n
      BY <1>1, <2>1
    <3> QED
      BY <2>1, <3>1 DEF has_prev
  <2>2. CASE k # n
    <3>1. has_prev(f, back[k]) /\ n - k \in Nat /\ n - k - 1 + 1 = n - k
      BY <1>1, <2>2 DEF has_prev
    <3>2. prev_of(f, back[k]).byte_offset = n - k - 1
      BY <1>1, <3>1, PrevIsAt
    <3> QED
      BY <2>2, <3>1, <3>2 DEF chr
  <2> QED
    BY <2>1, <2>2
<1>3. n \in Hits
  BY <1>1, <1>2
<1> HIDE DEF opens
<1>4. PICK m \in Hits : \A j \in Hits : m <= j
  <2>1. Hits \in SUBSET (0..n) /\ Hits # {}
    BY <1>3
  <2> HIDE DEF Hits
  <2> QED
    BY <1>1, <2>1, BoundedSetHasMin
<1>5. first(m) /\ m \in DOMAIN back
  <2>1. \A j \in 0..n : j < m => j \notin Hits
    BY <1>1, <1>4
  <2> QED
    BY <1>1, <1>4, <2>1
<1> DEFINE k == CHOOSE i \in DOMAIN back : first(i)
<1>6. line_start(f, p) = back[k]
  BY DEF line_start, FirstIndex, back, opens
<1>7. k \in DOMAIN back /\ first(k)
  <2> HIDE DEF first
  <2> QED
    BY <1>5
<1> HIDE DEF k
<1>8. k \in 0..n /\ opens(back[k]) /\ \A j \in 0..n : j < k => ~opens(back[j])
  BY <1>1, <1>7
<1>9. At(f, back[k]) /\ back[k].byte_offset = n - k /\ n - k <= n
  BY <1>1, <1>8
<1>10. n - k = 0 \/ f[n - k] = LF
  BY <1>1, <1>2, <1>8
<1>11. ASSUME NEW i \in n - k..n - 1 PROVE f[i + 1] # LF
  <2>1. n - 1 - i \in 0..n /\ n - 1 - i < k /\ n - (n - 1 - i) = i + 1
    BY <1>1, <1>8
  <2> QED
    BY <1>2, <1>8, <2>1
<1> QED
  BY <1>6, <1>9, <1>10, <1>11

LEMMA LineEndCloses ==
    ASSUME NEW f \in Seq(Char) \ {<<>>}, NEW p, At(f, p)
    PROVE  LET q == line_end(f, p)
           IN  /\ At(f, q) /\ p.byte_offset <= q.byte_offset
               /\ \A i \in p.byte_offset..q.byte_offset - 1 : f[i + 1] # LF
               /\ q.byte_offset = Len(f) - 1 \/ f[q.byte_offset + 1] = LF
<1> DEFINE o == p.byte_offset
           n == Len(f) - 1 - o
           ahead == iter(f, p)
           closes(q) == chr(f, q) = LF \/ is_last(f, q)
           Hits == {k \in 0..n : closes(ahead[k])}
           first(k) == closes(ahead[k]) /\ \A j \in DOMAIN ahead : j < k => ~closes(ahead[j])
<1>1. /\ o \in Nat /\ Len(f) \in Nat /\ n \in Nat /\ o + n = Len(f) - 1
      /\ DOMAIN ahead = 0..n
      /\ \A k \in 0..n : At(f, ahead[k]) /\ ahead[k].byte_offset = o + k
  <2>1. o \in Nat /\ Len(f) \in Nat /\ o < Len(f)
    BY DEF At, PositionType
  <2> QED
    BY <2>1, IterVisits
<1> HIDE DEF ahead, n
<1>2. ASSUME NEW k \in 0..n PROVE closes(ahead[k]) <=> (k = n \/ f[o + k + 1] = LF)
  BY <1>1 DEF is_last, has_next, chr
<1>3. n \in Hits
  BY <1>1, <1>2
<1> HIDE DEF closes
<1>4. PICK m \in Hits : \A j \in Hits : m <= j
  <2>1. Hits \in SUBSET (0..n) /\ Hits # {}
    BY <1>3
  <2> HIDE DEF Hits
  <2> QED
    BY <1>1, <2>1, BoundedSetHasMin
<1>5. first(m) /\ m \in DOMAIN ahead
  <2>1. \A j \in 0..n : j < m => j \notin Hits
    BY <1>1, <1>4
  <2> QED
    BY <1>1, <1>4, <2>1
<1> DEFINE k == CHOOSE i \in DOMAIN ahead : first(i)
<1>6. line_end(f, p) = ahead[k]
  BY DEF line_end, FirstIndex, ahead, closes
<1>7. k \in DOMAIN ahead /\ first(k)
  <2> HIDE DEF first
  <2> QED
    BY <1>5
<1> HIDE DEF k
<1>8. k \in 0..n /\ closes(ahead[k]) /\ \A j \in 0..n : j < k => ~closes(ahead[j])
  BY <1>1, <1>7
<1>9. At(f, ahead[k]) /\ ahead[k].byte_offset = o + k /\ o <= o + k
  BY <1>1, <1>8
<1>10. o + k = Len(f) - 1 \/ f[o + k + 1] = LF
  BY <1>1, <1>2, <1>8
<1> DEFINE q == line_end(f, p)
<1>11. q.byte_offset = o + k /\ At(f, q)
  BY <1>6, <1>9
<1> HIDE DEF q
<1>12. ASSUME NEW i \in o..q.byte_offset - 1 PROVE f[i + 1] # LF
  <2>1. i - o \in 0..n /\ i - o < k /\ o + (i - o) + 1 = i + 1
    <3>1. o \in Nat /\ n \in Nat /\ k \in 0..n /\ i \in o..(o + k) - 1
      BY <1>1, <1>8, <1>11
    <3> HIDE DEF o
    <3> QED
      BY <3>1
  <2> QED
    BY <1>2, <1>8, <2>1
<1>13. q.byte_offset = Len(f) - 1 \/ f[q.byte_offset + 1] = LF
  BY <1>10, <1>11
<1> QED
  BY <1>9, <1>11, <1>12, <1>13 DEF q

(***************************************************************************)
(* get_line() is the line around a position.                               *)
(***************************************************************************)
LEMMA GetLineIsLine ==
    ASSUME NEW f \in Seq(Char) \ {<<>>}, NEW p, At(f, p)
    PROVE  LET line == get_line(f, p)
           IN  /\ IsLine(f, line)
               /\ p.byte_offset \in offsets(line)
<1> DEFINE line == get_line(f, p)
           s == line_start(f, p)
           e == line_end(f, p)
<1>1. line = [start |-> s, end |-> e] /\ line.start = s /\ line.end = e
  BY DEF get_line
<1>2. /\ At(f, s) /\ s.byte_offset <= p.byte_offset
      /\ \A i \in s.byte_offset..p.byte_offset - 1 : f[i + 1] # LF
      /\ s.byte_offset = 0 \/ f[s.byte_offset] = LF
  BY LineStartOpens
<1>3. /\ At(f, e) /\ p.byte_offset <= e.byte_offset
      /\ \A i \in p.byte_offset..e.byte_offset - 1 : f[i + 1] # LF
      /\ e.byte_offset = Len(f) - 1 \/ f[e.byte_offset + 1] = LF
  BY LineEndCloses
<1> HIDE DEF line, s, e
<1>4. s.byte_offset \in Nat /\ p.byte_offset \in Nat /\ e.byte_offset \in Nat
  BY <1>2, <1>3 DEF At, PositionType
<1>5. \A i \in s.byte_offset..e.byte_offset - 1 : f[i + 1] # LF
  BY <1>2, <1>3, <1>4
<1>6. s.byte_offset <= e.byte_offset /\ p.byte_offset \in s.byte_offset..e.byte_offset
  BY <1>2, <1>3, <1>4
<1>7. IsLine(f, line)
  BY <1>1, <1>2, <1>3, <1>5, <1>6 DEF IsLine
<1>8. p.byte_offset \in offsets(line)
  BY <1>1, <1>6 DEF offsets
<1> QED
  BY <1>7, <1>8 DEF line

(***************************************************************************)
(* The spans of a file are its non-empty ranges.                           *)
(***************************************************************************)
IsSpan(f, span) == /\ span = [start |-> span.start, end |-> span.end]
                   /\ At(f, span.start) /\ At(f, span.end)
                   /\ span.start.byte_offset <= span.end.byte_offset

LEMMA PositionsAreAt ==
    ASSUME NEW f \in Seq(Char) \ {<<>>}
    PROVE  positions(f) = {q \in PositionType : At(f, q)}
<1> DEFINE p == at_file_start(f)
           walk == iter(f, p)
           n == Len(f) - 1 - p.byte_offset
<1>1. At(f, p) /\ p.byte_offset = 0
  BY StartIsAt DEF at_file_start
<1>2. /\ n \in Nat /\ n = Len(f) - 1
      /\ DOMAIN walk = 0..n
      /\ \A k \in 0..n : At(f, walk[k]) /\ walk[k].byte_offset = k
  <2>1. Len(f) \in Nat
    OBVIOUS
  <2>2. /\ n \in Nat
        /\ DOMAIN walk = 0..n
        /\ \A k \in 0..n : At(f, walk[k]) /\ walk[k].byte_offset = p.byte_offset + k
    BY <1>1, IterVisits
  <2> HIDE DEF walk
  <2> QED
    BY <1>1, <2>1, <2>2
<1>3. positions(f) = {walk[k] : k \in 0..n}
  BY <1>2 DEF positions
<1> HIDE DEF walk, n
<1>4. ASSUME NEW k \in 0..n PROVE walk[k] \in PositionType /\ At(f, walk[k])
  BY <1>2 DEF At
<1>5. ASSUME NEW q \in PositionType, At(f, q) PROVE q \in {walk[k] : k \in 0..n}
  <2>1. q.byte_offset \in 0..n
    BY <1>2, <1>5 DEF At, PositionType
  <2>2. q = walk[q.byte_offset]
    BY <1>2, <1>5, <2>1, AtIsUnique
  <2> QED
    BY <2>1, <2>2
<1> QED
  BY <1>3, <1>4, <1>5

LEMMA NewSpanIsSpan ==
    ASSUME NEW f, NEW a, NEW b, At(f, a), At(f, b)
    PROVE  IsSpan(f, new_span(a, b))
<1>1. a.byte_offset \in Nat /\ b.byte_offset \in Nat
  BY DEF At, PositionType
<1>2. CASE b.byte_offset < a.byte_offset
  BY <1>1, <1>2 DEF new_span, min, max, IsSpan
<1>3. CASE ~(b.byte_offset < a.byte_offset)
  BY <1>1, <1>3 DEF new_span, min, max, IsSpan
<1> QED
  BY <1>2, <1>3

LEMMA SpansAreSpans ==
    ASSUME NEW f \in Seq(Char) \ {<<>>}
    PROVE  \A s : s \in spans(f) <=> IsSpan(f, s)
<1> TAKE s
<1>1. ASSUME s \in spans(f) PROVE IsSpan(f, s)
  <2>1. PICK a \in positions(f), b \in positions(f) : s = new_span(a, b)
    BY <1>1 DEF spans
  <2> QED
    BY <2>1, PositionsAreAt, NewSpanIsSpan
<1>2. ASSUME IsSpan(f, s) PROVE s \in spans(f)
  <2>1. s.start \in positions(f) /\ s.end \in positions(f)
    BY <1>2, PositionsAreAt DEF IsSpan, At
  <2>2. s.start.byte_offset \in Nat /\ s.end.byte_offset \in Nat
    BY <1>2 DEF IsSpan, At, PositionType
  <2>3. s = new_span(s.start, s.end)
    BY <1>2, <2>2 DEF IsSpan, new_span, min, max
  <2> QED
    BY <2>1, <2>3 DEF spans
<1> QED
  BY <1>1, <1>2

(***************************************************************************)
(* Spans overlap exactly where they share a character, and intersect in    *)
(* the characters they share.                                              *)
(***************************************************************************)
LEMMA SharedOverlaps ==
    ASSUME NEW f, NEW a, NEW b, IsSpan(f, a), IsSpan(f, b), NEW o \in offsets(a) \cap offsets(b)
    PROVE  overlap(a, b)
<1>1. /\ a.start.byte_offset \in Nat /\ a.end.byte_offset \in Nat
      /\ b.start.byte_offset \in Nat /\ b.end.byte_offset \in Nat
  BY DEF IsSpan, At, PositionType
<1>2. /\ o \in a.start.byte_offset..a.end.byte_offset
      /\ o \in b.start.byte_offset..b.end.byte_offset
  BY DEF offsets
<1> QED
  BY <1>1, <1>2 DEF overlap

LEMMA IntersectEnds ==
    ASSUME NEW f, NEW a, NEW b, IsSpan(f, a), IsSpan(f, b), overlap(a, b)
    PROVE  LET a1 == a.start.byte_offset
               a2 == a.end.byte_offset
               b1 == b.start.byte_offset
               b2 == b.end.byte_offset
               c  == intersect(a, b)
               c1 == c.start.byte_offset
               c2 == c.end.byte_offset
           IN  /\ a1 \in Nat /\ a2 \in Nat /\ b1 \in Nat /\ b2 \in Nat
               /\ c = [start |-> c.start, end |-> c.end]
               /\ c.start \in {a.start, b.start} /\ c.end \in {a.end, b.end}
               /\ c1 \in {a1, b1} /\ a1 <= c1 /\ b1 <= c1
               /\ c2 \in {a2, b2} /\ c2 <= a2 /\ c2 <= b2
               /\ c1 <= c2
<1> DEFINE a1 == a.start.byte_offset
           a2 == a.end.byte_offset
           b1 == b.start.byte_offset
           b2 == b.end.byte_offset
           c == intersect(a, b)
<1>1. /\ a1 \in Nat /\ a2 \in Nat /\ b1 \in Nat /\ b2 \in Nat
      /\ a1 <= a2 /\ b1 <= b2
  BY DEF IsSpan, At, PositionType
<1>2. b1 <= a2 /\ a1 <= b2
  BY <1>1 DEF overlap
<1>3. /\ c = [start |-> max(a.start, b.start), end |-> min(a.end, b.end)]
      /\ c.start \in {a.start, b.start} /\ c.end \in {a.end, b.end}
      /\ a1 <= c.start.byte_offset /\ b1 <= c.start.byte_offset
      /\ c.end.byte_offset <= a2 /\ c.end.byte_offset <= b2
  <2>1. max(a.start, b.start) \in {a.start, b.start}
          /\ a1 <= max(a.start, b.start).byte_offset
          /\ b1 <= max(a.start, b.start).byte_offset
    BY <1>1 DEF max
  <2>2. min(a.end, b.end) \in {a.end, b.end}
          /\ min(a.end, b.end).byte_offset <= a2
          /\ min(a.end, b.end).byte_offset <= b2
    BY <1>1 DEF min
  <2> QED
    BY <2>1, <2>2 DEF intersect
<1> HIDE DEF c
<1>4. c.start.byte_offset \in {a1, b1} /\ c.end.byte_offset \in {a2, b2}
  BY <1>3
<1>5. c.start.byte_offset <= c.end.byte_offset
  BY <1>1, <1>2, <1>4
<1>6. c = [start |-> c.start, end |-> c.end]
  BY <1>3
<1> QED
  BY <1>1, <1>3, <1>4, <1>5, <1>6 DEF c

LEMMA IntersectOffsets ==
    ASSUME NEW f, NEW a, NEW b, IsSpan(f, a), IsSpan(f, b), overlap(a, b)
    PROVE  offsets(intersect(a, b)) = offsets(a) \cap offsets(b)
<1> DEFINE a1 == a.start.byte_offset
           a2 == a.end.byte_offset
           b1 == b.start.byte_offset
           b2 == b.end.byte_offset
           c1 == intersect(a, b).start.byte_offset
           c2 == intersect(a, b).end.byte_offset
<1>1. /\ a1 \in Nat /\ a2 \in Nat /\ b1 \in Nat /\ b2 \in Nat
      /\ c1 \in {a1, b1} /\ a1 <= c1 /\ b1 <= c1
      /\ c2 \in {a2, b2} /\ c2 <= a2 /\ c2 <= b2
  BY IntersectEnds
<1>2. /\ offsets(intersect(a, b)) = c1..c2
      /\ offsets(a) = a1..a2 /\ offsets(b) = b1..b2
  BY DEF offsets
<1> HIDE DEF a1, a2, b1, b2, c1, c2
<1>3. c1..c2 = (a1..a2) \cap (b1..b2)
  BY <1>1
<1> QED
  BY <1>2, <1>3, Zenon

LEMMA IntersectIsSpan ==
    ASSUME NEW f, NEW a, NEW b, IsSpan(f, a), IsSpan(f, b), overlap(a, b)
    PROVE  /\ IsSpan(f, intersect(a, b))
           /\ \E o \in offsets(a) : o \in offsets(b)
<1> DEFINE c == intersect(a, b)
<1>1. /\ a.start.byte_offset \in Nat /\ a.end.byte_offset \in Nat
      /\ b.start.byte_offset \in Nat /\ b.end.byte_offset \in Nat
      /\ c = [start |-> c.start, end |-> c.end]
      /\ c.start \in {a.start, b.start} /\ c.end \in {a.end, b.end}
      /\ c.start.byte_offset \in {a.start.byte_offset, b.start.byte_offset}
      /\ a.start.byte_offset <= c.start.byte_offset
      /\ b.start.byte_offset <= c.start.byte_offset
      /\ c.end.byte_offset \in {a.end.byte_offset, b.end.byte_offset}
      /\ c.end.byte_offset <= a.end.byte_offset /\ c.end.byte_offset <= b.end.byte_offset
      /\ c.start.byte_offset <= c.end.byte_offset
  BY IntersectEnds
<1> HIDE DEF c
<1>2. IsSpan(f, c)
  BY <1>1 DEF IsSpan
<1>3. c.start.byte_offset \in offsets(a) /\ c.start.byte_offset \in offsets(b)
  BY <1>1 DEF offsets
<1> QED
  BY <1>2, <1>3 DEF c

(***************************************************************************)
(* LineIterator: the next line opens right behind the line before it.      *)
(***************************************************************************)
LEMMA LineAfterOpensBehind ==
    ASSUME NEW f \in Seq(Char) \ {<<>>}, NEW line, IsLine(f, line), has_next(f, line.end)
    PROVE  /\ IsLine(f, line_after(f, line))
           /\ line_after(f, line).start.byte_offset = line.end.byte_offset + 1
<1> DEFINE p == next_of(f, line.end)
           l == line_after(f, line)
           e == line.end.byte_offset
           s == l.start.byte_offset
<1>1. At(f, p) /\ p.byte_offset = e + 1
  BY NextIsAt DEF IsLine
<1>2. IsLine(f, l) /\ e + 1 \in offsets(l)
  BY <1>1, GetLineIsLine DEF line_after
<1>3. e \in Nat /\ e + 1 < Len(f) /\ f[e + 1] = LF
  BY DEF IsLine, At, PositionType, has_next
<1> HIDE DEF l
<1>4. /\ s \in Nat /\ s <= e + 1 /\ e + 1 <= l.end.byte_offset
      /\ l.end.byte_offset \in Nat
      /\ \A i \in s..l.end.byte_offset - 1 : f[i + 1] # LF
  BY <1>2, <1>3 DEF IsLine, At, PositionType, offsets
<1>5. ~(s <= e)
  <2>1. s <= e => e \in s..l.end.byte_offset - 1
    BY <1>3, <1>4
  <2> QED
    BY <1>3, <1>4, <2>1
<1>6. s = e + 1
  BY <1>3, <1>4, <1>5
<1> QED
  BY <1>2, <1>6 DEF l

(***************************************************************************)
(* The columns of a line count from its first character; the newline that  *)
(* ends it has column 0, and so has the first character of the file.       *)
(***************************************************************************)
LEMMA ColumnInLine ==
    ASSUME NEW f, NEW line, IsLine(f, line), NEW q, At(f, q),
           q.byte_offset \in offsets(line)
    PROVE  LET o == q.byte_offset
               s == line.start.byte_offset
           IN  q.col = IF f[o + 1] = LF THEN 0 ELSE IF s = 0 THEN o ELSE o - s + 1
<1> DEFINE o == q.byte_offset
           s == line.start.byte_offset
           e == line.end.byte_offset
           nls == newlines_through(f, o)
<1>1. /\ o \in Nat /\ s \in Nat /\ e \in Nat /\ s <= o /\ o <= e
      /\ \A i \in s..e - 1 : f[i + 1] # LF
      /\ s = 0 \/ f[s] = LF
  BY DEF IsLine, At, PositionType, offsets
<1>2. /\ nls = {} => q.col = o
      /\ nls # {} => \E nl \in nls : (\A i \in nls : i <= nl) /\ q.col = o - nl
  BY DEF At, ColIsRight
<1>3. \A i : i \in nls <=> i \in 0..o /\ f[i + 1] = LF
  BY DEF newlines_through
<1>4. CASE f[o + 1] = LF
  <2>1. o \in nls
    BY <1>1, <1>3, <1>4
  <2>2. PICK nl \in nls : (\A i \in nls : i <= nl) /\ q.col = o - nl
    BY <1>2, <2>1
  <2>3. nl = o
    BY <1>1, <1>3, <2>1, <2>2
  <2> QED
    BY <1>1, <1>4, <2>2, <2>3
<1>5. CASE f[o + 1] # LF /\ s = 0
  <2>1. \A i \in 0..o : f[i + 1] # LF
    <3> TAKE i \in 0..o
    <3>1. i = o \/ i \in s..e - 1
      BY <1>1, <1>5
    <3> QED
      BY <1>1, <1>5, <3>1
  <2>2. nls = {}
    BY <1>3, <2>1
  <2> QED
    BY <1>2, <1>5, <2>2
<1>6. CASE f[o + 1] # LF /\ s # 0
  <2>1. s - 1 \in 0..o /\ (s - 1) + 1 = s
    BY <1>1, <1>6
  <2>2. s - 1 \in nls
    BY <1>1, <1>3, <1>6, <2>1
  <2>3. PICK nl \in nls : (\A i \in nls : i <= nl) /\ q.col = o - nl
    BY <1>2, <2>2
  <2>4. nl \in 0..o /\ f[nl + 1] = LF /\ s - 1 <= nl
    BY <1>3, <2>2, <2>3
  <2>5. ~(s <= nl)
    <3>1. s <= nl => nl = o \/ nl \in s..e - 1
      BY <1>1, <2>4
    <3> QED
      BY <1>1, <1>6, <2>4, <3>1
  <2>6. nl = s - 1
    BY <1>1, <2>4, <2>5
  <2>7. o - (s - 1) = o - s + 1
    BY <1>1
  <2> QED
    BY <1>6, <2>3, <2>6, <2>7
<1> QED
  BY <1>4, <1>5, <1>6

=============================================================================
