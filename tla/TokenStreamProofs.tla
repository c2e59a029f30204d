-------------------------- MODULE TokenStreamProofs --------------------------
(***************************************************************************)
(* The buffered token stream implements the plain token cursor, for files  *)
(* of every length, every set of token kinds and every look ahead.         *)
(*                                                                         *)
(* The refinement rests on BufferInv: the buffer is the part of the file   *)
(* between the tokens consumed and the tokens pulled.                      *)
(***************************************************************************)
EXTENDS TokenStream, SequenceTheorems, TLAPS

(***************************************************************************)
(* Concatenation of two sequences, element by element.                     *)
(***************************************************************************)
LEMMA Concatenation ==
    ASSUME NEW T, NEW s \in Seq(T), NEW t \in Seq(T)
    PROVE  /\ s \o t \in Seq(T)
           /\ Len(s \o t) = Len(s) + Len(t)
           /\ \A i \in 1..Len(s) + Len(t) :
                 (s \o t)[i] = IF i <= Len(s) THEN s[i] ELSE t[i - Len(s)]
BY ConcatProperties

(***************************************************************************)
(* What peek_multiple(n) leaves in the buffer.                             *)
(***************************************************************************)
LEMMA FilledBuffer ==
    ASSUME TypeOK, BufferInv, NEW n \in Nat
    PROVE  /\ Len(input) \in Nat /\ pulled \in Nat
           /\ Len(buffer) \in Nat /\ consumed \in Nat
           /\ pull(n) \in Nat /\ pulled + pull(n) \in 0..Len(input)
           /\ filled(n) \in Seq(Cursor!Token)
           /\ Len(filled(n)) = Len(buffer) + pull(n)
           /\ \A i \in 1..Len(filled(n)) : filled(n)[i] = Cursor!token(consumed + i)
           /\ Len(filled(n)) <= n \/ Len(filled(n)) = Len(buffer)
           /\ Len(filled(n)) >= n \/ pulled + pull(n) = Len(input)
           /\ lexes_error(n) <=> fatal /\ consumed + n > Len(input)
<1> DEFINE new == [i \in 1..pull(n) |-> Cursor!token(pulled + i)]
<1>1. PICK len \in 0..MaxTokens : input \in [1..len -> Kind]
  BY DEF TypeOK, Cursor!Inputs
<1>2. Len(input) = len /\ len \in Nat /\ input \in Seq(Kind)
  BY <1>1, StreamAssumption
<1>3. Len(buffer) \in Nat /\ pulled \in Nat /\ pulled <= len /\ Len(buffer) <= pulled
  BY <1>2 DEF TypeOK, BufferInv
<1>4. pull(n) \in Nat /\ pulled + pull(n) <= len
        /\ (Len(buffer) + pull(n) <= n \/ pull(n) = 0)
        /\ (Len(buffer) + pull(n) >= n \/ pulled + pull(n) = len)
  BY <1>2, <1>3 DEF pull, missing, left
<1>5. \A i \in 1..pull(n) : Cursor!token(pulled + i) \in Cursor!Token
  <2> TAKE i \in 1..pull(n)
  <2>1. pulled + i \in 1..len /\ pulled + i \in Nat
    BY <1>3, <1>4
  <2> QED
    BY <1>1, <2>1 DEF Cursor!token, Cursor!Token
<1>6. new \in Seq(Cursor!Token) /\ Len(new) = pull(n)
  BY <1>4, <1>5
<1>7. buffer \in Seq(Cursor!Token)
  BY DEF TypeOK
<1>8. filled(n) = buffer \o new
  BY DEF filled
<1> HIDE DEF new
<1>9. /\ filled(n) \in Seq(Cursor!Token)
      /\ Len(filled(n)) = Len(buffer) + pull(n)
      /\ \A i \in 1..Len(buffer) + pull(n) :
            filled(n)[i] = IF i <= Len(buffer) THEN buffer[i]
                                               ELSE new[i - Len(buffer)]
  <2>1. filled(n) \in Seq(Cursor!Token)
          /\ Len(filled(n)) = Len(buffer) + Len(new)
          /\ \A i \in 1..Len(buffer) + Len(new) :
                filled(n)[i] = IF i <= Len(buffer) THEN buffer[i]
                                                   ELSE new[i - Len(buffer)]
    <3>1. /\ buffer \o new \in Seq(Cursor!Token)
          /\ Len(buffer \o new) = Len(buffer) + Len(new)
          /\ \A i \in 1..Len(buffer) + Len(new) :
                (buffer \o new)[i] = IF i <= Len(buffer) THEN buffer[i]
                                                        ELSE new[i - Len(buffer)]
      BY <1>6, <1>7, Concatenation, Zenon
    <3> QED
      BY <1>8, <3>1, Zenon
  <2> QED
    BY <1>6, <2>1
<1>10. ASSUME NEW i \in 1..Len(filled(n))
       PROVE  filled(n)[i] = Cursor!token(consumed + i)
  <2>1. CASE i <= Len(buffer)
    BY <1>3, <1>4, <1>9, <1>10, <2>1 DEF BufferInv
  <2>2. CASE i > Len(buffer)
    <3>1. i - Len(buffer) \in 1..pull(n) /\ pulled + (i - Len(buffer)) = consumed + i
      BY <1>3, <1>4, <1>9, <1>10, <2>2 DEF consumed
    <3>2. new[i - Len(buffer)] = Cursor!token(pulled + (i - Len(buffer)))
      BY <3>1 DEF new
    <3>3. filled(n)[i] = new[i - Len(buffer)]
      BY <1>3, <1>4, <1>9, <2>2
    <3> QED
      BY <3>1, <3>2, <3>3
  <2> QED
    BY <1>3, <1>4, <1>9, <2>1, <2>2
<1>11. lexes_error(n) <=> fatal /\ consumed + n > Len(input)
  BY <1>2, <1>3 DEF lexes_error, missing, left, consumed
<1>12. consumed \in Nat
  BY <1>3 DEF consumed
<1> QED
  BY <1>2, <1>3, <1>4, <1>9, <1>10, <1>11, <1>12

(***************************************************************************)
(* The front of the stream is what the cursor says is ahead.               *)
(***************************************************************************)
LEMMA FilledIsAhead ==
    ASSUME TypeOK, BufferInv, NEW n \in Nat
    PROVE  get(filled(n + 1), n) = Cursor!ahead(n)
<1> DEFINE buf == filled(n + 1)
<1>1. /\ Len(buf) \in Nat /\ pulled \in Nat /\ Len(input) \in Nat /\ Len(buffer) \in Nat
      /\ pull(n + 1) \in Nat /\ Len(buf) = Len(buffer) + pull(n + 1)
      /\ pulled + pull(n + 1) <= Len(input)
      /\ Len(buf) >= n + 1 \/ pulled + pull(n + 1) = Len(input)
      /\ \A i \in 1..Len(buf) : buf[i] = Cursor!token(consumed + i)
  <2>1. n + 1 \in Nat
    OBVIOUS
  <2> QED
    BY <2>1, FilledBuffer
<1>2. n < Len(buf) <=> consumed + n < Len(input)
  BY <1>1 DEF consumed
<1>3. CASE n < Len(buf)
  <2>1. buf[n + 1] = Cursor!token(consumed + (n + 1)) /\ consumed + (n + 1) = consumed + n + 1
    BY <1>1, <1>3 DEF consumed
  <2> QED
    BY <1>2, <1>3, <2>1 DEF get, Cursor!ahead
<1>4. CASE ~(n < Len(buf))
  BY <1>2, <1>4 DEF get, Cursor!ahead
<1> QED
  BY <1>3, <1>4

(***************************************************************************)
(* TypeOK needs BufferInv: that the buffer is never longer than what was   *)
(* pulled, and that its elements are tokens, both come from it.            *)
(***************************************************************************)
IInv == TypeOK /\ BufferInv /\ PrevSpanInv /\ LazyInv

LEMMA NextTokenStep ==
    ASSUME IInv, NextToken
    PROVE  /\ IInv'
           /\ Cursor!CursorNext
<1> DEFINE buf == filled(1)
<1>1. TypeOK /\ BufferInv /\ PrevSpanInv /\ LazyInv /\ MaxAhead \in Nat
  BY StreamAssumption DEF IInv
<1>2. /\ Len(input) \in Nat /\ pulled \in Nat /\ Len(buffer) \in Nat /\ consumed \in Nat
      /\ pull(1) \in Nat /\ pulled + pull(1) \in 0..Len(input)
      /\ buf \in Seq(Cursor!Token) /\ Len(buf) = Len(buffer) + pull(1)
      /\ \A i \in 1..Len(buf) : buf[i] = Cursor!token(consumed + i)
      /\ Len(buf) <= 1 \/ Len(buf) = Len(buffer)
      /\ Len(buf) >= 1 \/ pulled + pull(1) = Len(input)
      /\ lexes_error(1) <=> fatal /\ consumed + 1 > Len(input)
  BY <1>1, FilledBuffer
<1>3. consumed = pulled - Len(buffer)
  BY DEF consumed
<1> HIDE DEF buf
<1>4. ~exited /\ ~lexes_error(1) /\ asked' = 0 /\ input' = input /\ fatal' = fatal /\ exited' = exited
  BY DEF NextToken
<1>5. ~Cursor!hits_error(0)
  BY <1>2, <1>4 DEF Cursor!hits_error
<1>6. CASE buf = <<>>
  <2>1. ret' = EOF /\ pulled' = pulled /\ buffer' = buffer /\ prev_span' = prev_span
    BY <1>6 DEF NextToken, buf
  <2>2. ~(consumed < Len(input)) /\ Cursor!ahead(0) = EOF
    BY <1>2, <1>3, <1>6 DEF Cursor!ahead
  <2>3. Cursor!CursorNext
    BY <1>4, <1>5, <2>1, <2>2 DEF Cursor!CursorNext, consumed
  <2>4. IInv'
    BY <1>1, <1>4, <2>1
       DEF IInv, TypeOK, BufferInv, PrevSpanInv, LazyInv, consumed,
           Cursor!token, Cursor!Token, Cursor!Inputs
  <2> QED
    BY <2>3, <2>4
<1>7. CASE buf # <<>>
  <2>1. ret' = Head(buf) /\ prev_span' = Head(buf).span /\ buffer' = Tail(buf)
          /\ pulled' = pulled + pull(1)
    BY <1>7 DEF NextToken, buf
  <2>2. /\ Len(buf) \in Nat \ {0} /\ Head(buf) = buf[1] /\ Head(buf) \in Cursor!Token
        /\ Tail(buf) \in Seq(Cursor!Token) /\ Len(Tail(buf)) = Len(buf) - 1
        /\ \A i \in 1..Len(buf) - 1 : Tail(buf)[i] = buf[i + 1]
    BY <1>2, <1>7, HeadTailProperties
  <2>3. Head(buf) = Cursor!token(consumed + 1)
    BY <1>2, <2>2
  <2>4. consumed' = consumed + 1
    BY <1>2, <1>3, <2>1, <2>2 DEF consumed
  <2>5. consumed < Len(input) /\ Cursor!ahead(0) = Head(buf)
    BY <1>2, <1>3, <2>2, <2>3 DEF Cursor!ahead
  <2>6. Cursor!CursorNext
    BY <1>4, <1>5, <2>1, <2>3, <2>4, <2>5 DEF Cursor!CursorNext
  <2>7. TypeOK'
    <3>1. prev_span' \in Nat
      BY <2>1, <2>2 DEF Cursor!Token
    <3>2. pulled' \in 0..Len(input') /\ asked' \in 0..MaxAhead
      BY <1>1, <1>2, <1>4, <2>1
    <3>3. input' \in Cursor!Inputs /\ fatal' \in BOOLEAN /\ exited' \in BOOLEAN
      BY <1>1, <1>4 DEF TypeOK, Cursor!Inputs
    <3>4. buffer' \in Seq(Cursor!Token) /\ ret' \in Cursor!Token \cup {EOF}
      BY <2>1, <2>2
    <3> QED
      BY <3>1, <3>2, <3>3, <3>4, Zenon DEF TypeOK, Cursor!Token, Cursor!Inputs
  <2>8. BufferInv'
    <3>1. Len(buffer') <= pulled'
      BY <1>2, <1>3, <2>1, <2>2
    <3>2. ASSUME NEW i \in 1..Len(buffer')
          PROVE  buffer'[i] = Cursor!token(consumed' + i)
      <4>1. i \in 1..Len(buf) - 1 /\ i + 1 \in 1..Len(buf)
        BY <2>1, <2>2
      <4>2. buffer'[i] = Cursor!token(consumed + (i + 1))
        BY <1>2, <2>1, <2>2, <4>1
      <4>3. consumed + (i + 1) = consumed' + i
        BY <1>2, <2>4, <4>1
      <4> QED
        BY <4>2, <4>3
    <3> QED
      BY <1>4, <3>1, <3>2 DEF BufferInv, Cursor!token
  <2>9. PrevSpanInv'
    <3>1. consumed' # 0
      BY <1>2, <2>4
    <3>2. prev_span' = Cursor!token(consumed').span
      BY <2>1, <2>3, <2>4
    <3> QED
      BY <1>4, <3>1, <3>2 DEF PrevSpanInv, Cursor!token
  <2>10. LazyInv'
    BY <1>1, <1>2, <2>1, <2>2 DEF LazyInv
  <2> QED
    BY <2>6, <2>7, <2>8, <2>9, <2>10 DEF IInv
<1> QED
  BY <1>6, <1>7

(***************************************************************************)
(* Filling the buffer moves nothing the cursor can see.                    *)
(***************************************************************************)
LEMMA FillStep ==
    ASSUME IInv, NEW n \in 0..MaxAhead,
           buffer' = filled(n + 1), pulled' = pulled + pull(n + 1),
           input' = input, fatal' = fatal, prev_span' = prev_span,
           asked' = n, ret' \in Cursor!Token \cup {EOF}, exited' \in BOOLEAN
    PROVE  IInv' /\ consumed' = consumed
<1>1. TypeOK /\ BufferInv /\ PrevSpanInv /\ LazyInv /\ MaxAhead \in Nat /\ n + 1 \in Nat
  BY StreamAssumption DEF IInv
<1> DEFINE buf == filled(n + 1)
<1>2. /\ Len(input) \in Nat /\ pulled \in Nat /\ Len(buffer) \in Nat /\ consumed \in Nat
      /\ pull(n + 1) \in Nat /\ pulled + pull(n + 1) \in 0..Len(input)
      /\ buf \in Seq(Cursor!Token) /\ Len(buf) = Len(buffer) + pull(n + 1)
      /\ \A i \in 1..Len(buf) : buf[i] = Cursor!token(consumed + i)
      /\ Len(buf) <= n + 1 \/ Len(buf) = Len(buffer)
  BY <1>1, FilledBuffer
<1>3. buffer' = buf
  OBVIOUS
<1> HIDE DEF buf
<1>4. consumed' = consumed
  BY <1>2, <1>3 DEF consumed
<1>5. TypeOK'
  BY <1>1, <1>2, <1>3 DEF TypeOK, Cursor!Token, Cursor!Inputs
<1>6. BufferInv'
  <2>1. Len(buffer') <= pulled'
    BY <1>1, <1>2, <1>3 DEF BufferInv
  <2>2. \A i \in 1..Len(buffer') : buffer'[i] = Cursor!token(consumed' + i)
    BY <1>2, <1>3, <1>4
  <2> QED
    BY <2>1, <2>2 DEF BufferInv, Cursor!token
<1>7. PrevSpanInv'
  BY <1>1, <1>4 DEF PrevSpanInv, Cursor!token
<1>8. LazyInv'
  BY <1>1, <1>2, <1>3 DEF LazyInv
<1> QED
  BY <1>4, <1>5, <1>6, <1>7, <1>8 DEF IInv

LEMMA PeekStep ==
    ASSUME IInv, NEW n \in 0..MaxAhead, PeekNth(n)
    PROVE  IInv' /\ Cursor!CursorPeek(n)
<1>1. TypeOK /\ BufferInv /\ n \in Nat /\ n + 1 \in Nat
  BY StreamAssumption DEF IInv
<1>2. /\ Len(input) \in Nat /\ consumed \in Nat
      /\ filled(n + 1) \in Seq(Cursor!Token)
      /\ lexes_error(n + 1) <=> fatal /\ consumed + (n + 1) > Len(input)
  BY <1>1, FilledBuffer
<1>3. ret' = Cursor!ahead(n)
  BY <1>1, FilledIsAhead DEF PeekNth
<1>4. ret' \in Cursor!Token \cup {EOF}
  <2>1. ret' = get(filled(n + 1), n)
    BY DEF PeekNth
  <2>2. n < Len(filled(n + 1)) => filled(n + 1)[n + 1] \in Cursor!Token
    BY <1>1, <1>2
  <2> QED
    BY <2>1, <2>2 DEF get
<1>5. IInv' /\ consumed' = consumed
  BY <1>4, FillStep DEF PeekNth, IInv, TypeOK
<1>6. ~Cursor!hits_error(n)
  BY <1>1, <1>2 DEF PeekNth, Cursor!hits_error
<1> QED
  BY <1>3, <1>5, <1>6 DEF PeekNth, Cursor!CursorPeek

LEMMA ExitStep ==
    ASSUME IInv, NEW n \in 0..MaxAhead, Exit(n)
    PROVE  IInv' /\ Cursor!CursorExit(n)
<1>1. TypeOK /\ BufferInv /\ n \in Nat /\ n + 1 \in Nat
  BY StreamAssumption DEF IInv
<1>2. /\ Len(input) \in Nat /\ consumed \in Nat
      /\ lexes_error(n + 1) <=> fatal /\ consumed + (n + 1) > Len(input)
  BY <1>1, FilledBuffer
<1>3. IInv' /\ consumed' = consumed
  BY FillStep DEF Exit, IInv, TypeOK
<1>4. Cursor!hits_error(n)
  BY <1>1, <1>2 DEF Exit, Cursor!hits_error
<1> QED
  BY <1>3, <1>4 DEF Exit, Cursor!CursorExit

LEMMA InitStep == Init => IInv /\ Cursor!CursorInit
<1> SUFFICES ASSUME Init PROVE IInv /\ Cursor!CursorInit
  OBVIOUS
<1>1. PICK len \in 0..MaxTokens : input \in [1..len -> Kind]
  BY DEF Init, Cursor!Inputs
<1>2. Len(input) \in Nat
  BY <1>1, StreamAssumption
<1>0. <<>> \in Seq(Cursor!Token) /\ Len(<<>>) = 0
  BY EmptySeq, Zenon
<1>3. consumed = 0 /\ Len(buffer) = 0
  <2>1. pulled = 0
    BY DEF Init
  <2>2. Len(buffer) = 0
    BY <1>0, Zenon DEF Init
  <2> QED
    BY <2>1, <2>2 DEF consumed
<1>4. IInv
  <2>1. TypeOK
    <3>1. buffer \in Seq(Cursor!Token)
      BY <1>0, Zenon DEF Init
    <3>2. input \in Cursor!Inputs /\ fatal \in BOOLEAN /\ pulled = 0
            /\ prev_span = EOF /\ asked = 0 /\ ret = EOF /\ exited = FALSE
      BY Zenon DEF Init
    <3>3. pulled \in 0..Len(input) /\ asked \in 0..MaxAhead
      BY <1>2, <3>2, StreamAssumption
    <3> QED
      BY <3>1, <3>2, <3>3, Zenon DEF TypeOK
  <2>2. BufferInv
    BY <1>3 DEF Init, BufferInv
  <2>3. PrevSpanInv /\ LazyInv
    BY <1>3, StreamAssumption DEF Init, PrevSpanInv, LazyInv
  <2> QED
    BY <2>1, <2>2, <2>3 DEF IInv
<1> QED
  BY <1>3, <1>4 DEF Init, Cursor!CursorInit

LEMMA StreamStep ==
    ASSUME IInv, [Next]_vars
    PROVE  IInv' /\ [Cursor!CursorStep]_Cursor!cursorVars
<1>1. CASE NextToken
  BY <1>1, NextTokenStep DEF Cursor!CursorStep
<1>2. ASSUME NEW n \in 0..MaxAhead, PeekNth(n)
      PROVE  IInv' /\ [Cursor!CursorStep]_Cursor!cursorVars
  BY <1>2, PeekStep DEF Cursor!CursorStep
<1>3. ASSUME NEW n \in 0..MaxAhead, Exit(n)
      PROVE  IInv' /\ [Cursor!CursorStep]_Cursor!cursorVars
  BY <1>3, ExitStep DEF Cursor!CursorStep
<1>4. CASE UNCHANGED vars
  BY <1>4
     DEF vars, IInv, TypeOK, BufferInv, PrevSpanInv, LazyInv, consumed,
         Cursor!cursorVars, Cursor!token, Cursor!Token, Cursor!Inputs
<1> QED
  BY <1>1, <1>2, <1>3, <1>4 DEF Next

(***************************************************************************)
(* prev_span() is the span of the token consumed last, whatever has been   *)
(* peeked at (spantracker.rs:26-32).                                       *)
(***************************************************************************)
THEOREM StreamPrevSpan == Spec => []PrevSpanInv
<1>1. IInv => PrevSpanInv
  BY DEF IInv
<1> QED
  BY <1>1, InitStep, StreamStep, PTL DEF Spec

(***************************************************************************)
(* The buffer is the part of the file that lies ahead of the parser        *)
(* (utils.rs:59-80).                                                       *)
(***************************************************************************)
THEOREM StreamBuffer == Spec => []BufferInv
<1>1. IInv => BufferInv
  BY DEF IInv
<1> QED
  BY <1>1, InitStep, StreamStep, PTL DEF Spec

(***************************************************************************)
(* No more than MaxAhead + 1 tokens are lexed ahead of the parser.         *)
(***************************************************************************)
THEOREM StreamLazy == Spec => []LazyInv
<1>1. IInv => LazyInv
  BY DEF IInv
<1> QED
  BY <1>1, InitStep, StreamStep, PTL DEF Spec

(***************************************************************************)
(* The token stream implements the token cursor: what the parser reads     *)
(* does not depend on how far the buffer was filled.                       *)
(***************************************************************************)
THEOREM StreamImplementsCursor == Spec => ImplementsCursor
  BY InitStep, StreamStep, PTL DEF Spec, ImplementsCursor, Cursor!CursorSpec
=============================================================================
