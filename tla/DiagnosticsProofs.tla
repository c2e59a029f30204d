-------------------------- MODULE DiagnosticsProofs --------------------------
(***************************************************************************)
(* Proofs about the diagnostics: the colours, the lines of a message and   *)
(* their underlines, for every file, every span and any number of          *)
(* messages.                                                               *)
(***************************************************************************)
EXTENDS Diagnostics, PositionLemmas, SequenceTheorems

-----------------------------------------------------------------------------
(***************************************************************************)
(* Colours.                                                                *)
(*                                                                         *)
(* A guard is only made where the guard around it has not been given a     *)
(* style yet: all guards but the innermost are plain, hence the reset of   *)
(* a guard that is dropped restores the style of the guard it returns to.  *)
(* What a list of calls does to this is followed in an abstract state: the *)
(* number of guards, and whether the innermost one is known to be plain.   *)
(***************************************************************************)
Sound(s) ==
    /\ s \in Screens
    /\ \A text \in s.texts : text.style = text.spec
    /\ s.terminal = spec(s)
    /\ \A i \in 1..Len(s.guards) - 1 : s.guards[i] = Plain

Depths == [depth : Nat, plain : BOOLEAN]

Fits(s, a) == /\ Sound(s)
              /\ Len(s.guards) = a.depth
              /\ a.plain => spec(s) = Plain

plain_at(k)  == [depth |-> k, plain |-> TRUE]
styled_at(k) == [depth |-> k, plain |-> FALSE]

\* Call c is one the code makes in a, and leads from a to b.
Leads(a, c, b) ==
    \/ c = New /\ a.plain /\ b = plain_at(a.depth + 1)
    \/ c = Drop /\ a.depth > 0 /\ b = plain_at(a.depth - 1)
    \/ /\ c = Bold \/ \E x \in Colors : c = Color(x)
       /\ a.depth > 0 /\ b = styled_at(a.depth)
    \/ (\E x \in Parts : c = Text(x)) /\ b \in {a, styled_at(a.depth)}

Calls == {New, Drop, Bold} \cup {Color(x) : x \in Colors} \cup {Text(x) : x \in Parts}

Nested(calls, d) == /\ d \in [0..Len(calls) -> Depths]
                    /\ \A n \in 1..Len(calls) : Leads(d[n - 1], calls[n], d[n])

Brings(calls, a, b) == /\ calls \in Seq(Calls)
                       /\ \E d : /\ Nested(calls, d)
                                 /\ d[0] = a /\ d[Len(calls)] = b

LEMMA PlainIsAStyle == Plain \in Styles
BY DEF Plain, Styles, Colors

LEMMA ScreenIsARecord ==
    ASSUME NEW s \in Screens
    PROVE  /\ s = [terminal |-> s.terminal, guards |-> s.guards, texts |-> s.texts]
           /\ s.terminal \in Styles /\ s.guards \in Seq(Styles)
           /\ s.texts \in SUBSET [part : Parts, style : Styles, spec : Styles]
BY DEF Screens

LEMMA RecordIsAScreen ==
    ASSUME NEW t \in Styles, NEW g \in Seq(Styles),
           NEW x \in SUBSET [part : Parts, style : Styles, spec : Styles]
    PROVE  [terminal |-> t, guards |-> g, texts |-> x] \in Screens
BY DEF Screens

(***************************************************************************)
(* A control changes the guards and the terminal, but not the texts.       *)
(***************************************************************************)
LEMMA GuardsAndTerminal ==
    ASSUME NEW s \in Screens, NEW g \in Seq(Styles), NEW style \in Styles
    PROVE  [s EXCEPT !.guards = g, !.terminal = style] =
               [terminal |-> style, guards |-> g, texts |-> s.texts]
<1> DEFINE t == [s EXCEPT !.guards = g, !.terminal = style]
<1>1. t.guards = g /\ t.terminal = style /\ t.texts = s.texts
  BY DEF Screens
<1>2. t \in Screens
  BY DEF Screens
<1> HIDE DEF t
<1>3. t = [terminal |-> style, guards |-> g, texts |-> s.texts]
  BY <1>1, <1>2, ScreenIsARecord
<1> QED
  BY <1>3 DEF t

LEMMA SpecIsAStyle ==
    ASSUME NEW s \in Screens
    PROVE  spec(s) \in Styles
<1>1. s.guards \in Seq(Styles)
  BY DEF Screens
<1>2. CASE s.guards = <<>>
  BY <1>2, PlainIsAStyle DEF spec
<1>3. CASE s.guards # <<>>
  <2>1. Len(s.guards) \in 1..Len(s.guards)
    BY <1>1, <1>3
  <2> QED
    BY <1>1, <1>3, <2>1 DEF spec, Last
<1> QED
  BY <1>2, <1>3

(***************************************************************************)
(* The guards after the innermost one has been dropped or given a style.   *)
(***************************************************************************)
LEMMA FrontOfGuards ==
    ASSUME NEW g \in Seq(Styles), g # <<>>
    PROVE  /\ Front(g) \in Seq(Styles) /\ Len(Front(g)) = Len(g) - 1
           /\ \A i \in 1..Len(g) - 1 : Front(g)[i] = g[i]
<1>1. Len(g) \in Nat /\ Len(g) > 0 /\ \A i \in 1..Len(g) : g[i] \in Styles
  OBVIOUS
<1> DEFINE n == Len(g) - 1
<1>2. n \in Nat /\ Front(g) = SubSeq(g, 1, n)
  BY <1>1 DEF Front
<1> HIDE DEF n
<1>3. \A i \in 1..n : g[i] \in Styles
  BY <1>1 DEF n
<1>4. /\ SubSeq(g, 1, n) \in Seq(Styles)
      /\ Len(SubSeq(g, 1, n)) = IF 1 <= n THEN n - 1 + 1 ELSE 0
      /\ \A i \in 1..n - 1 + 1 : SubSeq(g, 1, n)[i] = g[1 + i - 1]
  BY <1>2, <1>3, SubSeqProperties
<1>5. Len(SubSeq(g, 1, n)) = n /\ n - 1 + 1 = n /\ \A i \in 1..n : 1 + i - 1 = i
  BY <1>2, <1>4
<1> QED
  BY <1>2, <1>4, <1>5 DEF n

LEMMA StyledFits ==
    ASSUME NEW s, NEW a \in Depths, Fits(s, a), a.depth > 0, NEW style \in Styles
    PROVE  Fits(styled(s, style), styled_at(a.depth))
<1> DEFINE g == s.guards
           t == styled(s, style)
<1>1. s \in Screens /\ g \in Seq(Styles) /\ Len(g) = a.depth /\ g # <<>>
  BY ScreenIsARecord DEF Fits, Sound, Depths
<1>2. t = [terminal |-> style, guards |-> Append(Front(g), style), texts |-> s.texts]
  <2>1. t = [s EXCEPT !.guards = Append(Front(g), style), !.terminal = style]
    BY DEF styled
  <2>2. Append(Front(g), style) \in Seq(Styles)
    BY <1>1, FrontOfGuards
  <2> HIDE DEF t
  <2> QED
    BY <1>1, <2>1, <2>2, GuardsAndTerminal
<1>3. Front(g) \in Seq(Styles) /\ Len(Front(g)) = Len(g) - 1
        /\ \A i \in 1..Len(g) - 1 : Front(g)[i] = g[i]
  BY <1>1, FrontOfGuards
<1> DEFINE h == Append(Front(g), style)
<1>4. h \in Seq(Styles) /\ Len(h) = Len(g) /\ h[Len(g)] = style
        /\ \A i \in 1..Len(g) - 1 : h[i] = g[i]
  BY <1>1, <1>3
<1> HIDE DEF h
<1>5. t \in Screens
  BY <1>1, <1>2, <1>4, ScreenIsARecord, RecordIsAScreen DEF h
<1>6. spec(t) = style
  <2>1. t.guards = h /\ h # <<>>
    BY <1>1, <1>2, <1>4 DEF h
  <2> QED
    BY <1>4, <2>1 DEF spec, Last
<1> QED
  BY <1>1, <1>2, <1>4, <1>5, <1>6 DEF Fits, Sound, styled_at, h

LEMMA NewFits ==
    ASSUME NEW s, NEW a \in Depths, Fits(s, a), a.plain
    PROVE  Fits(new(s), plain_at(a.depth + 1))
<1> DEFINE g == s.guards
           t == new(s)
           h == Append(g, Plain)
<1>1. s \in Screens /\ g \in Seq(Styles) /\ Len(g) = a.depth /\ Len(g) \in Nat
  BY ScreenIsARecord DEF Fits, Sound, Depths
<1>2. t = [terminal |-> Plain, guards |-> h, texts |-> s.texts]
  <2>1. t = [s EXCEPT !.guards = h, !.terminal = Plain]
    BY DEF new
  <2>2. h \in Seq(Styles)
    BY <1>1, PlainIsAStyle, AppendProperties
  <2> HIDE DEF h, t
  <2> QED
    BY <1>1, <2>1, <2>2, PlainIsAStyle, GuardsAndTerminal
<1>3. h \in Seq(Styles) /\ Len(h) = Len(g) + 1 /\ h[Len(g) + 1] = Plain /\ h # <<>>
        /\ \A i \in 1..Len(g) : h[i] = g[i]
  BY <1>1, PlainIsAStyle, AppendProperties
<1>4. \A i \in 1..Len(g) : g[i] = Plain
  <2>1. \A i \in 1..Len(g) - 1 : g[i] = Plain
    BY DEF Fits, Sound
  <2>2. Len(g) > 0 => g[Len(g)] = Plain
    <3>1. ASSUME Len(g) > 0 PROVE g[Len(g)] = Plain
      <4>1. spec(s) = Plain /\ g # <<>>
        BY <1>1, <3>1 DEF Fits
      <4> QED
        BY <4>1 DEF spec, Last
    <3> QED
      BY <3>1
  <2> QED
    BY <1>1, <2>1, <2>2
<1> HIDE DEF h
<1>5. t \in Screens
  BY <1>1, <1>2, <1>3, PlainIsAStyle, ScreenIsARecord, RecordIsAScreen
<1>6. spec(t) = Plain
  BY <1>1, <1>2, <1>3 DEF spec, Last
<1>7. \A i \in 1..Len(h) - 1 : h[i] = Plain
  BY <1>1, <1>3, <1>4
<1> QED
  BY <1>1, <1>2, <1>3, <1>5, <1>6, <1>7 DEF Fits, Sound, plain_at

LEMMA DropFits ==
    ASSUME NEW s, NEW a \in Depths, Fits(s, a), a.depth > 0
    PROVE  Fits(drop(s), plain_at(a.depth - 1))
<1> DEFINE g == s.guards
           t == drop(s)
           h == Front(g)
<1>1. s \in Screens /\ g \in Seq(Styles) /\ Len(g) = a.depth /\ Len(g) \in Nat
        /\ g # <<>> /\ \A i \in 1..Len(g) - 1 : g[i] = Plain
  BY ScreenIsARecord DEF Fits, Sound, Depths
<1>2. t = [terminal |-> Plain, guards |-> h, texts |-> s.texts]
  <2>1. t = [s EXCEPT !.guards = h, !.terminal = Plain]
    BY DEF drop
  <2>2. h \in Seq(Styles)
    BY <1>1, PlainIsAStyle, FrontOfGuards
  <2> HIDE DEF h, t
  <2> QED
    BY <1>1, <2>1, <2>2, PlainIsAStyle, GuardsAndTerminal
<1>3. h \in Seq(Styles) /\ Len(h) = Len(g) - 1 /\ \A i \in 1..Len(g) - 1 : h[i] = g[i]
  BY <1>1, FrontOfGuards
<1> HIDE DEF h
<1>4. t \in Screens
  BY <1>1, <1>2, <1>3, PlainIsAStyle, ScreenIsARecord, RecordIsAScreen
<1>5. \A i \in 1..Len(h) : h[i] = Plain
  BY <1>1, <1>3
<1>6. spec(t) = Plain
  <2>1. CASE h = <<>>
    BY <1>2, <2>1 DEF spec
  <2>2. CASE h # <<>>
    <3>1. Len(h) \in 1..Len(h)
      BY <1>3, <2>2
    <3> QED
      BY <1>2, <1>5, <2>2, <3>1 DEF spec, Last
  <2> QED
    BY <2>1, <2>2
<1>7. \A i \in 1..Len(h) - 1 : h[i] = Plain
  BY <1>1, <1>3, <1>5
<1> QED
  BY <1>1, <1>2, <1>3, <1>4, <1>6, <1>7 DEF Fits, Sound, plain_at

LEMMA WriteFits ==
    ASSUME NEW s, NEW a \in Depths, Fits(s, a), NEW part \in Parts
    PROVE  Fits(write(s, part), a)
<1> DEFINE t == write(s, part)
           text == [part |-> part, style |-> s.terminal, spec |-> spec(s)]
<1>1. s \in Screens /\ s.terminal = spec(s) /\ spec(s) \in Styles
  BY SpecIsAStyle DEF Fits, Sound
<1>2. t = [terminal |-> s.terminal, guards |-> s.guards, texts |-> s.texts \cup {text}]
  <2>1. s = [terminal |-> s.terminal, guards |-> s.guards, texts |-> s.texts]
    BY <1>1, ScreenIsARecord
  <2> QED
    BY <2>1 DEF write
<1>3. t \in Screens
  BY <1>1, <1>2 DEF Screens
<1>4. spec(t) = spec(s)
  BY <1>2 DEF spec
<1>5. \A x \in t.texts : x.style = x.spec
  BY <1>1, <1>2 DEF Fits, Sound
<1> QED
  BY <1>1, <1>2, <1>3, <1>4, <1>5 DEF Fits, Sound

LEMMA StepFits ==
    ASSUME NEW s, NEW a \in Depths, Fits(s, a), NEW c, NEW b, Leads(a, c, b)
    PROVE  Fits(step(s, c), b) /\ b \in Depths
<1>1. s \in Screens /\ spec(s) \in Styles
  BY SpecIsAStyle DEF Fits, Sound
<1>2. CASE c = New /\ a.plain /\ b = plain_at(a.depth + 1)
  <2>1. step(s, c) = new(s)
    BY <1>2 DEF step, New
  <2> QED
    BY <1>2, <2>1, NewFits DEF Depths, plain_at
<1>3. CASE c = Drop /\ a.depth > 0 /\ b = plain_at(a.depth - 1)
  <2>1. step(s, c) = drop(s)
    BY <1>3 DEF step, Drop
  <2> QED
    BY <1>3, <2>1, DropFits DEF Depths, plain_at
<1>4. CASE c = Bold /\ a.depth > 0 /\ b = styled_at(a.depth)
  <2>1. step(s, c) = styled(s, [spec(s) EXCEPT !.bold = TRUE])
    BY <1>4 DEF step, Bold, set_bold
  <2>2. [spec(s) EXCEPT !.bold = TRUE] \in Styles
    BY <1>1 DEF Styles
  <2> QED
    BY <1>4, <2>1, <2>2, StyledFits DEF Depths, styled_at
<1>5. ASSUME NEW x \in Colors, c = Color(x), a.depth > 0, b = styled_at(a.depth)
      PROVE  Fits(step(s, c), b) /\ b \in Depths
  <2>1. step(s, c) = styled(s, [spec(s) EXCEPT !.fg = x])
    BY <1>5 DEF step, Color, set_color
  <2>2. [spec(s) EXCEPT !.fg = x] \in Styles
    BY <1>1 DEF Styles
  <2> QED
    BY <1>5, <2>1, <2>2, StyledFits DEF Depths, styled_at
<1>6. ASSUME NEW x \in Parts, c = Text(x), b \in {a, styled_at(a.depth)}
      PROVE  Fits(step(s, c), b) /\ b \in Depths
  <2>1. step(s, c) = write(s, x)
    BY <1>6 DEF step, Text
  <2>2. Fits(step(s, c), a)
    BY <2>1, WriteFits
  <2>3. Fits(step(s, c), styled_at(a.depth)) /\ styled_at(a.depth) \in Depths
    BY <2>2 DEF Fits, Depths, styled_at
  <2> QED
    BY <1>6, <2>2, <2>3
<1> QED
  BY <1>2, <1>3, <1>4, <1>5, <1>6 DEF Leads

-----------------------------------------------------------------------------
(***************************************************************************)
(* run() follows its recursion equation: every step leads from a screen    *)
(* to a screen, so the function exists, built up from the last call.       *)
(***************************************************************************)
LEMMA StepIsAScreen ==
    ASSUME NEW s \in Screens, NEW c \in Calls
    PROVE  step(s, c) \in Screens
<1>1. s.guards \in Seq(Styles) /\ spec(s) \in Styles
  BY ScreenIsARecord, SpecIsAStyle
<1>2. Front(s.guards) \in Seq(Styles)
  <2>1. CASE s.guards = <<>>
    <3>1. Len(s.guards) - 1 \in Int /\ ~(1 <= Len(s.guards) - 1)
      BY <2>1
    <3>2. \A i \in 1..Len(s.guards) - 1 : s.guards[i] \in Styles
      BY <3>1
    <3> QED
      BY <3>1, <3>2, SubSeqProperties DEF Front
  <2>2. CASE s.guards # <<>>
    BY <1>1, <2>2, FrontOfGuards
  <2> QED
    BY <2>1, <2>2
<1>3. ASSUME NEW style \in Styles PROVE styled(s, style) \in Screens
  <2>1. Append(Front(s.guards), style) \in Seq(Styles)
    BY <1>2
  <2>2. styled(s, style) = [terminal |-> style, guards |-> Append(Front(s.guards), style),
                            texts |-> s.texts]
    BY <2>1, GuardsAndTerminal DEF styled
  <2> QED
    BY <2>1, <2>2, ScreenIsARecord, RecordIsAScreen
<1>4. CASE c = New
  <2>1. Append(s.guards, Plain) \in Seq(Styles)
    BY <1>1, PlainIsAStyle
  <2>2. step(s, c) = [terminal |-> Plain, guards |-> Append(s.guards, Plain),
                      texts |-> s.texts]
    BY <1>4, <2>1, PlainIsAStyle, GuardsAndTerminal DEF step, New, new
  <2> QED
    BY <2>1, <2>2, PlainIsAStyle, ScreenIsARecord, RecordIsAScreen
<1>5. CASE c = Drop
  <2>1. step(s, c) = [terminal |-> Plain, guards |-> Front(s.guards), texts |-> s.texts]
    BY <1>2, <1>5, PlainIsAStyle, GuardsAndTerminal DEF step, Drop, drop
  <2> QED
    BY <1>2, <2>1, PlainIsAStyle, ScreenIsARecord, RecordIsAScreen
<1>6. CASE c = Bold
  <2>1. [spec(s) EXCEPT !.bold = TRUE] \in Styles
    BY <1>1 DEF Styles
  <2> QED
    BY <1>3, <1>6, <2>1 DEF step, Bold, set_bold
<1>7. ASSUME NEW x \in Colors, c = Color(x) PROVE step(s, c) \in Screens
  <2>1. [spec(s) EXCEPT !.fg = x] \in Styles
    BY <1>1 DEF Styles
  <2>2. step(s, c) = styled(s, [spec(s) EXCEPT !.fg = x])
    BY <1>7 DEF step, Color, set_color
  <2> QED
    BY <1>3, <2>1, <2>2
<1>8. ASSUME NEW x \in Parts, c = Text(x) PROVE step(s, c) \in Screens
  <2> DEFINE text == [part |-> x, style |-> s.terminal, spec |-> spec(s)]
  <2>1. s.texts \cup {text} \in SUBSET [part : Parts, style : Styles, spec : Styles]
    BY <1>1, ScreenIsARecord
  <2>2. step(s, c) = write(s, x)
    BY <1>8 DEF step, Text
  <2>3. write(s, x) = [terminal |-> s.terminal, guards |-> s.guards,
                       texts |-> s.texts \cup {text}]
    <3>1. s = [terminal |-> s.terminal, guards |-> s.guards, texts |-> s.texts]
      BY ScreenIsARecord
    <3> QED
      BY <3>1 DEF write
  <2> QED
    BY <1>1, <2>1, <2>2, <2>3, ScreenIsARecord, RecordIsAScreen
<1> QED
  BY <1>4, <1>5, <1>6, <1>7, <1>8 DEF Calls

RunEquation(calls, from) ==
    from = [n \in 1..Len(calls) + 1 |->
               [s \in Screens |->
                   IF n > Len(calls) THEN s ELSE from[n + 1][step(s, calls[n])]]]

LEMMA RunFunctionExists ==
    ASSUME NEW calls \in Seq(Calls)
    PROVE  \E from : RunEquation(calls, from)
<1> DEFINE N == Len(calls)
           Rhs(F, n) == [s \in Screens |->
                            IF n > N THEN s ELSE F[n + 1][step(s, calls[n])]]
           Holds(F, j) ==
               /\ F = [n \in 1..N + 1 |-> F[n]]
               /\ \A n \in 1..N + 1 : n >= N + 1 - j => F[n] = Rhs(F, n)
           S == {j \in 0..N : \E F : Holds(F, j)}
<1>1. N \in Nat
  OBVIOUS
<1>2. 0 \in S
  <2> DEFINE F == [n \in 1..N + 1 |-> [s \in Screens |-> s]]
  <2>1. \A n \in 1..N + 1 : F[n] = [s \in Screens |-> s]
    OBVIOUS
  <2>2. F = [n \in 1..N + 1 |-> F[n]]
    OBVIOUS
  <2> HIDE DEF F
  <2>3. ASSUME NEW n \in 1..N + 1, n >= N + 1 - 0 PROVE F[n] = Rhs(F, n)
    <3>1. n > N
      BY <1>1, <2>3
    <3> QED
      BY <2>1, <3>1
  <2>4. Holds(F, 0)
    BY <2>2, <2>3
  <2> QED
    BY <1>1, <2>4
<1>3. ASSUME NEW j \in 0..N - 1, j \in S PROVE j + 1 \in S
  <2>1. PICK F : Holds(F, j)
    BY <1>3
  <2> DEFINE G == [n \in 1..N + 1 |-> IF n = N - j THEN Rhs(F, n) ELSE F[n]]
  <2>2. \A n \in 1..N + 1 : G[n] = IF n = N - j THEN Rhs(F, n) ELSE F[n]
    OBVIOUS
  <2>3. G = [n \in 1..N + 1 |-> G[n]]
    OBVIOUS
  <2> HIDE DEF G
  <2>4. ASSUME NEW n \in 1..N + 1, n >= N + 1 - (j + 1)
        PROVE  G[n] = Rhs(F, n) /\ Rhs(F, n) = Rhs(G, n)
    <3>1. G[n] = Rhs(F, n)
      <4>1. CASE n = N - j
        BY <2>2, <4>1
      <4>2. CASE n # N - j
        <5>1. n >= N + 1 - j
          BY <1>1, <2>4, <4>2
        <5>2. F[n] = Rhs(F, n)
          BY <2>1, <5>1
        <5> QED
          BY <2>2, <4>2, <5>2
      <4> QED
        BY <4>1, <4>2
    <3>2. CASE n > N
      BY <3>1, <3>2
    <3>3. CASE ~(n > N)
      <4>1. n + 1 \in 1..N + 1 /\ n + 1 # N - j
        BY <1>1, <2>4, <3>3
      <4>2. G[n + 1] = F[n + 1]
        BY <2>2, <4>1
      <4> QED
        BY <3>1, <4>2
    <3> QED
      BY <3>1, <3>2, <3>3
  <2>5. Holds(G, j + 1)
    BY <2>3, <2>4
  <2>6. j + 1 \in 0..N
    BY <1>1
  <2> QED
    <3>1. \E H : Holds(H, j + 1)
      BY <2>5
    <3> HIDE DEF Holds
    <3> QED
      BY <2>6, <3>1
<1>4. N \in S
  <2> HIDE DEF S
  <2>1. \A j \in 0..N : j \in S
    BY <1>1, <1>2, <1>3, InductionUpTo
  <2> QED
    BY <1>1, <2>1
<1>5. PICK F : Holds(F, N)
  BY <1>4
<1>6. \A n \in 1..N + 1 : F[n] = Rhs(F, n)
  <2>1. \A n \in 1..N + 1 : n >= N + 1 - N
    BY <1>1
  <2> QED
    BY <1>5, <2>1
<1>7. F = [n \in 1..N + 1 |-> Rhs(F, n)]
  BY <1>5, <1>6
<1> QED
  BY <1>7 DEF RunEquation

(***************************************************************************)
(* A list of calls that the abstract state allows keeps the screen sound.  *)
(***************************************************************************)
LEMMA RunFits ==
    ASSUME NEW s, NEW a \in Depths, Fits(s, a), NEW calls, NEW b, Brings(calls, a, b)
    PROVE  Fits(run(s, calls), b) /\ b \in Depths
<1> DEFINE N == Len(calls)
           from == CHOOSE f : RunEquation(calls, f)
           s0 == [s EXCEPT !.texts = {}]
<1>1. PICK d : Nested(calls, d) /\ d[0] = a /\ d[N] = b
  BY DEF Brings
<1>2. calls \in Seq(Calls) /\ N \in Nat /\ d \in [0..N -> Depths]
        /\ \A n \in 1..N : Leads(d[n - 1], calls[n], d[n])
  BY <1>1 DEF Brings, Nested
<1>3. run(s, calls) = from[1][s0]
  BY DEF run, RunEquation
<1>4. RunEquation(calls, from)
  BY <1>2, RunFunctionExists
<1> HIDE DEF from
<1>5. \A t \in Screens, n \in 1..N + 1 :
          from[n][t] = IF n > N THEN t ELSE from[n + 1][step(t, calls[n])]
  <2>1. \A n \in 1..N + 1 :
            from[n] = [t \in Screens |->
                          IF n > N THEN t ELSE from[n + 1][step(t, calls[n])]]
    BY <1>4, Zenon DEF RunEquation
  <2> QED
    BY <2>1, Zenon
<1> DEFINE S == {j \in 0..N : \A t : Fits(t, d[N - j]) => Fits(from[N - j + 1][t], b)}
<1>6. 0 \in S
  <2> SUFFICES ASSUME NEW t, Fits(t, d[N]) PROVE Fits(from[N + 1][t], b)
    BY <1>2
  <2>1. t \in Screens /\ N + 1 \in 1..N + 1 /\ N + 1 > N
    BY <1>2 DEF Fits, Sound
  <2>2. from[N + 1][t] = t
    BY <1>5, <2>1
  <2> QED
    BY <1>1, <2>2
<1>7. ASSUME NEW j \in 0..N - 1, j \in S PROVE j + 1 \in S
  <2> DEFINE m == N - j
  <2>1. m \in 1..N /\ N - (j + 1) = m - 1 /\ N - (j + 1) + 1 = m /\ j + 1 \in 0..N
          /\ m \in 1..N + 1 /\ ~(m > N) /\ m - 1 \in 0..N /\ m \in 0..N
    BY <1>2
  <2> HIDE DEF m
  <2> SUFFICES ASSUME NEW t, Fits(t, d[m - 1]) PROVE Fits(from[m][t], b)
    BY <2>1
  <2>2. Fits(step(t, calls[m]), d[m])
    BY <1>2, <2>1, StepFits
  <2>3. t \in Screens
    BY DEF Fits, Sound
  <2>4. from[m][t] = from[m + 1][step(t, calls[m])]
    BY <1>5, <2>1, <2>3
  <2>5. Fits(from[m + 1][step(t, calls[m])], b)
    BY <1>7, <2>2 DEF m
  <2> QED
    BY <2>4, <2>5
<1>8. N \in S
  <2> HIDE DEF S
  <2>1. \A j \in 0..N : j \in S
    BY <1>2, <1>6, <1>7, InductionUpTo
  <2> QED
    BY <1>2, <2>1
<1>9. Fits(s0, a)
  <2>1. s \in Screens
    BY DEF Fits, Sound
  <2>2. s = [terminal |-> s.terminal, guards |-> s.guards, texts |-> s.texts]
    BY <2>1, ScreenIsARecord
  <2>3. s0 = [terminal |-> s.terminal, guards |-> s.guards, texts |-> {}]
    BY <2>2
  <2>4. s0 \in Screens
    BY <2>1, <2>3, ScreenIsARecord, RecordIsAScreen
  <2>5. spec(s0) = spec(s)
    BY <2>3 DEF spec
  <2> QED
    BY <2>3, <2>4, <2>5 DEF Fits, Sound
<1>10. N - N = 0 /\ N - N + 1 = 1
  BY <1>2
<1>11. Fits(from[1][s0], b)
  BY <1>1, <1>8, <1>9, <1>10
<1> QED
  BY <1>1, <1>2, <1>3, <1>11

(***************************************************************************)
(* Lists of calls, put together.                                           *)
(***************************************************************************)
LEMMA EmptyBrings ==
    ASSUME NEW a \in Depths
    PROVE  Brings(<<>>, a, a)
<1> DEFINE d == [n \in 0..0 |-> a]
<1>1. <<>> \in Seq(Calls) /\ Len(<<>>) = 0
  OBVIOUS
<1>2. Nested(<<>>, d) /\ d[0] = a /\ d[Len(<<>>)] = a
  BY <1>1 DEF Nested
<1> QED
  BY <1>1, <1>2 DEF Brings

LEMMA LeadsToADepth ==
    ASSUME NEW a \in Depths, NEW c, NEW b, Leads(a, c, b)
    PROVE  c \in Calls /\ b \in Depths
<1>1. a.depth \in Nat
  BY DEF Depths
<1>2. b \in Depths
  <2>1. a.depth > 0 => a.depth - 1 \in Nat
    BY <1>1
  <2>2. \A k \in Nat : plain_at(k) \in Depths /\ styled_at(k) \in Depths
    BY DEF plain_at, styled_at, Depths
  <2> QED
    BY <1>1, <2>1, <2>2 DEF Leads
<1>3. c \in Calls
  BY DEF Leads, Calls
<1> QED
  BY <1>2, <1>3

LEMMA BringsConcat ==
    ASSUME NEW x, NEW y, NEW a, NEW b, NEW c, Brings(x, a, b), Brings(y, b, c)
    PROVE  Brings(x \o y, a, c)
<1> DEFINE m == Len(x)
           n == Len(y)
<1>1. PICK d : Nested(x, d) /\ d[0] = a /\ d[m] = b
  BY DEF Brings
<1>2. PICK e : Nested(y, e) /\ e[0] = b /\ e[n] = c
  BY DEF Brings
<1>3. x \in Seq(Calls) /\ y \in Seq(Calls) /\ m \in Nat /\ n \in Nat
        /\ d \in [0..m -> Depths] /\ e \in [0..n -> Depths]
        /\ (\A i \in 1..m : Leads(d[i - 1], x[i], d[i]))
        /\ \A i \in 1..n : Leads(e[i - 1], y[i], e[i])
  BY <1>1, <1>2 DEF Brings, Nested
<1>4. /\ x \o y \in Seq(Calls) /\ Len(x \o y) = m + n
      /\ \A i \in 1..m + n : (x \o y)[i] = IF i <= m THEN x[i] ELSE y[i - m]
  BY <1>3, ConcatProperties
<1> DEFINE g == [i \in 0..m + n |-> IF i <= m THEN d[i] ELSE e[i - m]]
<1> HIDE DEF m, n
<1>5. /\ \A i \in 0..m + n : g[i] = IF i <= m THEN d[i] ELSE e[i - m]
      /\ DOMAIN g = 0..m + n
  OBVIOUS
<1>6. g \in [0..m + n -> Depths]
  BY <1>3
<1> HIDE DEF g
<1>7. ASSUME NEW i \in 1..m + n PROVE Leads(g[i - 1], (x \o y)[i], g[i])
  <2>1. CASE i <= m
    <3>1. i \in 1..m /\ i - 1 <= m /\ i - 1 \in 0..m + n /\ i \in 0..m + n
      BY <1>3, <2>1
    <3> QED
      BY <1>3, <1>4, <1>5, <2>1, <3>1
  <2>2. CASE i > m
    <3>1. i - m \in 1..n /\ i - 1 \in 0..m + n /\ i \in 0..m + n /\ ~(i <= m)
            /\ (i - 1) - m = (i - m) - 1
      BY <1>3, <2>2
    <3>2. g[i] = e[i - m] /\ (x \o y)[i] = y[i - m]
      BY <1>4, <1>5, <3>1
    <3>3. g[i - 1] = e[(i - m) - 1]
      <4>1. CASE i - 1 = m
        BY <1>1, <1>2, <1>3, <1>5, <3>1, <4>1 DEF m
      <4>2. CASE i - 1 # m
        <5>1. ~(i - 1 <= m)
          BY <1>3, <2>2, <4>2
        <5> QED
          BY <1>5, <3>1, <5>1
      <4> QED
        BY <4>1, <4>2
    <3> QED
      BY <1>3, <3>1, <3>2, <3>3
  <2>3. i <= m \/ i > m
    BY <1>3
  <2> QED
    BY <2>1, <2>2, <2>3
<1>8. Nested(x \o y, g)
  BY <1>4, <1>6, <1>7 DEF Nested
<1>9. g[0] = a /\ g[m + n] = c
  <2>1. 0 \in 0..m + n /\ m + n \in 0..m + n /\ 0 <= m /\ (m + n) - m = n
    BY <1>3
  <2>2. g[0] = a
    BY <1>1, <1>5, <2>1
  <2>3. CASE n = 0
    <3>1. m + n = m /\ m <= m
      BY <1>3, <2>3
    <3> QED
      BY <1>1, <1>2, <1>5, <2>1, <2>2, <2>3, <3>1 DEF m, n
  <2>4. CASE n # 0
    <3>1. ~(m + n <= m)
      BY <1>3, <2>4
    <3> QED
      BY <1>2, <1>5, <2>1, <2>2, <3>1 DEF n
  <2> QED
    BY <2>3, <2>4
<1> QED
  BY <1>4, <1>8, <1>9 DEF Brings

(***************************************************************************)
(* The calls before a write that fails.                                    *)
(***************************************************************************)
LEMMA PrefixBrings ==
    ASSUME NEW calls, NEW a, NEW b, Brings(calls, a, b), NEW n \in 0..Len(calls)
    PROVE  \E c \in Depths : Brings(SubSeq(calls, 1, n), a, c)
<1> DEFINE N == Len(calls)
           x == SubSeq(calls, 1, n)
<1>1. PICK d : Nested(calls, d) /\ d[0] = a /\ d[N] = b
  BY DEF Brings
<1>2. calls \in Seq(Calls) /\ N \in Nat /\ d \in [0..N -> Depths]
        /\ \A i \in 1..N : calls[i] \in Calls /\ Leads(d[i - 1], calls[i], d[i])
  BY <1>1 DEF Brings, Nested
<1>3. n \in Nat /\ n <= N /\ \A i \in 1..n : calls[i] \in Calls
  BY <1>2
<1>4. x \in Seq(Calls) /\ Len(x) = n /\ \A i \in 1..n : x[i] = calls[i]
  <2>1. /\ x \in Seq(Calls)
        /\ Len(x) = IF 1 <= n THEN n - 1 + 1 ELSE 0
        /\ \A i \in 1..n - 1 + 1 : x[i] = calls[1 + i - 1]
    BY <1>3, SubSeqProperties
  <2> HIDE DEF x
  <2> QED
    BY <1>3, <2>1
<1> HIDE DEF x
<1> DEFINE e == [i \in 0..n |-> d[i]]
<1>5. e \in [0..n -> Depths] /\ \A i \in 0..n : e[i] = d[i]
  BY <1>2, <1>3
<1>6. Nested(x, e)
  <2> HIDE DEF e
  <2>1. ASSUME NEW i \in 1..n PROVE Leads(e[i - 1], x[i], e[i])
    <3>1. i \in 1..N /\ i - 1 \in 0..n /\ i \in 0..n
      BY <1>2, <1>3
    <3> QED
      BY <1>2, <1>4, <1>5, <3>1
  <2> QED
    BY <1>4, <1>5, <2>1 DEF Nested
<1>7. e[0] = a /\ e[n] \in Depths
  BY <1>1, <1>2, <1>3, <1>5
<1> QED
  BY <1>4, <1>6, <1>7 DEF Brings

(***************************************************************************)
(* Dropping every guard leaves none, and a plain terminal.                 *)
(***************************************************************************)
LEMMA DropsBring ==
    ASSUME NEW s, NEW a \in Depths, Fits(s, a)
    PROVE  \E b \in Depths : b.depth = 0 /\ Brings(drops(s), a, b)
<1> DEFINE m == a.depth
           x == drops(s)
<1>1. m \in Nat /\ s.guards \in Seq(Styles) /\ Len(s.guards) = m
        /\ DOMAIN s.guards = 1..m
  BY ScreenIsARecord DEF Fits, Sound, Depths
<1>2. x \in Seq(Calls) /\ Len(x) = m /\ \A i \in 1..m : x[i] = Drop
  <2>1. x = [i \in 1..m |-> Drop] /\ Drop \in Calls
    BY <1>1 DEF drops, Calls
  <2> HIDE DEF x, m
  <2> QED
    BY <1>1, <2>1
<1> DEFINE d == [i \in 0..m |-> IF i = 0 THEN a ELSE plain_at(m - i)]
<1>3. d \in [0..m -> Depths] /\ \A i \in 0..m : d[i] = IF i = 0 THEN a ELSE plain_at(m - i)
  BY <1>1 DEF Depths, plain_at
<1> HIDE DEF x, m, d
<1>4. ASSUME NEW i \in 1..m PROVE Leads(d[i - 1], Drop, d[i])
  <2>1. i - 1 \in 0..m /\ i \in 0..m /\ i # 0 /\ m - i = (m - (i - 1)) - 1
          /\ m - (i - 1) > 0
    BY <1>1
  <2>2. d[i] = plain_at(m - i)
    BY <1>3, <2>1
  <2>3. d[i - 1].depth = m - (i - 1)
    <3>1. CASE i = 1
      BY <1>1, <1>3, <2>1, <3>1 DEF m
    <3>2. CASE i # 1
      <4>1. i - 1 # 0
        BY <3>2
      <4> QED
        BY <1>3, <2>1, <4>1 DEF plain_at
    <3> QED
      BY <3>1, <3>2
  <2> QED
    BY <2>1, <2>2, <2>3 DEF Leads
<1>5. Nested(x, d)
  BY <1>2, <1>3, <1>4 DEF Nested
<1>6. 0 \in 0..m /\ m \in 0..m
  BY <1>1
<1>7. d[0] = a /\ d[m] \in Depths
  BY <1>3, <1>6
<1>8. d[m].depth = 0
  <2>1. CASE m = 0
    BY <1>7, <2>1 DEF m
  <2>2. CASE m # 0
    BY <1>1, <1>3, <1>6, <2>2 DEF plain_at
  <2> QED
    BY <2>1, <2>2
<1>9. Brings(x, a, d[m])
  BY <1>2, <1>5, <1>7 DEF Brings
<1> QED
  BY <1>7, <1>8, <1>9 DEF x

LEMMA NoGuardIsPlain ==
    ASSUME NEW s, NEW a \in Depths, Fits(s, a), a.depth = 0
    PROVE  /\ Fits(s, plain_at(0))
           /\ s.guards = <<>> /\ s.terminal = Plain
<1>1. s.guards = <<>>
  BY ScreenIsARecord DEF Fits, Sound
<1> QED
  BY <1>1 DEF Fits, Sound, spec, plain_at

LEMMA UnwoundFits ==
    ASSUME NEW s, NEW a \in Depths, Fits(s, a), NEW calls, NEW b, Brings(calls, a, b)
    PROVE  Fits(unwound(s, calls), plain_at(0))
<1>1. Fits(run(s, calls), b) /\ b \in Depths
  BY RunFits
<1>2. PICK c \in Depths : c.depth = 0 /\ Brings(drops(run(s, calls)), b, c)
  BY <1>1, DropsBring
<1>3. Brings(calls \o drops(run(s, calls)), a, c)
  BY <1>2, BringsConcat
<1>4. Fits(unwound(s, calls), c)
  BY <1>3, RunFits DEF unwound
<1> QED
  BY <1>2, <1>4, NoGuardIsPlain

LEMMA FailedFits ==
    ASSUME NEW s, NEW a \in Depths, Fits(s, a), NEW calls, NEW b, Brings(calls, a, b),
           NEW n \in writes(calls)
    PROVE  Fits(failed(s, calls, n), plain_at(0))
<1>1. calls \in Seq(Calls) /\ Len(calls) \in Nat /\ n \in 1..Len(calls)
  BY DEF Brings, writes
<1>2. n - 1 \in 0..Len(calls)
  BY <1>1
<1>3. PICK c \in Depths : Brings(SubSeq(calls, 1, n - 1), a, c)
  BY <1>2, PrefixBrings
<1> QED
  BY <1>3, UnwoundFits DEF failed

LEMMA ClearFits ==
    ASSUME NEW s, NEW a, Fits(s, a)
    PROVE  Fits([s EXCEPT !.texts = {}], a)
<1> DEFINE s0 == [s EXCEPT !.texts = {}]
<1>1. s \in Screens
  BY DEF Fits, Sound
<1>2. s = [terminal |-> s.terminal, guards |-> s.guards, texts |-> s.texts]
  BY <1>1, ScreenIsARecord
<1>3. s0 = [terminal |-> s.terminal, guards |-> s.guards, texts |-> {}]
  BY <1>2
<1>4. s0 \in Screens
  BY <1>1, <1>3, ScreenIsARecord, RecordIsAScreen
<1>5. spec(s0) = spec(s)
  BY <1>3 DEF spec
<1> QED
  BY <1>3, <1>4, <1>5 DEF Fits, Sound

(***************************************************************************)
(* The functions of the diagnostics leave the guards as they find them.    *)
(***************************************************************************)
LEMMA ColorsOfLevels ==
    /\ "Cyan" \in Colors /\ "default" \in Colors /\ "Green" \in Colors
    /\ \A l \in Levels : color(l) \in Colors
BY DiagnosticsAssumption DEF Colors, color

LEMMA DepthsOf ==
    ASSUME NEW k \in Nat
    PROVE  /\ plain_at(k) \in Depths /\ styled_at(k) \in Depths
           /\ plain_at(k).depth = k /\ plain_at(k).plain /\ styled_at(k).depth = k
BY DEF Depths, plain_at, styled_at

LEMMA OneBrings ==
    ASSUME NEW c, NEW a \in Depths, NEW e, Leads(a, c, e)
    PROVE  Brings(<<c>>, a, e)
<1> DEFINE d == [i \in 0..1 |-> IF i = 0 THEN a ELSE e]
<1>1. c \in Calls /\ e \in Depths
  BY LeadsToADepth
<1>2. <<c>> \in Seq(Calls) /\ Len(<<c>>) = 1 /\ <<c>>[1] = c
  BY <1>1
<1>3. d \in [0..1 -> Depths] /\ d[0] = a /\ d[1] = e
  BY <1>1
<1> HIDE DEF d
<1>4. ASSUME NEW n \in 1..1 PROVE Leads(d[n - 1], <<c>>[n], d[n])
  <2>1. n = 1 /\ n - 1 = 0
    OBVIOUS
  <2> QED
    BY <1>2, <1>3, <2>1
<1>5. Nested(<<c>>, d)
  BY <1>2, <1>3, <1>4 DEF Nested
<1> QED
  BY <1>2, <1>3, <1>5 DEF Brings

(***************************************************************************)
(* A guard is made, styled and written through, in any order, and dropped. *)
(***************************************************************************)
LEMMA GuardBrings ==
    ASSUME NEW calls \in Seq(Calls), NEW k \in Nat,
           Len(calls) > 1, calls[1] = New, calls[Len(calls)] = Drop,
           \A i \in 2..Len(calls) - 1 : calls[i] \in Calls \ {New, Drop}
    PROVE  Brings(calls, plain_at(k), plain_at(k))
<1> DEFINE N == Len(calls)
           a == plain_at(k)
           b == plain_at(k + 1)
           e == styled_at(k + 1)
           d == [i \in 0..N |-> IF i \in {0, N} THEN a ELSE IF i = 1 THEN b ELSE e]
<1>1. /\ a \in Depths /\ b \in Depths /\ e \in Depths /\ a.plain
      /\ a.depth = k /\ b.depth = k + 1 /\ e.depth = k + 1
      /\ k + 1 > 0 /\ (k + 1) - 1 = k
  BY DepthsOf
<1>2. N \in Nat /\ N > 1
  OBVIOUS
<1> HIDE DEF N
<1>3. /\ d \in [0..N -> Depths]
      /\ \A i \in 0..N : d[i] = IF i \in {0, N} THEN a ELSE IF i = 1 THEN b ELSE e
  BY <1>1
<1> HIDE DEF d
<1>4. d[0] = a /\ d[N] = a /\ d[1] = b
        /\ \A i \in 1..N - 1 : d[i] \in {b, e} /\ (i > 1 => d[i] = e)
  BY <1>2, <1>3
<1>5. ASSUME NEW i \in 1..N PROVE Leads(d[i - 1], calls[i], d[i])
  <2>1. CASE i = 1
    <3>1. calls[i] = New /\ d[i - 1] = a /\ d[i] = b
      BY <1>4, <2>1
    <3> QED
      BY <1>1, <3>1 DEF Leads
  <2>2. CASE i = N
    <3>1. i - 1 \in 1..N - 1
      BY <1>2, <2>2
    <3>2. calls[i] = Drop /\ d[i - 1].depth = k + 1 /\ d[i] = a
      BY <1>1, <1>4, <2>2, <3>1 DEF N
    <3> QED
      BY <1>1, <3>2 DEF Leads
  <2>3. CASE i # 1 /\ i # N
    <3>1. i \in 2..N - 1 /\ i \in 1..N - 1 /\ i - 1 \in 1..N - 1 /\ i > 1
      BY <1>2, <2>3
    <3>2. d[i] = e /\ d[i - 1] \in {b, e} /\ d[i - 1].depth = k + 1
      BY <1>1, <1>4, <3>1
    <3>3. calls[i] \in Calls \ {New, Drop}
      BY <3>1 DEF N
    <3> QED
      BY <1>1, <3>2, <3>3 DEF Leads, Calls
  <2> QED
    BY <2>1, <2>2, <2>3
<1>6. Nested(calls, d)
  BY <1>3, <1>5 DEF Nested, N
<1> QED
  BY <1>4, <1>6 DEF Brings, N

LEMMA StylesAndTexts ==
    /\ Bold \in Calls \ {New, Drop}
    /\ \A c \in Colors : Color(c) \in Calls \ {New, Drop}
    /\ \A part \in Parts : Text(part) \in Calls \ {New, Drop}
    /\ New \in Calls /\ Drop \in Calls
<1>1. New.do = "new" /\ Drop.do = "drop" /\ Bold.do = "set_bold"
  BY DEF New, Drop, Bold
<1>2. \A c : Color(c).do = "set_color"
  BY DEF Color
<1>3. \A part : Text(part).do = "write"
  BY DEF Text
<1> QED
  BY <1>1, <1>2, <1>3 DEF Calls

LEMMA InBrings ==
    ASSUME NEW c \in Colors, NEW part \in Parts, NEW k \in Nat
    PROVE  Brings(In(c, part), plain_at(k), plain_at(k))
<1> DEFINE x == Color(c)
           y == Text(part)
           S == Calls \ {New, Drop}
           calls == <<New, x, Bold, y, Drop>>
<1>1. x \in S /\ Bold \in S /\ y \in S /\ New \in Calls /\ Drop \in Calls
  BY StylesAndTexts
<1> HIDE DEF x, y
<1>2. calls \in Seq(Calls) /\ Len(calls) = 5 /\ calls[1] = New /\ calls[5] = Drop
        /\ calls[2] = x /\ calls[3] = Bold /\ calls[4] = y
  BY <1>1
<1> HIDE DEF calls, S
<1>3. ASSUME NEW i \in 2..Len(calls) - 1 PROVE calls[i] \in S
  <2>1. i = 2 \/ i = 3 \/ i = 4
    BY <1>2
  <2> QED
    BY <1>1, <1>2, <2>1, Zenon
<1>4. Len(calls) > 1 /\ calls[Len(calls)] = Drop
  BY <1>2
<1>5. Brings(calls, plain_at(k), plain_at(k))
  BY <1>2, <1>3, <1>4, GuardBrings DEF S
<1> QED
  BY <1>5 DEF In, calls, x, y

LEMMA DescriptionBrings ==
    ASSUME level \in Levels, NEW k \in Nat
    PROVE  Brings(description, plain_at(k), plain_at(k))
<1> DEFINE x == Color(color(level))
           y == Text("level")
           u == Color("default")
           v == Text("message")
           S == Calls \ {New, Drop}
           calls == <<New, x, Bold, y, u, v, Drop>>
<1>1. x \in S /\ Bold \in S /\ y \in S /\ u \in S /\ v \in S
        /\ New \in Calls /\ Drop \in Calls
  <2>1. "level" \in Parts /\ "message" \in Parts
    BY DEF Parts
  <2> QED
    BY <2>1, ColorsOfLevels, StylesAndTexts
<1> HIDE DEF x, y, u, v
<1>2. calls \in Seq(Calls) /\ Len(calls) = 7 /\ calls[1] = New /\ calls[7] = Drop
        /\ calls[2] = x /\ calls[3] = Bold /\ calls[4] = y /\ calls[5] = u /\ calls[6] = v
  BY <1>1
<1> HIDE DEF calls, S
<1>3. ASSUME NEW i \in 2..Len(calls) - 1 PROVE calls[i] \in S
  <2>1. i = 2 \/ i = 3 \/ i = 4 \/ i = 5 \/ i = 6
    BY <1>2
  <2> QED
    BY <1>1, <1>2, <2>1, Zenon
<1>4. Len(calls) > 1 /\ calls[Len(calls)] = Drop
  BY <1>2
<1>5. Brings(calls, plain_at(k), plain_at(k))
  BY <1>2, <1>3, <1>4, GuardBrings DEF S
<1> QED
  BY <1>5 DEF description, calls, x, y, u, v

LEMMA StatisticsBrings ==
    ASSUME NEW c \in Colors, NEW k \in Nat
    PROVE  Brings(<<New, Bold, Color(c), Text("statistics"), Drop>>, plain_at(k), plain_at(k))
<1> DEFINE x == Color(c)
           y == Text("statistics")
           S == Calls \ {New, Drop}
           calls == <<New, Bold, x, y, Drop>>
<1>1. x \in S /\ Bold \in S /\ y \in S /\ New \in Calls /\ Drop \in Calls
  <2>1. "statistics" \in Parts
    BY DEF Parts
  <2> QED
    BY <2>1, StylesAndTexts
<1> HIDE DEF x, y
<1>2. calls \in Seq(Calls) /\ Len(calls) = 5 /\ calls[1] = New /\ calls[5] = Drop
        /\ calls[2] = Bold /\ calls[3] = x /\ calls[4] = y
  BY <1>1
<1> HIDE DEF calls, S
<1>3. ASSUME NEW i \in 2..Len(calls) - 1 PROVE calls[i] \in S
  <2>1. i = 2 \/ i = 3 \/ i = 4
    BY <1>2
  <2> QED
    BY <1>1, <1>2, <2>1, Zenon
<1>4. Len(calls) > 1 /\ calls[Len(calls)] = Drop
  BY <1>2
<1>5. Brings(calls, plain_at(k), plain_at(k))
  BY <1>2, <1>3, <1>4, GuardBrings DEF S
<1> QED
  BY <1>5 DEF calls, x, y

\* What is left when the `repeat` of the underline panics.
LEMMA HalfUnderlineBrings ==
    ASSUME NEW c \in Colors, NEW k \in Nat
    PROVE  Brings(<<New, Color(c), Bold>>, plain_at(k), styled_at(k + 1))
<1> DEFINE a == plain_at(k)
           b == plain_at(k + 1)
           e == styled_at(k + 1)
           x == Color(c)
           calls == <<New, x, Bold>>
           d == [i \in 0..3 |-> IF i = 0 THEN a ELSE IF i = 1 THEN b ELSE e]
<1>1. a \in Depths /\ b \in Depths /\ e \in Depths /\ k + 1 > 0
        /\ a.plain /\ a.depth = k /\ b.depth = k + 1 /\ e.depth = k + 1
  BY DepthsOf
<1>2. Leads(a, New, b) /\ Leads(b, x, e) /\ Leads(e, Bold, e)
  BY <1>1 DEF Leads
<1>3. x \in Calls /\ New \in Calls /\ Bold \in Calls
  BY StylesAndTexts
<1> HIDE DEF a, b, e, x
<1>4. calls \in Seq(Calls) /\ Len(calls) = 3
        /\ calls[1] = New /\ calls[2] = x /\ calls[3] = Bold
  BY <1>3
<1>5. d \in [0..3 -> Depths] /\ d[0] = a /\ d[1] = b /\ d[2] = e /\ d[3] = e
  BY <1>1
<1> HIDE DEF calls, d
<1>6. ASSUME NEW i \in 1..3 PROVE Leads(d[i - 1], calls[i], d[i])
  <2>1. (i = 1 /\ i - 1 = 0) \/ (i = 2 /\ i - 1 = 1) \/ (i = 3 /\ i - 1 = 2)
    OBVIOUS
  <2> QED
    BY <1>2, <1>4, <1>5, <2>1, Zenon
<1>7. Nested(calls, d)
  BY <1>4, <1>5, <1>6 DEF Nested
<1> QED
  BY <1>4, <1>5, <1>7 DEF Brings, a, e, calls, x

(***************************************************************************)
(* render(): a colour and a text for every character of the line.          *)
(***************************************************************************)
LEMMA RenderBrings ==
    ASSUME file \in Seq(Char) \ {<<>>}, NEW line, IsLine(file, line), NEW k \in Nat
    PROVE  Brings(render(line), plain_at(k), plain_at(k))
<1> DEFINE chars == SubSeq(file, line.start.byte_offset + 1, line.end.byte_offset + 1)
           color_of(c) == IF c \in Control THEN HIGHLIGHT_COLOR ELSE "default"
           n == Len(chars)
           N == 2 * n
           M == [i \in 1..N |-> IF i % 2 = 1 THEN Color(color_of(chars[(i + 1) \div 2]))
                                             ELSE Text("source")]
           S == Calls \ {New, Drop}
           y == Text("end of line")
<1>1. n \in Nat /\ N \in Nat
  <2> DEFINE s == line.start.byte_offset + 1
             t == line.end.byte_offset + 1
  <2>1. s \in 1..Len(file) /\ t \in s..Len(file)
    <3>1. /\ At(file, line.start) /\ At(file, line.end)
          /\ line.start.byte_offset <= line.end.byte_offset
      BY DEF IsLine
    <3>2. /\ line.start.byte_offset \in 0..Len(file) - 1
          /\ line.end.byte_offset \in 0..Len(file) - 1
      BY <3>1 DEF At, PositionType
    <3> QED
      BY <3>1, <3>2
  <2>2. \A i \in s..t : file[i] \in Char
    BY <2>1
  <2>3. chars \in Seq(Char)
    BY <2>1, <2>2, SubSeqProperties
  <2> HIDE DEF chars
  <2> QED
    BY <2>3
<1>2. ASSUME NEW i \in 1..N PROVE M[i] \in S
  <2>1. \A c : Color(color_of(c)) \in S
    BY ColorsOfLevels, StylesAndTexts DEF HIGHLIGHT_COLOR
  <2>2. Text("source") \in S
    BY StylesAndTexts DEF Parts
  <2> HIDE DEF N, chars, color_of, S
  <2> QED
    BY <2>1, <2>2
<1>3. M \in Seq(S) /\ Len(M) = N
  <2>1. DOMAIN M = 1..N /\ M = [i \in 1..N |-> M[i]]
    OBVIOUS
  <2> HIDE DEF M, N, S
  <2> QED
    BY <1>1, <1>2, <2>1
<1>4. render(line) = (<<New>> \o M) \o <<y, Drop>>
  BY DEF render
<1>5. y \in S /\ New \in Calls /\ Drop \in Calls
  BY StylesAndTexts DEF Parts
<1> HIDE DEF M, N, y, n
<1>6. /\ M \in Seq(Calls) /\ Len(M) = N /\ \A i \in 1..N : M[i] \in S
      /\ <<New>> \in Seq(Calls) /\ Len(<<New>>) = 1 /\ <<New>>[1] = New
      /\ <<y, Drop>> \in Seq(Calls) /\ Len(<<y, Drop>>) = 2
      /\ <<y, Drop>>[1] = y /\ <<y, Drop>>[2] = Drop
  BY <1>2, <1>3, <1>5
<1> DEFINE x == <<New>> \o M
           z == x \o <<y, Drop>>
<1>7. /\ x \in Seq(Calls) /\ Len(x) = 1 + N
      /\ \A i \in 1..1 + N : x[i] = IF i <= 1 THEN <<New>>[i] ELSE M[i - 1]
  BY <1>6, ConcatProperties
<1> HIDE DEF x
<1>8. /\ z \in Seq(Calls) /\ Len(z) = (1 + N) + 2
      /\ \A i \in 1..(1 + N) + 2 : z[i] = IF i <= 1 + N THEN x[i] ELSE <<y, Drop>>[i - (1 + N)]
  BY <1>6, <1>7, ConcatProperties
<1> HIDE DEF z, S
<1>9. Len(z) > 1 /\ z[1] = New /\ z[Len(z)] = Drop
  <2>1. Len(z) > 1 /\ 1 \in 1..1 + N /\ 1 \in 1..(1 + N) + 2 /\ 1 <= 1 + N
          /\ (1 + N) + 2 \in 1..(1 + N) + 2 /\ ~((1 + N) + 2 <= 1 + N)
          /\ (1 + N) + 2 - (1 + N) = 2
    BY <1>1, <1>8
  <2>2. z[1] = x[1]
    BY <1>8, <2>1
  <2>3. x[1] = New
    <3>1. x[1] = <<New>>[1]
      BY <1>7, <2>1
    <3>2. <<New>>[1] = New
      OBVIOUS
    <3> QED
      BY <3>1, <3>2, Zenon
  <2>4. z[(1 + N) + 2] = <<y, Drop>>[2]
    <3>1. ASSUME NEW i \in 1..(1 + N) + 2, ~(i <= 1 + N), i - (1 + N) = 2
          PROVE  z[i] = <<y, Drop>>[2]
      <4>1. z[i] = <<y, Drop>>[i - (1 + N)]
        BY <1>8, <3>1, Zenon
      <4> QED
        BY <3>1, <4>1, Zenon
    <3> QED
      BY <1>1, <2>1, <3>1
  <2> QED
    BY <1>6, <1>8, <2>1, <2>2, <2>3, <2>4
<1>10. ASSUME NEW i \in 2..Len(z) - 1 PROVE z[i] \in S
  <2>1. i \in 1..(1 + N) + 2
    BY <1>1, <1>8
  <2>2. CASE i <= 1 + N
    <3>1. i - 1 \in 1..N /\ ~(i <= 1) /\ i \in 1..1 + N
      BY <1>1, <2>2
    <3> QED
      BY <1>6, <1>7, <1>8, <2>1, <2>2, <3>1
  <2>3. CASE ~(i <= 1 + N)
    <3>1. i - (1 + N) = 1
      BY <1>1, <1>8, <2>3
    <3> QED
      BY <1>5, <1>6, <1>8, <2>1, <2>3, <3>1
  <2> QED
    BY <2>2, <2>3
<1>11. Brings(z, plain_at(k), plain_at(k))
  BY <1>8, <1>9, <1>10, GuardBrings DEF S
<1> QED
  BY <1>4, <1>11 DEF z, x

-----------------------------------------------------------------------------
(***************************************************************************)
(* Terminal cells.                                                         *)
(*                                                                         *)
(* Both the columns of the code and the cells they are compared with are   *)
(* differences of one sum: the cells of all characters before an offset.   *)
(***************************************************************************)
IsSum(f, n, c) == /\ c \in [0..n -> Nat]
                  /\ c[0] = 0
                  /\ \A i \in 1..n : c[i] = c[i - 1] + rendered_width(f[i])

printed(f) == CHOOSE c : IsSum(f, Len(f), c)

LEMMA WidthIsNatural == ASSUME NEW x PROVE rendered_width(x) \in Nat
BY DiagnosticsAssumption DEF rendered_width

LEMMA SumExists ==
    ASSUME NEW f, NEW N \in Nat
    PROVE  \E c : IsSum(f, N, c)
<1> DEFINE S == {n \in 0..N : \E c : IsSum(f, n, c)}
<1>1. 0 \in S
  <2> DEFINE c == [i \in 0..0 |-> 0]
  <2>1. IsSum(f, 0, c)
    BY DEF IsSum
  <2> QED
    BY <2>1
<1>2. ASSUME NEW n \in 0..N - 1, n \in S PROVE n + 1 \in S
  <2>1. PICK c : IsSum(f, n, c)
    BY <1>2
  <2> DEFINE d == [i \in 0..n + 1 |-> IF i = n + 1 THEN c[n] + rendered_width(f[i])
                                                   ELSE c[i]]
  <2>2. c \in [0..n -> Nat] /\ c[0] = 0
          /\ \A i \in 1..n : c[i] = c[i - 1] + rendered_width(f[i])
    BY <2>1 DEF IsSum
  <2>3. n \in Nat /\ n + 1 \in 0..N
    OBVIOUS
  <2>4. \A i \in 0..n + 1 : d[i] = IF i = n + 1 THEN c[n] + rendered_width(f[i]) ELSE c[i]
    OBVIOUS
  <2>5. d \in [0..n + 1 -> Nat]
    <3>1. ASSUME NEW i \in 0..n + 1
          PROVE  (IF i = n + 1 THEN c[n] + rendered_width(f[i]) ELSE c[i]) \in Nat
      <4>1. rendered_width(f[i]) \in Nat
        BY WidthIsNatural
      <4>2. i # n + 1 => i \in 0..n
        BY <2>3
      <4> QED
        BY <2>2, <2>3, <4>1, <4>2
    <3> QED
      BY <3>1
  <2> HIDE DEF d
  <2>6. d[0] = 0
    BY <2>2, <2>3, <2>4
  <2>7. ASSUME NEW i \in 1..n + 1 PROVE d[i] = d[i - 1] + rendered_width(f[i])
    <3>1. i \in 0..n + 1 /\ i - 1 \in 0..n + 1 /\ i - 1 # n + 1
      BY <2>3
    <3>2. d[i - 1] = c[i - 1]
      BY <2>4, <3>1
    <3>3. CASE i = n + 1
      <4>1. i - 1 = n
        BY <2>3, <3>3
      <4> QED
        BY <2>4, <3>1, <3>2, <3>3, <4>1
    <3>4. CASE i # n + 1
      <4>1. i \in 1..n
        BY <2>3, <3>4
      <4> QED
        BY <2>2, <2>4, <3>1, <3>2, <3>4, <4>1
    <3> QED
      BY <3>3, <3>4
  <2>8. IsSum(f, n + 1, d)
    BY <2>5, <2>6, <2>7 DEF IsSum
  <2> QED
    BY <2>3, <2>8
<1> HIDE DEF S
<1>3. \A n \in 0..N : n \in S
  BY <1>1, <1>2, InductionUpTo
<1>4. N \in 0..N
  OBVIOUS
<1> QED
  BY <1>3, <1>4 DEF S

LEMMA PrintedIsSum ==
    ASSUME NEW f \in Seq(Char)
    PROVE  IsSum(f, Len(f), printed(f))
<1>1. Len(f) \in Nat
  OBVIOUS
<1> QED
  BY <1>1, SumExists DEF printed

LEMMA PrintedGrows ==
    ASSUME NEW f \in Seq(Char), NEW j \in 0..Len(f), NEW i \in 0..j
    PROVE  /\ printed(f)[i] \in Nat /\ printed(f)[j] \in Nat
           /\ printed(f)[i] <= printed(f)[j]
<1> DEFINE c == printed(f)
           S == {k \in 0..j - i : c[i] <= c[i + k]}
<1>1. /\ Len(f) \in Nat /\ c \in [0..Len(f) -> Nat]
      /\ \A m \in 1..Len(f) : c[m] = c[m - 1] + rendered_width(f[m])
  BY PrintedIsSum DEF IsSum
<1> HIDE DEF c
<1>2. i \in Nat /\ j \in Nat /\ j - i \in Nat /\ i + (j - i) = j /\ i + 0 = i
        /\ i \in 0..Len(f)
  BY <1>1
<1>3. 0 \in S
  BY <1>1, <1>2
<1>4. ASSUME NEW k \in 0..(j - i) - 1, k \in S PROVE k + 1 \in S
  <2>1. i + k \in 0..Len(f) /\ i + (k + 1) \in 1..Len(f) /\ (i + (k + 1)) - 1 = i + k
          /\ k + 1 \in 0..j - i
    BY <1>1, <1>2
  <2>2. c[i + (k + 1)] = c[i + k] + rendered_width(f[i + (k + 1)])
    BY <1>1, <2>1
  <2>3. c[i + k] \in Nat /\ c[i] \in Nat /\ rendered_width(f[i + (k + 1)]) \in Nat
    BY <1>1, <1>2, <2>1, WidthIsNatural
  <2> QED
    BY <1>4, <2>1, <2>2, <2>3
<1> HIDE DEF S
<1>5. \A k \in 0..j - i : k \in S
  BY <1>2, <1>3, <1>4, InductionUpTo
<1>6. j - i \in 0..j - i
  BY <1>2
<1>7. c[i] <= c[j]
  BY <1>2, <1>5, <1>6 DEF S
<1> QED
  BY <1>1, <1>2, <1>7 DEF c

(***************************************************************************)
(* cells(from, to), counted in a given file.                               *)
(***************************************************************************)
cells_in(f, from, to) ==
    LET upto[o \in from - 1..to] ==
            IF o = from - 1 THEN 0 ELSE upto[o - 1] + rendered_width(f[o + 1])
    IN  upto[to]

LEMMA CellsAreInTheFile == \A from, to : cells(from, to) = cells_in(file, from, to)
BY DEF cells, cells_in

LEMMA CellsAreADifference ==
    ASSUME NEW f \in Seq(Char), NEW s \in Nat, NEW t \in s - 1..Len(f) - 1
    PROVE  cells_in(f, s, t) = printed(f)[t + 1] - printed(f)[s]
<1> DEFINE c == printed(f)
           Equation(u) == u = [o \in s - 1..t |->
                                  IF o = s - 1 THEN 0 ELSE u[o - 1] + rendered_width(f[o + 1])]
           U == [o \in s - 1..t |-> c[o + 1] - c[s]]
           upto == CHOOSE u : Equation(u)
<1>1. cells_in(f, s, t) = upto[t]
  BY DEF cells_in
<1>2. /\ Len(f) \in Nat /\ c \in [0..Len(f) -> Nat]
      /\ \A m \in 1..Len(f) : c[m] = c[m - 1] + rendered_width(f[m])
  BY PrintedIsSum DEF IsSum
<1> HIDE DEF c
<1>3. \A o \in s..t : c[o + 1] = c[o] + rendered_width(f[o + 1])
                        /\ c[o] \in Nat /\ c[o + 1] \in Nat
                        /\ rendered_width(f[o + 1]) \in Nat
  <2> TAKE o \in s..t
  <2>1. o + 1 \in 1..Len(f) /\ (o + 1) - 1 = o /\ o \in 0..Len(f) /\ o + 1 \in 0..Len(f)
    BY <1>2
  <2> QED
    BY <1>2, <2>1, WidthIsNatural
<1>4. s \in 0..Len(f) /\ c[s] \in Nat
  <2>1. t \in Int /\ s - 1 <= t /\ t <= Len(f) - 1
    BY <1>2
  <2>2. s \in 0..Len(f)
    BY <1>2, <2>1
  <2> QED
    BY <1>2, <2>2
<1>5. Equation(U)
  <2>1. \A o \in s - 1..t : U[o] = c[o + 1] - c[s]
    OBVIOUS
  <2>2. U = [o \in s - 1..t |-> U[o]]
    OBVIOUS
  <2> HIDE DEF U
  <2>3. ASSUME NEW o \in s - 1..t
        PROVE  U[o] = IF o = s - 1 THEN 0 ELSE U[o - 1] + rendered_width(f[o + 1])
    <3>1. CASE o = s - 1
      <4>1. o + 1 = s
        BY <3>1
      <4> QED
        BY <1>4, <2>1, <3>1, <4>1
    <3>2. CASE o # s - 1
      <4>1. o \in s..t /\ o - 1 \in s - 1..t /\ (o - 1) + 1 = o
        BY <3>2
      <4>2. U[o - 1] = c[o] - c[s]
        BY <2>1, <4>1
      <4> QED
        BY <1>3, <1>4, <2>1, <3>2, <4>1, <4>2
    <3> QED
      BY <3>1, <3>2
  <2> QED
    BY <2>2, <2>3
<1>6. Equation(upto)
  <2> HIDE DEF U, Equation
  <2> QED
    BY <1>5
<1> HIDE DEF upto, U
<1>7. /\ upto[s - 1] = 0
      /\ \A o \in s..t : upto[o] = upto[o - 1] + rendered_width(f[o + 1])
  <2>1. s - 1 \in s - 1..t /\ \A o \in s..t : o \in s - 1..t /\ o # s - 1
    OBVIOUS
  <2> QED
    BY <1>6, <2>1
<1> DEFINE S == {k \in 0..t - (s - 1) : upto[(s - 1) + k] = c[s + k] - c[s]}
<1>8. 0 \in S
  <2>1. (s - 1) + 0 = s - 1 /\ s + 0 = s /\ 0 \in 0..t - (s - 1)
    OBVIOUS
  <2> QED
    BY <1>4, <1>7, <2>1
<1>9. ASSUME NEW k \in 0..(t - (s - 1)) - 1, k \in S PROVE k + 1 \in S
  <2> DEFINE o == s + k
  <2>1. o \in s..t /\ o - 1 = (s - 1) + k /\ (s - 1) + (k + 1) = o /\ s + (k + 1) = o + 1
          /\ k + 1 \in 0..t - (s - 1)
    OBVIOUS
  <2>2. upto[o - 1] = c[o] - c[s]
    BY <1>9, <2>1
  <2> HIDE DEF o
  <2>3. upto[o] = (c[o] - c[s]) + rendered_width(f[o + 1])
    BY <1>7, <2>1, <2>2
  <2>4. upto[o] = c[o + 1] - c[s]
    BY <1>3, <1>4, <2>1, <2>3
  <2> QED
    BY <2>1, <2>4
<1> HIDE DEF S
<1>10. t - (s - 1) \in Nat
  OBVIOUS
<1>11. \A k \in 0..t - (s - 1) : k \in S
  BY <1>8, <1>9, <1>10, InductionUpTo
<1>12. t - (s - 1) \in 0..t - (s - 1) /\ (s - 1) + (t - (s - 1)) = t
         /\ s + (t - (s - 1)) = t + 1
  BY <1>10
<1>13. upto[t] = c[t + 1] - c[s]
  BY <1>11, <1>12 DEF S
<1> QED
  BY <1>1, <1>13 DEF c

(***************************************************************************)
(* The walk of len_printed_before stops at the position asked for, unless  *)
(* that is the first newline of the file, whose column the first character *)
(* has as well: then it stops at once.                                     *)
(***************************************************************************)
IsFirstNewline(f, o) == f[o + 1] = LF /\ \A i \in 1..o : f[i] # LF

LEMMA FirstNewlineIsInFirstLine ==
    ASSUME NEW f, NEW line, IsLine(f, line), NEW o \in offsets(line)
    PROVE  IsFirstNewline(f, o) <=> line.start.byte_offset = 0 /\ f[o + 1] = LF
<1> DEFINE s == line.start.byte_offset
           e == line.end.byte_offset
<1>1. /\ o \in Nat /\ s \in Nat /\ e \in Nat /\ s <= o /\ o <= e
      /\ \A i \in s..e - 1 : f[i + 1] # LF
      /\ s = 0 \/ f[s] = LF
  BY DEF IsLine, At, PositionType, offsets
<1>2. ASSUME s = 0 PROVE \A i \in 1..o : f[i] # LF
  <2> TAKE i \in 1..o
  <2>1. i - 1 \in s..e - 1 /\ (i - 1) + 1 = i
    BY <1>1, <1>2
  <2> QED
    BY <1>1, <2>1
<1>3. s # 0 => s \in 1..o /\ f[s] = LF
  BY <1>1
<1> QED
  BY <1>2, <1>3 DEF IsFirstNewline

LEMMA FirstHit ==
    ASSUME NEW f \in Seq(Char) \ {<<>>}, NEW line, IsLine(f, line), NEW q, At(f, q),
           q.byte_offset \in offsets(line)
    PROVE  LET walk == iter(f, line.start)
               hits == {k \in DOMAIN walk : walk[k].col = q.col}
           IN  /\ hits # {}
               /\ Min(hits) = IF IsFirstNewline(f, q.byte_offset) THEN 0
                              ELSE q.byte_offset - line.start.byte_offset
<1> DEFINE s == line.start.byte_offset
           e == line.end.byte_offset
           o == q.byte_offset
           walk == iter(f, line.start)
           hits == {k \in DOMAIN walk : walk[k].col = q.col}
           n == IF IsFirstNewline(f, o) THEN 0 ELSE o - s
<1>1. /\ o \in Nat /\ s \in Nat /\ e \in Nat /\ s <= o /\ o <= e /\ e <= Len(f) - 1
      /\ Len(f) \in Nat
      /\ \A i \in s..e - 1 : f[i + 1] # LF
  BY DEF IsLine, At, PositionType, offsets
<1>2. /\ DOMAIN walk = 0..Len(f) - 1 - s
      /\ \A k \in 0..Len(f) - 1 - s : At(f, walk[k]) /\ walk[k].byte_offset = s + k
  BY IterVisits DEF IsLine
<1> HIDE DEF walk
<1>3. ASSUME NEW k \in 0..o - s
      PROVE  /\ k \in DOMAIN walk
             /\ walk[k].col = IF f[s + k + 1] = LF THEN 0
                              ELSE IF s = 0 THEN s + k ELSE (s + k) - s + 1
  <2>1. k \in 0..Len(f) - 1 - s /\ s + k \in s..e
    BY <1>1
  <2>2. At(f, walk[k]) /\ walk[k].byte_offset = s + k /\ s + k \in offsets(line)
    BY <1>2, <2>1 DEF offsets
  <2> QED
    BY <1>2, <2>1, <2>2, ColumnInLine
<1>4. q.col = IF f[o + 1] = LF THEN 0 ELSE IF s = 0 THEN o ELSE o - s + 1
  BY ColumnInLine
<1>5. IsFirstNewline(f, o) <=> s = 0 /\ f[o + 1] = LF
  BY FirstNewlineIsInFirstLine
<1>6. n \in 0..o - s
  BY <1>1, <1>5
<1>7. ASSUME NEW k \in 0..o - s, k < o - s PROVE f[s + k + 1] # LF
  <2>1. s + k \in s..e - 1
    BY <1>1, <1>7
  <2> QED
    BY <1>1, <2>1
<1>8. n \in hits
  <2>1. walk[n].col = q.col
    <3>1. CASE IsFirstNewline(f, o)
      <4>1. n = 0 /\ s = 0 /\ f[o + 1] = LF /\ q.col = 0
        BY <1>4, <1>5, <3>1
      <4> HIDE DEF n
      <4>2. 0 \in 0..o - s
        BY <1>1
      <4> QED
        BY <1>1, <1>3, <4>1, <4>2
    <3>2. CASE ~IsFirstNewline(f, o)
      <4>1. n = o - s /\ s + n = o /\ n \in 0..o - s /\ s + n + 1 = o + 1
        BY <1>1, <3>2
      <4> HIDE DEF n
      <4> QED
        BY <1>1, <1>3, <1>4, <4>1
    <3> QED
      BY <3>1, <3>2
  <2> HIDE DEF n
  <2> QED
    BY <1>3, <1>6, <2>1
<1>9. ASSUME NEW k \in hits PROVE n <= k
  <2>1. k \in Nat /\ walk[k].col = q.col
    BY <1>2
  <2>2. CASE n = 0
    BY <2>1, <2>2
  <2>3. CASE n # 0
    <3>1. n = o - s /\ ~(s = 0 /\ f[o + 1] = LF)
      BY <1>5, <2>3
    <3>2. ASSUME k < n PROVE FALSE
      <4>1. k \in 0..o - s /\ k < o - s
        BY <1>1, <2>1, <3>1, <3>2
      <4>2. walk[k].col = IF s = 0 THEN s + k ELSE (s + k) - s + 1
        BY <1>3, <1>7, <4>1
      <4>3. walk[k].col = IF s = 0 THEN k ELSE k + 1
        BY <1>1, <2>1, <4>2
      <4> QED
        BY <1>1, <1>4, <2>1, <3>1, <4>1, <4>3
    <3> HIDE DEF n
    <3> QED
      BY <1>1, <1>6, <2>1, <3>2
  <2> QED
    BY <2>2, <2>3
<1>10. hits # {} /\ Min(hits) = n
  <2>1. hits \subseteq Nat /\ n \in Nat
    BY <1>1, <1>2, <1>6
  <2> HIDE DEF hits, n
  <2>2. \A x \in hits : (\A y \in hits : x <= y) => x = n
    BY <1>8, <1>9, <2>1
  <2> QED
    BY <1>8, <1>9, <2>1, <2>2 DEF Min
<1> QED
  BY <1>10 DEF walk

LEMMA ColumnIsADifference ==
    ASSUME file \in Seq(Char) \ {<<>>}, NEW line, IsLine(file, line),
           NEW q, At(file, q), q.byte_offset \in offsets(line)
    PROVE  /\ column_in_line(line, q.col)
           /\ len_printed_before(line, q.col) =
                  IF IsFirstNewline(file, q.byte_offset) THEN 0
                  ELSE printed(file)[q.byte_offset] - printed(file)[line.start.byte_offset]
<1> DEFINE s == line.start.byte_offset
           e == line.end.byte_offset
           o == q.byte_offset
           walk == iter(file, line.start)
           hits == {k \in DOMAIN walk : walk[k].col = q.col}
           n == IF IsFirstNewline(file, o) THEN 0 ELSE o - s
           c == printed(file)
           Equation(w) == w = [k \in 0..n |->
               IF k = 0 THEN 0 ELSE w[k - 1] + rendered_width(chr(file, walk[k - 1]))]
           W == [k \in 0..n |-> c[s + k] - c[s]]
           actual_column == CHOOSE w : Equation(w)
<1>1. /\ o \in Nat /\ s \in Nat /\ e \in Nat /\ s <= o /\ o <= e /\ e <= Len(file) - 1
      /\ Len(file) \in Nat
  BY DEF IsLine, At, PositionType, offsets
<1>2. column_in_line(line, q.col)
  <2>1. q.col = IF file[o + 1] = LF THEN 0 ELSE IF s = 0 THEN o ELSE o - s + 1
    BY ColumnInLine
  <2>2. q.col <= e - s + 1
    BY <1>1, <2>1
  <2>3. Cardinality(s..e) = e - s + 1
    <3>1. s \in Int /\ e \in Int
      BY <1>1
    <3>2. Cardinality(s..e) = IF s > e THEN 0 ELSE e - s + 1
      BY <3>1, FS_Interval, Zenon
    <3> QED
      BY <1>1, <3>2
  <2> QED
    BY <2>2, <2>3 DEF column_in_line, offsets
<1>3. hits # {} /\ Min(hits) = n
  BY FirstHit
<1>4. len_printed_before(line, q.col) = actual_column[n]
  <2> HIDE DEF n
  <2>1. len_printed_before(line, q.col) =
            LET m == IF hits = {} THEN Cardinality(DOMAIN walk) ELSE Min(hits)
                v[k \in 0..m] ==
                   IF k = 0 THEN 0
                   ELSE v[k - 1] + rendered_width(chr(file, walk[k - 1]))
            IN  v[m]
    BY DEF len_printed_before
  <2> HIDE DEF hits, walk
  <2> QED
    BY <1>3, <2>1
<1>5. \A k \in 0..Len(file) - 1 - s : chr(file, walk[k]) = file[s + k + 1]
  <2>1. \A k \in 0..Len(file) - 1 - s : At(file, walk[k]) /\ walk[k].byte_offset = s + k
    <3>1. At(file, line.start)
      BY DEF IsLine
    <3>2. /\ DOMAIN iter(file, line.start) = 0..Len(file) - 1 - s
          /\ \A k \in 0..Len(file) - 1 - s :
                /\ At(file, iter(file, line.start)[k])
                /\ iter(file, line.start)[k].byte_offset = s + k
      BY <3>1, IterVisits
    <3> QED
      BY <3>2
  <2> HIDE DEF walk
  <2> QED
    BY <2>1 DEF chr
<1>6. /\ c \in [0..Len(file) -> Nat]
      /\ \A m \in 1..Len(file) : c[m] = c[m - 1] + rendered_width(file[m])
  BY PrintedIsSum DEF IsSum
<1> HIDE DEF c, walk
<1>7. n \in 0..o - s
  BY <1>1
<1>8. n \in Nat /\ s \in 0..Len(file) /\ c[s] \in Nat
  BY <1>1, <1>6, <1>7
<1>9. ASSUME NEW k \in 1..n
      PROVE  /\ c[s + k] \in Nat /\ c[s + (k - 1)] \in Nat
             /\ c[s + k] = c[s + (k - 1)] + rendered_width(chr(file, walk[k - 1]))
  <2> HIDE DEF n
  <2>1. k - 1 \in 0..Len(file) - 1 - s /\ s + k \in 1..Len(file) /\ s + (k - 1) \in 0..Len(file)
          /\ s + (k - 1) + 1 = s + k /\ (s + k) - 1 = s + (k - 1) /\ s + k \in 0..Len(file)
    <3>1. k \in Nat /\ k >= 1 /\ k <= n /\ n <= o - s
      BY <1>1, <1>7, <1>8
    <3>2. k <= Len(file) - 1 - s /\ k - 1 \in Nat
      BY <1>1, <1>8, <3>1
    <3>3. k - 1 \in 0..Len(file) - 1 - s
      BY <1>1, <3>1, <3>2
    <3>4. s + k \in 1..Len(file) /\ s + k \in 0..Len(file) /\ s + (k - 1) \in 0..Len(file)
      BY <1>1, <3>1, <3>2
    <3>5. s + (k - 1) + 1 = s + k /\ (s + k) - 1 = s + (k - 1)
      BY <1>1, <3>1
    <3> QED
      BY <3>3, <3>4, <3>5
  <2> QED
    BY <1>5, <1>6, <2>1
<1> HIDE DEF n
<1>10. Equation(W)
  <2>1. \A k \in 0..n : W[k] = c[s + k] - c[s]
    OBVIOUS
  <2>2. W = [k \in 0..n |-> W[k]]
    OBVIOUS
  <2> HIDE DEF W
  <2>3. ASSUME NEW k \in 0..n
        PROVE  W[k] = IF k = 0 THEN 0 ELSE W[k - 1] + rendered_width(chr(file, walk[k - 1]))
    <3>1. CASE k = 0
      <4>1. s + k = s
        BY <1>1, <3>1
      <4> QED
        BY <1>8, <2>1, <3>1, <4>1
    <3>2. CASE k # 0
      <4>1. k \in 1..n /\ k - 1 \in 0..n
        BY <1>8, <3>2
      <4>2. rendered_width(chr(file, walk[k - 1])) \in Nat
        BY WidthIsNatural
      <4> QED
        BY <1>8, <1>9, <2>1, <3>2, <4>1, <4>2
    <3> QED
      BY <3>1, <3>2
  <2> QED
    BY <2>2, <2>3
<1>11. Equation(actual_column)
  <2> HIDE DEF W, Equation
  <2> QED
    BY <1>10
<1>12. /\ actual_column[0] = 0
       /\ \A k \in 1..n :
              actual_column[k] = actual_column[k - 1] + rendered_width(chr(file, walk[k - 1]))
  <2> HIDE DEF actual_column, W
  <2>1. 0 \in 0..n /\ \A k \in 1..n : k \in 0..n /\ k # 0
    BY <1>8
  <2> QED
    BY <1>11, <2>1
<1> HIDE DEF actual_column, W
<1> DEFINE S == {k \in 0..n : actual_column[k] = c[s + k] - c[s]}
<1>13. 0 \in S
  <2>1. s + 0 = s /\ 0 \in 0..n
    BY <1>1, <1>8
  <2> QED
    BY <1>8, <1>12, <2>1
<1>14. ASSUME NEW k \in 0..n - 1, k \in S PROVE k + 1 \in S
  <2>1. k + 1 \in 1..n /\ k + 1 \in 0..n /\ (k + 1) - 1 = k
    BY <1>8
  <2>2. rendered_width(chr(file, walk[k])) \in Nat
    BY WidthIsNatural
  <2>3. c[s + (k + 1)] = c[s + k] + rendered_width(chr(file, walk[k]))
          /\ c[s + k] \in Nat /\ c[s + (k + 1)] \in Nat
    BY <1>9, <2>1
  <2>4. actual_column[k + 1] = (c[s + k] - c[s]) + rendered_width(chr(file, walk[k]))
    BY <1>12, <1>14, <2>1
  <2>5. c[s] \in Nat
    BY <1>8
  <2>6. actual_column[k + 1] = c[s + (k + 1)] - c[s]
    BY <2>2, <2>3, <2>4, <2>5
  <2> QED
    BY <2>1, <2>6
<1> HIDE DEF S
<1>15. \A k \in 0..n : k \in S
  BY <1>8, <1>13, <1>14, InductionUpTo
<1>16. actual_column[n] = c[s + n] - c[s]
  BY <1>8, <1>15 DEF S
<1>17. CASE IsFirstNewline(file, o)
  <2>1. n = 0 /\ s + n = s
    BY <1>1, <1>17 DEF n
  <2> QED
    BY <1>2, <1>4, <1>8, <1>16, <1>17, <2>1
<1>18. CASE ~IsFirstNewline(file, o)
  <2>1. s + n = o
    BY <1>1, <1>18 DEF n
  <2> QED
    BY <1>2, <1>4, <1>16, <1>18, <2>1 DEF c
<1> QED
  BY <1>17, <1>18

(***************************************************************************)
(* The faulty part of a line is what intersect() makes of the span.        *)
(***************************************************************************)
LEMMA LineIsSpan == ASSUME NEW f, NEW line, IsLine(f, line) PROVE IsSpan(f, line)
BY DEF IsLine, IsSpan

LEMMA PartOfLine ==
    ASSUME NEW f, NEW s, IsSpan(f, s), NEW line, IsLine(f, line), overlap(s, line)
    PROVE  LET part == intersect(s, line)
               a    == part.start.byte_offset
               b    == part.end.byte_offset
               both == offsets(line) \cap offsets(s)
           IN  /\ At(f, part.start) /\ At(f, part.end)
               /\ a \in offsets(line) /\ b \in offsets(line) /\ a <= b
               /\ Min(both) = a /\ Max(both) = b
<1> DEFINE part == intersect(s, line)
           a == part.start.byte_offset
           b == part.end.byte_offset
           both == offsets(line) \cap offsets(s)
<1>1. IsSpan(f, part) /\ offsets(part) = both
  <2>1. IsSpan(f, line)
    BY LineIsSpan
  <2>2. IsSpan(f, intersect(s, line))
    BY <2>1, IntersectIsSpan
  <2>3. offsets(intersect(s, line)) = offsets(s) \cap offsets(line)
    BY <2>1, IntersectOffsets
  <2> QED
    BY <2>2, <2>3
<1> HIDE DEF part
<1>2. /\ At(f, part.start) /\ At(f, part.end)
      /\ a \in Nat /\ b \in Nat /\ a <= b /\ both = a..b
  BY <1>1 DEF IsSpan, At, PositionType, offsets
<1> HIDE DEF a, b
<1>3. a \in both /\ b \in both
  BY <1>2
<1>4. Min(both) = a
  <2>1. \A y \in both : a <= y
    BY <1>2
  <2>2. \A x \in both : (\A y \in both : x <= y) => x = a
    BY <1>2
  <2> QED
    BY <1>3, <2>1, <2>2 DEF Min
<1>5. Max(both) = b
  <2>1. \A y \in both : b >= y
    BY <1>2
  <2>2. \A x \in both : (\A y \in both : x >= y) => x = b
    BY <1>2
  <2> QED
    BY <1>3, <2>1, <2>2 DEF Max
<1> QED
  BY <1>2, <1>3, <1>4, <1>5 DEF a, b, part

(***************************************************************************)
(* The columns of an underline: they exist, they are those of the faulty   *)
(* part unless that ends in the first newline, and otherwise only a part   *)
(* that starts behind the first column can make the width negative.        *)
(***************************************************************************)
UnderlinedAs(f, s, line, lower, width) ==
    LET part == offsets(line) \cap offsets(s)
    IN  /\ lower = cells_in(f, line.start.byte_offset, Min(part) - 1)
        /\ width = cells_in(f, Min(part), Max(part))

EndsAtFirstNewline(f, s, line) == IsFirstNewline(f, Max(offsets(line) \cap offsets(s)))

LEMMA UnderlineColumns ==
    ASSUME file \in Seq(Char) \ {<<>>}, IsSpan(file, span),
           NEW line, IsLine(file, line), overlap(span, line)
    PROVE  LET part == intersect(span, line)
               cols == get_actual_columns(line, part)
           IN  /\ columns_exist(line, part)
               /\ cols.lower \in Nat /\ cols.upper \in Nat
               /\ \/ EndsAtFirstNewline(file, span, line)
                  \/ /\ cols.lower <= cols.upper
                     /\ UnderlinedAs(file, span, line, cols.lower, cols.upper - cols.lower)
               /\ cols.lower > cols.upper => span.start.col > 0
<1> DEFINE part == intersect(span, line)
           cols == get_actual_columns(line, part)
           s == line.start.byte_offset
           e == line.end.byte_offset
           a == part.start.byte_offset
           b == part.end.byte_offset
           both == offsets(line) \cap offsets(span)
           c == printed(file)
           w == rendered_width(chr(file, part.end))
<1>1. /\ At(file, part.start) /\ At(file, part.end)
      /\ a \in offsets(line) /\ b \in offsets(line) /\ a <= b
      /\ Min(both) = a /\ Max(both) = b
  BY PartOfLine
<1>2. columns_exist(line, part)
  BY <1>1, ColumnIsADifference DEF columns_exist
<1>3. /\ len_printed_before(line, part.start.col) =
             IF IsFirstNewline(file, a) THEN 0 ELSE c[a] - c[s]
      /\ len_printed_before(line, part.end.col) =
             IF IsFirstNewline(file, b) THEN 0 ELSE c[b] - c[s]
  BY <1>1, ColumnIsADifference
<1>4. /\ cols.lower = IF IsFirstNewline(file, a) THEN 0 ELSE c[a] - c[s]
      /\ cols.upper = (IF IsFirstNewline(file, b) THEN 0 ELSE c[b] - c[s]) + w
  BY <1>3 DEF get_actual_columns
<1> HIDE DEF cols
<1>5. /\ s \in Nat /\ e \in Nat /\ a \in Nat /\ b \in Nat /\ Len(file) \in Nat
      /\ s <= a /\ a <= e /\ s <= b /\ b <= e /\ e < Len(file)
      /\ \A i \in s..e - 1 : file[i + 1] # LF
  BY <1>1 DEF IsLine, At, PositionType, offsets
<1>6. c[s] \in Nat /\ c[a] \in Nat /\ c[b] \in Nat /\ c[b + 1] \in Nat
        /\ c[s] <= c[a] /\ c[s] <= c[b]
  <2>1. file \in Seq(Char) /\ s \in 0..a /\ a \in 0..Len(file) /\ s \in 0..b
          /\ b \in 0..Len(file) /\ b + 1 \in 0..Len(file) /\ b \in 0..b + 1
    BY <1>5
  <2> HIDE DEF a, b, s, c
  <2>2. printed(file)[s] \in Nat /\ printed(file)[a] \in Nat
          /\ printed(file)[s] <= printed(file)[a]
    BY <2>1, PrintedGrows
  <2>3. printed(file)[b] \in Nat /\ printed(file)[s] <= printed(file)[b]
    BY <2>1, PrintedGrows
  <2>4. printed(file)[b + 1] \in Nat
    BY <2>1, PrintedGrows
  <2> QED
    BY <2>2, <2>3, <2>4 DEF c
<1>7. c[a] <= c[b] /\ c[b + 1] = c[b] + w /\ w \in Nat
  <2>1. file \in Seq(Char) /\ a \in 0..b /\ b \in 0..Len(file)
          /\ b + 1 \in 1..Len(file) /\ (b + 1) - 1 = b
    BY <1>1, <1>5
  <2>2. c[a] <= c[b]
    BY <2>1, PrintedGrows
  <2>3. IsSum(file, Len(file), c)
    BY <2>1, PrintedIsSum
  <2> HIDE DEF c
  <2>4. c[b + 1] = c[b] + rendered_width(file[b + 1])
    BY <2>1, <2>3 DEF IsSum
  <2> QED
    BY <2>2, <2>4, WidthIsNatural DEF chr
<1>8. cols.lower \in Nat /\ cols.upper \in Nat
  <2> HIDE DEF a, b, c, s, w
  <2> QED
    BY <1>4, <1>6, <1>7
<1>9. IsFirstNewline(file, a) => a = b
  <2> SUFFICES ASSUME IsFirstNewline(file, a) PROVE a = b
    OBVIOUS
  <2>1. ~(a \in s..e - 1)
    BY <1>5 DEF IsFirstNewline
  <2> QED
    BY <1>1, <1>5, <2>1
<1>10. ASSUME ~IsFirstNewline(file, b)
       PROVE  /\ cols.lower <= cols.upper
              /\ UnderlinedAs(file, span, line, cols.lower, cols.upper - cols.lower)
  <2>1. ~IsFirstNewline(file, a)
    BY <1>9, <1>10
  <2>2. cols.lower = c[a] - c[s] /\ cols.upper = c[b + 1] - c[s]
          /\ cols.lower <= cols.upper /\ cols.upper - cols.lower = c[b + 1] - c[a]
    <3> HIDE DEF a, b, c, s, w
    <3> QED
      BY <1>4, <1>6, <1>7, <1>10, <2>1
  <2>3. cells_in(file, s, a - 1) = c[(a - 1) + 1] - c[s]
    <3>1. s \in Nat /\ a - 1 \in s - 1..Len(file) - 1 /\ file \in Seq(Char)
      BY <1>5
    <3> QED
      BY <3>1, CellsAreADifference
  <2>4. cells_in(file, a, b) = c[b + 1] - c[a]
    <3>1. a \in Nat /\ b \in a - 1..Len(file) - 1 /\ file \in Seq(Char)
      BY <1>1, <1>5
    <3> QED
      BY <3>1, CellsAreADifference
  <2>5. (a - 1) + 1 = a
    BY <1>5
  <2> HIDE DEF a, b, c, both
  <2> QED
    BY <1>1, <2>2, <2>3, <2>4, <2>5 DEF UnderlinedAs, both
<1>11. ASSUME cols.lower > cols.upper PROVE span.start.col > 0
  <2>1. IsFirstNewline(file, b)
    BY <1>8, <1>10, <1>11
  <2>2. s = 0
    BY <1>1, <2>1, FirstNewlineIsInFirstLine
  <2>3. ~IsFirstNewline(file, a) /\ cols.lower > 0
    <3> HIDE DEF a, b, c, s, w
    <3> QED
      BY <1>4, <1>6, <1>7, <1>8, <1>11
  <2>4. a # s
    <3> HIDE DEF a, b, c, w
    <3> QED
      BY <1>4, <1>6, <2>3
  <2>5. part.start = span.start
    <3>1. part.start \in {span.start, line.start}
      BY DEF intersect, max
    <3> HIDE DEF part
    <3> QED
      BY <2>4, <3>1
  <2>6. file[a + 1] # LF
    BY <1>1, <2>2, <2>3, FirstNewlineIsInFirstLine
  <2>7. part.start.col = a
    <3>1. part.start.col = IF file[a + 1] = LF THEN 0 ELSE IF s = 0 THEN a ELSE a - s + 1
      BY <1>1, ColumnInLine
    <3> QED
      BY <2>2, <2>6, <3>1
  <2> HIDE DEF part
  <2> QED
    BY <1>5, <2>2, <2>4, <2>5, <2>7
<1> QED
  BY <1>1, <1>2, <1>8, <1>10, <1>11 DEF cols, EndsAtFirstNewline

-----------------------------------------------------------------------------
(***************************************************************************)
(* The lines of a message: those written are consecutive lines of the file *)
(* from the start of the span, and the iterator stands behind them as long *)
(* as the span goes on.                                                    *)
(***************************************************************************)
RowType == [line : [start : PositionType, end : PositionType],
            number : Nat, lower : Nat, width : Nat]

Listed(f, s, rs) ==
    /\ rs # <<>> => s.start.byte_offset \in offsets(rs[1].line)
    /\ \A i \in 1..Len(rs) : /\ IsLine(f, rs[i].line)
                             /\ overlap(s, rs[i].line)
                             /\ rs[i].number = numbered(rs[i].line)
    /\ \A i \in 1..Len(rs) - 1 :
           rs[i + 1].line.start.byte_offset = rs[i].line.end.byte_offset + 1

Continues(f, s, rs, next) ==
    /\ rs = <<>> => next = first_line(f, s)
    /\ next # None => /\ IsLine(f, next)
                      /\ overlap(s, next)
                      /\ rs # <<>> => next.start.byte_offset =
                                          rs[Len(rs)].line.end.byte_offset + 1
    /\ next = None => rs # <<>> /\ s.end.byte_offset \in offsets(rs[Len(rs)].line)

LEMMA LinesAreTyped ==
    ASSUME NEW f, NEW line, IsLine(f, line)
    PROVE  line \in [start : PositionType, end : PositionType] /\ line # None
<1>1. line \in [start : PositionType, end : PositionType]
  BY DEF IsLine, At
<1> QED
  BY <1>1, DiagnosticsAssumption

LEMMA FirstLineContinues ==
    ASSUME NEW f \in Seq(Char) \ {<<>>}, NEW s, IsSpan(f, s)
    PROVE  /\ Continues(f, s, <<>>, first_line(f, s))
           /\ s.start.byte_offset \in offsets(first_line(f, s))
<1> DEFINE line == first_line(f, s)
<1>1. IsLine(f, line) /\ s.start.byte_offset \in offsets(line)
  BY GetLineIsLine DEF IsSpan, first_line
<1>2. overlap(s, line)
  <2>1. s.start.byte_offset \in offsets(s)
    BY DEF IsSpan, At, PositionType, offsets
  <2> HIDE DEF line
  <2> QED
    BY <1>1, <2>1, LineIsSpan, SharedOverlaps
<1>3. line # None
  BY <1>1, LinesAreTyped
<1> QED
  BY <1>1, <1>2, <1>3 DEF Continues

LEMMA LineContinues ==
    ASSUME NEW f \in Seq(Char) \ {<<>>}, NEW s, IsSpan(f, s),
           NEW rs \in Seq(RowType), Listed(f, s, rs),
           NEW line, line # None, Continues(f, s, rs, line)
    PROVE  LET row  == [line |-> line, number |-> numbered(line), lower |-> 0, width |-> 0]
               next == IF has_line_after(f, s, line) THEN line_after(f, line) ELSE None
           IN  /\ row \in RowType
               /\ Listed(f, s, Append(rs, row))
               /\ Continues(f, s, Append(rs, row), next)
<1> DEFINE row == [line |-> line, number |-> numbered(line), lower |-> 0, width |-> 0]
           next == IF has_line_after(f, s, line) THEN line_after(f, line) ELSE None
           rt == Append(rs, row)
           N == Len(rs)
<1>1. IsLine(f, line) /\ overlap(s, line)
  BY DEF Continues
<1>2. row \in RowType
  BY <1>1, LinesAreTyped DEF RowType, numbered, line_number, PositionType
<1>3. /\ rt \in Seq(RowType) /\ rt # <<>> /\ Len(rt) = N + 1 /\ N \in Nat
      /\ (\A i \in 1..N : rt[i] = rs[i]) /\ rt[N + 1] = row
  BY <1>2, AppendProperties
<1>4. row.line = line /\ row.number = numbered(line)
  OBVIOUS
<1> HIDE DEF rt, row
<1>5. Listed(f, s, rt)
  <2>1. s.start.byte_offset \in offsets(rt[1].line)
    <3>1. CASE rs = <<>>
      <4>1. line = first_line(f, s) /\ rt[1] = row
        BY <1>3, <3>1 DEF Continues
      <4> QED
        BY <1>4, <4>1, FirstLineContinues
    <3>2. CASE rs # <<>>
      <4>1. rt[1] = rs[1]
        BY <1>3, <3>2
      <4> QED
        BY <3>2, <4>1 DEF Listed
    <3> QED
      BY <3>1, <3>2
  <2>2. ASSUME NEW i \in 1..Len(rt)
        PROVE  /\ IsLine(f, rt[i].line) /\ overlap(s, rt[i].line)
               /\ rt[i].number = numbered(rt[i].line)
    <3>1. CASE i = N + 1
      BY <1>1, <1>3, <1>4, <3>1
    <3>2. CASE i # N + 1
      <4>1. i \in 1..N
        BY <1>3, <3>2
      <4> QED
        BY <1>3, <4>1 DEF Listed
    <3> QED
      BY <3>1, <3>2
  <2>3. ASSUME NEW i \in 1..Len(rt) - 1
        PROVE  rt[i + 1].line.start.byte_offset = rt[i].line.end.byte_offset + 1
    <3>1. CASE i = N
      <4>1. N \in 1..N /\ rs # <<>>
        BY <1>3, <3>1
      <4>2. rt[i] = rs[N] /\ rt[i + 1].line = line
        BY <1>3, <1>4, <3>1, <4>1
      <4> QED
        BY <4>1, <4>2 DEF Continues
    <3>2. CASE i # N
      <4>1. i \in 1..N - 1 /\ i \in 1..N /\ i + 1 \in 1..N
        BY <1>3, <3>2
      <4>2. rt[i] = rs[i] /\ rt[i + 1] = rs[i + 1]
        BY <1>3, <4>1
      <4> QED
        BY <4>1, <4>2 DEF Listed
    <3> QED
      BY <3>1, <3>2
  <2> QED
    BY <2>1, <2>2, <2>3 DEF Listed
<1>6. Continues(f, s, rt, next)
  <2> DEFINE e == line.end.byte_offset
             z == s.end.byte_offset
  <2>1. rt[Len(rt)].line = line
    BY <1>3, <1>4
  <2>2. /\ e \in Nat /\ z \in Nat /\ z < Len(f) /\ Len(f) \in Nat /\ e < Len(f)
        /\ line.start.byte_offset \in Nat /\ line.start.byte_offset <= z
        /\ s.start.byte_offset \in Nat /\ s.start.byte_offset <= e
    BY <1>1 DEF IsLine, IsSpan, At, PositionType, overlap
  <2>3. CASE has_line_after(f, s, line)
    <3>1. z > e /\ has_next(f, line.end)
      BY <2>3 DEF has_line_after
    <3>2. IsLine(f, next) /\ next.start.byte_offset = e + 1
      BY <1>1, <2>3, <3>1, LineAfterOpensBehind
    <3> HIDE DEF next
    <3>3. next.end.byte_offset \in Nat /\ e + 1 <= next.end.byte_offset
      BY <3>2 DEF IsLine, At, PositionType
    <3>4. overlap(s, next)
      BY <2>2, <3>1, <3>2, <3>3 DEF overlap
    <3>5. next # None
      BY <3>2, LinesAreTyped
    <3> QED
      BY <1>3, <2>1, <3>2, <3>4, <3>5 DEF Continues
  <2>4. CASE ~has_line_after(f, s, line)
    <3>1. z <= e
      BY <2>2, <2>4 DEF has_line_after, has_next
    <3>2. z \in offsets(line)
      BY <2>2, <3>1 DEF offsets
    <3> QED
      BY <1>3, <2>1, <2>4, <3>2 DEF Continues
  <2> QED
    BY <2>3, <2>4
<1> QED
  BY <1>2, <1>5, <1>6 DEF rt, row

(***************************************************************************)
(* An underline changes neither the lines nor their numbers.               *)
(***************************************************************************)
LEMMA RowIsARecord ==
    ASSUME NEW row \in RowType
    PROVE  row = [line |-> row.line, number |-> row.number,
                  lower |-> row.lower, width |-> row.width]
BY DEF RowType

LEMMA LowerAndWidth ==
    ASSUME NEW row \in RowType, NEW l \in Nat, NEW w \in Nat
    PROVE  [[row EXCEPT !.lower = l] EXCEPT !.width = w] =
               [line |-> row.line, number |-> row.number, lower |-> l, width |-> w]
<1> DEFINE t == [[row EXCEPT !.lower = l] EXCEPT !.width = w]
<1>1. t.line = row.line /\ t.number = row.number /\ t.lower = l /\ t.width = w
  BY DEF RowType
<1>2. t \in RowType
  BY DEF RowType
<1> HIDE DEF t
<1>3. t = [line |-> row.line, number |-> row.number, lower |-> l, width |-> w]
  BY <1>1, <1>2, RowIsARecord
<1> QED
  BY <1>3 DEF t

with_underline(rs, l, w) == [rs EXCEPT ![Len(rs)].lower = l, ![Len(rs)].width = w]

LEMMA UnderlinedRow ==
    ASSUME NEW rs \in Seq(RowType), rs # <<>>, NEW l \in Nat, NEW w \in Nat
    PROVE  LET rt == with_underline(rs, l, w)
               n  == Len(rs)
           IN  /\ rt \in Seq(RowType) /\ Len(rt) = n /\ rt # <<>>
               /\ \A i \in 1..n : /\ rt[i].line = rs[i].line
                                  /\ rt[i].number = rs[i].number
                                  /\ i < n => rt[i] = rs[i]
               /\ rt[n].lower = l /\ rt[n].width = w
<1> DEFINE n == Len(rs)
           row == [line |-> rs[n].line, number |-> rs[n].number, lower |-> l, width |-> w]
           rt == [rs EXCEPT ![n].lower = l, ![n].width = w]
<1>1. n \in 1..Len(rs) /\ rs[n] \in RowType /\ DOMAIN rs = 1..n /\ n \in Nat
  BY EmptySeq
<1>2. row \in RowType
  BY <1>1 DEF RowType
<1>3. rt = [rs EXCEPT ![n] = row]
  <2>1. [[rs[n] EXCEPT !.lower = l] EXCEPT !.width = w] = row
    BY <1>1, LowerAndWidth
  <2>2. \A i \in 1..n : rt[i] = IF i = n THEN [[rs[n] EXCEPT !.lower = l] EXCEPT !.width = w]
                                         ELSE rs[i]
    BY <1>1
  <2>3. rt = [i \in 1..n |-> rt[i]] /\ DOMAIN rt = 1..n
    BY <1>1
  <2> HIDE DEF rt, row
  <2>4. rt = [i \in 1..n |-> IF i = n THEN row ELSE rs[i]]
    BY <2>1, <2>2, <2>3
  <2>5. [rs EXCEPT ![n] = row] = [i \in 1..n |-> IF i = n THEN row ELSE rs[i]]
    BY <1>1
  <2> QED
    BY <2>4, <2>5
<1> HIDE DEF rt
<1>4. /\ rt \in Seq(RowType) /\ Len(rt) = n
      /\ \A i \in 1..n : rt[i] = IF i = n THEN row ELSE rs[i]
  <2> HIDE DEF row
  <2>1. /\ [rs EXCEPT ![n] = row] \in Seq(RowType)
        /\ Len([rs EXCEPT ![n] = row]) = Len(rs)
        /\ \A i \in 1..Len(rs) : [rs EXCEPT ![n] = row][i] = IF i = n THEN row ELSE rs[i]
    BY <1>1, <1>2, ExceptSeq
  <2> QED
    BY <1>3, <2>1
<1>5. rt # <<>>
  BY <1>1, <1>4, EmptySeq
<1> QED
  BY <1>1, <1>4, <1>5 DEF rt, with_underline

LEMMA SameLinesListed ==
    ASSUME NEW f, NEW s, NEW rs \in Seq(RowType), NEW rt \in Seq(RowType),
           Len(rt) = Len(rs), rs # <<>>, rt # <<>>,
           \A i \in 1..Len(rs) : rt[i].line = rs[i].line /\ rt[i].number = rs[i].number,
           NEW next, Listed(f, s, rs), Continues(f, s, rs, next)
    PROVE  Listed(f, s, rt) /\ Continues(f, s, rt, next)
<1>1. Len(rs) \in Nat /\ 1 \in 1..Len(rs) /\ Len(rs) \in 1..Len(rs)
        /\ \A i \in 1..Len(rs) - 1 : i \in 1..Len(rs) /\ i + 1 \in 1..Len(rs)
  BY EmptySeq
<1>2. Listed(f, s, rt)
  BY <1>1 DEF Listed
<1>3. Continues(f, s, rt, next)
  BY <1>1 DEF Continues
<1> QED
  BY <1>2, <1>3

-----------------------------------------------------------------------------
(***************************************************************************)
(* The inductive invariant: of what a message is about, of its lines, of   *)
(* their underlines, and of the guards alive between two steps.            *)
(***************************************************************************)
Points == {"idle", "description", "gutter", "line", "underline", "end", "panicked"}

MessageInv ==
    /\ file \in Files /\ pc \in Points
    /\ pc # "idle" => level \in Levels
    /\ rows \in Seq(RowType)
    /\ pc \in {"idle", "description", "gutter"} => rows = <<>> /\ line_to_emit = None
    /\ pc \in {"description", "end"} => span = None \/ IsSpan(file, span)
    /\ pc \in {"gutter", "line", "underline", "panicked"} => IsSpan(file, span)
    /\ pc \in {"underline", "panicked"} => rows # <<>>

LinesInv ==
    /\ pc \in {"line", "underline", "panicked"} => /\ Listed(file, span, rows)
                                                   /\ Continues(file, span, rows, line_to_emit)
    /\ pc = "end" => /\ line_to_emit = None
                     /\ rows # <<>> => /\ IsSpan(file, span)
                                       /\ Listed(file, span, rows)
                                       /\ Continues(file, span, rows, line_to_emit)

Underlined(i) ==
    \/ EndsAtFirstNewline(file, span, rows[i].line)
    \/ UnderlinedAs(file, span, rows[i].line, rows[i].lower, rows[i].width)

UnderlinesInv ==
    /\ \A i \in 1..Len(rows) - 1 : Underlined(i)
    /\ pc \in {"line", "end"} /\ rows # <<>> => Underlined(Len(rows))
    /\ pc = "panicked" => /\ EndsAtFirstNewline(file, span, rows[Len(rows)].line)
                          /\ span.start.col > 0

\* write_code()'s own guard is alive from the gutter to the last line.
guards_at(p) == plain_at(IF p \in {"line", "underline"} THEN 1 ELSE 0)

ColourInv == Fits(screen, guards_at(pc))

IInv == MessageInv /\ LinesInv /\ UnderlinesInv /\ ColourInv

LEMMA FilesAreFiles == \A f \in Files : f \in Seq(Char) \ {<<>>}
BY DiagnosticsAssumption

LEMMA NoneIsNoSpan == \A f : ~IsSpan(f, None)
<1> SUFFICES ASSUME NEW f, IsSpan(f, None) PROVE FALSE
  OBVIOUS
<1>1. None \in [start : PositionType, end : PositionType]
  BY DEF IsSpan, At
<1> QED
  BY <1>1, DiagnosticsAssumption

\* What the steps of the underline start from and leave.
LEMMA UnderlineStep ==
    ASSUME IInv, pc = "underline"
    PROVE  /\ IsSpan(file, span) /\ IsLine(file, CurrentLine) /\ overlap(span, CurrentLine)
           /\ CurrentLine = rows[Len(rows)].line /\ Len(rows) \in 1..Len(rows)
<1>1. rows \in Seq(RowType) /\ rows # <<>> /\ IsSpan(file, span)
        /\ Listed(file, span, rows)
  BY DEF IInv, MessageInv, LinesInv
<1>2. Len(rows) \in 1..Len(rows)
  BY <1>1, EmptySeq
<1> QED
  BY <1>1, <1>2 DEF Listed, CurrentLine, Last

LEMMA WrittenUnderline ==
    ASSUME IInv, WriteUnderline
    PROVE  LET cols == get_actual_columns(CurrentLine, FaultyPart)
               n    == Len(rows)
           IN  /\ rows' \in Seq(RowType) /\ Len(rows') = n /\ rows' # <<>>
               /\ \A i \in 1..n : /\ rows'[i].line = rows[i].line
                                  /\ rows'[i].number = rows[i].number
                                  /\ i < n => rows'[i] = rows[i]
               /\ rows'[n].lower = cols.lower
               /\ rows'[n].width = cols.upper - cols.lower
               /\ cols.lower <= cols.upper
<1> DEFINE cols == get_actual_columns(CurrentLine, FaultyPart)
           l == cols.lower
           w == cols.upper - cols.lower
<1>1. /\ pc = "underline" /\ cols.lower <= cols.upper
      /\ rows' = [rows EXCEPT ![Len(rows)].lower = l, ![Len(rows)].width = w]
  BY DEF WriteUnderline, width_exists
<1>2. file \in Seq(Char) \ {<<>>} /\ rows \in Seq(RowType) /\ rows # <<>>
  BY <1>1, FilesAreFiles DEF IInv, MessageInv
<1>3. cols.lower \in Nat /\ cols.upper \in Nat
  BY <1>1, <1>2, UnderlineStep, UnderlineColumns DEF FaultyPart
<1>4. l \in Nat /\ w \in Nat
  BY <1>1, <1>3
<1> HIDE DEF l, w, cols
<1> DEFINE rt == with_underline(rows, l, w)
<1>5. /\ rt \in Seq(RowType) /\ Len(rt) = Len(rows) /\ rt # <<>>
      /\ \A i \in 1..Len(rows) : /\ rt[i].line = rows[i].line
                                 /\ rt[i].number = rows[i].number
                                 /\ i < Len(rows) => rt[i] = rows[i]
      /\ rt[Len(rows)].lower = l /\ rt[Len(rows)].width = w
  BY <1>2, <1>4, UnderlinedRow
<1>6. rows' = rt
  BY <1>1 DEF with_underline
<1> HIDE DEF rt
<1> QED
  BY <1>1, <1>5, <1>6 DEF l, w, cols

LEMMA InitMessage == Init => MessageInv
BY DEF Init, MessageInv, Points

LEMMA MessageStep == IInv /\ [Next]_vars => MessageInv'
<1> SUFFICES ASSUME IInv, [Next]_vars PROVE MessageInv'
  OBVIOUS
<1> USE DEF IInv, MessageInv, Points
<1>1. file \in Seq(Char) \ {<<>>}
  BY FilesAreFiles
<1>2. ASSUME NEW l \in Levels, NEW s \in Spans \cup {None}, Emit(l, s) PROVE MessageInv'
  <2>1. s = None \/ IsSpan(file, s)
    BY <1>1, SpansAreSpans DEF Spans
  <2> QED
    BY <1>2, <2>1 DEF Emit
<1>3. CASE WriteDescription
  BY <1>3 DEF WriteDescription
<1>4. CASE WriteGutter
  BY <1>4 DEF WriteGutter
<1>5. CASE WriteLine
  <2> DEFINE row == [line |-> line_to_emit, number |-> numbered(line_to_emit),
                     lower |-> 0, width |-> 0]
  <2>1. pc = "line" /\ line_to_emit # None /\ rows' = Append(rows, row)
          /\ pc' \in {"line", "underline"} /\ UNCHANGED <<file, level, span>>
    BY <1>5 DEF WriteLine
  <2>2. row \in RowType
    BY <1>1, <2>1, LineContinues DEF LinesInv
  <2> HIDE DEF row
  <2>3. rows' \in Seq(RowType) /\ rows' # <<>>
    BY <2>1, <2>2, AppendProperties
  <2> QED
    BY <2>1, <2>3
<1>6. CASE WriteUnderline
  <2>1. pc = "underline" /\ pc' = "line" /\ UNCHANGED <<file, level, span>>
    BY <1>6 DEF WriteUnderline
  <2>2. rows' \in Seq(RowType)
    BY <1>6, WrittenUnderline
  <2> QED
    BY <2>1, <2>2
<1>7. CASE PanicAtUnderline
  BY <1>7 DEF PanicAtUnderline
<1>8. CASE EndOfCode
  BY <1>8 DEF EndOfCode
<1>9. CASE WriteEnd
  BY <1>9, EmptySeq DEF WriteEnd, Forget
<1>10. CASE WriteFails
  BY <1>10, EmptySeq DEF WriteFails, Forget
<1>11. CASE WriteStatistics
  BY <1>11 DEF WriteStatistics
<1>12. CASE UNCHANGED vars
  BY <1>12 DEF vars
<1> QED
  BY <1>2, <1>3, <1>4, <1>5, <1>6, <1>7, <1>8, <1>9, <1>10, <1>11, <1>12 DEF Next, Write

LEMMA LinesStep == IInv /\ [Next]_vars => LinesInv'
<1> SUFFICES ASSUME IInv, [Next]_vars PROVE LinesInv'
  OBVIOUS
<1> USE DEF IInv, MessageInv, LinesInv, Points
<1>1. file \in Seq(Char) \ {<<>>}
  BY FilesAreFiles
<1>2. ASSUME NEW l \in Levels, NEW s \in Spans \cup {None}, Emit(l, s) PROVE LinesInv'
  BY <1>2 DEF Emit
<1>3. CASE WriteDescription
  BY <1>3 DEF WriteDescription
<1>4. CASE WriteGutter
  <2>1. pc = "gutter" /\ pc' = "line" /\ rows' = rows /\ rows = <<>>
          /\ line_to_emit' = first_line(file, span) /\ file' = file /\ span' = span
    BY <1>4 DEF WriteGutter
  <2>2. Continues(file, span, <<>>, first_line(file, span))
    BY <1>1, <2>1, FirstLineContinues
  <2>3. Listed(file, span, <<>>)
    BY DEF Listed
  <2> QED
    BY <2>1, <2>2, <2>3
<1>5. CASE WriteLine
  <2> DEFINE row == [line |-> line_to_emit, number |-> numbered(line_to_emit),
                     lower |-> 0, width |-> 0]
             next == IF has_line_after(file, span, line_to_emit)
                     THEN line_after(file, line_to_emit) ELSE None
  <2>1. pc = "line" /\ line_to_emit # None /\ rows' = Append(rows, row)
          /\ line_to_emit' = next
          /\ pc' \in {"line", "underline"} /\ file' = file /\ span' = span
    BY <1>5 DEF WriteLine
  <2>2. Listed(file, span, Append(rows, row)) /\ Continues(file, span, Append(rows, row), next)
    BY <1>1, <2>1, LineContinues
  <2> HIDE DEF row, next
  <2> QED
    BY <2>1, <2>2
<1>6. CASE WriteUnderline
  <2>1. pc = "underline" /\ pc' = "line" /\ line_to_emit' = line_to_emit
          /\ file' = file /\ span' = span
    BY <1>6 DEF WriteUnderline
  <2>2. /\ rows' \in Seq(RowType) /\ Len(rows') = Len(rows) /\ rows' # <<>>
        /\ \A i \in 1..Len(rows) : /\ rows'[i].line = rows[i].line
                                   /\ rows'[i].number = rows[i].number
    BY <1>6, WrittenUnderline
  <2>3. Listed(file, span, rows') /\ Continues(file, span, rows', line_to_emit)
    BY <2>1, <2>2, SameLinesListed
  <2> QED
    BY <2>1, <2>3
<1>7. CASE PanicAtUnderline
  BY <1>7 DEF PanicAtUnderline
<1>8. CASE EndOfCode
  BY <1>8 DEF EndOfCode
<1>9. CASE WriteEnd
  BY <1>9 DEF WriteEnd, Forget
<1>10. CASE WriteFails
  BY <1>10 DEF WriteFails, Forget
<1>11. CASE WriteStatistics
  BY <1>11 DEF WriteStatistics
<1>12. CASE UNCHANGED vars
  BY <1>12 DEF vars
<1> QED
  BY <1>2, <1>3, <1>4, <1>5, <1>6, <1>7, <1>8, <1>9, <1>10, <1>11, <1>12 DEF Next, Write

LEMMA UnderlinesStep == IInv /\ [Next]_vars => UnderlinesInv'
<1> SUFFICES ASSUME IInv, [Next]_vars PROVE UnderlinesInv'
  OBVIOUS
<1> USE DEF IInv, MessageInv, UnderlinesInv, Points
<1>1. file \in Seq(Char) \ {<<>>} /\ Len(rows) \in Nat
  BY FilesAreFiles
<1>2. ASSUME UNCHANGED <<file, span, rows>>,
             pc' # "panicked", pc' \in {"line", "end"} => pc \in {"line", "end"} \/ rows = <<>>
      PROVE  UnderlinesInv'
  BY <1>2 DEF Underlined
<1>3. ASSUME rows = <<>>, rows' = <<>>, pc' # "panicked" PROVE UnderlinesInv'
  <2>1. Len(rows') = 0
    BY <1>3, EmptySeq
  <2> QED
    BY <1>3, <2>1
<1>4. ASSUME NEW l \in Levels, NEW s \in Spans \cup {None}, Emit(l, s)
      PROVE  UnderlinesInv'
  BY <1>3, <1>4 DEF Emit
<1>5. CASE WriteDescription
  BY <1>3, <1>5 DEF WriteDescription
<1>6. CASE WriteGutter
  BY <1>3, <1>6 DEF WriteGutter
<1>7. CASE WriteLine
  <2> DEFINE row == [line |-> line_to_emit, number |-> numbered(line_to_emit),
                     lower |-> 0, width |-> 0]
  <2>1. /\ pc = "line" /\ line_to_emit # None /\ rows' = Append(rows, row)
        /\ file' = file /\ span' = span
        /\ pc' = IF overlap(span, line_to_emit) THEN "underline" ELSE "line"
    BY <1>7 DEF WriteLine
  <2>2. row \in RowType
    BY <1>1, <2>1, LineContinues DEF LinesInv
  <2>3. pc' = "underline"
    BY <2>1 DEF LinesInv, Continues
  <2> HIDE DEF row
  <2>4. /\ Len(rows') = Len(rows) + 1
        /\ \A i \in 1..Len(rows) : rows'[i] = rows[i]
    BY <2>1, <2>2, AppendProperties
  <2>5. \A i \in 1..Len(rows) : Underlined(i)
    <3> TAKE i \in 1..Len(rows)
    <3>1. i \in 1..Len(rows) - 1 \/ (i = Len(rows) /\ rows # <<>>)
      BY <1>1, EmptySeq
    <3> QED
      BY <2>1, <3>1
  <2>6. \A i \in 1..Len(rows') - 1 : Underlined(i)'
    BY <1>1, <2>1, <2>4, <2>5 DEF Underlined
  <2> QED
    BY <2>3, <2>6
<1>8. CASE WriteUnderline
  <2> DEFINE cols == get_actual_columns(CurrentLine, FaultyPart)
             n == Len(rows)
  <2>1. pc = "underline" /\ pc' = "line" /\ file' = file /\ span' = span
    BY <1>8 DEF WriteUnderline
  <2>2. /\ Len(rows') = n
        /\ \A i \in 1..n : rows'[i].line = rows[i].line /\ (i < n => rows'[i] = rows[i])
        /\ rows'[n].lower = cols.lower /\ rows'[n].width = cols.upper - cols.lower
        /\ cols.lower <= cols.upper
    BY <1>8, WrittenUnderline
  <2>3. /\ IsSpan(file, span) /\ IsLine(file, CurrentLine) /\ overlap(span, CurrentLine)
        /\ CurrentLine = rows[n].line /\ n \in 1..n
    BY <2>1, UnderlineStep
  <2>4. \/ EndsAtFirstNewline(file, span, CurrentLine)
        \/ UnderlinedAs(file, span, CurrentLine, cols.lower, cols.upper - cols.lower)
    BY <1>1, <2>3, UnderlineColumns DEF FaultyPart
  <2> HIDE DEF cols
  <2>5. Underlined(n)'
    BY <2>1, <2>2, <2>3, <2>4 DEF Underlined
  <2>6. \A i \in 1..n - 1 : Underlined(i)'
    <3> TAKE i \in 1..n - 1
    <3>1. i \in 1..n /\ i < n
      BY <1>1
    <3>2. rows'[i] = rows[i] /\ Underlined(i)
      BY <2>2, <3>1
    <3> QED
      BY <2>1, <3>2 DEF Underlined
  <2> QED
    BY <2>1, <2>2, <2>5, <2>6
<1>9. CASE PanicAtUnderline
  <2>1. pc = "underline" /\ ~width_exists(CurrentLine, FaultyPart)
          /\ pc' = "panicked" /\ UNCHANGED <<file, span, rows>>
    BY <1>9 DEF PanicAtUnderline
  <2>2. /\ IsSpan(file, span) /\ IsLine(file, CurrentLine) /\ overlap(span, CurrentLine)
        /\ CurrentLine = rows[Len(rows)].line
    BY <2>1, UnderlineStep
  <2> DEFINE cols == get_actual_columns(CurrentLine, FaultyPart)
  <2>3. /\ columns_exist(CurrentLine, FaultyPart)
        /\ cols.lower \in Nat /\ cols.upper \in Nat
        /\ EndsAtFirstNewline(file, span, CurrentLine) \/ cols.lower <= cols.upper
        /\ cols.lower > cols.upper => span.start.col > 0
    BY <1>1, <2>2, UnderlineColumns DEF FaultyPart
  <2>4. ~(cols.lower <= cols.upper)
    BY <2>1, <2>3 DEF width_exists
  <2> HIDE DEF cols
  <2>5. EndsAtFirstNewline(file, span, rows[Len(rows)].line) /\ span.start.col > 0
    BY <2>2, <2>3, <2>4
  <2> QED
    BY <2>1, <2>5 DEF Underlined
<1>10. CASE EndOfCode
  BY <1>2, <1>10 DEF EndOfCode
<1>11. CASE WriteEnd
  <2>1. rows' = <<>> /\ pc' = "idle"
    BY <1>11 DEF WriteEnd, Forget
  <2> QED
    BY <2>1, EmptySeq
<1>12. CASE WriteFails
  <2>1. rows' = <<>> /\ pc' = "idle"
    BY <1>12 DEF WriteFails, Forget
  <2> QED
    BY <2>1, EmptySeq
<1>13. CASE WriteStatistics
  BY <1>3, <1>13 DEF WriteStatistics
<1>14. CASE UNCHANGED vars
  BY <1>14 DEF vars, Underlined
<1> QED
  BY <1>4, <1>5, <1>6, <1>7, <1>8, <1>9, <1>10, <1>11, <1>12, <1>13, <1>14 DEF Next, Write

(***************************************************************************)
(* What write() does next keeps the guards as the next step expects them.  *)
(***************************************************************************)
LEMMA NextCallsBring ==
    ASSUME IInv, pc \notin {"idle", "panicked"}
    PROVE  Brings(NextCalls, guards_at(pc),
                  plain_at(IF \/ pc \in {"gutter", "underline"}
                              \/ pc = "line" /\ line_to_emit # None THEN 1 ELSE 0))
<1> DEFINE p0 == plain_at(0)
           p1 == plain_at(1)
<1>1. file \in Seq(Char) \ {<<>>} /\ level \in Levels /\ pc \in Points
        /\ (pc = "line" /\ line_to_emit # None => IsLine(file, line_to_emit))
  BY FilesAreFiles DEF IInv, MessageInv, LinesInv, Continues
<1>2. /\ p0 \in Depths /\ p1 \in Depths /\ p0.plain /\ p0.depth = 0 /\ p1.depth = 1
      /\ 0 + 1 = 1 /\ 1 - 1 = 0
  BY DepthsOf
<1>3. "Cyan" \in Colors /\ color(level) \in Colors
  BY <1>1, ColorsOfLevels
<1>4. Brings(spaces, p1, p1) /\ Brings(number, p1, p1)
  BY <1>3, InBrings DEF spaces, number, HIGHLIGHT_COLOR, Parts
<1>5. \A part \in Parts : \A a \in {p0, p1} : Brings(<<Text(part)>>, a, a)
  <2> TAKE part \in Parts
  <2> TAKE a \in {p0, p1}
  <2>1. Leads(a, Text(part), a)
    BY DEF Leads
  <2> QED
    BY <1>2, <2>1, OneBrings
<1>6. CASE pc = "description"
  <2>1. Brings(description, p0, p0)
    BY <1>1, DescriptionBrings
  <2> QED
    BY <1>6, <2>1 DEF NextCalls, guards_at
<1>7. CASE pc = "gutter"
  <2>1. Leads(p0, New, p1)
    BY <1>2 DEF Leads
  <2>2. Brings(<<New>>, p0, p1)
    BY <1>2, <2>1, OneBrings
  <2>3. Brings(<<Text("end of line")>>, p1, p1)
    BY <1>5 DEF Parts
  <2>4. Brings((<<New>> \o spaces) \o <<Text("end of line")>>, p0, p1)
    BY <1>4, <2>2, <2>3, BringsConcat
  <2> QED
    BY <1>7, <2>4 DEF NextCalls, guards_at
<1>8. CASE pc = "line" /\ line_to_emit # None
  <2>1. Brings(render(line_to_emit), p1, p1)
    BY <1>1, <1>8, RenderBrings
  <2>2. Brings(number \o render(line_to_emit), p1, p1)
    BY <1>4, <2>1, BringsConcat
  <2> QED
    BY <1>8, <2>2 DEF NextCalls, guards_at
<1>9. CASE pc = "line" /\ line_to_emit = None
  <2>1. Leads(p1, Drop, p0)
    BY <1>2 DEF Leads
  <2>2. Brings(<<Drop>>, p1, p0)
    BY <1>2, <2>1, OneBrings
  <2> QED
    BY <1>9, <2>2 DEF NextCalls, guards_at
<1>10. CASE pc = "underline"
  <2>1. Brings(In(color(level), "underline"), p1, p1)
    BY <1>3, InBrings DEF Parts
  <2>2. Brings(spaces \o In(color(level), "underline"), p1, p1)
    BY <1>4, <2>1, BringsConcat
  <2> QED
    BY <1>10, <2>2 DEF NextCalls, guards_at
<1>11. CASE pc = "end"
  <2>1. Brings(<<Text("end of message")>>, p0, p0)
    BY <1>5 DEF Parts
  <2> QED
    BY <1>11, <2>1 DEF NextCalls, guards_at
<1> QED
  BY <1>1, <1>6, <1>7, <1>8, <1>9, <1>10, <1>11 DEF Points

LEMMA ColourStep == IInv /\ [Next]_vars => ColourInv'
<1> SUFFICES ASSUME IInv, [Next]_vars PROVE ColourInv'
  OBVIOUS
<1>1. pc \in Points /\ Fits(screen, guards_at(pc)) /\ guards_at(pc) \in Depths
  BY DepthsOf DEF IInv, MessageInv, ColourInv, guards_at
<1>2. \A p \in Points : p \notin {"line", "underline"} => guards_at(p) = plain_at(0)
  BY DEF guards_at, Points
<1>3. guards_at("line") = plain_at(1) /\ guards_at("underline") = plain_at(1)
  BY DEF guards_at
<1>4. ASSUME pc \notin {"idle", "panicked"}, screen' = run(screen, NextCalls)
      PROVE  Fits(screen', plain_at(IF \/ pc \in {"gutter", "underline"}
                                       \/ pc = "line" /\ line_to_emit # None THEN 1 ELSE 0))
  BY <1>1, <1>4, NextCallsBring, RunFits
<1>5. ASSUME NEW l \in Levels, NEW s \in Spans \cup {None}, Emit(l, s) PROVE ColourInv'
  <2>1. pc = "idle" /\ pc' = "description" /\ screen' = [screen EXCEPT !.texts = {}]
    BY <1>5 DEF Emit
  <2>2. Fits([screen EXCEPT !.texts = {}], plain_at(0))
    BY <1>1, <1>2, <2>1, ClearFits
  <2> QED
    BY <1>2, <2>1, <2>2 DEF ColourInv, Points
<1>6. CASE WriteDescription
  <2>1. pc = "description" /\ screen' = run(screen, NextCalls) /\ pc' \in {"end", "gutter"}
    BY <1>6 DEF WriteDescription
  <2> QED
    BY <1>2, <1>4, <2>1 DEF ColourInv, Points
<1>7. CASE WriteGutter
  <2>1. pc = "gutter" /\ screen' = run(screen, NextCalls) /\ pc' = "line"
    BY <1>7 DEF WriteGutter
  <2> QED
    BY <1>3, <1>4, <2>1 DEF ColourInv
<1>8. CASE WriteLine
  <2>1. pc = "line" /\ line_to_emit # None /\ screen' = run(screen, NextCalls)
          /\ pc' \in {"line", "underline"}
    BY <1>8 DEF WriteLine
  <2> QED
    BY <1>3, <1>4, <2>1 DEF ColourInv
<1>9. CASE WriteUnderline
  <2>1. pc = "underline" /\ screen' = run(screen, NextCalls) /\ pc' = "line"
    BY <1>9 DEF WriteUnderline
  <2> QED
    BY <1>3, <1>4, <2>1 DEF ColourInv
<1>10. CASE PanicAtUnderline
  <2> DEFINE half == spaces \o <<New, Color(color(level)), Bold>>
  <2>1. pc = "underline" /\ pc' = "panicked"
          /\ (screen' = unwound(screen, <<>>) \/ screen' = unwound(screen, half))
    BY <1>10 DEF PanicAtUnderline
  <2>2. Fits(screen, plain_at(1)) /\ plain_at(1) \in Depths
    BY <1>1, <1>3, <2>1
  <2>3. Fits(unwound(screen, <<>>), plain_at(0))
    BY <2>2, EmptyBrings, UnwoundFits
  <2>4. Fits(unwound(screen, half), plain_at(0))
    <3>1. level \in Levels
      BY <2>1 DEF IInv, MessageInv
    <3>2. Brings(spaces, plain_at(1), plain_at(1))
      BY ColorsOfLevels, InBrings DEF spaces, HIGHLIGHT_COLOR, Parts
    <3>3. Brings(<<New, Color(color(level)), Bold>>, plain_at(1), styled_at(1 + 1))
      BY <3>1, ColorsOfLevels, HalfUnderlineBrings
    <3>4. Brings(half, plain_at(1), styled_at(1 + 1))
      BY <3>2, <3>3, BringsConcat
    <3> HIDE DEF half
    <3> QED
      BY <2>2, <3>4, UnwoundFits
  <2> HIDE DEF half
  <2> QED
    BY <1>2, <2>1, <2>3, <2>4 DEF ColourInv, Points
<1>11. CASE EndOfCode
  <2>1. pc = "line" /\ line_to_emit = None /\ screen' = run(screen, NextCalls) /\ pc' = "end"
    BY <1>11 DEF EndOfCode
  <2> QED
    BY <1>2, <1>4, <2>1 DEF ColourInv, Points
<1>12. CASE WriteEnd
  <2>1. pc = "end" /\ screen' = run(screen, NextCalls) /\ pc' = "idle"
    BY <1>12 DEF WriteEnd, Forget
  <2> QED
    BY <1>2, <1>4, <2>1 DEF ColourInv, Points
<1>13. CASE WriteFails
  <2>1. pc \notin {"idle", "panicked"} /\ pc' = "idle"
    BY <1>13 DEF WriteFails, Forget
  <2>2. PICK n \in writes(NextCalls) : screen' = failed(screen, NextCalls, n)
    BY <1>13 DEF WriteFails
  <2>3. Fits(failed(screen, NextCalls, n), plain_at(0))
    BY <1>1, <2>1, NextCallsBring, FailedFits
  <2> QED
    BY <1>2, <2>1, <2>2, <2>3 DEF ColourInv, Points
<1>14. CASE WriteStatistics
  <2> DEFINE c == IF errored THEN color("error") ELSE "Green"
             calls == <<New, Bold, Color(c), Text("statistics"), Drop>>
  <2>1. pc = "idle" /\ pc' = pc /\ screen' = run(screen, calls)
    BY <1>14 DEF WriteStatistics
  <2>2. c \in Colors
    BY ColorsOfLevels DEF errored
  <2>3. Brings(calls, plain_at(0), plain_at(0))
    BY <2>2, StatisticsBrings
  <2> HIDE DEF calls, c
  <2>4. Fits(run(screen, calls), plain_at(0))
    BY <1>1, <1>2, <2>1, <2>3, RunFits
  <2> QED
    BY <1>2, <2>1, <2>4 DEF ColourInv, Points
<1>15. CASE UNCHANGED vars
  BY <1>15 DEF vars, IInv, ColourInv
<1> QED
  BY <1>5, <1>6, <1>7, <1>8, <1>9, <1>10, <1>11, <1>12, <1>13, <1>14, <1>15 DEF Next, Write

LEMMA InitIInv == Init => IInv
<1> SUFFICES ASSUME Init PROVE IInv
  OBVIOUS
<1>1. MessageInv /\ LinesInv
  BY InitMessage DEF Init, LinesInv
<1>2. UnderlinesInv
  BY EmptySeq DEF Init, UnderlinesInv
<1>3. Fits(fresh, plain_at(0))
  <2>1. /\ fresh.guards = <<>> /\ fresh.terminal = Plain /\ fresh.texts = {}
        /\ fresh \in Screens /\ Len(fresh.guards) = 0
    BY PlainIsAStyle DEF fresh, Screens
  <2>2. spec(fresh) = Plain
    BY <2>1 DEF spec
  <2> HIDE DEF fresh
  <2> QED
    BY <2>1, <2>2 DEF Fits, Sound, plain_at
<1>4. ColourInv
  BY <1>3 DEF Init, ColourInv, guards_at
<1> QED
  BY <1>1, <1>2, <1>4 DEF IInv

(***************************************************************************)
(* The invariant holds of every message about every span of every file.    *)
(***************************************************************************)
THEOREM DiagnosticsIInv == Spec => []IInv
<1>1. IInv /\ [Next]_vars => IInv'
  BY MessageStep, LinesStep, UnderlinesStep, ColourStep DEF IInv
<1> QED
  BY InitIInv, <1>1, PTL DEF Spec

(***************************************************************************)
(* The lines printed are the lines of the span, each once, in order and    *)
(* with its number.                                                        *)
(***************************************************************************)
THEOREM DiagnosticsLines == Spec => []RowsAreTheLinesOfTheSpan
<1>1. IInv => RowsAreTheLinesOfTheSpan
  <2> SUFFICES ASSUME IInv PROVE RowsAreTheLinesOfTheSpan
    OBVIOUS
  <2>1. pc \in Points /\ rows \in Seq(RowType) /\ Len(rows) \in Nat /\ DOMAIN rows = 1..Len(rows)
    BY DEF IInv, MessageInv
  <2>2. pc \in {"line", "underline"} => (rows = <<>> => line_to_emit = first_line(file, span))
    BY DEF IInv, LinesInv, Continues
  <2>3. ASSUME pc # "idle", rows # <<>>
        PROVE  /\ Listed(file, span, rows)
               /\ Continues(file, span, rows, line_to_emit)
               /\ pc = "end" => line_to_emit = None
    BY <2>1, <2>3 DEF IInv, MessageInv, LinesInv, Points
  <2>4. ASSUME pc # "idle", rows # <<>>, NEW i \in 1..Len(rows)
        PROVE  rows[i].number =
                   1 + Cardinality(newlines_through(file, rows[i].line.start.byte_offset))
    <3>1. IsLine(file, rows[i].line) /\ rows[i].number = numbered(rows[i].line)
      BY <2>3, <2>4 DEF Listed
    <3>2. /\ rows[i].line.start.row \in Nat
          /\ rows[i].line.start.row =
                 Cardinality(newlines_through(file, rows[i].line.start.byte_offset))
      BY <3>1 DEF IsLine, At, PositionType, RowIsRight
    <3> QED
      BY <3>1, <3>2 DEF numbered, line_number
  <2> QED
    BY <2>1, <2>2, <2>3, <2>4 DEF RowsAreTheLinesOfTheSpan, Listed, Continues
<1> QED
  BY <1>1, DiagnosticsIInv, PTL

(***************************************************************************)
(* Every underline covers exactly the cells of the faulty part, unless     *)
(* that ends in the first newline of the file.                             *)
(***************************************************************************)
LEMMA EndsThere ==
    \A line : EndsInFirstNewline(line) <=> EndsAtFirstNewline(file, span, line)
BY DEF EndsInFirstNewline, EndsAtFirstNewline, IsFirstNewline

THEOREM DiagnosticsUnderlines == Spec => []UnderlineIsExact
<1>1. IInv => UnderlineIsExact
  <2> SUFFICES ASSUME IInv, pc \in {"line", "end"}, NEW i \in DOMAIN rows
               PROVE  EndsInFirstNewline(rows[i].line) \/ UnderlineOf(rows[i])
    BY DEF UnderlineIsExact
  <2>1. rows \in Seq(RowType) /\ Len(rows) \in Nat /\ i \in 1..Len(rows)
    BY DEF IInv, MessageInv
  <2>2. i \in 1..Len(rows) - 1 \/ (i = Len(rows) /\ rows # <<>>)
    BY <2>1, EmptySeq
  <2>3. Underlined(i)
    BY <2>2 DEF IInv, UnderlinesInv
  <2> QED
    BY <2>3, EndsThere, CellsAreInTheFile DEF Underlined, UnderlinedAs, UnderlineOf
<1> QED
  BY <1>1, DiagnosticsIInv, PTL

(***************************************************************************)
(* Nothing else makes the width negative: the columns are found in every   *)
(* line, and are in order wherever the underline is exact.                 *)
(***************************************************************************)
THEOREM DiagnosticsPanic == Spec => []PanicOnlyAtFirstNewline
<1>1. IInv => PanicOnlyAtFirstNewline
  BY EndsThere DEF IInv, UnderlinesInv, PanicOnlyAtFirstNewline
<1> QED
  BY <1>1, DiagnosticsIInv, PTL

(***************************************************************************)
(* Every text appears in the style its guard was asked for, and nothing is *)
(* left over when emit() has returned, failed or panicked.                 *)
(***************************************************************************)
THEOREM DiagnosticsColours == Spec => []ColoursAreKeptApart
<1>1. IInv => ColoursAreKeptApart
  <2> SUFFICES ASSUME IInv PROVE ColoursAreKeptApart
    OBVIOUS
  <2>1. Fits(screen, guards_at(pc))
    BY DEF IInv, ColourInv
  <2>2. ASSUME pc \in {"idle", "panicked"} PROVE screen.guards = <<>> /\ screen.terminal = Plain
    <3>1. guards_at(pc) = plain_at(0)
      BY <2>2 DEF guards_at
    <3>2. plain_at(0) \in Depths /\ plain_at(0).depth = 0
      BY DepthsOf
    <3> QED
      BY <2>1, <3>1, <3>2, NoGuardIsPlain
  <2> QED
    BY <2>1, <2>2 DEF ColoursAreKeptApart, Fits, Sound
<1> QED
  BY <1>1, DiagnosticsIInv, PTL
=============================================================================
