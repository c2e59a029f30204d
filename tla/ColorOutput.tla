---------------------------- MODULE ColorOutput ----------------------------
(***************************************************************************)
(* Colours and font styles of the output (compiler-lib/src/color.rs).      *)
(*                                                                         *)
(* A function that writes in colour makes a ColorOutput, a guard on the    *)
(* terminal: it resets the terminal when it is made and when it is         *)
(* dropped, and keeps the style asked of it in a spec of its own.  A guard *)
(* is made while that of the caller is alive, and nothing restores the     *)
(* caller's style afterwards.                                              *)
(*                                                                         *)
(* A function is the list of what it does to the terminal; run() does it.  *)
(* Controls are taken to succeed: the code ignores their failures.         *)
(***************************************************************************)
EXTENDS Naturals, Sequences, SequencesExt

Plain == [fg |-> "default", bold |-> FALSE]      \* ColorSpec::new()

\* The terminal's style, the specs of the guards alive, the texts written.
Colors  == {"default", "Red", "Yellow", "Cyan", "Green"}
Styles  == [fg : Colors, bold : BOOLEAN]
Parts   == {"level", "message", "gutter", "number", "source", "end of line",
            "underline", "end of message", "statistics"}
Screens == [terminal : Styles, guards : Seq(Styles),
            texts : SUBSET [part : Parts, style : Styles, spec : Styles]]

fresh == [terminal |-> Plain, guards |-> <<>>, texts |-> {}]

\* What a function does, one call at a time.
New         == [do |-> "new"]
Color(c)    == [do |-> "set_color", color |-> c]
Bold        == [do |-> "set_bold"]
Text(part)  == [do |-> "write", part |-> part]
Drop        == [do |-> "drop"]
-----------------------------------------------------------------------------
\* The spec of the innermost guard; what is written without one is plain.
spec(screen) == IF screen.guards = <<>> THEN Plain ELSE Last(screen.guards)

new(screen) == [screen EXCEPT !.guards = Append(@, Plain), !.terminal = Plain]

styled(screen, style) ==
    [screen EXCEPT !.guards = Append(Front(@), style), !.terminal = style]

set_color(screen, c) == styled(screen, [spec(screen) EXCEPT !.fg = c])

set_bold(screen) == styled(screen, [spec(screen) EXCEPT !.bold = TRUE])

\* Mutant: only making a guard resets the terminal.
DropWithoutReset(screen) == [screen EXCEPT !.guards = Front(@)]

drop(screen) == [screen EXCEPT !.guards = Front(@), !.terminal = Plain]

write(screen, part) ==
    [screen EXCEPT !.texts = @ \cup {[part |-> part, style |-> screen.terminal,
                                      spec |-> spec(screen)]}]
-----------------------------------------------------------------------------
step(screen, call) ==
    CASE call.do = "new"       -> new(screen)
      [] call.do = "set_color" -> set_color(screen, call.color)
      [] call.do = "set_bold"  -> set_bold(screen)
      [] call.do = "write"     -> write(screen, call.part)
      [] call.do = "drop"      -> drop(screen)

\* A whole function, after whatever was written before it.
run(screen, calls) ==
    LET from[n \in 1..Len(calls) + 1] ==
            [s \in Screens |->
                IF n > Len(calls) THEN s ELSE from[n + 1][step(s, calls[n])]]
    IN  from[1][[screen EXCEPT !.texts = {}]]

\* The guards alive are dropped, innermost first.
drops(screen) == [i \in DOMAIN screen.guards |-> Drop]

\* `?` and a panic alike unwind, after these calls.
unwound(screen, calls) == run(screen, calls \o drops(run(screen, calls)))

\* The function where the write at position n fails.
failed(screen, calls, n) == unwound(screen, SubSeq(calls, 1, n - 1))

writes(calls) == {n \in DOMAIN calls : calls[n].do = "write"}
=============================================================================
