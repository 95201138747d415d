---------------------------- MODULE ConsoleText ----------------------------
(***************************************************************************)
(* The text of the console: cprint() and cscroll() of console.c.           *)
(*                                                                         *)
(* The text is a ring of BUFLINENUM lines of STRLEN glyphs, of which a     *)
(* window of LINENUM lines is on the screen. Colours are kept beside the   *)
(* glyphs, as strides: a line is drawn stride by stride, each with a       *)
(* length and a colour. A line is filled by several calls of cprint, a     *)
(* call may fill several lines, and a colour code may stand anywhere.      *)
(*                                                                         *)
(* A glyph is known by the colour it is written in. Of the ring, the line  *)
(* being filled and the one filled last are kept: no other line changes.   *)
(***************************************************************************)
EXTENDS Integers, SequencesExt

CONSTANTS
  StrLen,        \* STRLEN, also the size of a line's array of strides
  LineNum,       \* LINENUM
  LineModulus,   \* lines are counted modulo this: 2^16 for UINT16
  Color,         \* colours
  TextColor      \* CONSOLE_TEXT_COLOR

BufLines == 3 * LineNum

ASSUME SizesAssumption ==
  /\ StrLen \in Nat \ {0}
  /\ LineNum \in Nat \ {0}
  /\ LineModulus \in Nat
  /\ LineModulus > BufLines

ASSUME ColorAssumption == TextColor \in Color

VARIABLES
  conAbsCurLine,  \* number of the line being filled
  conAbsTopLine,  \* number of the first line of the window
  conCurLine,     \* place in the ring of the line being filled
  conPos,         \* column of the next glyph
  strides,        \* closed strides of the line; conLastStride is Len(strides) + 1
  color,          \* colour of the stride being filled
  lastStridePos,  \* cprint: column where the stride being filled starts
  printing,       \* in cprint: what was printed last (see Printing)
  filled,         \* strides of the line filled last
  ink,            \* history: the colour that the text asks for
  text,           \* history: the glyphs of the line, each the colour asked for it
  filledText      \* history: the glyphs of the line filled last

lineVars == <<conAbsCurLine, conAbsTopLine, conCurLine>>
strideVars == <<strides, color, lastStridePos>>
vars == <<lineVars, conPos, strideVars, printing, filled, ink, text, filledText>>

\* "no"      no call of cprint is running
\* "empty"   nothing of the text is printed yet
\* "line"    its last character was '\n'
\* "within"  its last character was any other
Printing == {"no", "empty", "line", "within"}

Stride == [len : 0 .. StrLen, color : Color]

\* What ConsoleRender draws for a line.
Drawn(line) == FlattenSeq([k \in DOMAIN line |-> [j \in 1 .. line[k].len |-> line[k].color]])

Least(a, b) == IF a < b THEN a ELSE b

\* The first line of a window that ends with the line filled last.
TailTop == conAbsCurLine - Least(LineNum, conAbsCurLine)

\* The counters are UINT16.
NextLine(n) == IF n + 1 = LineModulus THEN 0 ELSE n + 1

\* Mutant: the window moves a line late.
NextTopLate(cur) ==
  IF conAbsTopLine = cur - LineNum - 2 THEN NextLine(conAbsTopLine) ELSE conAbsTopLine

\* Mutant: a window anywhere above moves too.
NextTopAlways(cur) ==
  IF conAbsTopLine <= cur - LineNum - 1 THEN NextLine(conAbsTopLine) ELSE conAbsTopLine

\* The first line of the window when line cur is begun: a window that would end just
\* before the line filled last moves on by one.
NextTop(cur) ==
  IF conAbsTopLine = cur - LineNum - 1 THEN NextLine(conAbsTopLine) ELSE conAbsTopLine

Init ==
  /\ conAbsCurLine = 0
  /\ conAbsTopLine = 0
  /\ conCurLine = 0
  /\ conPos = 0
  /\ strides = <<>>
  /\ color = TextColor
  /\ lastStridePos = 0
  /\ printing = "no"
  /\ filled = <<>>
  /\ ink = TextColor
  /\ text = <<>>
  /\ filledText = <<>>

-----------------------------------------------------------------------------
(* cprint, a character at a time.                                          *)

\* The stride being filled ends at column p.
Closed(p) == Append(strides, [len |-> p - lastStridePos, color |-> color])

\* Room for one more stride in the array of the line. Nothing in the code checks this:
\* the texts of the model keep to it.
HasRoom == Len(strides) + 1 < StrLen

BeginPrint ==
  /\ printing = "no"
  /\ printing' = "empty"
  /\ lastStridePos' = conPos
  /\ UNCHANGED <<lineVars, conPos, strides, color, filled, ink, text, filledText>>

\* Mutant: the ring is one line longer than its memory.
NewLineBeyond(p, c, glyphs) ==
  /\ filled' = Closed(p)
  /\ filledText' = glyphs
  /\ strides' = <<>>
  /\ color' = c
  /\ lastStridePos' = 0
  /\ conPos' = 0
  /\ text' = <<>>
  /\ conCurLine' = IF conCurLine = BufLines THEN 0 ELSE conCurLine + 1
  /\ conAbsCurLine' = NextLine(conAbsCurLine)
  /\ conAbsTopLine' = NextTop(conAbsCurLine')

\* Mutant: the ring is one line shorter.
NewLineShort(p, c, glyphs) ==
  /\ filled' = Closed(p)
  /\ filledText' = glyphs
  /\ strides' = <<>>
  /\ color' = c
  /\ lastStridePos' = 0
  /\ conPos' = 0
  /\ text' = <<>>
  /\ conCurLine' = IF conCurLine = BufLines - 2 THEN 0 ELSE conCurLine + 1
  /\ conAbsCurLine' = NextLine(conAbsCurLine)
  /\ conAbsTopLine' = NextTop(conAbsCurLine')

\* The line is full up to column p, and the next one starts in colour c.
NewLine(p, c, glyphs) ==
  /\ filled' = Closed(p)
  /\ filledText' = glyphs
  /\ strides' = <<>>
  /\ color' = c
  /\ lastStridePos' = 0
  /\ conPos' = 0
  /\ text' = <<>>
  /\ conCurLine' = IF conCurLine = BufLines - 1 THEN 0 ELSE conCurLine + 1
  /\ conAbsCurLine' = NextLine(conAbsCurLine)
  /\ conAbsTopLine' = NextTop(conAbsCurLine')

\* A glyph, not the last one of the line.
Glyph ==
  /\ printing # "no"
  /\ conPos + 1 < StrLen
  /\ conPos' = conPos + 1
  /\ printing' = "within"
  /\ text' = Append(text, ink)
  /\ UNCHANGED <<lineVars, strideVars, filled, ink, filledText>>

\* Mutant: the colour is lost where a line is full.
LastGlyphPlain ==
  /\ printing # "no"
  /\ conPos + 1 = StrLen
  /\ NewLine(StrLen, TextColor, Append(text, ink))
  /\ printing' = "within"
  /\ UNCHANGED ink

\* The last glyph of a line: the text goes on in the next one, in the same colour.
LastGlyph ==
  /\ printing # "no"
  /\ conPos + 1 = StrLen
  /\ NewLine(StrLen, color, Append(text, ink))
  /\ printing' = "within"
  /\ UNCHANGED ink

\* '\n': the next line starts in the default colour.
LineFeed ==
  /\ printing # "no"
  /\ NewLine(conPos, TextColor, text)
  /\ ink' = TextColor
  /\ printing' = "line"

\* A colour code.
SetColor(c) ==
  /\ printing # "no"
  /\ HasRoom
  /\ strides' = Closed(conPos)
  /\ color' = c
  /\ lastStridePos' = conPos
  /\ ink' = c
  /\ printing' = "within"
  /\ UNCHANGED <<lineVars, conPos, filled, text, filledText>>

\* A character that is none of these prints nothing, but is part of the text.
SkipCharacter ==
  /\ printing # "no"
  /\ printing' = "within"
  /\ UNCHANGED <<lineVars, conPos, strideVars, filled, ink, text, filledText>>

\* The text was empty or ended with '\n'.
EndAtLine ==
  /\ printing \in {"empty", "line"}
  /\ printing' = "no"
  /\ UNCHANGED <<lineVars, conPos, strideVars, filled, ink, text, filledText>>

\* The text ended within a line: its last stride is closed, so that it can be drawn,
\* and the next call goes on in a new stride of the same colour.
EndWithinLine ==
  /\ printing = "within"
  /\ HasRoom
  /\ strides' = Closed(conPos)
  /\ lastStridePos' = conPos
  /\ printing' = "no"
  /\ UNCHANGED <<lineVars, conPos, color, filled, ink, text, filledText>>

-----------------------------------------------------------------------------

\* cscroll( step ): the volume keys move the window within what the ring holds.
cscroll(step) ==
  LET top == conAbsTopLine + step
      ub == conAbsCurLine - Least(BufLines, conAbsCurLine)
      bounded == IF top < ub THEN ub ELSE top
  IN  /\ printing = "no"
      /\ conAbsTopLine' = IF bounded > TailTop THEN TailTop ELSE bounded
      /\ UNCHANGED <<conAbsCurLine, conCurLine, conPos, strideVars, printing, filled, ink,
                     text, filledText>>

\* cscroll( 0 ), when the console hides.
ResetScroll ==
  /\ printing = "no"
  /\ conAbsTopLine' = TailTop
  /\ UNCHANGED <<conAbsCurLine, conCurLine, conPos, strideVars, printing, filled, ink,
                 text, filledText>>

Scroll == cscroll(-1) \/ cscroll(1) \/ ResetScroll

Next ==
  \/ BeginPrint
  \/ Glyph
  \/ LastGlyph
  \/ LineFeed
  \/ \E c \in Color : SetColor(c)
  \/ SkipCharacter
  \/ EndAtLine
  \/ EndWithinLine
  \/ Scroll

Spec == Init /\ [][Next]_vars

-----------------------------------------------------------------------------
(* Properties.                                                             *)

\* Every variable has its type; no line has more strides than its array holds.
TypeOK ==
  /\ conAbsCurLine \in 0 .. LineModulus - 1
  /\ conAbsTopLine \in 0 .. LineModulus - 1
  /\ conCurLine \in 0 .. BufLines - 1
  /\ conPos \in 0 .. StrLen - 1
  /\ strides \in Seq(Stride)
  /\ Len(strides) < StrLen
  /\ color \in Color
  /\ lastStridePos \in 0 .. conPos
  /\ printing \in Printing
  /\ filled \in Seq(Stride)
  /\ Len(filled) <= StrLen
  /\ ink \in Color
  /\ text \in Seq(Color)
  /\ filledText \in Seq(Color)

\* A line is drawn as it was written: every glyph once, in the colour that was asked
\* for it, however the text was cut into calls, strides and lines.
DrawnAsWritten ==
  /\ Drawn(filled) = filledText
  /\ printing = "no" => Drawn(strides) = text

Following == conAbsTopLine = TailTop

\* A window at the end of the text stays there while text is printed. Only the user
\* moves it away, or the line counter when it starts again from 0.
FollowsTail ==
  [][Following => Following' \/ Scroll \/ conAbsCurLine' < conAbsCurLine]_vars

\* A window that the user moved away from the end of the text stays at the same lines
\* while text is printed, until the user moves it again.
StaysScrolled ==
  [][conAbsTopLine < TailTop => conAbsTopLine' = conAbsTopLine \/ Scroll]_vars

InStep == conCurLine = conAbsCurLine % BufLines

\* ConsoleRender finds line n at n % BUFLINENUM, which is where cprint has put it,
\* until the line counter starts again from 0.
RingInStep == [][InStep => InStep' \/ conAbsCurLine' < conAbsCurLine]_vars

=============================================================================
