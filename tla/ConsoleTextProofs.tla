------------------------- MODULE ConsoleTextProofs -------------------------
(***************************************************************************)
(* Proofs about ConsoleText for any size of the console, any width of the  *)
(* line counters and any colours: its types, its window, what its lines    *)
(* show and its ring.                                                      *)
(***************************************************************************)
EXTENDS ConsoleText, SequenceTheorems, WellFoundedInduction, TLAPS

-----------------------------------------------------------------------------
(* Joining sequences. FlattenSeq is a recursive function, and to the       *)
(* provers a CHOOSE: that there is one, that any two agree and what it     *)
(* yields is shown each time by a least counterexample.                    *)

\* A set of numbers that is not empty has a least element.
LEMMA Smallest ==
  ASSUME NEW T \in SUBSET Nat, T # {}
  PROVE  \E n \in T : \A m \in T : n <= m
<1> DEFINE R == OpToRel(<, Nat)
<1>1. IsWellFoundedOn(R, Nat)
  BY NatLessThanWellFounded
<1>2. \A x, y \in Nat : (<<y, x>> \in R) <=> y < x
  BY DEF OpToRel
<1> HIDE DEF R
<1>3. PICK x \in T : \A y \in T : ~ (<<y, x>> \in R)
  BY <1>1, WFMin
<1>4. ASSUME NEW y \in T PROVE x <= y
  <2>1. x \in Nat /\ y \in Nat
    OBVIOUS
  <2>2. ~ (y < x)
    BY <1>2, <1>3, <2>1
  <2> QED
    BY <2>1, <2>2
<1> QED
  BY <1>4

\* f[n] joins the first n sequences of ss, one after the other.
Joins(f, ss, n) ==
  \A i \in 1 .. n : f[i] = IF i = 1 THEN ss[i] ELSE f[i - 1] \o ss[i]

\* The first n sequences of ss can be joined.
LEMMA JoinsExists ==
  ASSUME NEW S, NEW ss \in Seq(Seq(S)), NEW n \in Nat
  PROVE  \E f : Joins(f, ss, n)
<1> DEFINE T == {k \in Nat : ~ \E f : Joins(f, ss, k)}
<1> SUFFICES ASSUME T # {} PROVE FALSE
  OBVIOUS
<1>1. PICK m \in T : \A k \in T : m <= k
  <2>1. T \in SUBSET Nat
    OBVIOUS
  <2> HIDE DEF T
  <2> QED
    BY <2>1, Smallest
<1>2. CASE m = 0
  BY <1>2, <1>1 DEF Joins
<1>3. CASE m # 0
  <2>1. m - 1 \in Nat /\ m - 1 \notin T
    BY <1>1, <1>3
  <2>2. PICK f : Joins(f, ss, m - 1)
    BY <2>1
  <2> DEFINE g == [i \in 1 .. m |-> IF i = 1 THEN ss[i] ELSE f[i - 1] \o ss[i]]
  <2>3. \A i \in 1 .. m - 1 : g[i] = f[i]
    BY <2>2, <1>3 DEF Joins
  <2>4. Joins(g, ss, m)
    <3> SUFFICES ASSUME NEW i \in 1 .. m PROVE g[i] = IF i = 1 THEN ss[i] ELSE g[i - 1] \o ss[i]
      BY DEF Joins
    <3>1. CASE i = 1
      BY <3>1
    <3>2. CASE i # 1
      <4>1. i - 1 \in 1 .. m - 1
        BY <3>2
      <4>2. g[i - 1] = f[i - 1]
        BY <4>1, <2>3
      <4> QED
        BY <3>2, <4>2
    <3> QED
      BY <3>1, <3>2
  <2> QED
    BY <2>4
<1> QED
  BY <1>2, <1>3

\* Functions that join the same sequences agree.
LEMMA JoinsAgree ==
  ASSUME NEW S, NEW ss, NEW tt, NEW n \in Nat, \A i \in 1 .. n : ss[i] = tt[i],
         NEW f, NEW g, Joins(f, ss, n), Joins(g, tt, n)
  PROVE  \A i \in 1 .. n : f[i] = g[i]
<1> DEFINE T == {k \in 1 .. n : f[k] # g[k]}
<1> SUFFICES ASSUME T # {} PROVE FALSE
  OBVIOUS
<1>1. PICK m \in T : \A k \in T : m <= k
  <2>1. T \in SUBSET Nat
    OBVIOUS
  <2> HIDE DEF T
  <2> QED
    BY <2>1, Smallest
<1>2. CASE m = 1
  BY <1>2, <1>1 DEF Joins
<1>3. CASE m # 1
  <2>1. m - 1 \in 1 .. n /\ m - 1 \notin T
    BY <1>1, <1>3
  <2>2. f[m - 1] = g[m - 1]
    BY <2>1
  <2> QED
    BY <1>1, <1>3, <2>2 DEF Joins
<1> QED
  BY <1>2, <1>3

\* FlattenSeq joins all sequences of ss.
LEMMA FlattenIs ==
  ASSUME NEW S, NEW ss \in Seq(Seq(S)), ss # <<>>
  PROVE  \E f : Joins(f, ss, Len(ss)) /\ FlattenSeq(ss) = f[Len(ss)]
<1> DEFINE C == CHOOSE flatten : flatten = [i \in 1 .. Len(ss) |-> IF i = 1 THEN ss[i] ELSE flatten[i - 1] \o ss[i]]
<1>1. Len(ss) # 0 /\ Len(ss) \in Nat
  OBVIOUS
<1>2. FlattenSeq(ss) = C[Len(ss)]
  BY <1>1 DEF FlattenSeq
<1>3. \E f : f = [i \in 1 .. Len(ss) |-> IF i = 1 THEN ss[i] ELSE f[i - 1] \o ss[i]]
  <2>1. PICK f : Joins(f, ss, Len(ss))
    BY <1>1, JoinsExists
  <2> DEFINE g == [i \in 1 .. Len(ss) |-> f[i]]
  <2>2. g = [i \in 1 .. Len(ss) |-> IF i = 1 THEN ss[i] ELSE g[i - 1] \o ss[i]]
    BY <2>1, <1>1 DEF Joins
  <2> QED
    BY <2>2
<1>4. C = [i \in 1 .. Len(ss) |-> IF i = 1 THEN ss[i] ELSE C[i - 1] \o ss[i]]
  BY <1>3
<1> HIDE DEF C
<1>5. Joins(C, ss, Len(ss))
  BY <1>4 DEF Joins
<1> QED
  BY <1>2, <1>5

\* One sequence more is joined after the others.
LEMMA FlattenAppend ==
  ASSUME NEW S, NEW ss \in Seq(Seq(S)), NEW e \in Seq(S)
  PROVE  FlattenSeq(Append(ss, e)) = FlattenSeq(ss) \o e
<1> DEFINE tt == Append(ss, e)
<1>0. /\ tt \in Seq(Seq(S)) /\ Len(tt) = Len(ss) + 1 /\ tt # <<>>
      /\ \A i \in 1 .. Len(ss) : tt[i] = ss[i]
      /\ tt[Len(ss) + 1] = e /\ Len(ss) \in Nat
  BY AppendProperties
<1> HIDE DEF tt
<1>1. PICK g : Joins(g, tt, Len(tt)) /\ FlattenSeq(tt) = g[Len(tt)]
  BY <1>0, FlattenIs
<1>2. CASE ss = <<>>
  <2>1. FlattenSeq(ss) = <<>>
    BY <1>2 DEF FlattenSeq
  <2>2. FlattenSeq(tt) = e
    BY <1>0, <1>1, <1>2 DEF Joins
  <2>3. <<>> \o e = e
    OBVIOUS
  <2> QED
    BY <2>1, <2>2, <2>3 DEF tt
<1>3. CASE ss # <<>>
  <2>1. PICK f : Joins(f, ss, Len(ss)) /\ FlattenSeq(ss) = f[Len(ss)]
    BY <1>3, FlattenIs
  <2>2. Joins(g, tt, Len(ss))
    BY <1>0, <1>1 DEF Joins
  <2>3. Len(ss) \in 1 .. Len(ss)
    BY <1>3
  <2>4. \A i \in 1 .. Len(ss) : g[i] = f[i]
    <3> DEFINE n == Len(ss)
    <3>1. n \in Nat /\ Joins(f, ss, n) /\ Joins(g, tt, n) /\ \A i \in 1 .. n : tt[i] = ss[i]
      BY <1>0, <2>1, <2>2
    <3> HIDE DEF n
    <3>2. \A i \in 1 .. n : g[i] = f[i]
      BY <3>1, JoinsAgree
    <3> QED
      BY <3>2 DEF n
  <2>5. g[Len(tt)] = g[Len(ss)] \o e
    <3>1. Len(tt) \in 1 .. Len(tt) /\ Len(tt) # 1 /\ Len(tt) - 1 = Len(ss)
      BY <1>0, <2>3
    <3>2. g[Len(tt)] = g[Len(tt) - 1] \o tt[Len(tt)]
      BY <1>1, <3>1 DEF Joins
    <3>3. tt[Len(tt)] = e
      BY <1>0
    <3> QED
      BY <3>1, <3>2, <3>3
  <2> QED
    BY <1>1, <2>1, <2>3, <2>4, <2>5 DEF tt
<1> QED
  BY <1>2, <1>3

\* What is joined from sequences over S is a sequence over S.
LEMMA FlattenType ==
  ASSUME NEW S, NEW ss \in Seq(Seq(S))
  PROVE  FlattenSeq(ss) \in Seq(S)
<1>1. CASE ss = <<>>
  BY <1>1 DEF FlattenSeq
<1>2. CASE ss # <<>>
  <2>1. PICK f : Joins(f, ss, Len(ss)) /\ FlattenSeq(ss) = f[Len(ss)]
    BY <1>2, FlattenIs
  <2> DEFINE T == {k \in 1 .. Len(ss) : f[k] \notin Seq(S)}
  <2>2. T = {}
    <3> SUFFICES ASSUME T # {} PROVE FALSE
      OBVIOUS
    <3>1. PICK m \in T : \A k \in T : m <= k
      <4>1. T \in SUBSET Nat
        OBVIOUS
      <4> HIDE DEF T
      <4> QED
        BY <4>1, Smallest
    <3>2. ss[m] \in Seq(S)
      OBVIOUS
    <3>3. CASE m = 1
      BY <2>1, <3>2, <3>3 DEF Joins
    <3>4. CASE m # 1
      <4>1. m - 1 \in 1 .. Len(ss) /\ m - 1 \notin T
        BY <3>1, <3>4
      <4>2. f[m - 1] \in Seq(S)
        BY <4>1
      <4>3. f[m] = f[m - 1] \o ss[m]
        BY <2>1, <3>4 DEF Joins
      <4> QED
        BY <3>2, <4>2, <4>3, ConcatProperties
    <3> QED
      BY <3>3, <3>4
  <2>3. Len(ss) \in 1 .. Len(ss)
    BY <1>2
  <2> QED
    BY <2>1, <2>2, <2>3
<1> QED
  BY <1>1, <1>2

-----------------------------------------------------------------------------
(* What a line shows.                                                      *)

\* n glyphs of colour c.
Run(n, c) == [j \in 1 .. n |-> c]

\* The runs of glyphs that the strides of a line stand for.
Rows(line) == [k \in DOMAIN line |-> Run(line[k].len, line[k].color)]

\* A run is a sequence of colours.
LEMMA RunType ==
  ASSUME NEW n \in Nat, NEW c \in Color
  PROVE  Run(n, c) \in Seq(Color) /\ Len(Run(n, c)) = n
BY DEF Run

\* One glyph more after a run is a run that is longer by one.
LEMMA RunNext ==
  ASSUME NEW s \in Seq(Color), NEW n \in Nat, NEW c \in Color
  PROVE  s \o Run(n + 1, c) = Append(s \o Run(n, c), c)
<1>1. Run(n, c) \in Seq(Color) /\ Run(n + 1, c) \in Seq(Color)
  BY RunType
<1>2. Len(Run(n, c)) = n /\ Len(Run(n + 1, c)) = n + 1
  BY RunType
<1> DEFINE q == Run(n, c)
           r == Run(n + 1, c)
           t == s \o q
<1>3. \A i \in 1 .. n + 1 : r[i] = c
  BY DEF Run
<1>4. \A i \in 1 .. n : q[i] = c
  BY DEF Run
<1>5. /\ q \in Seq(Color) /\ Len(q) = n
      /\ r \in Seq(Color) /\ Len(r) = n + 1
  BY <1>1, <1>2
<1> HIDE DEF q, r
<1>6. /\ t \in Seq(Color) /\ Len(t) = Len(s) + n
      /\ \A i \in 1 .. Len(s) + n : t[i] = IF i <= Len(s) THEN s[i] ELSE c
  <2>1. /\ t \in Seq(Color) /\ Len(t) = Len(s) + n
        /\ \A i \in 1 .. Len(s) + n : t[i] = IF i <= Len(s) THEN s[i] ELSE q[i - Len(s)]
    BY <1>5, ConcatProperties
  <2>2. \A i \in 1 .. Len(s) + n : i > Len(s) => i - Len(s) \in 1 .. n
    OBVIOUS
  <2> HIDE DEF t
  <2> QED
    BY <1>4, <2>1, <2>2
<1> HIDE DEF t
<1> DEFINE a == s \o r
           b == Append(t, c)
<1>7. /\ a \in Seq(Color) /\ Len(a) = Len(s) + n + 1
      /\ \A i \in 1 .. Len(s) + n + 1 : a[i] = IF i <= Len(s) THEN s[i] ELSE c
  <2>1. /\ a \in Seq(Color) /\ Len(a) = Len(s) + (n + 1)
        /\ \A i \in 1 .. Len(s) + (n + 1) : a[i] = IF i <= Len(s) THEN s[i] ELSE r[i - Len(s)]
    <3>1. /\ a \in Seq(Color) /\ Len(a) = Len(s) + Len(r)
          /\ \A i \in 1 .. Len(s) + Len(r) : a[i] = IF i <= Len(s) THEN s[i] ELSE r[i - Len(s)]
      BY <1>5, ConcatProperties
    <3> HIDE DEF a
    <3> QED
      BY <1>5, <3>1
  <2>2. \A i \in 1 .. Len(s) + (n + 1) : i > Len(s) => i - Len(s) \in 1 .. n + 1
    OBVIOUS
  <2>3. Len(s) + (n + 1) = Len(s) + n + 1
    OBVIOUS
  <2> HIDE DEF a
  <2> QED
    BY <1>3, <2>1, <2>2, <2>3
<1>8. /\ b \in Seq(Color) /\ Len(b) = Len(s) + n + 1
      /\ \A i \in 1 .. Len(s) + n + 1 : b[i] = IF i <= Len(s) THEN s[i] ELSE c
  <2>1. b \in Seq(Color) /\ Len(b) = Len(t) + 1 /\ b[Len(t) + 1] = c
        /\ \A i \in 1 .. Len(t) : b[i] = t[i]
    BY <1>6, AppendProperties
  <2> HIDE DEF b
  <2>2. \A i \in 1 .. Len(s) + n + 1 : i \in 1 .. Len(t) \/ i = Len(t) + 1
    BY <1>6
  <2> QED
    BY <1>6, <2>1, <2>2
<1> HIDE DEF a, b
<1>9. a = b
  <2>1. \A i \in 1 .. Len(a) : a[i] = b[i]
    BY <1>7, <1>8
  <2> QED
    BY <1>7, <1>8, <2>1, SeqEqual
<1> QED
  BY <1>9 DEF a, b, t, q, r

\* The runs of a line are sequences of colours.
LEMMA RowsType ==
  ASSUME NEW line \in Seq(Stride)
  PROVE  Rows(line) \in Seq(Seq(Color)) /\ Len(Rows(line)) = Len(line)
<1>1. ASSUME NEW k \in DOMAIN line PROVE Run(line[k].len, line[k].color) \in Seq(Color)
  <2>1. line[k] \in Stride
    OBVIOUS
  <2>2. line[k].len \in Nat /\ line[k].color \in Color
    BY <2>1 DEF Stride
  <2> QED
    BY <2>2, RunType
<1>2. DOMAIN line = 1 .. Len(line) /\ Len(line) \in Nat
  OBVIOUS
<1> QED
  BY <1>1, <1>2 DEF Rows

\* A line is drawn row by row.
LEMMA DrawnRows ==
  ASSUME NEW line
  PROVE  Drawn(line) = FlattenSeq(Rows(line))
BY DEF Drawn, Rows, Run

\* A line shows a sequence of colours.
LEMMA DrawnType ==
  ASSUME NEW line \in Seq(Stride)
  PROVE  Drawn(line) \in Seq(Color)
BY RowsType, DrawnRows, FlattenType

\* A line without strides shows nothing.
LEMMA DrawnEmpty == Drawn(<<>>) = <<>>
<1>1. Rows(<<>>) = <<>>
  BY DEF Rows
<1>2. FlattenSeq(<<>>) = <<>>
  BY DEF FlattenSeq
<1> QED
  BY <1>1, <1>2, DrawnRows

\* One stride more is drawn after the others.
LEMMA DrawnAppend ==
  ASSUME NEW line \in Seq(Stride), NEW st \in Stride
  PROVE  Drawn(Append(line, st)) = Drawn(line) \o Run(st.len, st.color)
<1> DEFINE e == Run(st.len, st.color)
<1>1. e \in Seq(Color)
  BY RunType DEF Stride
<1>2. Rows(line) \in Seq(Seq(Color)) /\ Len(Rows(line)) = Len(line)
  BY RowsType
<1>3. Append(line, st) \in Seq(Stride) /\ Len(Append(line, st)) = Len(line) + 1
  BY AppendProperties
<1>4. Rows(Append(line, st)) \in Seq(Seq(Color)) /\ Len(Rows(Append(line, st))) = Len(line) + 1
  BY <1>3, RowsType
<1>5. Append(Rows(line), e) \in Seq(Seq(Color)) /\ Len(Append(Rows(line), e)) = Len(line) + 1
  BY <1>1, <1>2, AppendProperties
<1>6. ASSUME NEW i \in 1 .. Len(line) + 1
      PROVE  Rows(Append(line, st))[i] = Append(Rows(line), e)[i]
  <2>0. i \in DOMAIN Append(line, st)
    BY <1>3
  <2>1. CASE i = Len(line) + 1
    <3>1. Append(line, st)[i] = st
      BY <2>1, AppendProperties
    <3>2. Rows(Append(line, st))[i] = e
      BY <2>0, <3>1 DEF Rows
    <3>3. Append(Rows(line), e)[i] = e
      BY <1>1, <1>2, <2>1, AppendProperties
    <3> QED
      BY <3>2, <3>3
  <2>2. CASE i # Len(line) + 1
    <3>1. i \in 1 .. Len(line) /\ i \in DOMAIN line
      BY <2>2
    <3>2. Append(line, st)[i] = line[i]
      BY <3>1, AppendProperties
    <3>3. Append(Rows(line), e)[i] = Rows(line)[i]
      BY <1>1, <1>2, <3>1, AppendProperties
    <3> QED
      BY <2>0, <3>1, <3>2, <3>3 DEF Rows
  <2> QED
    BY <2>1, <2>2
<1>7. Rows(Append(line, st)) = Append(Rows(line), e)
  <2> DEFINE a == Rows(Append(line, st))
             b == Append(Rows(line), e)
  <2> HIDE DEF a, b
  <2>1. a \in Seq(Seq(Color)) /\ b \in Seq(Seq(Color)) /\ Len(a) = Len(b)
    BY <1>4, <1>5 DEF a, b
  <2>2. \A i \in 1 .. Len(a) : a[i] = b[i]
    BY <1>4, <1>6 DEF a, b
  <2>3. a = b
    BY <2>1, <2>2, SeqEqual
  <2> QED
    BY <2>3 DEF a, b
<1>8. FlattenSeq(Append(Rows(line), e)) = FlattenSeq(Rows(line)) \o e
  BY <1>1, <1>2, FlattenAppend
<1> QED
  BY <1>7, <1>8, DrawnRows

-----------------------------------------------------------------------------
(* The lines and the window.                                               *)

USE SizesAssumption

\* The line counters stay in their width.
LinesOK ==
  /\ conAbsCurLine \in 0 .. LineModulus - 1
  /\ conAbsTopLine \in 0 .. LineModulus - 1

\* Counting a line keeps the counter in its width.
LEMMA NextLineType ==
  ASSUME NEW n \in 0 .. LineModulus - 1
  PROVE  NextLine(n) \in 0 .. LineModulus - 1
BY DEF NextLine

\* The window that ends with the line filled last starts at a line.
LEMMA TailTopType ==
  ASSUME LinesOK
  PROVE  TailTop \in 0 .. LineModulus - 1 /\ TailTop <= conAbsCurLine
BY DEF LinesOK, TailTop, Least

\* What a step does to the lines: it begins a line, scrolls, or neither.
LEMMA LineSteps ==
  ASSUME [Next]_vars
  PROVE  \/ /\ conAbsCurLine' = NextLine(conAbsCurLine)
            /\ conAbsTopLine' = NextTop(conAbsCurLine')
         \/ Scroll /\ UNCHANGED conAbsCurLine
         \/ UNCHANGED lineVars
<1>1. \/ BeginPrint \/ Glyph \/ SkipCharacter \/ EndAtLine \/ EndWithinLine
      \/ (\E c \in Color : SetColor(c))
      => UNCHANGED lineVars
  BY DEF BeginPrint, Glyph, SkipCharacter, EndAtLine, EndWithinLine, SetColor
<1>2. CASE LastGlyph \/ LineFeed
  BY <1>2 DEF LastGlyph, LineFeed, NewLine
<1>3. CASE Scroll
  BY <1>3 DEF Scroll, cscroll, ResetScroll
<1>4. CASE UNCHANGED vars
  BY <1>4 DEF vars
<1> QED
  BY <1>1, <1>2, <1>3, <1>4 DEF Next

\* Scrolling stays within the text.
LEMMA ScrollType ==
  ASSUME LinesOK, Scroll
  PROVE  conAbsTopLine' \in 0 .. LineModulus - 1
<1>1. ASSUME NEW step \in {-1, 1}, cscroll(step) PROVE conAbsTopLine' \in 0 .. LineModulus - 1
  <2> DEFINE ub == conAbsCurLine - Least(BufLines, conAbsCurLine)
  <2> DEFINE bounded == IF conAbsTopLine + step < ub THEN ub ELSE conAbsTopLine + step
  <2>1. ub \in Nat /\ bounded \in Int /\ bounded >= ub
    BY DEF LinesOK, Least, BufLines
  <2>2. conAbsTopLine' = IF bounded > TailTop THEN TailTop ELSE bounded
    BY <1>1 DEF cscroll
  <2> HIDE DEF ub, bounded
  <2> QED
    BY <2>1, <2>2, TailTopType
<1> QED
  BY <1>1, TailTopType DEF Scroll, ResetScroll

\* Every step keeps the line counters in their width.
LEMMA LinesOKNext == LinesOK /\ [Next]_vars => LinesOK'
<1> SUFFICES ASSUME LinesOK, [Next]_vars PROVE LinesOK'
  OBVIOUS
<1>1. CASE conAbsCurLine' = NextLine(conAbsCurLine) /\ conAbsTopLine' = NextTop(conAbsCurLine')
  <2>1. NextLine(conAbsCurLine) \in 0 .. LineModulus - 1
    BY NextLineType DEF LinesOK
  <2>2. NextLine(conAbsTopLine) \in 0 .. LineModulus - 1
    BY NextLineType DEF LinesOK
  <2> QED
    BY <1>1, <2>1, <2>2 DEF LinesOK, NextTop
<1>2. CASE Scroll /\ UNCHANGED conAbsCurLine
  BY <1>2, ScrollType DEF LinesOK
<1>3. CASE UNCHANGED lineVars
  BY <1>3 DEF lineVars, LinesOK
<1> QED
  BY <1>1, <1>2, <1>3, LineSteps

\* In every behaviour the line counters stay in their width.
LEMMA SpecLinesOK == Spec => []LinesOK
<1>1. Init => LinesOK
  BY DEF Init, LinesOK, BufLines
<1> QED
  BY <1>1, LinesOKNext, PTL DEF Spec

\* A window at the end of the text follows it, until the user scrolls or the line
\* counter starts again from 0.
THEOREM WindowFollows == Spec => FollowsTail
<1>1. ASSUME LinesOK, [Next]_vars, Following
      PROVE  Following' \/ Scroll \/ conAbsCurLine' < conAbsCurLine
  <2>1. CASE /\ conAbsCurLine' = NextLine(conAbsCurLine)
             /\ conAbsTopLine' = NextTop(conAbsCurLine')
    <3>1. CASE conAbsCurLine + 1 = LineModulus
      BY <1>1, <2>1, <3>1, SizesAssumption DEF NextLine, LinesOK, BufLines
    <3>2. CASE conAbsCurLine + 1 # LineModulus /\ conAbsCurLine < LineNum
      BY <1>1, <2>1, <3>2 DEF NextLine, NextTop, LinesOK, Following, TailTop, Least
    <3>3. CASE conAbsCurLine + 1 # LineModulus /\ conAbsCurLine >= LineNum
      <4>1. conAbsTopLine = conAbsCurLine - LineNum
        BY <1>1, <3>3 DEF LinesOK, Following, TailTop, Least
      <4>2. conAbsTopLine' = NextLine(conAbsTopLine) /\ conAbsCurLine' = conAbsCurLine + 1
        BY <2>1, <3>3, <4>1, <1>1 DEF NextTop, NextLine, LinesOK
      <4>3. conAbsTopLine' = conAbsTopLine + 1
        BY <1>1, <3>3, <4>1, <4>2 DEF NextLine, LinesOK
      <4> QED
        BY <1>1, <3>3, <4>1, <4>2, <4>3 DEF LinesOK, Following, TailTop, Least
    <3> QED
      BY <1>1, <3>1, <3>2, <3>3 DEF LinesOK
  <2>2. CASE UNCHANGED lineVars
    BY <1>1, <2>2 DEF lineVars, Following, TailTop, Least
  <2> QED
    BY <1>1, <2>1, <2>2, LineSteps
<1>2. LinesOK /\ [Next]_vars
        => [Following => Following' \/ Scroll \/ conAbsCurLine' < conAbsCurLine]_vars
  BY <1>1
<1> QED
  BY <1>2, SpecLinesOK, PTL DEF Spec, FollowsTail

\* A window the user moved up shows the same lines until the user moves it again.
THEOREM WindowStays == Spec => StaysScrolled
<1>1. ASSUME LinesOK, [Next]_vars, conAbsTopLine < TailTop
      PROVE  conAbsTopLine' = conAbsTopLine \/ Scroll
  <2>1. CASE /\ conAbsCurLine' = NextLine(conAbsCurLine)
             /\ conAbsTopLine' = NextTop(conAbsCurLine')
    BY <1>1, <2>1 DEF NextLine, NextTop, LinesOK, TailTop, Least
  <2>2. CASE UNCHANGED lineVars
    BY <2>2 DEF lineVars
  <2> QED
    BY <1>1, <2>1, <2>2, LineSteps
<1>2. LinesOK /\ [Next]_vars
        => [conAbsTopLine < TailTop => conAbsTopLine' = conAbsTopLine \/ Scroll]_vars
  BY <1>1
<1> QED
  BY <1>2, SpecLinesOK, PTL DEF Spec, StaysScrolled

-----------------------------------------------------------------------------
(* Types.                                                                  *)

\* A stride that ends at column p fits in the line.
LEMMA ClosedType ==
  ASSUME TypeOK, NEW p \in conPos .. StrLen
  PROVE  Closed(p) \in Seq(Stride) /\ Len(Closed(p)) = Len(strides) + 1
<1>1. [len |-> p - lastStridePos, color |-> color] \in Stride
  <2>1. p - lastStridePos \in 0 .. StrLen
    BY DEF TypeOK
  <2> QED
    BY <2>1 DEF TypeOK, Stride
<1>2. strides \in Seq(Stride)
  BY DEF TypeOK
<1> QED
  BY <1>1, <1>2, AppendProperties DEF Closed

\* A new line has the type of one.
LEMMA NewLineTypes ==
  ASSUME TypeOK, LinesOK', NEW p \in conPos .. StrLen, NEW c \in Color,
         NEW glyphs \in Seq(Color), NewLine(p, c, glyphs),
         ink' \in Color, printing' \in Printing
  PROVE  TypeOK'
<1>1. conCurLine' \in 0 .. BufLines - 1
  BY DEF NewLine, TypeOK, BufLines
<1>2. filled' \in Seq(Stride) /\ Len(filled') <= StrLen
  BY ClosedType DEF NewLine, TypeOK
<1>3. strides' \in Seq(Stride) /\ Len(strides') < StrLen
  BY DEF NewLine
<1>4. conPos' \in 0 .. StrLen - 1 /\ lastStridePos' \in 0 .. conPos'
  BY DEF NewLine
<1>5. color' \in Color /\ text' \in Seq(Color) /\ filledText' \in Seq(Color)
  BY DEF NewLine
<1> QED
  BY <1>1, <1>2, <1>3, <1>4, <1>5 DEF TypeOK, LinesOK

\* Every step keeps the types.
LEMMA TypeOKNext == TypeOK /\ [Next]_vars => TypeOK'
<1> SUFFICES ASSUME TypeOK, [Next]_vars PROVE TypeOK'
  OBVIOUS
<1>1. LinesOK'
  BY LinesOKNext DEF TypeOK, LinesOK
<1>2. Append(text, ink) \in Seq(Color)
  BY AppendProperties DEF TypeOK
<1>3. CASE BeginPrint
  BY <1>3 DEF BeginPrint, TypeOK, lineVars, Printing
<1>4. CASE Glyph
  BY <1>2, <1>4 DEF Glyph, TypeOK, lineVars, strideVars, Printing
<1>5. CASE LastGlyph
  <2>1. StrLen \in conPos .. StrLen /\ color \in Color
    BY DEF TypeOK
  <2>2. ink' \in Color /\ printing' \in Printing
    BY <1>5 DEF LastGlyph, TypeOK, Printing
  <2> QED
    BY <1>1, <1>2, <1>5, <2>1, <2>2, NewLineTypes DEF LastGlyph
<1>6. CASE LineFeed
  <2>1. conPos \in conPos .. StrLen /\ text \in Seq(Color)
    BY DEF TypeOK
  <2>2. ink' \in Color /\ printing' \in Printing
    BY <1>6, ColorAssumption DEF LineFeed, Printing
  <2> QED
    BY <1>1, <1>6, <2>1, <2>2, ColorAssumption, NewLineTypes DEF LineFeed
<1>7. ASSUME NEW c \in Color, SetColor(c) PROVE TypeOK'
  <2>1. Closed(conPos) \in Seq(Stride) /\ Len(Closed(conPos)) = Len(strides) + 1
    BY ClosedType DEF TypeOK
  <2> QED
    BY <1>7, <2>1 DEF SetColor, HasRoom, TypeOK, lineVars, Printing
<1>8. CASE SkipCharacter
  BY <1>8 DEF SkipCharacter, TypeOK, lineVars, strideVars, Printing
<1>9. CASE EndAtLine
  BY <1>9 DEF EndAtLine, TypeOK, lineVars, strideVars, Printing
<1>10. CASE EndWithinLine
  <2>1. Closed(conPos) \in Seq(Stride) /\ Len(Closed(conPos)) = Len(strides) + 1
    BY ClosedType DEF TypeOK
  <2> QED
    BY <1>10, <2>1 DEF EndWithinLine, HasRoom, TypeOK, lineVars, Printing
<1>11. CASE Scroll
  BY <1>1, <1>11 DEF Scroll, cscroll, ResetScroll, TypeOK, LinesOK, strideVars, Printing
<1>12. CASE UNCHANGED vars
  BY <1>12 DEF vars, TypeOK, lineVars, strideVars
<1> QED
  BY <1>3, <1>4, <1>5, <1>6, <1>7, <1>8, <1>9, <1>10, <1>11, <1>12 DEF Next

\* Every variable of the text keeps its type; wrapping, line ends and the end of a call
\* keep to the line's array of strides when the colours do.
THEOREM TextTypes == Spec => []TypeOK
<1>1. Init => TypeOK
  BY ColorAssumption DEF Init, TypeOK, BufLines, Printing
<1> QED
  BY <1>1, TypeOKNext, PTL DEF Spec

-----------------------------------------------------------------------------
(* What is written.                                                        *)

\* The line filled last is drawn as it was written, and so is the line being filled when
\* its open stride is drawn up to the next glyph.
Written ==
  /\ ink = color
  /\ printing # "within" => lastStridePos = conPos
  /\ Drawn(strides) \o Run(conPos - lastStridePos, color) = text
  /\ Drawn(filled) = filledText

\* Closing the open stride at column p draws it up to there.
LEMMA DrawnClosed ==
  ASSUME TypeOK, NEW p \in conPos .. StrLen
  PROVE  Drawn(Closed(p)) = Drawn(strides) \o Run(p - lastStridePos, color)
<1> DEFINE st == [len |-> p - lastStridePos, color |-> color]
<1>1. p - lastStridePos \in 0 .. StrLen
  BY DEF TypeOK
<1>2. st \in Stride /\ st.len = p - lastStridePos /\ st.color = color
  BY <1>1 DEF TypeOK, Stride
<1>3. strides \in Seq(Stride)
  BY DEF TypeOK
<1> HIDE DEF st
<1>4. Drawn(Append(strides, st)) = Drawn(strides) \o Run(st.len, st.color)
  BY <1>2, <1>3, DrawnAppend
<1> QED
  BY <1>2, <1>4 DEF Closed, st

\* What is drawn up to column p, when a stride that starts there is empty.
LEMMA NothingOpen ==
  ASSUME NEW s \in Seq(Color), NEW c
  PROVE  s \o Run(0, c) = s
<1>1. Run(0, c) = <<>>
  BY DEF Run
<1>2. s \o <<>> = s
  OBVIOUS
<1> QED
  BY <1>1, <1>2

\* What does not touch the lines or the strides keeps what is written.
LEMMA WrittenKept ==
  ASSUME Written, UNCHANGED <<conPos, strides, color, lastStridePos, filled, ink, text, filledText>>,
         printing' # "within" => lastStridePos = conPos
  PROVE  Written'
BY DEF Written

\* A new line is empty, and the line it follows is drawn as it was written.
LEMMA WrittenNewLine ==
  ASSUME TypeOK, Written, NEW p \in conPos .. StrLen, NEW c \in Color, NEW glyphs,
         NewLine(p, c, glyphs), ink' = c,
         Drawn(strides) \o Run(p - lastStridePos, color) = glyphs
  PROVE  Written'
<1>1. strides' = <<>> /\ color' = c /\ lastStridePos' = 0 /\ conPos' = 0 /\ text' = <<>>
      /\ filled' = Closed(p) /\ filledText' = glyphs
  BY DEF NewLine
<1>2. Drawn(strides') \o Run(conPos' - lastStridePos', color') = text'
  <2>1. Drawn(strides') = <<>> /\ conPos' - lastStridePos' = 0
    BY <1>1, DrawnEmpty
  <2>2. <<>> \o Run(0, c) = <<>>
    BY DEF Run
  <2> QED
    BY <1>1, <2>1, <2>2
<1>3. Drawn(filled') = filledText'
  BY <1>1, DrawnClosed
<1> QED
  BY <1>1, <1>2, <1>3 DEF Written

\* Every step keeps what is written.
LEMMA WrittenNext == TypeOK /\ Written /\ [Next]_vars => Written'
<1> SUFFICES ASSUME TypeOK, Written, [Next]_vars PROVE Written'
  OBVIOUS
<1> DEFINE shown == Drawn(strides)
<1>0. shown \in Seq(Color) /\ conPos - lastStridePos \in Nat /\ conPos \in Nat
      /\ color \in Color /\ ink = color
  BY DrawnType DEF TypeOK, Written
<1>00. shown \o Run(conPos - lastStridePos, color) = text
  BY DEF Written
<1>1. CASE BeginPrint
  <2>1. printing # "within"
    BY <1>1 DEF BeginPrint
  <2> QED
    BY <1>1, <2>1, WrittenKept DEF BeginPrint, Written
<1>2. ASSUME conPos' = conPos + 1, text' = Append(text, ink), printing' = "within",
             UNCHANGED <<strides, color, lastStridePos, filled, ink, filledText>>
      PROVE  Written'
  <2>1. conPos' - lastStridePos' = conPos - lastStridePos + 1
    BY <1>0, <1>2 DEF TypeOK
  <2>2. shown \o Run(conPos - lastStridePos + 1, color) = Append(text, ink)
    BY <1>0, <1>00, RunNext
  <2> QED
    BY <1>2, <2>1, <2>2 DEF Written
<1>3. CASE Glyph
  BY <1>2, <1>3 DEF Glyph, strideVars
<1>4. CASE LastGlyph
  <2>1. StrLen \in conPos .. StrLen /\ StrLen - lastStridePos = conPos - lastStridePos + 1
    BY <1>4 DEF LastGlyph, TypeOK
  <2>2. shown \o Run(conPos - lastStridePos + 1, color) = Append(text, ink)
    BY <1>0, <1>00, RunNext
  <2>3. NewLine(StrLen, color, Append(text, ink)) /\ ink' = color
    BY <1>0, <1>4 DEF LastGlyph
  <2> QED
    BY <1>0, <2>1, <2>2, <2>3, WrittenNewLine
<1>5. CASE LineFeed
  <2>1. conPos \in conPos .. StrLen
    BY DEF TypeOK
  <2>2. NewLine(conPos, TextColor, text) /\ ink' = TextColor
    BY <1>5 DEF LineFeed
  <2> QED
    BY <1>00, <2>1, <2>2, WrittenNewLine, ColorAssumption
<1>6. ASSUME NEW c \in Color, strides' = Closed(conPos), lastStridePos' = conPos, color' = c,
             ink' = c, UNCHANGED <<conPos, filled, text, filledText>>
      PROVE  Written'
  <2>1. conPos \in conPos .. StrLen
    BY DEF TypeOK
  <2>2. Drawn(Closed(conPos)) = text
    BY <1>00, <2>1, DrawnClosed
  <2>3. text \in Seq(Color)
    BY DEF TypeOK
  <2>4. text \o Run(0, c) = text
    BY <2>3, NothingOpen
  <2>5. conPos' - lastStridePos' = 0
    BY <1>0, <1>6
  <2> QED
    BY <1>6, <2>2, <2>4, <2>5 DEF Written
<1>7. CASE \E c \in Color : SetColor(c)
  BY <1>6, <1>7 DEF SetColor
<1>8. CASE SkipCharacter
  BY <1>8, WrittenKept DEF SkipCharacter, strideVars
<1>9. CASE EndAtLine
  <2>1. printing # "within"
    BY <1>9 DEF EndAtLine
  <2> QED
    BY <1>9, <2>1, WrittenKept DEF EndAtLine, strideVars, Written
<1>10. CASE EndWithinLine
  BY <1>0, <1>6, <1>10 DEF EndWithinLine
<1>11. CASE Scroll
  <2>1. UNCHANGED <<conPos, strideVars, printing, filled, ink, text, filledText>>
    BY <1>11 DEF Scroll, cscroll, ResetScroll
  <2> QED
    BY <2>1, WrittenKept DEF strideVars, Written
<1>12. CASE UNCHANGED vars
  BY <1>12, WrittenKept DEF vars, strideVars, Written
<1> QED
  BY <1>1, <1>3, <1>4, <1>5, <1>7, <1>8, <1>9, <1>10, <1>11, <1>12 DEF Next

\* A line shows every glyph once and in the colour that was asked for it, for lines,
\* texts and calls of any length and any set of colours.
THEOREM LinesAreDrawnAsWritten == Spec => []DrawnAsWritten
<1>1. Init => Written
  <2>1. <<>> \o Run(0, TextColor) = <<>>
    BY DEF Run
  <2> QED
    BY <2>1, DrawnEmpty DEF Init, Written
<1>2. TypeOK /\ Written => DrawnAsWritten
  <2> SUFFICES ASSUME TypeOK, Written PROVE DrawnAsWritten
    OBVIOUS
  <2>1. ASSUME printing = "no" PROVE Drawn(strides) = text
    <3>1. conPos - lastStridePos = 0
      BY <2>1 DEF TypeOK, Written
    <3>2. Drawn(strides) \o Run(0, color) = Drawn(strides)
      <4>1. Drawn(strides) \in Seq(Color)
        BY DrawnType DEF TypeOK
      <4> QED
        BY <4>1, NothingOpen
    <3> QED
      BY <3>1, <3>2 DEF Written
  <2> QED
    BY <2>1 DEF DrawnAsWritten, Written
<1> QED
  BY <1>1, <1>2, WrittenNext, TextTypes, PTL DEF Spec

-----------------------------------------------------------------------------
(* The ring.                                                               *)

\* The place of the next line in a ring of b lines.
LEMMA NextPlace ==
  ASSUME NEW b \in Nat \ {0}, NEW n \in Nat
  PROVE  (n + 1) % b = (IF n % b = b - 1 THEN 0 ELSE (n % b) + 1)
<1> DEFINE q == n \div b
           r == n % b
<1>1. q \in Int /\ r \in 0 .. b - 1 /\ n = b * q + r
  OBVIOUS
<1> DEFINE k == (n + 1) \div b
           s == (n + 1) % b
<1>2. k \in Int /\ s \in 0 .. b - 1 /\ n + 1 = b * k + s
  OBVIOUS
<1> HIDE DEF q, r, k, s
<1>3. b * (k - q) = r + 1 - s /\ k - q \in Int
  BY <1>1, <1>2
<1>4. r + 1 - s \in 1 - b + 1 .. b
  BY <1>1, <1>2
<1>5. k - q = 0 \/ k - q = 1
  <2>1. CASE k - q >= 2
    <3>1. b * (k - q) >= b * 2
      BY <1>3, <2>1
    <3> QED
      BY <1>3, <1>4, <3>1
  <2>2. CASE k - q <= -1
    <3>1. b * (k - q) <= b * (-1)
      BY <1>3, <2>2
    <3> QED
      BY <1>3, <1>4, <3>1
  <2> QED
    BY <1>3, <2>1, <2>2
<1>6. s = r + 1 \/ (s = r + 1 - b)
  <2>1. b * 0 = 0 /\ b * 1 = b
    OBVIOUS
  <2> QED
    BY <1>1, <1>2, <1>3, <1>5, <2>1
<1>7. s = (IF r = b - 1 THEN 0 ELSE r + 1)
  BY <1>1, <1>2, <1>6
<1> QED
  BY <1>7 DEF r, s

\* ConsoleRender finds a line where cprint put it, for any sizes of the ring and the
\* counter, until the counter starts again from 0.
THEOREM RingKeepsStep == Spec => RingInStep
<1>1. ASSUME TypeOK, [Next]_vars, InStep
      PROVE  InStep' \/ conAbsCurLine' < conAbsCurLine
  <2>1. CASE LastGlyph \/ LineFeed
    <3>1. /\ conAbsCurLine' = NextLine(conAbsCurLine)
          /\ conCurLine' = IF conCurLine = BufLines - 1 THEN 0 ELSE conCurLine + 1
      BY <2>1 DEF LastGlyph, LineFeed, NewLine
    <3>2. CASE conAbsCurLine + 1 = LineModulus
      BY <1>1, <3>1, <3>2 DEF NextLine, TypeOK, BufLines
    <3>3. CASE conAbsCurLine + 1 # LineModulus
      <4>1. conAbsCurLine' = conAbsCurLine + 1
        BY <3>1, <3>3 DEF NextLine
      <4>2. conAbsCurLine \in Nat /\ BufLines \in Nat \ {0}
        BY <1>1 DEF TypeOK, BufLines
      <4>3. (conAbsCurLine + 1) % BufLines
              = (IF conAbsCurLine % BufLines = BufLines - 1 THEN 0 ELSE (conAbsCurLine % BufLines) + 1)
        BY <4>2, NextPlace
      <4>4. conCurLine' = conAbsCurLine' % BufLines
        BY <1>1, <3>1, <4>1, <4>3 DEF InStep
      <4> QED
        BY <4>4 DEF InStep
    <3> QED
      BY <3>2, <3>3
  <2>2. CASE ~(LastGlyph \/ LineFeed)
    <3>1. UNCHANGED <<conAbsCurLine, conCurLine>>
      BY <1>1, <2>2 DEF Next, vars, lineVars, BeginPrint, Glyph, SkipCharacter, EndAtLine,
        EndWithinLine, SetColor, Scroll, cscroll, ResetScroll
    <3> QED
      BY <1>1, <3>1 DEF InStep
  <2> QED
    BY <2>1, <2>2
<1>2. TypeOK /\ [Next]_vars => [InStep => InStep' \/ conAbsCurLine' < conAbsCurLine]_vars
  BY <1>1
<1> QED
  BY <1>2, TextTypes, PTL DEF Spec, RingInStep

=============================================================================
