----------------------- MODULE DisplayCallbacksProofs -----------------------
(***************************************************************************)
(* Proofs about DisplayCallbacks, for every size of the table, every set   *)
(* of functions and rectangles, and updates nested to any depth.           *)
(***************************************************************************)
EXTENDS DisplayCallbacks, SequenceTheorems, TLAPS

USE SlotsAssumption, CallbackAssumption

-----------------------------------------------------------------------------
(* Rectangles.                                                             *)

\* The rectangles of a program or of the firmware.
LEMMA RectType ==
  ASSUME NEW r \in Rect
  PROVE  /\ r.x1 \in Coordinate /\ r.y1 \in Coordinate
         /\ r.x2 \in Coordinate /\ r.y2 \in Coordinate
BY DEF Rect

\* The rectangle that stands for the whole display is one.
LEMMA NullType == null_rect \in Rect /\ null_rect \in [x1 : Int, y1 : Int, x2 : Int, y2 : Int]
BY DEF null_rect, Rect, Coordinate

\* A difference of two coordinates, or the next coordinate, fits an INT16.
LEMMA Int16Fits ==
  ASSUME NEW n \in Int, n >= -32000, n <= 32001
  PROVE  Int16(n) = n
BY DEF Int16

\* The lesser of two coordinates is one of them.
LEMMA LesserIs ==
  ASSUME NEW a \in Int, NEW b \in Int
  PROVE  Lesser(a, b) \in {a, b} /\ Lesser(a, b) <= a /\ Lesser(a, b) <= b
BY DEF Lesser

\* So is the greater one.
LEMMA GreaterIs ==
  ASSUME NEW a \in Int, NEW b \in Int
  PROVE  Greater(a, b) \in {a, b} /\ Greater(a, b) >= a /\ Greater(a, b) >= b
BY DEF Greater

\* The fields of the common part.
LEMMA ClippedIs ==
  ASSUME NEW r1 \in Rect, NEW r2 \in Rect, r1 # null_rect, r2 # null_rect
  PROVE  /\ Clipped(r1, r2).x1 = Greater(r1.x1, r2.x1)
         /\ Clipped(r1, r2).y1 = Greater(r1.y1, r2.y1)
         /\ Clipped(r1, r2).x2 = Lesser(r1.x2, r2.x2) + 1
         /\ Clipped(r1, r2).y2 = Lesser(r1.y2, r2.y2) + 1
         /\ Clipped(r1, r2) \in [x1 : Int, y1 : Int, x2 : Int, y2 : Int]
<1>1. /\ r1.x1 \in Int /\ r1.y1 \in Int /\ r2.x1 \in Int /\ r2.y1 \in Int
      /\ r1.x2 \in Coordinate /\ r1.y2 \in Coordinate
      /\ r2.x2 \in Coordinate /\ r2.y2 \in Coordinate
  BY RectType DEF Coordinate
<1>2. /\ Lesser(r1.x2, r2.x2) \in Coordinate
      /\ Lesser(r1.y2, r2.y2) \in Coordinate
  BY <1>1 DEF Lesser
<1>3. /\ Int16(Lesser(r1.x2, r2.x2) + 1) = Lesser(r1.x2, r2.x2) + 1
      /\ Int16(Lesser(r1.y2, r2.y2) + 1) = Lesser(r1.y2, r2.y2) + 1
  BY <1>2, Int16Fits DEF Coordinate
<1>4. Greater(r1.x1, r2.x1) \in Int /\ Greater(r1.y1, r2.y1) \in Int
  BY <1>1 DEF Greater
<1> QED
  BY <1>2, <1>3, <1>4 DEF Clipped, Coordinate

\* The part is a rectangle in any case.
LEMMA ClippedType ==
  ASSUME NEW r1 \in Rect, NEW r2 \in Rect
  PROVE  Clipped(r1, r2) \in [x1 : Int, y1 : Int, x2 : Int, y2 : Int]
<1>1. \A r \in Rect : r \in [x1 : Int, y1 : Int, x2 : Int, y2 : Int]
  BY DEF Rect, Coordinate
<1>2. CASE r1 = null_rect \/ r2 = null_rect
  BY <1>1, <1>2 DEF Clipped
<1>3. CASE r1 # null_rect /\ r2 # null_rect
  BY <1>3, ClippedIs
<1> QED
  BY <1>2, <1>3

\* Rectangles that overlap for the test before the update overlap for the test after it.
THEOREM PreImpliesPost ==
  ASSUME NEW r1 \in Rect, NEW r2 \in Rect, UtilIsRectIntersect(r1, r2)
  PROVE  UtilRectIntersect(r1, r2)
<1>1. CASE r1 = null_rect \/ r2 = null_rect
  BY <1>1 DEF UtilRectIntersect
<1>2. CASE r1 # null_rect /\ r2 # null_rect
  <2> DEFINE lx == Lesser(r1.x2, r2.x2)
             gx == Greater(r1.x1, r2.x1)
             ly == Lesser(r1.y2, r2.y2)
             gy == Greater(r1.y1, r2.y1)
  <2>1. lx \in Coordinate /\ gx \in Coordinate /\ ly \in Coordinate /\ gy \in Coordinate
    BY RectType DEF Lesser, Greater
  <2>2. Int16(lx - gx) > 0 /\ Int16(ly - gy) > 0
    BY <1>2 DEF UtilIsRectIntersect
  <2> HIDE DEF lx, gx, ly, gy
  <2>3. /\ lx - gx \in Int /\ lx - gx >= -32000 /\ lx - gx <= 32001
        /\ ly - gy \in Int /\ ly - gy >= -32000 /\ ly - gy <= 32001
    BY <2>1 DEF Coordinate
  <2>4. lx - gx > 0 /\ ly - gy > 0
    BY <2>2, <2>3, Int16Fits
  <2>5. lx + 1 - gx > 0 /\ ly + 1 - gy > 0
    BY <2>1, <2>4 DEF Coordinate
  <2>6. /\ Clipped(r1, r2).x2 = lx + 1 /\ Clipped(r1, r2).x1 = gx
        /\ Clipped(r1, r2).y2 = ly + 1 /\ Clipped(r1, r2).y1 = gy
    BY <1>2, ClippedIs DEF lx, gx, ly, gy
  <2>7. /\ Clipped(r1, r2).x2 - Clipped(r1, r2).x1 > 0
        /\ Clipped(r1, r2).y2 - Clipped(r1, r2).y1 > 0
    BY <2>1, <2>5, <2>6 DEF Coordinate
  <2> QED
    BY <2>7 DEF UtilRectIntersect
<1> QED
  BY <1>1, <1>2

\* The common part is not empty, and lies in both rectangles.
THEOREM CommonPart ==
  ASSUME NEW r1 \in Rect, NEW r2 \in Rect, r1 # null_rect, r2 # null_rect,
         UtilRectIntersect(r1, r2)
  PROVE  LET c == Clipped(r1, r2)
         IN /\ c.x1 < c.x2 /\ c.y1 < c.y2
            /\ \A p \in {<<c.x1, c.y1>>, <<c.x2 - 1, c.y2 - 1>>} :
                 Inside(p[1], p[2], r1) /\ Inside(p[1], p[2], r2)
<1> DEFINE c == Clipped(r1, r2)
<1>1. c.x2 - c.x1 > 0 /\ c.y2 - c.y1 > 0
  BY DEF UtilRectIntersect
<1>2. /\ r1.x1 \in Int /\ r1.y1 \in Int /\ r1.x2 \in Int /\ r1.y2 \in Int
      /\ r2.x1 \in Int /\ r2.y1 \in Int /\ r2.x2 \in Int /\ r2.y2 \in Int
  BY RectType DEF Coordinate
<1>3. /\ c.x1 \in Int /\ c.x1 >= r1.x1 /\ c.x1 >= r2.x1
      /\ c.y1 \in Int /\ c.y1 >= r1.y1 /\ c.y1 >= r2.y1
  BY <1>2, ClippedIs, GreaterIs
<1>4. /\ c.x2 \in Int /\ c.x2 - 1 <= r1.x2 /\ c.x2 - 1 <= r2.x2
      /\ c.y2 \in Int /\ c.y2 - 1 <= r1.y2 /\ c.y2 - 1 <= r2.y2
  <2>1. /\ c.x2 = Lesser(r1.x2, r2.x2) + 1 /\ c.y2 = Lesser(r1.y2, r2.y2) + 1
    BY ClippedIs
  <2>2. /\ Lesser(r1.x2, r2.x2) \in Int /\ Lesser(r1.y2, r2.y2) \in Int
        /\ Lesser(r1.x2, r2.x2) <= r1.x2 /\ Lesser(r1.x2, r2.x2) <= r2.x2
        /\ Lesser(r1.y2, r2.y2) <= r1.y2 /\ Lesser(r1.y2, r2.y2) <= r2.y2
    BY <1>2, LesserIs
  <2> QED
    BY <1>2, <2>1, <2>2
<1> HIDE DEF c
<1>5. c.x1 < c.x2 /\ c.y1 < c.y2
  BY <1>1, <1>3, <1>4
<1>6. Inside(c.x1, c.y1, r1) /\ Inside(c.x1, c.y1, r2)
  BY <1>2, <1>3, <1>4, <1>5 DEF Inside
<1>7. Inside(c.x2 - 1, c.y2 - 1, r1) /\ Inside(c.x2 - 1, c.y2 - 1, r2)
  BY <1>2, <1>3, <1>4, <1>5 DEF Inside
<1>8. \A p \in {<<c.x1, c.y1>>, <<c.x2 - 1, c.y2 - 1>>} :
        Inside(p[1], p[2], r1) /\ Inside(p[1], p[2], r2)
  BY <1>6, <1>7
<1> QED
  BY <1>5, <1>8 DEF c

-----------------------------------------------------------------------------
(* The passes.                                                             *)

USE RectAssumption

\* What a pass owes it would still call.
Owes(f) == \A i \in f.owed : f.i <= i /\ Calls(f.hook, f.upd, i)

\* The slot whose function runs is within the table and no longer owed a call.
Runs(f) == f.running => f.i \in Slot \ f.owed

\* A frame as it should be.
Good(f) == f \in Frame /\ Owes(f) /\ Runs(f) /\ ShareOf(f)

\* The types of the table.
TableOK ==
  /\ dispCallbacks \in [Slot -> Callback \cup {None}]
  /\ dispCbkRects \in [Slot -> Target \cup {null_rect}]
  /\ dispCbkPostFlags \in SUBSET Slot
  /\ promised \in SUBSET (Callback \X Target \X BOOLEAN)

\* What is inductive.
IInv ==
  /\ TableOK
  /\ stack \in Seq(Frame)
  /\ \A k \in 1 .. Len(stack) : Good(stack[k])

\* At first nothing is registered and nothing runs.
LEMMA InitIInv == Init => IInv
BY DEF Init, IInv, TableOK

\* The innermost frame.
LEMMA TopGood ==
  ASSUME IInv, stack # <<>>
  PROVE  Len(stack) \in 1 .. Len(stack) /\ Top \in Frame /\ Good(Top)
<1>1. Len(stack) \in Nat \ {0}
  BY DEF IInv
<1> QED
  BY <1>1 DEF IInv, Top

\* The innermost frame may be replaced by a good one.
LEMMA ContinueKeeps ==
  ASSUME IInv, stack # <<>>, NEW f, Good(f), Continue(f), UNCHANGED <<tableVars, promised>>
  PROVE  IInv'
<1>1. Len(stack) \in 1 .. Len(stack)
  BY TopGood
<1>2. f \in Frame
  BY DEF Good
<1>3. stack' \in Seq(Frame) /\ Len(stack') = Len(stack)
  BY <1>1, <1>2 DEF IInv, Continue
<1>4. \A k \in 1 .. Len(stack) : stack'[k] = IF k = Len(stack) THEN f ELSE stack[k]
  BY <1>1 DEF IInv, Continue
<1>5. TableOK'
  BY DEF IInv, TableOK, tableVars
<1>6. \A g : Good(g) => Good(g)'
  BY DEF Good, Owes, Runs, Calls, tableVars
<1>7. \A k \in 1 .. Len(stack') : (Good(stack[k]))'
  <2> SUFFICES ASSUME NEW k \in 1 .. Len(stack) PROVE (Good(stack[k]))'
    BY <1>3
  <2>1. Good(stack[k])
    BY DEF IInv
  <2> QED
    BY <1>4, <1>6, <2>1
<1> QED
  BY <1>3, <1>5, <1>7 DEF IInv

\* A pass that begins is good.
LEMMA PassGood ==
  ASSUME TableOK, NEW hook \in {"pre", "post"}, NEW upd \in Update
  PROVE  Good(Pass(hook, upd))
<1>1. Pass(hook, upd) \in Frame
  BY NullType DEF Pass, Frame, Slot
<1>2. Owes(Pass(hook, upd))
  BY DEF Owes, Pass, Slot
<1>3. ShareOf(Pass(hook, upd))
  BY DEF ShareOf, Pass
<1>4. Runs(Pass(hook, upd))
  BY DEF Runs, Pass
<1> QED
  BY <1>1, <1>2, <1>3, <1>4 DEF Good

\* A slot that is skipped is owed nothing.
LEMMA SkipKeeps == IInv /\ Skip => IInv'
<1> SUFFICES ASSUME IInv, Skip PROVE IInv'
  OBVIOUS
<1> DEFINE f == [Top EXCEPT !.i = @ + 1]
<1>1. stack # <<>> /\ Top.i < MAX_DISPCBK /\ ~Calls(Top.hook, Top.upd, Top.i)
      /\ ~Top.running /\ Continue(f) /\ UNCHANGED <<tableVars, promised>>
  BY DEF Skip, Scanning
<1>2. Top \in Frame /\ Good(Top)
  BY <1>1, TopGood
<1>3. f \in Frame
  BY <1>1, <1>2 DEF Frame
<1>4. /\ f.i = Top.i + 1 /\ f.owed = Top.owed /\ f.hook = Top.hook /\ f.upd = Top.upd
      /\ f.running = Top.running /\ f.given = Top.given /\ f.target = Top.target
  BY <1>2 DEF Frame
<1>5. Top.i \in Int /\ Top.owed \in SUBSET Int
  BY <1>2 DEF Frame, Slot
<1> HIDE DEF f
<1>6. Owes(f)
  BY <1>1, <1>2, <1>4, <1>5 DEF Good, Owes
<1>7. ShareOf(f)
  BY <1>2, <1>4 DEF Good, ShareOf
<1>8. Runs(f)
  BY <1>1, <1>4 DEF Runs
<1> QED
  BY <1>1, <1>3, <1>6, <1>7, <1>8, ContinueKeeps DEF Good

\* A function that is called has its share.
LEMMA CallKeeps == IInv /\ Call => IInv'
<1> SUFFICES ASSUME IInv, Call PROVE IInv'
  OBVIOUS
<1> DEFINE share == IF Top.hook = "pre" THEN Top.upd
                    ELSE Clipped(Top.upd, dispCbkRects[Top.i])
           f == [Top EXCEPT !.running = TRUE, !.target = dispCbkRects[Top.i],
                            !.given = share, !.owed = @ \ {Top.i}]
<1>1. stack # <<>> /\ Top.i < MAX_DISPCBK /\ Calls(Top.hook, Top.upd, Top.i)
      /\ Continue(f) /\ UNCHANGED <<tableVars, promised>>
  BY DEF Call, Scanning
<1>2. Top \in Frame /\ Good(Top) /\ Top.i \in Slot
  BY <1>1, TopGood DEF Frame, Slot
<1>3. /\ Top.upd \in Rect
      /\ dispCbkRects[Top.i] \in Target \cup {null_rect}
      /\ dispCbkRects[Top.i] \in Rect
  BY <1>2, NullType DEF Frame, IInv, TableOK
<1>4. share \in [x1 : Int, y1 : Int, x2 : Int, y2 : Int]
  BY <1>3, ClippedType DEF Rect, Coordinate
<1> HIDE DEF share
<1>5. f \in Frame
  BY <1>2, <1>3, <1>4 DEF Frame
<1>6. /\ f.i = Top.i /\ f.owed = Top.owed \ {Top.i} /\ f.hook = Top.hook /\ f.upd = Top.upd
      /\ f.given = share /\ f.target = dispCbkRects[Top.i]
  BY <1>2 DEF Frame
<1> HIDE DEF f
<1>7. Owes(f)
  BY <1>2, <1>6 DEF Good, Owes
<1>8. ASSUME Top.hook = "pre" PROVE ShareOf(f)
  <2>1. UtilRectIntersect(Top.upd, dispCbkRects[Top.i])
    BY <1>1, <1>3, <1>8, PreImpliesPost DEF Calls
  <2>2. f.hook # "post"
    BY <1>6, <1>8
  <2> QED
    BY <1>6, <2>1, <2>2 DEF ShareOf
<1>9. ASSUME Top.hook = "post" PROVE ShareOf(f)
  <2>1. UtilRectIntersect(Top.upd, dispCbkRects[Top.i])
    BY <1>1, <1>9 DEF Calls
  <2>2. share = Clipped(Top.upd, dispCbkRects[Top.i])
    BY <1>9 DEF share
  <2>3. f.hook # "pre" /\ f.upd \in Rect /\ f.target \in Rect
        /\ UtilRectIntersect(f.upd, f.target) /\ f.given = Clipped(f.upd, f.target)
    BY <1>3, <1>6, <1>9, <2>1, <2>2
  <2>4. ASSUME f.upd # null_rect, f.target # null_rect
        PROVE  /\ f.given.x1 < f.given.x2 /\ f.given.y1 < f.given.y2
               /\ \A p \in {<<f.given.x1, f.given.y1>>, <<f.given.x2 - 1, f.given.y2 - 1>>} :
                    Inside(p[1], p[2], f.upd) /\ Inside(p[1], p[2], f.target)
    BY <2>3, <2>4, CommonPart
  <2> QED
    BY <2>3, <2>4 DEF ShareOf
<1>10. ShareOf(f)
  BY <1>2, <1>8, <1>9 DEF Frame
<1>11. Runs(f)
  BY <1>2, <1>6 DEF Runs
<1> QED
  BY <1>1, <1>5, <1>7, <1>10, <1>11, ContinueKeeps DEF Good

\* The pass goes on when the callback returns.
LEMMA ReturnKeeps == IInv /\ Return => IInv'
<1> SUFFICES ASSUME IInv, Return PROVE IInv'
  OBVIOUS
<1> DEFINE f == [Top EXCEPT !.running = FALSE, !.i = @ + 1,
                            !.given = null_rect, !.target = null_rect]
<1>1. stack # <<>> /\ Top.running /\ Continue(f) /\ UNCHANGED <<tableVars, promised>>
  BY DEF Return
<1>2. Top \in Frame /\ Good(Top) /\ Top.i \in Slot
  BY <1>1, TopGood DEF Good, Runs
<1>3. f \in Frame
  <2>1. Top.i + 1 \in 0 .. MAX_DISPCBK
    BY <1>2 DEF Slot
  <2>2. null_rect \in Target \cup {null_rect}
    OBVIOUS
  <2> QED
    BY <1>2, <2>1, <2>2, NullType DEF Frame
<1>4. /\ f.i = Top.i + 1 /\ f.owed = Top.owed /\ f.hook = Top.hook /\ f.upd = Top.upd
      /\ ~f.running
  BY <1>2 DEF Frame
<1>5. Top.i \in Int /\ Top.owed \in SUBSET Int /\ Top.i \notin Top.owed
  BY <1>1, <1>2 DEF Frame, Slot, Good, Runs
<1> HIDE DEF f
<1>6. Owes(f)
  BY <1>2, <1>4, <1>5 DEF Good, Owes
<1>7. ShareOf(f) /\ Runs(f)
  BY <1>4 DEF ShareOf, Runs
<1> QED
  BY <1>1, <1>3, <1>6, <1>7, ContinueKeeps DEF Good

\* The second pass begins.
LEMMA WriteKeeps == IInv /\ WriteDisplay => IInv'
<1> SUFFICES ASSUME IInv, WriteDisplay PROVE IInv'
  OBVIOUS
<1>1. stack # <<>> /\ Continue(Pass("post", Top.upd)) /\ UNCHANGED <<tableVars, promised>>
  BY DEF WriteDisplay, PassOver
<1>2. Top.upd \in Update
  BY <1>1, TopGood DEF Frame
<1>3. Good(Pass("post", Top.upd))
  BY <1>2, PassGood DEF IInv
<1> QED
  BY <1>1, <1>3, ContinueKeeps

\* The innermost update ends.
LEMMA EndKeeps == IInv /\ EndUpdate => IInv'
<1> SUFFICES ASSUME IInv, EndUpdate PROVE IInv'
  OBVIOUS
<1>1. stack # <<>> /\ stack' = SubSeq(stack, 1, Len(stack) - 1)
      /\ UNCHANGED <<tableVars, promised>>
  BY DEF EndUpdate, PassOver
<1>2. Len(stack) \in 1 .. Len(stack)
  BY <1>1, TopGood
<1>3. /\ stack' \in Seq(Frame) /\ Len(stack') = Len(stack) - 1
      /\ \A k \in 1 .. Len(stack) - 1 : stack'[k] = stack[k]
  <2> DEFINE n == Len(stack) - 1
  <2>1. n \in Nat /\ 1 \in Int /\ n \in Int
    BY <1>2
  <2>2. \A k \in 1 .. n : stack[k] \in Frame
    BY <1>2 DEF IInv
  <2> HIDE DEF n
  <2>3. /\ SubSeq(stack, 1, n) \in Seq(Frame)
        /\ Len(SubSeq(stack, 1, n)) = IF 1 <= n THEN n - 1 + 1 ELSE 0
        /\ \A k \in 1 .. n - 1 + 1 : SubSeq(stack, 1, n)[k] = stack[1 + k - 1]
    BY <2>1, <2>2, SubSeqProperties
  <2>4. Len(SubSeq(stack, 1, n)) = n /\ \A k \in 1 .. n : SubSeq(stack, 1, n)[k] = stack[k]
    BY <2>1, <2>3
  <2> QED
    BY <1>1, <2>3, <2>4 DEF n
<1>4. TableOK'
  BY <1>1 DEF IInv, TableOK, tableVars
<1>5. \A g : Good(g) => Good(g)'
  BY <1>1 DEF Good, Owes, Runs, Calls, tableVars
<1>6. \A k \in 1 .. Len(stack') : (Good(stack[k]))'
  <2> SUFFICES ASSUME NEW k \in 1 .. Len(stack) - 1 PROVE (Good(stack[k]))'
    BY <1>3
  <2>1. Good(stack[k]) /\ stack'[k] = stack[k]
    BY <1>2, <1>3 DEF IInv
  <2> QED
    BY <1>5, <2>1
<1> QED
  BY <1>3, <1>4, <1>6 DEF IInv

\* An update begins, from the firmware or from a callback.
LEMMA BeginKeeps ==
  ASSUME IInv, NEW upd \in Update, BeginUpdate(upd)
  PROVE  IInv'
<1> DEFINE f == Pass("pre", upd)
<1>1. stack' = Append(stack, f) /\ UNCHANGED <<tableVars, promised>>
  BY DEF BeginUpdate
<1>2. Good(f)
  BY PassGood DEF IInv
<1> HIDE DEF f
<1>3. f \in Frame
  BY <1>2 DEF Good
<1>4. /\ stack' \in Seq(Frame) /\ Len(stack') = Len(stack) + 1 /\ Len(stack) \in Nat
      /\ \A k \in 1 .. Len(stack) : stack'[k] = stack[k]
      /\ stack'[Len(stack) + 1] = f
  BY <1>1, <1>3 DEF IInv
<1>5. TableOK'
  BY <1>1 DEF IInv, TableOK, tableVars
<1>6. \A g : Good(g) => Good(g)'
  BY <1>1 DEF Good, Owes, Runs, Calls, tableVars
<1>7. \A k \in 1 .. Len(stack') : (Good(stack[k]))'
  <2> SUFFICES ASSUME NEW k \in 1 .. Len(stack) + 1 PROVE (Good(stack[k]))'
    BY <1>4
  <2>1. CASE k = Len(stack) + 1
    BY <1>2, <1>4, <1>6, <2>1
  <2>2. CASE k \in 1 .. Len(stack)
    <3>1. Good(stack[k]) /\ stack'[k] = stack[k]
      BY <1>4, <2>2 DEF IInv
    <3> QED
      BY <1>6, <3>1
  <2> QED
    BY <1>4, <2>1, <2>2
<1> QED
  BY <1>4, <1>5, <1>7 DEF IInv

\* A function is registered: the slot was free, so no frame owes it anything.
LEMMA RegKeeps ==
  ASSUME IInv, NEW cbk \in Callback, NEW target \in Target, NEW postflush \in BOOLEAN,
         ldrDisplayCbkReg(cbk, target, postflush)
  PROVE  IInv'
<1>1. PICK i \in Free :
        /\ dispCallbacks' = [dispCallbacks EXCEPT ![i] = cbk]
        /\ dispCbkRects' = [dispCbkRects EXCEPT ![i] = target]
        /\ dispCbkPostFlags' = (IF postflush THEN dispCbkPostFlags \cup {i} ELSE dispCbkPostFlags \ {i})
  BY DEF ldrDisplayCbkReg
<1>2. promised' = promised \cup {<<cbk, target, postflush>>} /\ stack' = stack
  BY DEF ldrDisplayCbkReg
<1>3. i \in Slot /\ dispCallbacks[i] = None
  BY DEF Free
<1>4. TableOK'
  BY <1>1, <1>2, <1>3 DEF IInv, TableOK
<1>5. ASSUME NEW hook, NEW upd, NEW j \in Slot, Calls(hook, upd, j)
      PROVE  Calls(hook, upd, j)'
  <2>1. j # i
    BY <1>3, <1>5 DEF Calls
  <2>2. /\ dispCallbacks'[j] = dispCallbacks[j] /\ dispCbkRects'[j] = dispCbkRects[j]
        /\ j \in dispCbkPostFlags' <=> j \in dispCbkPostFlags
    BY <1>1, <2>1 DEF IInv, TableOK
  <2> QED
    BY <1>5, <2>2 DEF Calls
<1>6. ASSUME NEW f \in Frame, Good(f) PROVE Good(f)'
  <2>1. f.owed \in SUBSET Slot
    BY DEF Frame
  <2>2. Owes(f)'
    BY <1>5, <1>6, <2>1 DEF Good, Owes
  <2> QED
    BY <1>6, <2>2 DEF Good, Runs
<1>7. \A k \in 1 .. Len(stack') : (Good(stack[k]))'
  BY <1>2, <1>6 DEF IInv
<1> QED
  BY <1>2, <1>4, <1>7 DEF IInv

\* A function is unregistered: its slots are taken from what is owed.
LEMMA UnRegKeeps ==
  ASSUME IInv, NEW cbk \in Callback, ldrDisplayCbkUnReg(cbk)
  PROVE  IInv'
<1>0. PICK S : S = SlotsOf(cbk)
  OBVIOUS
<1>1. /\ dispCallbacks' = [i \in Slot |-> IF i \in S THEN None ELSE dispCallbacks[i]]
      /\ stack' = [k \in DOMAIN stack |-> [stack[k] EXCEPT !.owed = @ \ S]]
      /\ promised' = {p \in promised : p[1] # cbk}
      /\ dispCbkRects' = dispCbkRects /\ dispCbkPostFlags' = dispCbkPostFlags
  BY <1>0 DEF ldrDisplayCbkUnReg, Forgiven
<1>2. TableOK'
  BY <1>1 DEF IInv, TableOK
<1>3. ASSUME NEW hook, NEW upd, NEW j \in Slot \ S, Calls(hook, upd, j)
      PROVE  Calls(hook, upd, j)'
  BY <1>1, <1>3 DEF Calls
<1>4. ASSUME NEW f, Good(f)
      PROVE  (Good([f EXCEPT !.owed = @ \ S]))'
  <2> DEFINE g == [f EXCEPT !.owed = @ \ S]
  <2>1. f \in Frame /\ g \in Frame /\ f.owed \in SUBSET Slot
    BY <1>4 DEF Good, Frame
  <2>2. /\ g.owed = f.owed \ S /\ g.hook = f.hook /\ g.upd = f.upd /\ g.i = f.i
        /\ g.running = f.running /\ g.given = f.given /\ g.target = f.target
    BY <2>1 DEF Frame
  <2> HIDE DEF g
  <2>3. ASSUME NEW j \in g.owed PROVE g.i <= j /\ Calls(g.hook, g.upd, j)'
    <3>1. j \in f.owed /\ j \in Slot \ S
      BY <2>1, <2>2
    <3>2. f.i <= j /\ Calls(f.hook, f.upd, j)
      BY <1>4, <3>1 DEF Good, Owes
    <3> QED
      BY <1>3, <2>2, <3>1, <3>2
  <2>4. Owes(g)'
    BY <2>3 DEF Owes
  <2>5. Runs(g)'
    BY <1>4, <2>2 DEF Good, Runs
  <2>6. ShareOf(g)'
    BY <1>4, <2>2 DEF Good, ShareOf
  <2> QED
    BY <2>1, <2>4, <2>5, <2>6 DEF Good, g
<1>5. stack' \in Seq(Frame) /\ Len(stack') = Len(stack)
  <2>1. DOMAIN stack = 1 .. Len(stack) /\ Len(stack) \in Nat
    BY DEF IInv
  <2>2. ASSUME NEW k \in 1 .. Len(stack) PROVE [stack[k] EXCEPT !.owed = @ \ S] \in Frame
    <3>1. stack[k] \in Frame
      BY DEF IInv
    <3> QED
      BY <3>1 DEF Frame
  <2> QED
    BY <1>1, <2>1, <2>2
<1>6. ASSUME NEW k \in 1 .. Len(stack') PROVE (Good(stack[k]))'
  <2>1. DOMAIN stack = 1 .. Len(stack) /\ k \in 1 .. Len(stack)
    BY <1>5 DEF IInv
  <2>2. Good(stack[k]) /\ stack'[k] = [stack[k] EXCEPT !.owed = @ \ S]
    BY <1>1, <2>1 DEF IInv
  <2>3. PICK f : f = stack[k]
    OBVIOUS
  <2> QED
    BY <1>4, <2>2, <2>3
<1> QED
  BY <1>2, <1>5, <1>6 DEF IInv

\* Every step keeps the invariant.
LEMMA IInvNext == IInv /\ [Next]_vars => IInv'
<1>1. IInv /\ UNCHANGED vars => IInv'
  BY DEF vars, tableVars, IInv, TableOK, Good, Owes, Runs, Calls
<1> QED
  BY <1>1, SkipKeeps, CallKeeps, ReturnKeeps, WriteKeeps, EndKeeps, BeginKeeps, RegKeeps,
     UnRegKeeps DEF Next

\* What the invariant says of the properties.
LEMMA IInvImplies == IInv => TypeOK /\ NoneMissed /\ GetsItsShare
BY DEF IInv, TableOK, TypeOK, NoneMissed, GetsItsShare, Good, Owes

\* The variables keep their types, and a frame its form.
THEOREM DisplayTypes == Spec => []TypeOK
BY InitIInv, IInvNext, IInvImplies, PTL DEF Spec

\* Every function registered throughout a pass is called by it, whatever the
\* functions called before it did to the table.
THEOREM NobodyIsMissed == Spec => []NoneMissed
BY InitIInv, IInvNext, IInvImplies, PTL DEF Spec

\* Every function is called with a part of the update that lies in its rectangle.
THEOREM EverybodyGetsTheirShare == Spec => []GetsItsShare
BY InitIInv, IInvNext, IInvImplies, PTL DEF Spec

-----------------------------------------------------------------------------
(* The table.                                                              *)

\* The table with its types is what the programs registered.
LEMMA TableNext == IInv /\ TableAsPromised /\ [Next]_vars => TableAsPromised'
<1> SUFFICES ASSUME IInv, TableAsPromised, [Next]_vars PROVE TableAsPromised'
  OBVIOUS
<1>1. ASSUME UNCHANGED <<tableVars, promised>> PROVE TableAsPromised'
  BY <1>1 DEF TableAsPromised, Registered, Free, tableVars
<1>2. ASSUME NEW cbk \in Callback, NEW target \in Target, NEW postflush \in BOOLEAN,
             ldrDisplayCbkReg(cbk, target, postflush)
      PROVE  TableAsPromised'
  <2>1. PICK i \in Free :
          /\ dispCallbacks' = [dispCallbacks EXCEPT ![i] = cbk]
          /\ dispCbkRects' = [dispCbkRects EXCEPT ![i] = target]
          /\ dispCbkPostFlags' = (IF postflush THEN dispCbkPostFlags \cup {i} ELSE dispCbkPostFlags \ {i})
    BY <1>2 DEF ldrDisplayCbkReg
  <2>2. i \in Slot /\ (Slot \ Free)' = (Slot \ Free) \cup {i} /\ i \notin Slot \ Free
    BY <2>1 DEF Free, IInv, TableOK
  <2>3. /\ dispCallbacks'[i] = cbk /\ dispCbkRects'[i] = target
        /\ (i \in dispCbkPostFlags') = postflush
    BY <2>1, <2>2 DEF IInv, TableOK
  <2>4. \A j \in Slot \ Free :
          /\ dispCallbacks'[j] = dispCallbacks[j] /\ dispCbkRects'[j] = dispCbkRects[j]
          /\ (j \in dispCbkPostFlags') = (j \in dispCbkPostFlags)
    BY <2>1, <2>2 DEF IInv, TableOK
  <2>5. Registered' = Registered \cup {<<cbk, target, postflush>>}
    BY <2>2, <2>3, <2>4 DEF Registered
  <2> QED
    BY <1>2, <2>5 DEF TableAsPromised, ldrDisplayCbkReg
<1>3. ASSUME NEW cbk \in Callback, ldrDisplayCbkUnReg(cbk) PROVE TableAsPromised'
  <2>1. /\ dispCallbacks' = [i \in Slot |-> IF i \in SlotsOf(cbk) THEN None ELSE dispCallbacks[i]]
        /\ promised' = {p \in promised : p[1] # cbk}
        /\ dispCbkRects' = dispCbkRects /\ dispCbkPostFlags' = dispCbkPostFlags
    BY <1>3 DEF ldrDisplayCbkUnReg
  <2>2. (Slot \ Free)' = (Slot \ Free) \ SlotsOf(cbk)
    BY <2>1 DEF Free
  <2>3. Registered' = {p \in Registered : p[1] # cbk}
    BY <2>1, <2>2 DEF Registered, SlotsOf, Free
  <2> QED
    BY <2>1, <2>3 DEF TableAsPromised
<1>4. ASSUME NEW upd \in Update, BeginUpdate(upd) PROVE UNCHANGED <<tableVars, promised>>
  BY <1>4 DEF BeginUpdate
<1>5. ASSUME Skip \/ Call \/ Return \/ WriteDisplay \/ EndUpdate
      PROVE  UNCHANGED <<tableVars, promised>>
  BY <1>5 DEF Skip, Call, Return, WriteDisplay, EndUpdate, PassOver
<1>6. ASSUME UNCHANGED vars PROVE UNCHANGED <<tableVars, promised>>
  BY <1>6 DEF vars
<1> QED
  BY <1>1, <1>2, <1>3, <1>4, <1>5, <1>6 DEF Next

\* At first the table is empty.
LEMMA InitTable == Init => TableAsPromised
BY DEF Init, TableAsPromised, Registered, Free

\* The table holds what is registered, with its own rectangle and its own side of the
\* update, and nothing else.
THEOREM TableKeepsPromises == Spec => []TableAsPromised
BY InitIInv, IInvNext, InitTable, TableNext, PTL DEF Spec

=============================================================================
