-------------------------- MODULE DisplayCallbacks --------------------------
(***************************************************************************)
(* The display callbacks of ElfPack 2 (dispCallBacks.c and the tests of    *)
(* overlap of utils.c).                                                    *)
(*                                                                         *)
(* Programs register functions for a part of the display. When the firmware*)
(* updates the display, the injected code runs through the table before    *)
(* the update (cbkDisplayHookPre) and again after it (cbkDisplayHookPost), *)
(* and calls each function whose rectangle overlaps the update. A function *)
(* that is called may register and unregister functions, itself too, and   *)
(* may draw, which starts another update inside the one that runs.         *)
(*                                                                         *)
(* Of a frame, owed and target are history, and so is promised.            *)
(***************************************************************************)
EXTENDS Integers, Sequences

CONSTANTS
  MAX_DISPCBK,  \* slots of the table
  Callback,     \* functions of the programs
  Target,       \* rectangles that are registered
  Update,       \* rectangles that are updated
  MaxDepth,     \* updates inside one another (a bound of the model)
  None          \* the null pointer

ASSUME SlotsAssumption == MAX_DISPCBK \in Nat \ {0}

ASSUME CallbackAssumption == None \notin Callback

\* Far from the ends of INT16, as the coordinates of a display are.
Coordinate == {c \in Int : c >= -16000 /\ c <= 16000}

Rect == [x1 : Coordinate, y1 : Coordinate, x2 : Coordinate, y2 : Coordinate]

ASSUME RectAssumption == Target \subseteq Rect /\ Update \subseteq Rect

VARIABLES
  dispCallbacks,     \* the function in each slot
  dispCbkRects,      \* its rectangle
  dispCbkPostFlags,  \* the slots whose bit is set: called after the update
  stack,             \* the updates that run, the innermost last
  promised           \* what the programs have registered and not unregistered

tableVars == <<dispCallbacks, dispCbkRects, dispCbkPostFlags>>
vars == <<tableVars, stack, promised>>

Slot == 0 .. MAX_DISPCBK - 1

null_rect == [x1 |-> 0, y1 |-> 0, x2 |-> 0, y2 |-> 0]

-----------------------------------------------------------------------------
(* utils.c                                                                 *)

\* An assignment to an INT16.
Int16(n) == ((n + 32768) % 65536) - 32768

Lesser(a, b) == IF a <= b THEN a ELSE b

Greater(a, b) == IF a <= b THEN b ELSE a

\* UtilIsRectIntersect: the difference d is an INT16.
UtilIsRectIntersect(r1, r2) ==
  \/ r1 = null_rect
  \/ r2 = null_rect
  \/ /\ Int16(Lesser(r1.x2, r2.x2) - Greater(r1.x1, r2.x1)) > 0
     /\ Int16(Lesser(r1.y2, r2.y2) - Greater(r1.y1, r2.y1)) > 0

\* Mutant: the right and lower edges of the two rectangles are mixed up.
ClippedMixed(r1, r2) ==
  IF r1 = null_rect THEN r2
  ELSE IF r2 = null_rect THEN r1
  ELSE [x1 |-> Greater(r1.x1, r2.x1), x2 |-> Int16(Greater(r1.x2, r2.x2) + 1),
        y1 |-> Greater(r1.y1, r2.y1), y2 |-> Int16(Lesser(r1.y2, r2.y2) + 1)]

\* What UtilRectIntersect leaves in dst: the common part, with its right and lower
\* edges moved by one.
Clipped(r1, r2) ==
  IF r1 = null_rect THEN r2
  ELSE IF r2 = null_rect THEN r1
  ELSE [x1 |-> Greater(r1.x1, r2.x1), x2 |-> Int16(Lesser(r1.x2, r2.x2) + 1),
        y1 |-> Greater(r1.y1, r2.y1), y2 |-> Int16(Lesser(r1.y2, r2.y2) + 1)]

\* What UtilRectIntersect returns.
UtilRectIntersect(r1, r2) ==
  \/ r1 = null_rect
  \/ r2 = null_rect
  \/ /\ Clipped(r1, r2).x2 - Clipped(r1, r2).x1 > 0
     /\ Clipped(r1, r2).y2 - Clipped(r1, r2).y1 > 0

-----------------------------------------------------------------------------

\* cbkDisplayInit
Init ==
  /\ dispCallbacks = [i \in Slot |-> None]
  /\ dispCbkRects = [i \in Slot |-> null_rect]
  /\ dispCbkPostFlags = {}
  /\ stack = <<>>
  /\ promised = {}

Free == {i \in Slot : dispCallbacks[i] = None}

\* The innermost update.
Top == stack[Len(stack)]

\* A program runs: no update does, or the innermost one has called a callback.
ProgramRuns == stack # <<>> => Top.running

(* Registration.                                                           *)

\* Mutant: the bit of the slot is set for a function called after the update, and
\* not cleared for another.
ldrDisplayCbkRegKeepingBit(cbk, target, postflush) ==
  /\ ProgramRuns
  /\ \E i \in Free :
       /\ \A j \in Free : i <= j
       /\ dispCallbacks' = [dispCallbacks EXCEPT ![i] = cbk]
       /\ dispCbkRects' = [dispCbkRects EXCEPT ![i] = target]
       /\ dispCbkPostFlags' = (IF postflush THEN dispCbkPostFlags \cup {i} ELSE dispCbkPostFlags)
  /\ promised' = promised \cup {<<cbk, target, postflush>>}
  /\ UNCHANGED stack

\* ldrDisplayCbkReg takes the first free slot; with none it returns FALSE.
ldrDisplayCbkReg(cbk, target, postflush) ==
  /\ ProgramRuns
  /\ \E i \in Free :
       /\ \A j \in Free : i <= j
       /\ dispCallbacks' = [dispCallbacks EXCEPT ![i] = cbk]
       /\ dispCbkRects' = [dispCbkRects EXCEPT ![i] = target]
       /\ dispCbkPostFlags' = (IF postflush THEN dispCbkPostFlags \cup {i} ELSE dispCbkPostFlags \ {i})
  /\ promised' = promised \cup {<<cbk, target, postflush>>}
  /\ UNCHANGED stack

\* The slots that hold cbk.
SlotsOf(cbk) == {i \in Slot : dispCallbacks[i] = cbk}

\* Nothing is owed any more to slots that are emptied.
Forgiven(slots) == [k \in DOMAIN stack |-> [stack[k] EXCEPT !.owed = @ \ slots]]

\* Mutant: the last function of the table is moved into the place of the first one
\* that is unregistered.
ldrDisplayCbkUnRegMoving(cbk) ==
  /\ ProgramRuns
  /\ SlotsOf(cbk) # {}
  /\ LET last == MAX_DISPCBK - 1
         hole == CHOOSE i \in SlotsOf(cbk) : \A j \in SlotsOf(cbk) : i <= j
         moves == dispCallbacks[last] \notin {cbk, None}
     IN /\ dispCallbacks' = [i \in Slot |->
             IF i = hole /\ moves THEN dispCallbacks[last]
             ELSE IF i \in SlotsOf(cbk) \/ (i = last /\ moves) THEN None ELSE dispCallbacks[i]]
        /\ dispCbkRects' = (IF moves THEN [dispCbkRects EXCEPT ![hole] = dispCbkRects[last]] ELSE dispCbkRects)
        /\ dispCbkPostFlags' =
             (IF ~moves THEN dispCbkPostFlags
              ELSE IF last \in dispCbkPostFlags THEN dispCbkPostFlags \cup {hole}
              ELSE dispCbkPostFlags \ {hole})
        /\ stack' = [k \in DOMAIN stack |->
             [stack[k] EXCEPT !.owed = {i \in Slot :
                IF i = hole /\ moves THEN last \in @
                ELSE i \in @ /\ i \notin SlotsOf(cbk) /\ ~(i = last /\ moves)}]]
  /\ promised' = {p \in promised : p[1] # cbk}

\* ldrDisplayCbkUnReg empties every slot of the function; rectangles and bits stay.
ldrDisplayCbkUnReg(cbk) ==
  /\ ProgramRuns
  /\ SlotsOf(cbk) # {}
  /\ dispCallbacks' = [i \in Slot |-> IF i \in SlotsOf(cbk) THEN None ELSE dispCallbacks[i]]
  /\ stack' = Forgiven(SlotsOf(cbk))
  /\ promised' = {p \in promised : p[1] # cbk}
  /\ UNCHANGED <<dispCbkRects, dispCbkPostFlags>>

-----------------------------------------------------------------------------
(* The two passes.                                                         *)

\* Whether a pass of the hook calls slot i.
Calls(hook, upd, i) ==
  /\ dispCallbacks[i] # None
  /\ \/ hook = "pre" /\ i \notin dispCbkPostFlags /\ UtilIsRectIntersect(upd, dispCbkRects[i])
     \/ hook = "post" /\ i \in dispCbkPostFlags /\ UtilRectIntersect(upd, dispCbkRects[i])

\* A pass that begins: it owes a call to every slot that it would call now.
Pass(hook, upd) ==
  [hook |-> hook, upd |-> upd, i |-> 0, running |-> FALSE,
   given |-> null_rect, target |-> null_rect,
   owed |-> {i \in Slot : Calls(hook, upd, i)}]

\* The firmware updates a rectangle: UpdateDisplayInjection, up to cbkDisplayHookPre.
BeginUpdate(upd) ==
  /\ ProgramRuns
  /\ Len(stack) < MaxDepth
  /\ stack' = Append(stack, Pass("pre", upd))
  /\ UNCHANGED <<tableVars, promised>>

\* The innermost update goes on as f.
Continue(f) == stack' = [stack EXCEPT ![Len(stack)] = f]

\* An update is between two calls, and its pass is not over.
Scanning == stack # <<>> /\ ~Top.running /\ Top.i < MAX_DISPCBK

\* A slot that is not called.
Skip ==
  /\ Scanning
  /\ ~Calls(Top.hook, Top.upd, Top.i)
  /\ Continue([Top EXCEPT !.i = @ + 1])
  /\ UNCHANGED <<tableVars, promised>>

\* A slot that is called, before the update with the whole rectangle and after it
\* with the common part.
Call ==
  /\ Scanning
  /\ Calls(Top.hook, Top.upd, Top.i)
  /\ Continue([Top EXCEPT !.running = TRUE,
                          !.target = dispCbkRects[Top.i],
                          !.given = IF Top.hook = "pre" THEN Top.upd
                                    ELSE Clipped(Top.upd, dispCbkRects[Top.i]),
                          !.owed = @ \ {Top.i}])
  /\ UNCHANGED <<tableVars, promised>>

\* The callback returns.
Return ==
  /\ stack # <<>>
  /\ Top.running
  /\ Continue([Top EXCEPT !.running = FALSE, !.i = @ + 1,
                          !.given = null_rect, !.target = null_rect])
  /\ UNCHANGED <<tableVars, promised>>

\* A pass is over.
PassOver(hook) ==
  /\ stack # <<>>
  /\ Top.hook = hook
  /\ Top.i = MAX_DISPCBK
  /\ ~Top.running
  /\ UNCHANGED <<tableVars, promised>>

\* DAL_WriteDisplayRegion, and cbkDisplayHookPost begins.
WriteDisplay == PassOver("pre") /\ Continue(Pass("post", Top.upd))

\* The update returns to the firmware, or to the callback that caused it.
EndUpdate == PassOver("post") /\ stack' = SubSeq(stack, 1, Len(stack) - 1)

-----------------------------------------------------------------------------

Next ==
  \/ \E cbk \in Callback, target \in Target, postflush \in BOOLEAN :
       ldrDisplayCbkReg(cbk, target, postflush)
  \/ \E cbk \in Callback : ldrDisplayCbkUnReg(cbk)
  \/ \E upd \in Update : BeginUpdate(upd)
  \/ Skip
  \/ Call
  \/ Return
  \/ WriteDisplay
  \/ EndUpdate

Spec == Init /\ [][Next]_vars

-----------------------------------------------------------------------------
(* Properties.                                                             *)

\* A frame of cbkDisplayHookPre or cbkDisplayHookPost.
Frame ==
  [hook : {"pre", "post"}, upd : Update, i : 0 .. MAX_DISPCBK, running : BOOLEAN,
   given : [x1 : Int, y1 : Int, x2 : Int, y2 : Int], target : Target \cup {null_rect}, owed : SUBSET Slot]

\* Every variable has its type.
TypeOK ==
  /\ dispCallbacks \in [Slot -> Callback \cup {None}]
  /\ dispCbkRects \in [Slot -> Target \cup {null_rect}]
  /\ dispCbkPostFlags \in SUBSET Slot
  /\ stack \in Seq(Frame)
  /\ promised \in SUBSET (Callback \X Target \X BOOLEAN)

\* What the table stands for.
Registered ==
  {<<dispCallbacks[i], dispCbkRects[i], i \in dispCbkPostFlags>> : i \in Slot \ Free}

\* The table is what the programs registered and have not unregistered, for the
\* same rectangle and the same side of the update, whoever had the slot before.
TableAsPromised == Registered = promised

\* A pass never leaves behind a function that it should have called when it began
\* and that stayed registered, whatever the callbacks in between did to the table.
NoneMissed ==
  \A k \in DOMAIN stack : \A i \in stack[k].owed : stack[k].i <= i

\* The pixels of a rectangle, when its right and lower edges belong to it.
Inside(x, y, r) == r = null_rect \/ (x \in r.x1 .. r.x2 /\ y \in r.y1 .. r.y2)

\* A function called after the update gets a part that is not empty and that lies
\* in the update and in its own rectangle; one called before the update shares a
\* pixel with it, so that the stricter test never calls what the other would not.
ShareOf(f) ==
  /\ f.running /\ f.hook = "post" /\ f.upd # null_rect /\ f.target # null_rect =>
       /\ f.given.x1 < f.given.x2 /\ f.given.y1 < f.given.y2
       /\ \A p \in {<<f.given.x1, f.given.y1>>, <<f.given.x2 - 1, f.given.y2 - 1>>} :
            Inside(p[1], p[2], f.upd) /\ Inside(p[1], p[2], f.target)
  /\ f.running /\ f.hook = "pre" => UtilRectIntersect(f.upd, f.target)

\* Every callback that runs gets its share of the update.
GetsItsShare == \A k \in DOMAIN stack : ShareOf(stack[k])

=============================================================================
