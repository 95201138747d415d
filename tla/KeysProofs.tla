----------------------------- MODULE KeysProofs -----------------------------
(***************************************************************************)
(* Proofs about Keys, for every set of keys, every modulus of the counter  *)
(* and every number of timers.                                             *)
(***************************************************************************)
EXTENDS Keys, TLAPS

\* Numbers that differ by a multiple of m leave the same remainder.
LEMMA SameRemainder ==
  ASSUME NEW m \in Nat \ {0}, NEW n \in Nat, NEW n2 \in Nat, NEW j \in Int, n2 = n + m * j
  PROVE  n2 % m = n % m
<1> DEFINE q == n \div m
           r == n % m
           q2 == n2 \div m
           r2 == n2 % m
           k == q2 - (q + j)
<1>1. q \in Int /\ r \in 0 .. m - 1 /\ n = m * q + r
  OBVIOUS
<1>2. q2 \in Int /\ r2 \in 0 .. m - 1 /\ n2 = m * q2 + r2
  OBVIOUS
<1> HIDE DEF q, r, q2, r2
<1>3. m * q2 - m * (q + j) = r - r2
  <2>1. m * (q + j) = m * q + m * j
    BY <1>1
  <2> QED
    BY <1>1, <1>2, <2>1, m * j \in Int
<1>4. k \in Int /\ m * k = r - r2
  BY <1>1, <1>2, <1>3
<1> HIDE DEF k
<1>5. ~(k >= 1)
  BY <1>1, <1>2, <1>4
<1>6. ~(k <= -1)
  BY <1>1, <1>2, <1>4
<1>7. k = 0
  BY <1>4, <1>5, <1>6
<1>8. r = r2
  BY <1>1, <1>2, <1>4, <1>7
<1> QED
  BY <1>8 DEF r, r2

\* The remainder of the next number follows from the remainder of this one.
LEMMA RemainderNext ==
  ASSUME NEW m \in Nat \ {0}, NEW n \in Nat
  PROVE  ((n % m) + 1) % m = (n + 1) % m
<1> DEFINE q == n \div m
           r == n % m
<1>1. q \in Int /\ r \in 0 .. m - 1 /\ n = m * q + r
  OBVIOUS
<1> HIDE DEF q, r
<1>2. r + 1 \in Nat /\ n + 1 \in Nat /\ n + 1 = (r + 1) + m * q
  BY <1>1
<1>3. (n + 1) % m = (r + 1) % m
  BY <1>1, <1>2, SameRemainder
<1> QED
  BY <1>3 DEF r

\* The count that has wrapped and the count that has not leave the same remainder.
LEMMA Wraps ==
  ASSUME NEW m \in Nat \ {0}, NEW c \in 0 .. m - 1, NEW p \in Nat
  PROVE  /\ (c + 1) % m \in 0 .. m - 1
         /\ (((c + 1) % m) + p) % m = (c + p + 1) % m
<1>1. CASE c + 1 < m
  <2>1. (c + 1) % m = c + 1
    BY <1>1
  <2> QED
    BY <1>1, <2>1
<1>2. CASE c + 1 = m
  <2>1. (c + 1) % m = 0
    BY <1>2
  <2>2. c + p + 1 = p + m
    BY <1>2
  <2>3. (p + m) % m = p % m
    BY SameRemainder, 1 \in Int, p + m = p + m * 1, p + m \in Nat
  <2> QED
    BY <2>1, <2>2, <2>3
<1> QED
  BY <1>1, <1>2

-----------------------------------------------------------------------------
(* The keys and their timer.                                               *)

USE KeyAssumption, TickAssumption

\* One timer runs while a key is held and none otherwise, whatever StopTimer does
\* with an expiry that waits.
OneTimer ==
  /\ ktimer <=> lkey # NoKey
  /\ kruns = IF ktimer THEN 1 ELSE 0

\* What is inductive.
KInv == TypeOK /\ OneTimer /\ TicksAreOwn /\ CountsHeldKey

\* The first state: no key is held.
LEMMA InitKInv == Init => KInv
<1> SUFFICES ASSUME Init PROVE KInv
  OBVIOUS
<1>1. 0 \in Count
  BY DEF Count
<1>2. TypeOK
  <2>1. lconsume \in BOOLEAN /\ ktimer \in BOOLEAN /\ locked \in BOOLEAN /\ missed \in BOOLEAN
        /\ lone \in BOOLEAN
    BY Zenon DEF Init
  <2> QED
    BY <1>1, <2>1 DEF Init, TypeOK
<1>3. ~ktimer /\ lkey = NoKey /\ kruns = 0 /\ kpending = 0
  BY Zenon DEF Init
<1>4. OneTimer /\ TicksAreOwn /\ CountsHeldKey
  BY <1>3 DEF OneTimer, TicksAreOwn, CountsHeldKey
<1> QED
  BY <1>2, <1>4 DEF KInv

\* A press starts one timer and stops the one before it.
LEMMA PressKInv ==
  ASSUME KInv, NEW key \in Key, HandleKeypress(key)
  PROVE  KInv'
<1>1. ktimer' /\ kruns' = 1 /\ kpending' = KeyWithdrawn /\ ticks' = 0
  BY DEF HandleKeypress, StartKeyTimer, KInv, OneTimer, TypeOK
<1>2. KeyWithdrawn \in Nat /\ (~LateEvents => KeyWithdrawn = 0)
  BY DEF KeyWithdrawn, KInv, TypeOK, TicksAreOwn, OneTimer
<1>3. lkey' = key /\ lcount' = 0 /\ down' = down \cup {key} /\ locked' = locked
  BY DEF HandleKeypress
<1>4. lconsume' \in BOOLEAN /\ lone' \in BOOLEAN /\ missed' \in BOOLEAN
  <2>1. Consumes(key) \in BOOLEAN
    BY DEF Consumes
  <2> QED
    BY <2>1 DEF HandleKeypress
<1>5. swallowed' \in SUBSET Key
  BY DEF HandleKeypress, KInv, TypeOK
<1>6. TypeOK'
  BY <1>1, <1>2, <1>3, <1>4, <1>5 DEF KInv, TypeOK, Count
<1>7. OneTimer'
  BY <1>1, <1>3 DEF OneTimer
<1>8. TicksAreOwn'
  BY <1>1, <1>2, <1>3 DEF TicksAreOwn
<1>9. CountsHeldKey'
  BY <1>3 DEF CountsHeldKey
<1> QED
  BY <1>6, <1>7, <1>8, <1>9 DEF KInv

\* A release stops the timer.
LEMMA ReleaseKInv ==
  ASSUME KInv, NEW key \in Key, HandleKeyrelease(key)
  PROVE  KInv'
<1>0. ~ktimer' /\ ktimer' \in BOOLEAN /\ lconsume' \in BOOLEAN /\ missed' \in BOOLEAN
  BY Zenon DEF HandleKeyrelease, StopKeyTimer
<1>1. kruns' = 0 /\ kpending' = KeyWithdrawn /\ ticks' = 0
  BY DEF HandleKeyrelease, StopKeyTimer, KInv, OneTimer, TypeOK
<1>2. KeyWithdrawn \in Nat /\ (~LateEvents => KeyWithdrawn = 0)
  BY DEF KeyWithdrawn, KInv, TypeOK, TicksAreOwn, OneTimer
<1>3. /\ lkey' = NoKey /\ lcount' = 0
      /\ down' = down \ {key} /\ swallowed' = swallowed \ {key}
      /\ locked' = locked /\ lone' = lone
  BY DEF HandleKeyrelease
<1>4. TypeOK'
  BY <1>0, <1>1, <1>2, <1>3 DEF KInv, TypeOK, Count
<1>5. OneTimer'
  BY <1>0, <1>1, <1>3 DEF OneTimer
<1>6. TicksAreOwn'
  BY <1>0, <1>1, <1>2, <1>3 DEF TicksAreOwn
<1>7. CountsHeldKey'
  BY <1>3 DEF CountsHeldKey
<1> QED
  BY <1>4, <1>5, <1>6, <1>7 DEF KInv

\* An expiry that is posted is counted by the timer and waits to be counted by lcount.
LEMMA ExpireKInv ==
  ASSUME KInv, KeyExpire
  PROVE  KInv'
<1>1. /\ kpending' = kpending + 1 /\ ticks' = (ticks + 1) % TickModulus /\ kruns > 0
      /\ lkey' = lkey /\ lcount' = lcount /\ lconsume' = lconsume
      /\ ktimer' = ktimer /\ kruns' = kruns
      /\ locked' = locked /\ down' = down /\ missed' = missed /\ swallowed' = swallowed
      /\ lone' = lone
  BY DEF KeyExpire, pressVars
<1>2. TickModulus \in Nat \ {0} /\ ticks \in 0 .. TickModulus - 1 /\ lcount \in Nat
      /\ kpending \in Nat
  BY DEF KInv, TypeOK, Count
<1>3. ticks' \in Count
  BY <1>1, <1>2, Wraps DEF Count
<1>4. TypeOK'
  BY <1>1, <1>2, <1>3 DEF KInv, TypeOK
<1>5. OneTimer'
  BY <1>1 DEF KInv, OneTimer
<1>6. TicksAreOwn'
  <2> SUFFICES ASSUME ~LateEvents
               PROVE  ticks' = (lcount' + kpending') % TickModulus /\ lkey' # NoKey
    BY <1>1, <1>5 DEF TicksAreOwn, OneTimer, KInv
  <2>1. lkey # NoKey /\ ticks = (lcount + kpending) % TickModulus
    BY <1>1 DEF KInv, OneTimer, TicksAreOwn
  <2>2. (ticks + 1) % TickModulus = (lcount + kpending + 1) % TickModulus
    <3> DEFINE s == lcount + kpending
    <3>1. s \in Nat
      BY <1>2
    <3>2. ((s % TickModulus) + 1) % TickModulus = (s + 1) % TickModulus
      BY <1>2, <3>1, RemainderNext
    <3> QED
      BY <2>1, <3>2
  <2> QED
    BY <1>1, <1>2, <2>1, <2>2
<1>7. CountsHeldKey'
  BY <1>1 DEF KInv, CountsHeldKey
<1> QED
  BY <1>4, <1>5, <1>6, <1>7 DEF KInv

\* An expiry that is handled moves from what waits to lcount.
LEMMA TickKInv ==
  ASSUME KInv, KeyTick
  PROVE  KInv'
<1>1. /\ kpending > 0 /\ kpending' = kpending - 1
      /\ lcount' = (IF lkey # NoKey THEN (lcount + 1) % TickModulus ELSE lcount)
      /\ lkey' = lkey /\ lconsume' = lconsume /\ ktimer' = ktimer /\ kruns' = kruns
      /\ ticks' = ticks /\ locked' = locked /\ down' = down
      /\ missed' = missed /\ swallowed' = swallowed /\ lone' = lone
  BY DEF KeyTick
<1>2. TickModulus \in Nat \ {0} /\ lcount \in 0 .. TickModulus - 1 /\ kpending \in Nat
      /\ kpending - 1 \in Nat
  BY <1>1 DEF KInv, TypeOK, Count
<1>3. /\ (lcount + 1) % TickModulus \in Count
      /\ (((lcount + 1) % TickModulus) + (kpending - 1)) % TickModulus
           = (lcount + (kpending - 1) + 1) % TickModulus
  BY <1>2, Wraps DEF Count
<1>4. TypeOK'
  BY <1>1, <1>2, <1>3 DEF KInv, TypeOK
<1>5. OneTimer'
  BY <1>1 DEF KInv, OneTimer
<1>6. lcount + (kpending - 1) + 1 = lcount + kpending
  BY <1>2
<1>7. TicksAreOwn'
  BY <1>1, <1>3, <1>6 DEF KInv, TicksAreOwn
<1>8. CountsHeldKey'
  BY <1>1 DEF KInv, CountsHeldKey
<1> QED
  BY <1>4, <1>5, <1>7, <1>8 DEF KInv

\* Every step keeps the invariant.
LEMMA KInvNext == KInv /\ [Next]_vars => KInv'
<1> SUFFICES ASSUME KInv, [Next]_vars PROVE KInv'
  OBVIOUS
<1>1. ASSUME UNCHANGED keyVars PROVE KInv'
  BY <1>1 DEF KInv, TypeOK, OneTimer, TicksAreOwn, CountsHeldKey, keyVars, pressVars, ktimerVars
<1>2. CASE KeyExpire
  BY <1>2, ExpireKInv
<1>3. CASE KeyTick
  BY <1>3, TickKInv
<1>4. ASSUME NEW key \in Key, HandleKeypress(key) PROVE KInv'
  BY <1>4, PressKInv
<1>5. ASSUME NEW key \in Key, HandleKeyrelease(key) PROVE KInv'
  BY <1>5, ReleaseKInv
<1>6. ASSUME NEW key \in Key, PressLocked(key) PROVE KInv'
  BY <1>6
  DEF PressLocked, KInv, TypeOK, OneTimer, TicksAreOwn, CountsHeldKey, pressVars, ktimerVars
<1>7. ASSUME NEW key \in Key, ReleaseLocked(key) PROVE KInv'
  BY <1>7
  DEF ReleaseLocked, KInv, TypeOK, OneTimer, TicksAreOwn, CountsHeldKey, pressVars, ktimerVars
<1>8. CASE KeypadLock
  BY <1>8
  DEF KeypadLock, KInv, TypeOK, OneTimer, TicksAreOwn, CountsHeldKey, pressVars, ktimerVars
<1> QED
  BY <1>1, <1>2, <1>3, <1>4, <1>5, <1>6, <1>7, <1>8 DEF Next, KeyEvent, ConsoleGoesOn, ConsoleRequest, vars

\* Every variable of the keys keeps its type.
THEOREM KeysTypes == Spec => []TypeOK
<1>1. KInv => TypeOK
  BY DEF KInv
<1> QED
  BY <1>1, InitKInv, KInvNext, PTL DEF Spec

\* The count of a press is its own: nothing of an earlier press, and no second timer.
THEOREM CountsOwnTicks == Spec => []TicksAreOwn
<1>1. KInv => TicksAreOwn
  BY DEF KInv
<1> QED
  BY <1>1, InitKInv, KInvNext, PTL DEF Spec

\* A key is counted only while it is down, unless its release found the keypad locked.
THEOREM CountedKeysAreDown == Spec => []CountsHeldKey
<1>1. KInv => CountsHeldKey
  BY DEF KInv
<1> QED
  BY <1>1, InitKInv, KInvNext, PTL DEF Spec

-----------------------------------------------------------------------------
(* What the programs see.                                                  *)

\* A lone key is the only one that is down, and lconsume says what became of its press.
SInv ==
  /\ lone => \A a, b \in down : a = b
  /\ PressAndReleaseGoTogether
  /\ ConsumesForConsole

\* Every step keeps it.
LEMMA SInvNext == SInv /\ [Next]_vars => SInv'
<1> SUFFICES ASSUME SInv, [Next]_vars PROVE SInv'
  OBVIOUS
<1> USE DEF SInv, PressAndReleaseGoTogether, ConsumesForConsole
<1>1. ASSUME UNCHANGED <<lconsume, down, swallowed, lone>> PROVE SInv'
  BY <1>1
<1>2. ASSUME NEW key \in Key, HandleKeypress(key) PROVE SInv'
  BY <1>2 DEF HandleKeypress, Consumes
<1>3. ASSUME NEW key \in Key, HandleKeyrelease(key) PROVE SInv'
  BY <1>3 DEF HandleKeyrelease
<1>4. ASSUME NEW key \in Key, PressLocked(key) PROVE SInv'
  BY <1>4 DEF PressLocked, pressVars
<1>5. ASSUME NEW key \in Key, ReleaseLocked(key) PROVE SInv'
  BY <1>5 DEF ReleaseLocked, pressVars
<1>6. ASSUME UNCHANGED keyVars PROVE SInv'
  BY <1>1, <1>6 DEF keyVars, pressVars
<1>7. CASE KeyExpire
  BY <1>1, <1>7 DEF KeyExpire, pressVars
<1>8. CASE KeyTick
  BY <1>1, <1>8 DEF KeyTick
<1>9. CASE KeypadLock
  BY <1>1, <1>9 DEF KeypadLock, pressVars
<1> QED
  BY <1>2, <1>3, <1>4, <1>5, <1>6, <1>7, <1>8, <1>9 DEF Next, KeyEvent, ConsoleGoesOn, ConsoleRequest, vars

\* At first no key is down and nothing is consumed.
LEMMA InitSInv == Init => SInv
BY DEF Init, SInv, PressAndReleaseGoTogether, ConsumesForConsole

\* A press that is kept from the programs has its release kept from them, and the
\* other way round, unless keys overlap or the lock comes between.
THEOREM PressesArePaired == Spec => []PressAndReleaseGoTogether
<1>1. SInv => PressAndReleaseGoTogether
  BY DEF SInv
<1> QED
  BY <1>1, InitSInv, SInvNext, PTL DEF Spec

\* Releases are kept from the programs only for a volume key that scrolled.
THEOREM OnlyVolumeIsConsumed == Spec => []ConsumesForConsole
<1>1. SInv => ConsumesForConsole
  BY DEF SInv
<1> QED
  BY <1>1, InitSInv, SInvNext, PTL DEF Spec

-----------------------------------------------------------------------------
(* The keys and the console.                                               *)

\* Every step of the keys is a step of the console or leaves it alone.
LEMMA StepKeepsConsole == [Next]_vars => [C!Next]_(C!vars)
<1> SUFFICES ASSUME [Next]_vars PROVE C!Next \/ UNCHANGED C!vars
  OBVIOUS
<1>1. ASSUME UNCHANGED consoleVars PROVE UNCHANGED C!vars
  BY <1>1 DEF consoleVars, C!vars, C!timerVars, C!configVars
<1>2. CASE ConsoleGoesOn \/ ConsoleRequest
  BY <1>2 DEF ConsoleGoesOn, ConsoleRequest, C!Next, C!Request
<1>3. CASE KeyTick
  BY <1>1, <1>3 DEF KeyTick, C!Next, C!Request
<1>4. ASSUME NEW key \in Key, HandleKeypress(key) PROVE C!Next \/ UNCHANGED C!vars
  BY <1>1, <1>4 DEF HandleKeypress, ScrollByPress, C!Next, C!Request
<1>5. ASSUME NEW key \in Key, HandleKeyrelease(key) PROVE C!Next \/ UNCHANGED C!vars
  BY <1>1, <1>5
     DEF HandleKeyrelease, ActionPress, MayPrint, Toggle, C!Next, C!Request
<1>6. ASSUME UNCHANGED vars PROVE UNCHANGED consoleVars
  BY <1>6 DEF vars
<1>7. ASSUME KeyExpire \/ KeypadLock PROVE UNCHANGED consoleVars
  BY <1>7 DEF KeyExpire, KeypadLock
<1>8. ASSUME NEW key \in Key, PressLocked(key) \/ ReleaseLocked(key)
      PROVE  UNCHANGED consoleVars
  BY <1>8 DEF PressLocked, ReleaseLocked
<1> QED
  BY <1>1, <1>2, <1>3, <1>4, <1>5, <1>6, <1>7, <1>8 DEF Next, KeyEvent

\* So the console with its keys behaves as Console, whose theorems hold under the keys.
LEMMA KeysKeepConsole == Spec => C!Spec
<1>1. Init => C!Init
  BY DEF Init
<1> QED
  BY <1>1, StepKeepsConsole, PTL DEF Spec, C!Spec

\* The key timer changes the console only for a volume key that is down, or whose release
\* found the keypad locked, and only a console that stays and would hide. With NearsRest this
\* is the safety half of RestsUnlessHeld: nothing else keeps the console from its rest.
THEOREM OnlyHeldKeysRenew ==
  Spec => [][KeyExpire \/ KeyTick => UNCHANGED consoleVars \/ HoldsConsole]_vars
<1>1. ASSUME KInv, KeyTick PROVE UNCHANGED consoleVars \/ HoldsConsole
  <2>1. CASE lkey \in Volume /\ C!MustRenew(conAutoHide)
    BY <1>1, <2>1 DEF KInv, CountsHeldKey, HoldsConsole
  <2>2. CASE ~(lkey \in Volume /\ C!MustRenew(conAutoHide))
    BY <1>1, <2>2 DEF KeyTick
  <2> QED
    BY <2>1, <2>2
<1>2. KeyExpire => UNCHANGED consoleVars
  BY DEF KeyExpire
<1>3. KInv => (KeyExpire \/ KeyTick => UNCHANGED consoleVars \/ HoldsConsole)
  BY <1>1, <1>2
<1> QED
  BY <1>3, InitKInv, KInvNext, PTL DEF Spec

-----------------------------------------------------------------------------
(* What the keys leave true of the console: everything ConsoleProofs shows *)
(* of it alone. CP is Console once more, with its theorems.                *)

CP == INSTANCE ConsoleProofs

\* Both copies of Console take the same steps,
LEMMA SameStep == [C!Next]_(C!vars) <=> [CP!Next]_(CP!vars)
<1>1. C!Next <=> CP!Next
  BY Zenon
    DEF C!Next, CP!Next, C!Handle, CP!Handle, C!Request, CP!Request, C!EndLoad,
        CP!EndLoad, C!cprint, CP!cprint, C!ToggleOff, CP!ToggleOff, C!ToggleOn,
        CP!ToggleOn, C!DisableConsole, CP!DisableConsole, C!ReenableConsole,
        CP!ReenableConsole, C!PressVolume, CP!PressVolume, C!HoldVolume,
        CP!HoldVolume, C!ReloadConfig, CP!ReloadConfig, C!BeginLoad, CP!BeginLoad,
        C!FadeInStep, CP!FadeInStep, C!FadeInEnd, CP!FadeInEnd, C!FadeOutStep,
        CP!FadeOutStep, C!FadeOutEnd, CP!FadeOutEnd, C!StayEnd, CP!StayEnd,
        C!Expire, CP!Expire, C!Expired, CP!Expired, C!Handled, CP!Handled, C!Fresh,
        CP!Fresh, C!Withdrawn, CP!Withdrawn, C!StopTimer, CP!StopTimer,
        C!RestartTimer, CP!RestartTimer, C!MustShow, CP!MustShow, C!MustRenew,
        CP!MustRenew, C!ConsoleUpdate, CP!ConsoleUpdate, C!configVars,
        CP!configVars, C!timerVars, CP!timerVars, C!vars, CP!vars
<1>2. UNCHANGED C!vars <=> UNCHANGED CP!vars
  BY DEF C!vars, CP!vars, C!timerVars, CP!timerVars, C!configVars, CP!configVars
<1> QED
  BY <1>1, <1>2

\* and so have the same behaviours.
LEMMA SameConsole == C!Spec <=> CP!Spec
<1>1. C!Init <=> CP!Init
  BY Zenon DEF C!Init, CP!Init
<1> QED
  BY <1>1, SameStep, PTL DEF C!Spec, CP!Spec

\* Whatever keys are pressed, held and released, and whenever the keypad is locked, fades stay
\* driven and only the end of ElfPackLoad strands the console; if StopTimer withdraws posted
\* expiries, no timer is lost, the opacity fits, and every expiry leads the console to its rest.
THEOREM KeysLeaveConsoleSound ==
  Spec => /\ []C!FadeIsDriven
          /\ C!OnlyLoadStrands
          /\ ~LateEvents => /\ [](C!NoLostTimer /\ C!StepFitsAction)
                            /\ CP!NearsRest
<1>0. /\ TargetSteps \in Nat \ {0}
      /\ None \notin Timer
      /\ MaxPending \in Nat
      /\ LateEvents \in BOOLEAN
  BY ConsoleAssumption
<1>1. CP!Spec => []CP!FadeIsDriven
  BY <1>0, CP!FadesAreDriven
<1>2. CP!Spec => CP!OnlyLoadStrands
  BY <1>0, CP!LoadAloneStrands
<1>3. ~LateEvents => (CP!Spec => []CP!NoLostTimer)
  BY <1>0, CP!TimersAreNotLost
<1>4. ~LateEvents => (CP!Spec => []CP!StepFitsAction)
  BY <1>0, CP!OpacityFits
<1>5. ~LateEvents => (CP!Spec => CP!NearsRest)
  BY <1>0, CP!ExpiriesLeadToRest
<1>6. CP!FadeIsDriven <=> C!FadeIsDriven
  BY DEF CP!FadeIsDriven, C!FadeIsDriven
<1>7. /\ CP!NoLostTimer <=> C!NoLostTimer
      /\ CP!StepFitsAction <=> C!StepFitsAction
  BY DEF CP!NoLostTimer, C!NoLostTimer, CP!StepFitsAction, C!StepFitsAction
<1>8. [CP!Stranded' => CP!Stranded \/ CP!EndLoad]_(CP!vars)
        <=> [C!Stranded' => C!Stranded \/ C!EndLoad]_(C!vars)
  BY DEF CP!Stranded, C!Stranded, CP!EndLoad, C!EndLoad, CP!vars, C!vars, CP!timerVars, C!timerVars,
         CP!configVars, C!configVars, CP!ConsoleUpdate, C!ConsoleUpdate, CP!MustShow, C!MustShow,
         CP!MustRenew, C!MustRenew, CP!RestartTimer, C!RestartTimer, CP!Fresh, C!Fresh,
         CP!Withdrawn, C!Withdrawn
<1>9. CP!OnlyLoadStrands <=> C!OnlyLoadStrands
  BY <1>8, PTL DEF CP!OnlyLoadStrands, C!OnlyLoadStrands
<1> QED
  BY <1>1, <1>2, <1>3, <1>4, <1>5, <1>6, <1>7, <1>9, SameConsole, KeysKeepConsole, PTL

=============================================================================
