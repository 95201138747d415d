-------------------------------- MODULE Keys --------------------------------
(***************************************************************************)
(* The keys of the ElfPack 2 application (HandleKeypress, HandleKeyrelease,*)
(* ActionPress and the key timer of HandleTimer in elfloaderApp.c),        *)
(* together with the console that they show, hide and scroll.              *)
(*                                                                         *)
(* A press starts a cyclical timer that counts how long the key is held,   *)
(* and the release of the same key acts on the count. While the console is *)
(* shown, the volume keys scroll it and are kept from the programs. The    *)
(* handlers leave at once when the keypad is locked, and the lock may come *)
(* and go while keys are down, so that a press may be handled and its      *)
(* release not, or the other way round.                                    *)
(*                                                                         *)
(* The console is the module Console, whose variables are declared here    *)
(* again. down, missed, swallowed, lone and ticks are history: the code    *)
(* does not have them.                                                     *)
(***************************************************************************)
EXTENDS Integers

CONSTANTS
  TargetSteps, Timer, MaxPending, LateEvents, None,  \* those of Console
  Key,         \* the keys of the phone
  Volume,      \* KEY_VOL_UP and KEY_VOL_DOWN
  FastKey,     \* FTR_FAST_KEY
  NoKey,       \* lkey = 0xff
  TickModulus, \* lcount is a UINT8: 256
  RunPress,    \* the counts for which ActionPress runs a program: 1 and 2,
  TogglePress, \* shows or hides the console: 3 and 4,
  ReloadPress  \* reads the configuration and the library again: 8 and 9

ASSUME ConsoleAssumption ==
  /\ TargetSteps \in Nat \ {0}
  /\ None \notin Timer
  /\ MaxPending \in Nat
  /\ LateEvents \in BOOLEAN

ASSUME KeyAssumption ==
  /\ Volume \subseteq Key
  /\ FastKey \in Key \ Volume
  /\ NoKey \notin Key

ASSUME TickAssumption == TickModulus \in Nat \ {0}

ASSUME PressAssumption ==
  /\ RunPress \subseteq Nat \ {0}
  /\ TogglePress \subseteq Nat \ ({0} \cup RunPress)
  /\ ReloadPress \subseteq Nat \ ({0} \cup RunPress \cup TogglePress)

VARIABLES
  conAction, conStep, conAutoHide, handle, kind, armed, pending,
  EnableConsole, AutoShowConsole, app,  \* those of Console
  lkey,        \* the key that is held
  lcount,      \* how many times the key timer has expired
  lconsume,    \* whether the next release is kept from the programs
  ktimer,      \* ktimer_iface.handle is not 0
  kruns,       \* how many key timers run
  kpending,    \* expiries of key timers, posted and not yet handled
  locked,      \* the keypad is locked
  down,        \* the keys that are down
  missed,      \* the release of the key that is held found the keypad locked
  swallowed,   \* keys whose press was kept from the programs and whose release was not handled
  lone,        \* the last press was handled, and no other key was down then or since
  ticks        \* how often the key timer that runs has expired

C == INSTANCE Console

consoleVars ==
  <<conAction, conStep, conAutoHide, handle, kind, armed, pending,
    EnableConsole, AutoShowConsole, app>>
ktimerVars == <<ktimer, kruns, kpending, ticks>>
pressVars == <<lkey, lcount, lconsume>>
keyVars == <<pressVars, ktimerVars, locked, down, missed, swallowed, lone>>
vars == <<consoleVars, keyVars>>

Count == 0 .. TickModulus - 1

\* ElfPackInit; no key is down and the keypad is free.
Init ==
  /\ C!Init
  /\ lkey = NoKey
  /\ lcount = 0
  /\ lconsume = FALSE
  /\ ktimer = FALSE
  /\ kruns = 0
  /\ kpending = 0
  /\ locked = FALSE
  /\ down = {}
  /\ missed = FALSE
  /\ swallowed = {}
  /\ lone = FALSE
  /\ ticks = 0

-----------------------------------------------------------------------------
(* The key timer.                                                          *)

\* What waits after StopTimer( ktimer_iface.handle ).
KeyWithdrawn == IF ktimer /\ ~LateEvents THEN 0 ELSE kpending

\* Mutant: the timer that runs is not stopped first.
StartKeyTimerOver ==
  /\ ktimer' = TRUE
  /\ kruns' = kruns + 1
  /\ ticks' = 0
  /\ UNCHANGED kpending

\* if ( ktimer_iface.handle ) StopTimer; then CreateTimer( TID_LKEY )
StartKeyTimer ==
  /\ ktimer' = TRUE
  /\ kruns' = (IF ktimer THEN kruns ELSE kruns + 1)
  /\ kpending' = KeyWithdrawn
  /\ ticks' = 0

\* if ( ktimer_iface.handle ) StopTimer, and handle = 0
StopKeyTimer ==
  /\ ktimer' = FALSE
  /\ kruns' = (IF ktimer THEN kruns - 1 ELSE kruns)
  /\ kpending' = KeyWithdrawn
  /\ ticks' = 0

\* A key timer expires.
KeyExpire ==
  /\ kruns > 0
  /\ kpending < MaxPending
  /\ kpending' = kpending + 1
  /\ ticks' = (ticks + 1) % TickModulus
  /\ UNCHANGED <<consoleVars, pressVars, ktimer, kruns, locked, down, missed, swallowed, lone>>

\* Mutant: the expiry ends the swallowing when the console is no longer shown.
KeyTickForgetting ==
  /\ app # "load"
  /\ kpending > 0
  /\ kpending' = kpending - 1
  /\ lcount' = (IF lkey # NoKey THEN (lcount + 1) % TickModulus ELSE lcount)
  /\ lconsume' = (lconsume /\ conAction = "STAY")
  /\ IF lkey \in Volume /\ C!MustRenew(conAutoHide)
     THEN C!HoldVolume
     ELSE UNCHANGED consoleVars
  /\ UNCHANGED <<lkey, ktimer, kruns, ticks, locked, down, missed, swallowed, lone>>

\* Mutant: the expiry scrolls whichever key is held.
KeyTickOfAnyKey ==
  /\ app # "load"
  /\ kpending > 0
  /\ kpending' = kpending - 1
  /\ lcount' = (IF lkey # NoKey THEN (lcount + 1) % TickModulus ELSE lcount)
  /\ IF lkey # NoKey /\ C!MustRenew(conAutoHide)
     THEN C!HoldVolume
     ELSE UNCHANGED consoleVars
  /\ UNCHANGED <<lkey, lconsume, ktimer, kruns, ticks, locked, down, missed, swallowed, lone>>

\* HandleTimer, TID_LKEY: a volume key that is held goes on scrolling.
KeyTick ==
  /\ app # "load"
  /\ kpending > 0
  /\ kpending' = kpending - 1
  /\ lcount' = (IF lkey # NoKey THEN (lcount + 1) % TickModulus ELSE lcount)
  /\ IF lkey \in Volume /\ C!MustRenew(conAutoHide)
     THEN C!HoldVolume
     ELSE UNCHANGED consoleVars
  /\ UNCHANGED <<lkey, lconsume, ktimer, kruns, ticks, locked, down, missed, swallowed, lone>>

-----------------------------------------------------------------------------
(* Presses and releases.                                                   *)

\* A press while the keypad is locked: HandleKeypress returns at once.
PressLocked(key) ==
  /\ app # "load"
  /\ locked
  /\ key \notin down
  /\ down' = down \cup {key}
  /\ lone' = FALSE
  /\ UNCHANGED <<consoleVars, pressVars, ktimerVars, locked, missed, swallowed>>

\* The console scrolls, and if it has a timer it is started again.
ScrollByPress(key) ==
  IF key \in Volume /\ conAction = "STAY" /\ (conAutoHide \/ handle # None)
  THEN C!PressVolume
  ELSE UNCHANGED consoleVars

\* What a press leaves in lconsume: a volume key may set it, any other key clears it.
Consumes(key) == key \in Volume /\ (lconsume \/ conAction = "STAY")

\* HandleKeypress
HandleKeypress(key) ==
  /\ app # "load"
  /\ ~locked
  /\ key \notin down
  /\ StartKeyTimer
  /\ lkey' = key
  /\ lcount' = 0
  /\ ScrollByPress(key)
  /\ lconsume' = Consumes(key)
  /\ swallowed' = (IF Consumes(key) THEN swallowed \cup {key} ELSE swallowed \ {key})
  /\ lone' = (down = {})
  /\ down' = down \cup {key}
  /\ missed' = FALSE
  /\ UNCHANGED locked

\* A release while the keypad is locked: HandleKeyrelease returns at once.
ReleaseLocked(key) ==
  /\ app # "load"
  /\ locked
  /\ key \in down
  /\ down' = down \ {key}
  /\ missed' = (missed \/ key = lkey)
  /\ lone' = FALSE
  /\ UNCHANGED <<consoleVars, pressVars, ktimerVars, locked, swallowed>>

\* A program is told, or a line is printed, which the settings may prevent.
MayPrint == C!cprint \/ UNCHANGED consoleVars

\* ldrToggleConsole
Toggle ==
  IF EnableConsole THEN C!ToggleOff \/ C!ToggleOn ELSE UNCHANGED consoleVars

\* ActionPress: what the fast access key does depends on how long it was held.
ActionPress(key, delay) ==
  IF key # FastKey THEN UNCHANGED consoleVars
  ELSE \/ delay = 0 /\ MayPrint                    \* ActionFastRunEvent
       \/ delay \in RunPress /\ MayPrint           \* ActionFastRunElf
       \/ delay \in TogglePress /\ Toggle
       \/ delay \in ReloadPress /\ C!ReloadConfig  \* ldrLoadConfig, loadDefaultLib
       \/ delay \notin {0} \cup RunPress \cup TogglePress \cup ReloadPress
          /\ UNCHANGED consoleVars

\* Mutant: only the release of the key that was pressed last clears lconsume.
HandleKeyreleaseOfOther(key) ==
  /\ app # "load"
  /\ ~locked
  /\ key \in down
  /\ StopKeyTimer
  /\ IF key = lkey THEN ActionPress(key, lcount) ELSE UNCHANGED consoleVars
  /\ lkey' = NoKey
  /\ lcount' = 0
  /\ lconsume' = (lconsume /\ key # lkey)
  /\ swallowed' = swallowed \ {key}
  /\ down' = down \ {key}
  /\ missed' = FALSE
  /\ UNCHANGED <<locked, lone>>

\* HandleKeyrelease
HandleKeyrelease(key) ==
  /\ app # "load"
  /\ ~locked
  /\ key \in down
  /\ StopKeyTimer
  /\ IF key = lkey THEN ActionPress(key, lcount) ELSE UNCHANGED consoleVars
  /\ lkey' = NoKey
  /\ lcount' = 0
  /\ lconsume' = FALSE
  /\ swallowed' = swallowed \ {key}
  /\ down' = down \ {key}
  /\ missed' = FALSE
  /\ UNCHANGED <<locked, lone>>

\* The phone locks or frees its keypad (what KeypadLock reads).
KeypadLock ==
  /\ locked' = ~locked
  /\ UNCHANGED <<consoleVars, pressVars, ktimerVars, down, missed, swallowed, lone>>

-----------------------------------------------------------------------------

\* The steps that the console takes by itself: its timer, and the end of ElfPackLoad.
ConsoleGoesOn ==
  /\ UNCHANGED keyVars
  /\ \/ \E t \in Timer : C!Expire(t)
     \/ C!Handle
     \/ C!EndLoad

\* Programs, the reload event and the start.
ConsoleRequest ==
  /\ \/ C!cprint
     \/ C!ToggleOff
     \/ C!ToggleOn
     \/ C!DisableConsole
     \/ C!ReenableConsole
     \/ C!ReloadConfig
     \/ C!BeginLoad
  /\ UNCHANGED keyVars

KeyEvent ==
  \E key \in Key :
    \/ HandleKeypress(key)
    \/ PressLocked(key)
    \/ HandleKeyrelease(key)
    \/ ReleaseLocked(key)

Next ==
  \/ ConsoleGoesOn
  \/ ConsoleRequest
  \/ KeyExpire
  \/ KeyTick
  \/ KeyEvent
  \/ KeypadLock

Spec == Init /\ [][Next]_vars

\* The console's timer expires, expiries are handled and ElfPackLoad returns, as long as
\* there is one of these to do. Nothing is assumed of the keys and of their timer.
FairSpec == Spec /\ WF_vars(ConsoleGoesOn)

-----------------------------------------------------------------------------
(* Properties.                                                             *)

\* Every variable of the keys has its type.
TypeOK ==
  /\ lkey \in Key \cup {NoKey}
  /\ lcount \in Count
  /\ lconsume \in BOOLEAN
  /\ ktimer \in BOOLEAN
  /\ kruns \in Nat
  /\ kpending \in Nat
  /\ locked \in BOOLEAN
  /\ down \in SUBSET Key
  /\ missed \in BOOLEAN
  /\ swallowed \in SUBSET Key
  /\ lone \in BOOLEAN
  /\ ticks \in Count

\* While a key is held, one timer runs and the count is what that timer has counted,
\* nothing of an earlier press; when none is held no timer runs and nothing waits. It
\* relies on StopTimer taking back what the timer has posted.
TicksAreOwn ==
  ~LateEvents =>
    /\ lkey # NoKey => ktimer /\ kruns = 1 /\ ticks = (lcount + kpending) % TickModulus
    /\ lkey = NoKey => ~ktimer /\ kruns = 0 /\ kpending = 0

\* A key that is counted is down, whichever keys were pressed over each other, unless its
\* release found the keypad locked: the key timer then goes on for a key that is up.
CountsHeldKey == lkey # NoKey => lkey \in down \/ missed

\* The programs get the press and the release of a key, or neither, when no other key
\* was down and no handler found the keypad locked in between: HandleKeyrelease will
\* consume the release if, and only if, HandleKeypress consumed the press.
PressAndReleaseGoTogether ==
  lone => \A key \in down : lconsume <=> key \in swallowed

\* A release is kept from the programs only for a volume key whose press was kept
\* from them and whose release has not been handled: lconsume does not outlive it.
ConsumesForConsole == lconsume => swallowed \cap Volume # {}

\* A volume key that is down, or whose release was missed, scrolls a console that would
\* hide otherwise.
HoldsConsole == lkey \in Volume /\ (lkey \in down \/ missed) /\ C!MustRenew(conAutoHide)

\* When nobody prints, asks anything of the console or touches a key any more, the
\* console comes to rest. It is kept from it only by a volume key that is held down, or
\* that was released while the keypad was locked and is taken for held for ever.
RestsUnlessHeld ==
  (<>[][ConsoleGoesOn \/ KeyExpire \/ KeyTick]_vars) => (<>[]C!AtRest \/ []<>HoldsConsole)

=============================================================================
