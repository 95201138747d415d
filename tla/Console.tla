------------------------------ MODULE Console ------------------------------
(***************************************************************************)
(* The pop-up console of ElfPack 2: how it fades in, stays and fades out   *)
(* (console.c, the timer and key handlers of elfloaderApp.c, and           *)
(* ldrToggleConsole, ldrEnableConsole of API.c).                           *)
(*                                                                         *)
(* conAction says what the console is doing, and one operating system      *)
(* timer, whose handle is kept in ctimer_iface.handle, drives it. The      *)
(* timer posts its expiries to the application as events, and the handler  *)
(* looks only at the kind of the timer: it checks neither the handle nor   *)
(* conAction. Programs print and toggle the console at any time between    *)
(* two expiries. Events of different timers may be handled in any order.   *)
(***************************************************************************)
EXTENDS Integers

CONSTANTS
  TargetSteps,  \* TARGET_STEPS
  Timer,        \* handles of the operating system's timers
  MaxPending,   \* expiries of a timer that wait at once (a bound of the model)
  LateEvents,   \* whether an expiry that waits survives StopTimer
  None          \* the handle 0

ASSUME StepsAssumption == TargetSteps \in Nat \ {0}

ASSUME TimerAssumption == None \notin Timer

ASSUME PendingAssumption == MaxPending \in Nat

ASSUME LateEventsAssumption == LateEvents \in BOOLEAN

VARIABLES
  conAction,        \* "HIDE", "FADEIN", "STAY" or "FADEOUT"
  conStep,          \* opacity of the console
  conAutoHide,      \* whether the console goes away by itself
  handle,           \* ctimer_iface.handle
  kind,             \* the identifier each timer was last created with
  armed,            \* the timers that run
  pending,          \* how many expiries of each timer are posted and not yet handled
  EnableConsole,    \* Config.EnableConsole
  AutoShowConsole,  \* Config.AutoShowConsole
  app               \* "start", then "load" inside ElfPackLoad, then "ready"

configVars == <<EnableConsole, AutoShowConsole>>
timerVars == <<handle, kind, armed, pending>>
vars == <<conAction, conStep, conAutoHide, timerVars, configVars, app>>

Action == {"HIDE", "FADEIN", "STAY", "FADEOUT"}

\* TID_FADEIN and TID_FADEOUT are cyclical timers, TID_STAY is a simple one.
Kind == {"FADEIN", "FADEOUT", "STAY"}

\* ElfPackInit and ConsoleInit; the default configuration.
Init ==
  /\ conAction = "HIDE"
  /\ conStep = 0
  /\ conAutoHide = TRUE
  /\ handle = None
  /\ kind = [t \in Timer |-> "STAY"]
  /\ armed = {}
  /\ pending = [t \in Timer |-> 0]
  /\ EnableConsole = TRUE
  /\ AutoShowConsole = FALSE
  /\ app = "start"

-----------------------------------------------------------------------------
(* Timers of the operating system.                                         *)

\* A handle the operating system may give out.
Fresh(t) == t \notin armed /\ t # handle /\ pending[t] = 0

\* What waits after StopTimer(ctimer_iface.handle), when p waits before it.
Withdrawn(p) == [t \in Timer |-> IF t = handle /\ ~LateEvents THEN 0 ELSE p[t]]

\* StopTimer(ctimer_iface.handle) and handle = 0.
StopTimer(p) ==
  /\ armed' = armed \ {handle}
  /\ pending' = Withdrawn(p)
  /\ handle' = None
  /\ UNCHANGED kind

\* StopTimer(ctimer_iface.handle), then handle = CreateTimer(k).
RestartTimer(k, p) ==
  \E t \in Timer :
    /\ Fresh(t)
    /\ armed' = (armed \ {handle}) \cup {t}
    /\ kind' = [kind EXCEPT ![t] = k]
    /\ pending' = Withdrawn(p)
    /\ handle' = t

\* A timer expires. A simple timer runs once.
Expire(t) ==
  /\ t \in armed
  /\ pending[t] < MaxPending
  /\ pending' = [pending EXCEPT ![t] = @ + 1]
  /\ armed' = IF kind[t] = "STAY" THEN armed \ {t} ELSE armed
  /\ UNCHANGED <<conAction, conStep, conAutoHide, handle, kind, configVars, app>>

-----------------------------------------------------------------------------
(* HandleTimer.                                                            *)

\* The expiry of t that is handled. ElfPackLoad is itself a handler: until it
\* returns, no other event is.
Expired(t, k) == app # "load" /\ pending[t] > 0 /\ kind[t] = k

\* What still waits when an expiry of t is handled.
Handled(t) == [pending EXCEPT ![t] = @ - 1]

FadeInStep(t) ==
  /\ Expired(t, "FADEIN")
  /\ conStep + 1 < TargetSteps
  /\ conStep' = conStep + 1
  /\ pending' = Handled(t)
  /\ UNCHANGED <<conAction, conAutoHide, handle, kind, armed, configVars, app>>

\* Mutant: a fade in from full opacity counts beyond TARGET_STEPS.
FadeInEndUnclamped(t) ==
  /\ Expired(t, "FADEIN")
  /\ conStep + 1 >= TargetSteps
  /\ conStep' = conStep + 1
  /\ conAction' = "STAY"
  /\ IF conAutoHide THEN RestartTimer("STAY", Handled(t)) ELSE StopTimer(Handled(t))
  /\ UNCHANGED <<conAutoHide, configVars, app>>

\* Mutant: a console that should hide by itself gets no timer.
FadeInEndSilent(t) ==
  /\ Expired(t, "FADEIN")
  /\ conStep + 1 >= TargetSteps
  /\ conStep' = TargetSteps
  /\ conAction' = "STAY"
  /\ StopTimer(Handled(t))
  /\ UNCHANGED <<conAutoHide, configVars, app>>

\* Mutant: the timer of the fade is not stopped when it ends.
FadeInEndLeaking(t) ==
  /\ Expired(t, "FADEIN")
  /\ conStep + 1 >= TargetSteps
  /\ conStep' = TargetSteps
  /\ conAction' = "STAY"
  /\ pending' = Handled(t)
  /\ IF conAutoHide
     THEN \E u \in Timer :
            /\ Fresh(u)
            /\ armed' = armed \cup {u}
            /\ kind' = [kind EXCEPT ![u] = "STAY"]
            /\ handle' = u
     ELSE handle' = None /\ UNCHANGED <<armed, kind>>
  /\ UNCHANGED <<conAutoHide, configVars, app>>

FadeInEnd(t) ==
  /\ Expired(t, "FADEIN")
  /\ conStep + 1 >= TargetSteps
  /\ conStep' = TargetSteps
  /\ conAction' = "STAY"
  /\ IF conAutoHide THEN RestartTimer("STAY", Handled(t)) ELSE StopTimer(Handled(t))
  /\ UNCHANGED <<conAutoHide, configVars, app>>

FadeOutStep(t) ==
  /\ Expired(t, "FADEOUT")
  /\ conStep - 1 > 0
  /\ conStep' = conStep - 1
  /\ pending' = Handled(t)
  /\ UNCHANGED <<conAction, conAutoHide, handle, kind, armed, configVars, app>>

\* Mutant: the handle is kept when its timer is stopped.
FadeOutEndKeepingHandle(t) ==
  /\ Expired(t, "FADEOUT")
  /\ conStep - 1 <= 0
  /\ conStep' = 0
  /\ conAction' = "HIDE"
  /\ armed' = armed \ {handle}
  /\ pending' = Withdrawn(Handled(t))
  /\ UNCHANGED <<conAutoHide, handle, kind, configVars, app>>

FadeOutEnd(t) ==
  /\ Expired(t, "FADEOUT")
  /\ conStep - 1 <= 0
  /\ conStep' = 0
  /\ conAction' = "HIDE"
  /\ StopTimer(Handled(t))
  /\ UNCHANGED <<conAutoHide, configVars, app>>

\* The simple timer has expired, so the handler does not stop it.
StayEnd(t) ==
  /\ Expired(t, "STAY")
  /\ conAction' = "FADEOUT"
  /\ \E u \in Timer :
       /\ Fresh(u)
       /\ armed' = armed \cup {u}
       /\ kind' = [kind EXCEPT ![u] = "FADEOUT"]
       /\ handle' = u
  /\ pending' = Handled(t)
  /\ UNCHANGED <<conStep, conAutoHide, configVars, app>>

-----------------------------------------------------------------------------
(* ConsoleUpdate( forceShow ), called when the text or the scroll position *)
(* has changed; hide is conAutoHide at the call.                           *)

MustShow(force) == conAction = "FADEOUT" \/ (force /\ conAction = "HIDE")

MustRenew(hide) == conAction = "STAY" /\ hide

ConsoleUpdate(force, hide) ==
  \/ /\ MustShow(force)
     /\ conAction' = "FADEIN"
     /\ RestartTimer("FADEIN", pending)
  \/ /\ MustRenew(hide)
     /\ RestartTimer("STAY", pending)
     /\ UNCHANGED conAction
  \/ /\ ~MustShow(force)
     /\ ~MustRenew(hide)
     /\ UNCHANGED <<conAction, timerVars>>

-----------------------------------------------------------------------------
(* Programs: cprint and the console calls of the API. They run in their    *)
(* own handlers, or from ElfPackLoad, which runs the autorun list.         *)

\* cprint
cprint ==
  /\ EnableConsole
  /\ MustShow(AutoShowConsole) \/ MustRenew(conAutoHide)
  /\ ConsoleUpdate(AutoShowConsole, conAutoHide)
  /\ conAutoHide' = (conAutoHide \/ MustShow(AutoShowConsole))
  /\ UNCHANGED <<conStep, configVars, app>>

\* Mutant: the timer is replaced and not stopped.
ToggleOffLeaking ==
  /\ EnableConsole
  /\ conAction \in {"FADEIN", "STAY"}
  /\ conAutoHide' = TRUE
  /\ conAction' = "FADEOUT"
  /\ \E t \in Timer :
       /\ Fresh(t)
       /\ armed' = armed \cup {t}
       /\ kind' = [kind EXCEPT ![t] = "FADEOUT"]
       /\ handle' = t
  /\ UNCHANGED <<conStep, pending, configVars, app>>

\* ldrToggleConsole of a console that is coming or there
ToggleOff ==
  /\ EnableConsole
  /\ conAction \in {"FADEIN", "STAY"}
  /\ conAutoHide' = TRUE
  /\ conAction' = "FADEOUT"
  /\ RestartTimer("FADEOUT", pending)
  /\ UNCHANGED <<conStep, configVars, app>>

\* ldrToggleConsole of a console that is going or gone
ToggleOn ==
  /\ EnableConsole
  /\ conAction \in {"FADEOUT", "HIDE"}
  /\ conAutoHide' = FALSE
  /\ conAction' = "FADEIN"
  /\ RestartTimer("FADEIN", pending)
  /\ UNCHANGED <<conStep, configVars, app>>

\* Mutant: the console is hidden with its opacity kept.
DisableConsoleKeepingStep ==
  /\ EnableConsole
  /\ EnableConsole' = FALSE
  /\ IF conAction # "HIDE"
     THEN conAction' = "HIDE" /\ StopTimer(pending)
     ELSE UNCHANGED <<conAction, timerVars>>
  /\ UNCHANGED <<conStep, conAutoHide, AutoShowConsole, app>>

\* ldrEnableConsole( FALSE )
DisableConsole ==
  /\ EnableConsole
  /\ EnableConsole' = FALSE
  /\ IF conAction # "HIDE"
     THEN /\ conStep' = 0
          /\ conAction' = "HIDE"
          /\ StopTimer(pending)
     ELSE UNCHANGED <<conStep, conAction, timerVars>>
  /\ UNCHANGED <<conAutoHide, AutoShowConsole, app>>

\* ldrEnableConsole( TRUE )
ReenableConsole ==
  /\ ~EnableConsole
  /\ EnableConsole' = TRUE
  /\ UNCHANGED <<conAction, conStep, conAutoHide, timerVars, AutoShowConsole, app>>

-----------------------------------------------------------------------------
(* The application: keys, the reload event and the delayed start.          *)

\* A volume key is pressed: cscroll, which calls ConsoleUpdate( FALSE ), and the
\* timer is started again if there is one.
PressVolume ==
  /\ app # "load"
  /\ conAction = "STAY"
  /\ conAutoHide \/ handle # None
  /\ RestartTimer("STAY", pending)
  /\ UNCHANGED <<conAction, conStep, conAutoHide, configVars, app>>

\* A volume key is held: only cscroll.
HoldVolume ==
  /\ app # "load"
  /\ MustRenew(conAutoHide)
  /\ ConsoleUpdate(FALSE, conAutoHide)
  /\ UNCHANGED <<conStep, conAutoHide, configVars, app>>

\* HandleReloadLib: ldrLoadConfig, then loadDefaultLib, which prints when it succeeds.
ReloadConfig ==
  /\ app # "load"
  /\ EnableConsole' \in BOOLEAN
  /\ AutoShowConsole' \in BOOLEAN
  /\ \/ UNCHANGED <<conAction, conAutoHide, timerVars>>
     \/ /\ EnableConsole'
        /\ ConsoleUpdate(AutoShowConsole', conAutoHide)
        /\ conAutoHide' = (conAutoHide \/ MustShow(AutoShowConsole'))
  /\ UNCHANGED <<conStep, app>>

\* ElfPackLoad up to loadAutorun: the configuration is read, a line is printed,
\* and what is printed from here on does not go away.
BeginLoad ==
  /\ app = "start"
  /\ app' = "load"
  /\ EnableConsole' \in BOOLEAN
  /\ AutoShowConsole' \in BOOLEAN
  /\ IF EnableConsole'
     THEN ConsoleUpdate(AutoShowConsole', conAutoHide)
     ELSE UNCHANGED <<conAction, timerVars>>
  /\ conAutoHide' = FALSE
  /\ UNCHANGED conStep

\* The end of ElfPackLoad; the logo is printed with AutoShowConsole on.
EndLoad ==
  /\ app = "load"
  /\ app' = "ready"
  /\ conAutoHide' = TRUE
  /\ \/ UNCHANGED <<conAction, timerVars>>
     \/ /\ EnableConsole
        /\ ConsoleUpdate(TRUE, TRUE)
  /\ UNCHANGED <<conStep, configVars>>

-----------------------------------------------------------------------------

Handle ==
  \E t \in Timer :
    \/ FadeInStep(t)
    \/ FadeInEnd(t)
    \/ FadeOutStep(t)
    \/ FadeOutEnd(t)
    \/ StayEnd(t)

Request ==
  \/ cprint
  \/ ToggleOff
  \/ ToggleOn
  \/ DisableConsole
  \/ ReenableConsole
  \/ PressVolume
  \/ HoldVolume
  \/ ReloadConfig
  \/ BeginLoad

Next ==
  \/ \E t \in Timer : Expire(t)
  \/ Handle
  \/ Request
  \/ EndLoad

Spec == Init /\ [][Next]_vars

\* A running timer expires in the end, its expiry is handled, and ElfPackLoad returns.
FairSpec ==
  /\ Spec
  /\ \A t \in Timer : WF_vars(Expire(t))
  /\ WF_vars(Handle)
  /\ WF_vars(EndLoad)

-----------------------------------------------------------------------------
(* Properties.                                                             *)

\* Every variable has its type.
TypeOK ==
  /\ conAction \in Action
  /\ conStep \in 0 .. TargetSteps
  /\ conAutoHide \in BOOLEAN
  /\ handle \in Timer \cup {None}
  /\ kind \in [Timer -> Kind]
  /\ armed \in SUBSET Timer
  /\ pending \in [Timer -> Nat]
  /\ EnableConsole \in BOOLEAN
  /\ AutoShowConsole \in BOOLEAN
  /\ app \in {"start", "load", "ready"}

\* While the console fades, the timer that drives the fade is running and its handle
\* is known, so that it can be stopped; when the console is hidden none is kept.
\* This does not depend on what StopTimer does with an expiry that waits.
FadeIsDriven ==
  /\ conAction \in {"FADEIN", "FADEOUT"} => handle \in armed /\ kind[handle] = conAction
  /\ conAction = "HIDE" => handle = None
  /\ conAction = "STAY" /\ handle # None => kind[handle] = "STAY"

\* No timer runs whose handle has been forgotten, and no expiry waits of a timer that
\* has been stopped: otherwise it would disturb every later fade.
NoLostTimer == \A t \in Timer : t \in armed \/ pending[t] > 0 => t = handle

\* The opacity fits what the console is doing: a hidden console is invisible and
\* one that stays is fully shown.
StepFitsAction ==
  /\ conAction = "HIDE" => conStep = 0
  /\ conAction = "STAY" => conStep = TargetSteps

\* A console that should hide by itself and has lost its timer.
Stranded == conAction = "STAY" /\ conAutoHide /\ handle = None

\* Only the end of ElfPackLoad strands a console (one that was opened before it).
OnlyLoadStrands == [][Stranded' => Stranded \/ EndLoad]_vars

\* The console is hidden, or shown with no timer that could hide it.
AtRest == conAction = "HIDE" \/ (conAction = "STAY" /\ handle = None)

\* When the requests stop, a fade ends: the console comes to rest for good.
Settles == (<>[][~Request]_vars) => <>[]AtRest

=============================================================================
