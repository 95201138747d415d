--------------------------- MODULE ConsoleProofs ---------------------------
(***************************************************************************)
(* Proofs about Console, for any number of steps and of timers.            *)
(***************************************************************************)
EXTENDS Console, TLAPS

USE StepsAssumption, TimerAssumption, PendingAssumption, LateEventsAssumption

\* The types of the timers. The rest of TypeOK is kept apart: no step below needs it.
TimersOK ==
  /\ conAction \in Action
  /\ handle \in Timer \cup {None}
  /\ kind \in [Timer -> Kind]
  /\ armed \in SUBSET Timer
  /\ pending \in [Timer -> Nat]

\* A simple timer posts one expiry in its life.
StayOnce ==
  \A t \in Timer : kind[t] = "STAY" /\ pending[t] > 0 => pending[t] = 1 /\ t \notin armed

\* The part of the invariant that does not depend on StopTimer withdrawing expiries.
Driven == TimersOK /\ StayOnce /\ FadeIsDriven

\* The first state: hidden, and no timer.
LEMMA InitDriven == Init => Driven
BY DEF Init, Driven, TimersOK, StayOnce, FadeIsDriven, Action, Kind

\* What StopTimer does to the timers.
LEMMA StopKeeps ==
  ASSUME TimersOK, StayOnce, NEW p \in [Timer -> Nat], StopTimer(p),
         \A t \in Timer : p[t] <= pending[t],
         conAction' \in Action
  PROVE  TimersOK' /\ StayOnce' /\ handle' = None
BY DEF TimersOK, StayOnce, StopTimer, Withdrawn

\* What StopTimer followed by CreateTimer does to them.
LEMMA RestartKeeps ==
  ASSUME TimersOK, StayOnce, NEW p \in [Timer -> Nat], NEW k \in Kind, RestartTimer(k, p),
         \A t \in Timer : p[t] <= pending[t],
         conAction' \in Action
  PROVE  TimersOK' /\ StayOnce' /\ handle' \in armed' /\ kind'[handle'] = k /\ handle' # None
<1>1. PICK t \in Timer :
        /\ Fresh(t)
        /\ armed' = (armed \ {handle}) \cup {t}
        /\ kind' = [kind EXCEPT ![t] = k]
        /\ pending' = Withdrawn(p)
        /\ handle' = t
  BY DEF RestartTimer
<1>2. TimersOK'
  BY <1>1 DEF TimersOK, Withdrawn
<1>3. StayOnce'
  BY <1>1 DEF TimersOK, StayOnce, Withdrawn, Fresh
<1> QED
  BY <1>1, <1>2, <1>3 DEF TimersOK

\* An expiry that is handled no longer waits.
LEMMA HandledType ==
  ASSUME TimersOK, NEW t \in Timer, NEW k, Expired(t, k)
  PROVE  Handled(t) \in [Timer -> Nat] /\ \A u \in Timer : Handled(t)[u] <= pending[u]
BY DEF TimersOK, Expired, Handled

\* ConsoleUpdate keeps the console driven.
LEMMA UpdateKeeps ==
  ASSUME Driven, NEW force, NEW hide, ConsoleUpdate(force, hide)
  PROVE  Driven'
<1>0. pending \in [Timer -> Nat] /\ \A t \in Timer : pending[t] <= pending[t]
  BY DEF Driven, TimersOK
<1>1. CASE conAction' = "FADEIN" /\ RestartTimer("FADEIN", pending)
  BY <1>0, <1>1, RestartKeeps DEF Driven, FadeIsDriven, Action, Kind
<1>2. CASE MustRenew(hide) /\ RestartTimer("STAY", pending) /\ UNCHANGED conAction
  BY <1>0, <1>2, RestartKeeps DEF Driven, FadeIsDriven, Action, Kind, MustRenew
<1>3. CASE UNCHANGED <<conAction, timerVars>>
  BY <1>3 DEF Driven, TimersOK, StayOnce, FadeIsDriven, timerVars
<1> QED
  BY <1>1, <1>2, <1>3 DEF ConsoleUpdate

\* Every step keeps the console driven.
LEMMA DrivenNext == Driven /\ [Next]_vars => Driven'
<1> SUFFICES ASSUME Driven, [Next]_vars PROVE Driven'
  OBVIOUS
<1>0. pending \in [Timer -> Nat] /\ \A t \in Timer : pending[t] <= pending[t]
  BY DEF Driven, TimersOK
<1>1. ASSUME NEW t \in Timer, Expire(t) PROVE Driven'
  BY <1>1 DEF Expire, Driven, TimersOK, StayOnce, FadeIsDriven, Kind
<1>2. ASSUME NEW t \in Timer, FadeInStep(t) PROVE Driven'
  BY <1>2 DEF FadeInStep, Expired, Handled, Driven, TimersOK, StayOnce, FadeIsDriven
<1>3. ASSUME NEW t \in Timer, FadeInEnd(t) PROVE Driven'
  <2>1. Handled(t) \in [Timer -> Nat] /\ \A u \in Timer : Handled(t)[u] <= pending[u]
    BY <1>3, HandledType DEF FadeInEnd, Driven
  <2>2. CASE RestartTimer("STAY", Handled(t))
    BY <1>3, <2>1, <2>2, RestartKeeps DEF FadeInEnd, Driven, FadeIsDriven, Action, Kind
  <2>3. CASE StopTimer(Handled(t))
    BY <1>3, <2>1, <2>3, StopKeeps DEF FadeInEnd, Driven, FadeIsDriven, Action
  <2> QED
    BY <1>3, <2>2, <2>3 DEF FadeInEnd
<1>4. ASSUME NEW t \in Timer, FadeOutStep(t) PROVE Driven'
  BY <1>4 DEF FadeOutStep, Expired, Handled, Driven, TimersOK, StayOnce, FadeIsDriven
<1>5. ASSUME NEW t \in Timer, FadeOutEnd(t) PROVE Driven'
  <2>1. Handled(t) \in [Timer -> Nat] /\ \A u \in Timer : Handled(t)[u] <= pending[u]
    BY <1>5, HandledType DEF FadeOutEnd, Driven
  <2> QED
    BY <1>5, <2>1, StopKeeps DEF FadeOutEnd, Driven, FadeIsDriven, Action
<1>6. ASSUME NEW t \in Timer, StayEnd(t) PROVE Driven'
  <2>1. PICK u \in Timer :
          /\ Fresh(u)
          /\ armed' = armed \cup {u}
          /\ kind' = [kind EXCEPT ![u] = "FADEOUT"]
          /\ handle' = u
    BY <1>6 DEF StayEnd
  <2>2. conAction' = "FADEOUT" /\ pending' = Handled(t) /\ Expired(t, "STAY")
    BY <1>6 DEF StayEnd
  <2>3. TimersOK'
    BY <2>1, <2>2, HandledType DEF Driven, TimersOK, Action, Kind
  <2>4. StayOnce'
    BY <2>1, <2>2 DEF Driven, TimersOK, StayOnce, Fresh, Expired, Handled
  <2>5. FadeIsDriven'
    BY <2>1, <2>2, <2>3 DEF Driven, TimersOK, FadeIsDriven
  <2> QED
    BY <2>3, <2>4, <2>5 DEF Driven
<1>7. CASE cprint
  BY <1>7, UpdateKeeps DEF cprint
<1>8. CASE ToggleOff
  BY <1>0, <1>8, RestartKeeps DEF ToggleOff, Driven, FadeIsDriven, Action, Kind
<1>9. CASE ToggleOn
  BY <1>0, <1>9, RestartKeeps DEF ToggleOn, Driven, FadeIsDriven, Action, Kind
<1>10. CASE DisableConsole
  <2>1. CASE conAction' = "HIDE" /\ StopTimer(pending)
    BY <1>0, <2>1, StopKeeps DEF Driven, FadeIsDriven, Action
  <2>2. CASE UNCHANGED <<conStep, conAction, timerVars>>
    BY <2>2 DEF Driven, TimersOK, StayOnce, FadeIsDriven, timerVars
  <2> QED
    BY <1>10, <2>1, <2>2 DEF DisableConsole
<1>11. CASE ReenableConsole
  BY <1>11 DEF ReenableConsole, Driven, TimersOK, StayOnce, FadeIsDriven, timerVars
<1>12. CASE PressVolume
  BY <1>0, <1>12, RestartKeeps DEF PressVolume, Driven, TimersOK, FadeIsDriven, Action, Kind
<1>13. CASE HoldVolume
  BY <1>13, UpdateKeeps DEF HoldVolume
<1>14. CASE ReloadConfig
  <2>1. CASE UNCHANGED <<conAction, conAutoHide, timerVars>>
    BY <2>1 DEF Driven, TimersOK, StayOnce, FadeIsDriven, timerVars
  <2>2. CASE ConsoleUpdate(AutoShowConsole', conAutoHide)
    BY <2>2, UpdateKeeps
  <2> QED
    BY <1>14, <2>1, <2>2 DEF ReloadConfig
<1>15. CASE BeginLoad
  <2>1. CASE UNCHANGED <<conAction, timerVars>>
    BY <2>1 DEF Driven, TimersOK, StayOnce, FadeIsDriven, timerVars
  <2>2. CASE ConsoleUpdate(AutoShowConsole', conAutoHide)
    BY <2>2, UpdateKeeps
  <2> QED
    BY <1>15, <2>1, <2>2 DEF BeginLoad
<1>16. CASE EndLoad
  <2>1. CASE UNCHANGED <<conAction, timerVars>>
    BY <2>1 DEF Driven, TimersOK, StayOnce, FadeIsDriven, timerVars
  <2>2. CASE ConsoleUpdate(TRUE, TRUE)
    BY <2>2, UpdateKeeps
  <2> QED
    BY <1>16, <2>1, <2>2 DEF EndLoad
<1>17. CASE UNCHANGED vars
  BY <1>17 DEF vars, Driven, TimersOK, StayOnce, FadeIsDriven, timerVars
<1> QED
  BY <1>1, <1>2, <1>3, <1>4, <1>5, <1>6, <1>7, <1>8, <1>9, <1>10, <1>11, <1>12, <1>13, <1>14,
     <1>15, <1>16, <1>17 DEF Next, Handle, Request

\* In every behaviour the console is driven.
LEMMA SpecDriven == Spec => []Driven
BY InitDriven, DrivenNext, PTL DEF Spec

\* A fade in progress always has its own timer, and its handle is known, whatever the
\* operating system does with the expiries of a stopped timer.
THEOREM FadesAreDriven == Spec => []FadeIsDriven
<1>1. Driven => FadeIsDriven
  BY DEF Driven
<1> QED
  BY <1>1, SpecDriven, PTL

-----------------------------------------------------------------------------
(* When StopTimer also withdraws the expiries that wait.                   *)

\* Whatever runs or waits belongs to the known handle, so what is handled fits what
\* the console is doing.
Tidy == ~LateEvents => NoLostTimer

\* StopTimer of the only timer leaves nothing behind.
LEMMA StopTidies ==
  ASSUME Driven, Tidy, NEW p \in [Timer -> Nat], StopTimer(p),
         \A t \in Timer : p[t] <= pending[t]
  PROVE  Tidy'
BY DEF Driven, TimersOK, Tidy, NoLostTimer, StopTimer, Withdrawn

\* StopTimer followed by CreateTimer leaves the new timer only.
LEMMA RestartTidies ==
  ASSUME Driven, Tidy, NEW p \in [Timer -> Nat], NEW k \in Kind, RestartTimer(k, p),
         \A t \in Timer : p[t] <= pending[t]
  PROVE  Tidy'
<1>1. PICK t \in Timer :
        /\ Fresh(t)
        /\ armed' = (armed \ {handle}) \cup {t}
        /\ pending' = Withdrawn(p)
        /\ handle' = t
  BY DEF RestartTimer
<1> QED
  BY <1>1 DEF Driven, TimersOK, Tidy, NoLostTimer, Withdrawn, Fresh

\* ConsoleUpdate loses no timer.
LEMMA UpdateTidies ==
  ASSUME Driven, Tidy, NEW force, NEW hide, ConsoleUpdate(force, hide)
  PROVE  Tidy'
<1>0. pending \in [Timer -> Nat] /\ \A t \in Timer : pending[t] <= pending[t]
  BY DEF Driven, TimersOK
<1>1. CASE RestartTimer("FADEIN", pending) \/ RestartTimer("STAY", pending)
  BY <1>0, <1>1, RestartTidies DEF Kind
<1>2. CASE UNCHANGED timerVars
  BY <1>2 DEF Tidy, NoLostTimer, timerVars
<1> QED
  BY <1>1, <1>2 DEF ConsoleUpdate, timerVars

\* No step loses a timer.
LEMMA TidyNext == Driven /\ Tidy /\ [Next]_vars => Tidy'
<1> SUFFICES ASSUME Driven, Tidy, [Next]_vars PROVE Tidy'
  OBVIOUS
<1>0. pending \in [Timer -> Nat] /\ \A t \in Timer : pending[t] <= pending[t]
  BY DEF Driven, TimersOK
<1>1. ASSUME NEW t \in Timer, Expire(t) PROVE Tidy'
  BY <1>1 DEF Expire, Driven, TimersOK, Tidy, NoLostTimer
<1>2. ASSUME NEW t \in Timer, FadeInStep(t) PROVE Tidy'
  BY <1>2 DEF FadeInStep, Expired, Handled, Driven, TimersOK, Tidy, NoLostTimer
<1>3. ASSUME NEW t \in Timer, FadeInEnd(t) PROVE Tidy'
  <2>1. Handled(t) \in [Timer -> Nat] /\ \A u \in Timer : Handled(t)[u] <= pending[u]
    BY <1>3, HandledType DEF FadeInEnd, Driven
  <2> QED
    BY <1>3, <2>1, RestartTidies, StopTidies DEF FadeInEnd, Kind
<1>4. ASSUME NEW t \in Timer, FadeOutStep(t) PROVE Tidy'
  BY <1>4 DEF FadeOutStep, Expired, Handled, Driven, TimersOK, Tidy, NoLostTimer
<1>5. ASSUME NEW t \in Timer, FadeOutEnd(t) PROVE Tidy'
  <2>1. Handled(t) \in [Timer -> Nat] /\ \A u \in Timer : Handled(t)[u] <= pending[u]
    BY <1>5, HandledType DEF FadeOutEnd, Driven
  <2> QED
    BY <1>5, <2>1, StopTidies DEF FadeOutEnd
<1>6. ASSUME NEW t \in Timer, StayEnd(t) PROVE Tidy'
  <2>1. PICK u \in Timer : Fresh(u) /\ armed' = armed \cup {u} /\ handle' = u
    BY <1>6 DEF StayEnd
  <2>2. pending' = Handled(t) /\ Expired(t, "STAY")
    BY <1>6 DEF StayEnd
  \* The timer that expired was the last one: it ran once, and it was the only one.
  <2>3. ASSUME ~LateEvents PROVE armed = {} /\ \A v \in Timer : pending'[v] = 0
    BY <2>2, <2>3 DEF Driven, TimersOK, StayOnce, Tidy, NoLostTimer, Expired, Handled
  <2> QED
    BY <2>1, <2>3 DEF Tidy, NoLostTimer
<1>7. CASE cprint \/ HoldVolume
  BY <1>7, UpdateTidies DEF cprint, HoldVolume
<1>8. CASE ToggleOff \/ ToggleOn \/ PressVolume
  BY <1>0, <1>8, RestartTidies DEF ToggleOff, ToggleOn, PressVolume, Kind
<1>9. CASE DisableConsole \/ ReenableConsole
  <2>1. CASE StopTimer(pending)
    BY <1>0, <2>1, StopTidies
  <2>2. CASE UNCHANGED timerVars
    BY <2>2 DEF Tidy, NoLostTimer, timerVars
  <2> QED
    BY <1>9, <2>1, <2>2 DEF DisableConsole, ReenableConsole, timerVars
<1>10. CASE ReloadConfig
  <2>1. CASE UNCHANGED timerVars
    BY <2>1 DEF Tidy, NoLostTimer, timerVars
  <2>2. CASE ConsoleUpdate(AutoShowConsole', conAutoHide)
    BY <2>2, UpdateTidies
  <2> QED
    BY <1>10, <2>1, <2>2 DEF ReloadConfig, timerVars
<1>11. CASE BeginLoad
  <2>1. CASE UNCHANGED timerVars
    BY <2>1 DEF Tidy, NoLostTimer, timerVars
  <2>2. CASE ConsoleUpdate(AutoShowConsole', conAutoHide)
    BY <2>2, UpdateTidies
  <2> QED
    BY <1>11, <2>1, <2>2 DEF BeginLoad, timerVars
<1>12. CASE EndLoad
  <2>1. CASE UNCHANGED timerVars
    BY <2>1 DEF Tidy, NoLostTimer, timerVars
  <2>2. CASE ConsoleUpdate(TRUE, TRUE)
    BY <2>2, UpdateTidies
  <2> QED
    BY <1>12, <2>1, <2>2 DEF EndLoad, timerVars
<1>13. CASE UNCHANGED vars
  BY <1>13 DEF vars, Tidy, NoLostTimer, timerVars
<1> QED
  BY <1>1, <1>2, <1>3, <1>4, <1>5, <1>6, <1>7, <1>8, <1>9, <1>10, <1>11, <1>12, <1>13
  DEF Next, Handle, Request

\* When a stopped timer posts nothing more, no timer is ever lost: the one the console
\* knows is the only one that runs or has expiries waiting.
THEOREM TimersAreNotLost == ~LateEvents => (Spec => []NoLostTimer)
<1>1. Init => Tidy
  BY DEF Init, Tidy, NoLostTimer
<1>2. Spec => []Tidy
  BY <1>1, SpecDriven, TidyNext, PTL DEF Spec
<1>3. ~LateEvents /\ Tidy => NoLostTimer
  BY DEF Tidy
<1> SUFFICES ASSUME ~LateEvents PROVE Spec => []NoLostTimer
  OBVIOUS
<1>4. Tidy => NoLostTimer
  BY <1>3
<1> QED
  BY <1>2, <1>4, PTL

-----------------------------------------------------------------------------
(* The opacity.                                                            *)

\* The opacity does not leave its range.
Opacity == conStep \in 0 .. TargetSteps

\* The opacity fits the fade when StopTimer withdraws expiries, and is in range anyway.
Fits == Opacity /\ (~LateEvents => StepFitsAction)

\* ConsoleUpdate does not touch the opacity, and starts a fade in at any opacity.
LEMMA UpdateFits ==
  ASSUME Fits, NEW force, NEW hide, ConsoleUpdate(force, hide), UNCHANGED conStep
  PROVE  Fits'
BY DEF Fits, Opacity, StepFitsAction, ConsoleUpdate

\* When no timer is lost, an expiry of a fade is handled during that fade.
LEMMA ExpiryFits ==
  ASSUME Driven, Tidy, ~LateEvents, NEW t \in Timer, NEW k \in {"FADEIN", "FADEOUT"}, Expired(t, k)
  PROVE  conAction = k
BY DEF Driven, TimersOK, Tidy, NoLostTimer, Expired, FadeIsDriven, Action

\* Every step keeps the opacity fitting.
LEMMA FitsNext == Driven /\ Tidy /\ Fits /\ [Next]_vars => Fits'
<1> SUFFICES ASSUME Driven, Tidy, Fits, [Next]_vars PROVE Fits'
  OBVIOUS
<1>1. ASSUME NEW t \in Timer, Expire(t) PROVE Fits'
  BY <1>1 DEF Expire, Fits, Opacity, StepFitsAction
<1>2. ASSUME NEW t \in Timer, FadeInStep(t) PROVE Fits'
  <2>1. ~LateEvents => conAction = "FADEIN"
    BY <1>2, ExpiryFits DEF FadeInStep
  <2> QED
    BY <1>2, <2>1 DEF FadeInStep, Fits, Opacity, StepFitsAction
<1>3. ASSUME NEW t \in Timer, FadeInEnd(t) PROVE Fits'
  BY <1>3 DEF FadeInEnd, Fits, Opacity, StepFitsAction
<1>4. ASSUME NEW t \in Timer, FadeOutStep(t) PROVE Fits'
  <2>1. ~LateEvents => conAction = "FADEOUT"
    BY <1>4, ExpiryFits DEF FadeOutStep
  <2> QED
    BY <1>4, <2>1 DEF FadeOutStep, Fits, Opacity, StepFitsAction
<1>5. ASSUME NEW t \in Timer, FadeOutEnd(t) PROVE Fits'
  BY <1>5 DEF FadeOutEnd, Fits, Opacity, StepFitsAction
<1>6. ASSUME NEW t \in Timer, StayEnd(t) PROVE Fits'
  BY <1>6 DEF StayEnd, Fits, Opacity, StepFitsAction
<1>7. CASE cprint \/ HoldVolume
  BY <1>7, UpdateFits DEF cprint, HoldVolume
<1>8. CASE ToggleOff \/ ToggleOn \/ PressVolume \/ ReenableConsole
  BY <1>8 DEF ToggleOff, ToggleOn, PressVolume, ReenableConsole, Fits, Opacity, StepFitsAction
<1>9. CASE DisableConsole
  BY <1>9 DEF DisableConsole, Fits, Opacity, StepFitsAction
<1>10. CASE ReloadConfig
  <2>1. CASE UNCHANGED conAction
    BY <1>10, <2>1 DEF ReloadConfig, Fits, Opacity, StepFitsAction
  <2>2. CASE ConsoleUpdate(AutoShowConsole', conAutoHide)
    BY <1>10, <2>2, UpdateFits DEF ReloadConfig
  <2> QED
    BY <1>10, <2>1, <2>2 DEF ReloadConfig
<1>11. CASE BeginLoad
  <2>1. CASE UNCHANGED conAction
    BY <1>11, <2>1 DEF BeginLoad, Fits, Opacity, StepFitsAction
  <2>2. CASE ConsoleUpdate(AutoShowConsole', conAutoHide)
    BY <1>11, <2>2, UpdateFits DEF BeginLoad
  <2> QED
    BY <1>11, <2>1, <2>2 DEF BeginLoad
<1>12. CASE EndLoad
  <2>1. CASE UNCHANGED conAction
    BY <1>12, <2>1 DEF EndLoad, Fits, Opacity, StepFitsAction
  <2>2. CASE ConsoleUpdate(TRUE, TRUE)
    BY <1>12, <2>2, UpdateFits DEF EndLoad
  <2> QED
    BY <1>12, <2>1, <2>2 DEF EndLoad
<1>13. CASE UNCHANGED vars
  BY <1>13 DEF vars, Fits, Opacity, StepFitsAction
<1> QED
  BY <1>1, <1>2, <1>3, <1>4, <1>5, <1>6, <1>7, <1>8, <1>9, <1>10, <1>11, <1>12, <1>13
  DEF Next, Handle, Request

\* When a stopped timer posts nothing more, a hidden console is invisible and one that
\* stays is fully shown, however fades are interrupted.
THEOREM OpacityFits == ~LateEvents => (Spec => []StepFitsAction)
<1>1. Init => Tidy /\ Fits
  BY DEF Init, Tidy, NoLostTimer, Fits, Opacity, StepFitsAction
<1>2. Spec => []Fits
  BY <1>1, SpecDriven, TidyNext, FitsNext, PTL DEF Spec
<1> SUFFICES ASSUME ~LateEvents PROVE Spec => []StepFitsAction
  OBVIOUS
<1>3. Fits => StepFitsAction
  BY DEF Fits
<1> QED
  BY <1>2, <1>3, PTL

-----------------------------------------------------------------------------
(* The types.                                                              *)

\* The types of what the timers do not touch.
Flags ==
  /\ conAutoHide \in BOOLEAN
  /\ EnableConsole \in BOOLEAN
  /\ AutoShowConsole \in BOOLEAN
  /\ app \in {"start", "load", "ready"}

\* Every step keeps the types of the flags.
LEMMA FlagsNext == Flags /\ [Next]_vars => Flags'
<1> SUFFICES ASSUME Flags, [Next]_vars PROVE Flags'
  OBVIOUS
<1>1. ASSUME NEW t \in Timer, Expire(t) PROVE Flags'
  BY <1>1 DEF Expire, Flags, configVars
<1>2. ASSUME NEW t \in Timer,
             FadeInStep(t) \/ FadeInEnd(t) \/ FadeOutStep(t) \/ FadeOutEnd(t) \/ StayEnd(t)
      PROVE  Flags'
  BY <1>2 DEF FadeInStep, FadeInEnd, FadeOutStep, FadeOutEnd, StayEnd, Flags, configVars
<1>3. CASE cprint
  BY <1>3 DEF cprint, Flags, configVars
<1>4. CASE ToggleOff \/ ToggleOn \/ PressVolume \/ HoldVolume
  BY <1>4 DEF ToggleOff, ToggleOn, PressVolume, HoldVolume, Flags, configVars
<1>5. CASE DisableConsole \/ ReenableConsole
  BY <1>5 DEF DisableConsole, ReenableConsole, Flags
<1>6. CASE ReloadConfig
  BY <1>6 DEF ReloadConfig, Flags
<1>7. CASE BeginLoad \/ EndLoad
  BY <1>7 DEF BeginLoad, EndLoad, Flags, configVars
<1>8. CASE UNCHANGED vars
  BY <1>8 DEF vars, Flags, configVars
<1> QED
  BY <1>1, <1>2, <1>3, <1>4, <1>5, <1>6, <1>7, <1>8 DEF Next, Handle, Request

\* Every variable keeps its type; the opacity never leaves its range.
THEOREM ConsoleTypes == Spec => []TypeOK
<1>1. Init => Tidy /\ Fits /\ Flags
  <2>1. Init => Tidy /\ Fits
    BY DEF Init, Tidy, NoLostTimer, Fits, Opacity, StepFitsAction
  <2>2. Init => Flags
    BY Zenon DEF Init, Flags
  <2> QED
    BY <2>1, <2>2
<1>2. Spec => [](Driven /\ Fits /\ Flags)
  BY <1>1, SpecDriven, TidyNext, FitsNext, FlagsNext, PTL DEF Spec
<1>3. Driven /\ Fits /\ Flags => TypeOK
  BY DEF Driven, TimersOK, Fits, Opacity, Flags, TypeOK
<1> QED
  BY <1>2, <1>3, PTL

-----------------------------------------------------------------------------
(* The console that does not go away.                                      *)

\* ConsoleUpdate never leaves a console that should hide without its timer.
LEMMA UpdateStrandsNot ==
  ASSUME NEW force, ConsoleUpdate(force, conAutoHide), conAction' = "STAY", conAutoHide',
         conAutoHide' => conAutoHide \/ MustShow(force), handle' = None
  PROVE  FALSE
<1>1. CASE conAction' = "FADEIN"
  BY <1>1
<1>2. CASE RestartTimer("STAY", pending)
  BY <1>2 DEF RestartTimer
<1>3. CASE ~MustShow(force) /\ ~MustRenew(conAutoHide) /\ UNCHANGED conAction
  BY <1>3 DEF MustRenew
<1> QED
  BY <1>1, <1>2, <1>3 DEF ConsoleUpdate

\* A console that should hide by itself keeps its timer in every step but the end of
\* ElfPackLoad, which makes a console that was opened before hide by itself.
THEOREM LoadAloneStrands == Spec => OnlyLoadStrands
<1>1. ASSUME [Next]_vars, Stranded', ~Stranded, ~EndLoad PROVE FALSE
  <2>0. conAction' = "STAY" /\ conAutoHide' /\ handle' = None
    BY <1>1 DEF Stranded
  <2>1. ~(\E t \in Timer : Expire(t) \/ FadeInStep(t) \/ FadeOutStep(t))
    BY <1>1 DEF Expire, FadeInStep, FadeOutStep, Stranded
  <2>2. ~(\E t \in Timer : FadeInEnd(t))
    BY <2>0 DEF FadeInEnd, RestartTimer
  <2>3. ~(\E t \in Timer : FadeOutEnd(t) \/ StayEnd(t))
    BY <2>0 DEF FadeOutEnd, StayEnd
  <2>4. ~cprint
    BY <2>0, UpdateStrandsNot DEF cprint
  <2>5. ~(ToggleOff \/ ToggleOn)
    BY <2>0 DEF ToggleOff, ToggleOn
  <2>6. ~DisableConsole
    BY <1>1, <2>0 DEF DisableConsole, Stranded, timerVars
  <2>7. ~ReenableConsole
    BY <1>1 DEF ReenableConsole, Stranded, timerVars
  <2>8. ~PressVolume
    BY <2>0 DEF PressVolume, RestartTimer
  <2>9. ~HoldVolume
    BY <2>0, UpdateStrandsNot DEF HoldVolume
  <2>10. ~ReloadConfig
    BY <1>1, <2>0, UpdateStrandsNot DEF ReloadConfig, Stranded, timerVars
  <2>11. ~BeginLoad
    BY <2>0 DEF BeginLoad
  <2>12. ~(UNCHANGED vars)
    BY <1>1 DEF vars, Stranded, timerVars
  <2> QED
    BY <1>1, <2>1, <2>2, <2>3, <2>4, <2>5, <2>6, <2>7, <2>8, <2>9, <2>10, <2>11, <2>12
    DEF Next, Handle, Request
<1>2. [Next]_vars => [Stranded' => Stranded \/ EndLoad]_vars
  BY <1>1
<1> QED
  BY <1>2, PTL DEF Spec, OnlyLoadStrands

-----------------------------------------------------------------------------
(* What makes a fade end.                                                  *)

\* A timer whose handle is known still runs, or an expiry of it waits.
KnownTimerLives == handle # None => handle \in armed \/ pending[handle] > 0

\* The expiry of the simple timer starts the timer of the fade out; an expiry of a fade
\* leaves the timer running, and a request stops the timer or replaces it.
LEMMA LivesNext == Driven /\ KnownTimerLives /\ [Next]_vars => KnownTimerLives'
<1> SUFFICES ASSUME Driven, KnownTimerLives, [Next]_vars PROVE KnownTimerLives'
  OBVIOUS
<1> USE DEF Driven, TimersOK, KnownTimerLives
<1>0. ASSUME NEW k, NEW p, RestartTimer(k, p) PROVE KnownTimerLives'
  BY <1>0 DEF RestartTimer
<1>1. ASSUME NEW p, StopTimer(p) PROVE KnownTimerLives'
  BY <1>1 DEF StopTimer
<1>2. CASE UNCHANGED timerVars
  BY <1>2 DEF timerVars
<1>3. ASSUME NEW force, NEW hide, ConsoleUpdate(force, hide) PROVE KnownTimerLives'
  BY <1>0, <1>2, <1>3 DEF ConsoleUpdate, timerVars
<1>4. ASSUME NEW t \in Timer, Expire(t) PROVE KnownTimerLives'
  BY <1>4 DEF Expire
<1>5. ASSUME NEW t \in Timer, FadeInStep(t) \/ FadeOutStep(t) PROVE KnownTimerLives'
  <2>1. kind[t] \in {"FADEIN", "FADEOUT"} /\ UNCHANGED <<handle, armed>>
    BY <1>5 DEF FadeInStep, FadeOutStep, Expired
  <2>2. pending' = Handled(t)
    BY <1>5 DEF FadeInStep, FadeOutStep
  <2>3. t = handle => handle \in armed
    BY <2>1 DEF FadeIsDriven, Action
  <2> QED
    BY <2>1, <2>2, <2>3 DEF Handled
<1>6. ASSUME NEW t \in Timer, FadeInEnd(t) \/ FadeOutEnd(t) PROVE KnownTimerLives'
  BY <1>0, <1>1, <1>6 DEF FadeInEnd, FadeOutEnd
<1>7. ASSUME NEW t \in Timer, StayEnd(t) PROVE KnownTimerLives'
  BY <1>7 DEF StayEnd
<1>8. CASE Request \/ EndLoad
  BY <1>0, <1>1, <1>2, <1>3, <1>8
  DEF Request, EndLoad, cprint, ToggleOff, ToggleOn, DisableConsole, ReenableConsole, PressVolume,
      HoldVolume, ReloadConfig, BeginLoad, timerVars
<1>9. CASE UNCHANGED vars
  BY <1>2, <1>9 DEF vars
<1> QED
  BY <1>4, <1>5, <1>6, <1>7, <1>8, <1>9 DEF Next, Handle

\* The console never waits for a timer that has died: as long as it knows one, an expiry
\* is waiting or will be posted, whatever the operating system does with the expiries of a
\* stopped timer.
THEOREM TimersKeepGoing == Spec => []KnownTimerLives
<1>1. Init => KnownTimerLives
  BY DEF Init, KnownTimerLives
<1> QED
  BY <1>1, SpecDriven, LivesNext, PTL DEF Spec

\* How many expiries the console is away from being hidden, if nobody interferes.
Left ==
  CASE conAction = "HIDE" -> 0
    [] conAction = "FADEOUT" -> conStep + 1
    [] conAction = "STAY" -> TargetSteps + 2
    [] conAction = "FADEIN" -> 2 * TargetSteps + 3 - conStep

\* Every expiry that is handled brings the console nearer to its rest, and only a request
\* or the end of ElfPackLoad takes it farther away.
NearsRest == [][(Handle => Left' < Left) /\ (Left' > Left => Request \/ EndLoad)]_vars

\* When no timer is lost, an expiry of the simple timer is handled while the console stays.
LEMMA StayExpires ==
  ASSUME Driven, Tidy, ~LateEvents, NEW t \in Timer, Expired(t, "STAY")
  PROVE  conAction = "STAY"
BY DEF Driven, TimersOK, Tidy, NoLostTimer, Expired, FadeIsDriven, Action

\* When a stopped timer posts nothing more, no expiry is handled in vain: each one steps
\* the console towards its rest, so fades end after a bounded number of them. With late
\* events it is false: the last expiry of a fade in may turn a fade out around.
THEOREM ExpiriesLeadToRest == ~LateEvents => (Spec => NearsRest)
<1> SUFFICES ASSUME ~LateEvents PROVE Spec => NearsRest
  OBVIOUS
<1>1. ASSUME Driven, Tidy, Fits, Handle PROVE Left' < Left
  <2>0. conStep \in 0 .. TargetSteps /\ (conAction = "STAY" => conStep = TargetSteps)
    BY <1>1 DEF Fits, Opacity, StepFitsAction
  <2>1. ASSUME NEW t \in Timer, FadeInStep(t) PROVE Left' < Left
    BY <1>1, <2>0, <2>1, ExpiryFits DEF FadeInStep, Left
  <2>2. ASSUME NEW t \in Timer, FadeInEnd(t) PROVE Left' < Left
    BY <1>1, <2>0, <2>2, ExpiryFits DEF FadeInEnd, Left
  <2>3. ASSUME NEW t \in Timer, FadeOutStep(t) PROVE Left' < Left
    BY <1>1, <2>0, <2>3, ExpiryFits DEF FadeOutStep, Left
  <2>4. ASSUME NEW t \in Timer, FadeOutEnd(t) PROVE Left' < Left
    BY <1>1, <2>0, <2>4, ExpiryFits DEF FadeOutEnd, Left
  <2>5. ASSUME NEW t \in Timer, StayEnd(t) PROVE Left' < Left
    BY <1>1, <2>0, <2>5, StayExpires DEF StayEnd, Left
  <2> QED
    BY <1>1, <2>1, <2>2, <2>3, <2>4, <2>5 DEF Handle
<1>2. ASSUME Fits, \E t \in Timer : Expire(t) PROVE Left' = Left
  BY <1>2 DEF Expire, Left
<1>3. ASSUME Driven, Fits PROVE Left \in Int
  BY <1>3 DEF Driven, TimersOK, Action, Fits, Opacity, Left
<1>4. Driven /\ Tidy /\ Fits /\ Driven' /\ Fits' /\ [Next]_vars
        => [(Handle => Left' < Left) /\ (Left' > Left => Request \/ EndLoad)]_vars
  <2> SUFFICES ASSUME Driven, Tidy, Fits, Driven', Fits', Next
               PROVE  (Handle => Left' < Left) /\ (Left' > Left => Request \/ EndLoad)
    OBVIOUS
  <2>1. Left \in Int /\ Left' \in Int
    BY <1>3 DEF Driven, TimersOK, Action, Fits, Opacity, Left
  <2> QED
    BY <1>1, <1>2, <2>1 DEF Next
<1>5. Init => Tidy /\ Fits
  BY DEF Init, Tidy, NoLostTimer, Fits, Opacity, StepFitsAction
<1> QED
  BY <1>4, <1>5, SpecDriven, TidyNext, FitsNext, PTL DEF Spec, NearsRest

=============================================================================
