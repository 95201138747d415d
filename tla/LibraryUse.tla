----------------------------- MODULE LibraryUse -----------------------------
(***************************************************************************)
(* What the library table promises: a library stays in its slot exactly as *)
(* long as somebody uses it, and the last user to leave takes it away.     *)
(*                                                                         *)
(* The promise can be lost for a slot (see Lose): the loader gives it up   *)
(* for the libraries of a load that failed after linking them.             *)
(***************************************************************************)
CONSTANTS Slot, Image, None

VARIABLES
  loaded,  \* the library in each slot
  users,   \* the images linked with it
  lost     \* slots the promise no longer covers

vars == <<loaded, users, lost>>

Init ==
  /\ loaded = [s \in Slot |-> None]
  /\ users = [s \in Slot |-> {}]
  /\ lost = {}

\* A library is loaded for its first user.
Provide(s, c, h) ==
  /\ s \notin lost
  /\ loaded[s] = None
  /\ loaded' = [loaded EXCEPT ![s] = c]
  /\ users' = [users EXCEPT ![s] = {h}]
  /\ UNCHANGED lost

\* One more image uses a library that is already loaded.
Share(s, h) ==
  /\ loaded[s] # None
  /\ h \notin users[s]
  /\ users' = [users EXCEPT ![s] = @ \cup {h}]
  /\ UNCHANGED <<loaded, lost>>

\* A user leaves; the library goes with the last one, not earlier and not later.
Leave(s, h) ==
  /\ h \in users[s]
  /\ users' = [users EXCEPT ![s] = @ \ {h}]
  /\ loaded' = IF users[s] = {h} THEN [loaded EXCEPT ![s] = None] ELSE loaded
  /\ UNCHANGED lost

\* The slots of a failed load are given back twice and can no longer be trusted.
Lose(S) ==
  /\ lost' = lost \cup S
  /\ loaded' = [s \in Slot |-> IF s \in lost' THEN None ELSE loaded[s]]
  /\ users' = [s \in Slot |-> IF s \in lost' THEN {} ELSE users[s]]

Next ==
  \/ \E s \in Slot, h, c \in Image : Provide(s, c, h)
  \/ \E s \in Slot, h \in Image : Share(s, h) \/ Leave(s, h)
  \/ \E S \in SUBSET Slot : Lose(S)

Spec == Init /\ [][Next]_vars

=============================================================================
