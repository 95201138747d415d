----------------------------- MODULE Em2Loader -----------------------------
(***************************************************************************)
(* The loader of the EM2 phones (ldr_core.c, ldr_elflist.c): programs, the *)
(* range of event codes each of them gets, and the linked list they are    *)
(* kept in.                                                                *)
(*                                                                         *)
(* ldrLoadElf runs the entry point of a program, which may load and unload *)
(* others: entry points nest. A program is on the list from the return of  *)
(* its entry point. The counter evbase gives out ranges of EVBASE_RESERVE  *)
(* event codes; a load that fails takes its range back by subtraction.     *)
(***************************************************************************)
EXTENDS Integers, Sequences, SequencesExt

CONSTANTS
  Elf,      \* ldrElf structures there is memory for
  EvBase,   \* the first value of evbase
  Reserve,  \* EVBASE_RESERVE
  MaxBase,  \* evbase stays below this (a bound of the model)
  OwnCode,  \* event codes that autorun records and callers ask for; not 0
  None      \* NULL

ASSUME ElfAssumption == None \notin Elf

ASSUME CodesAssumption ==
  /\ EvBase \in Nat
  /\ Reserve \in Nat \ {0}
  /\ MaxBase \in Nat
  /\ OwnCode \subseteq Nat \ {0}

VARIABLES
  evbase,     \* where the next range starts
  phase,      \* what has become of each structure
  base,       \* elf->evbase
  evcode,     \* the argument of the ldrLoadElf that loads it; 0 is "from the counter"
  running,    \* programs whose entry point runs, the innermost last
  root,       \* loadedElfsList.root
  tail,       \* loadedElfsList.tail
  count,      \* loadedElfsList.count
  nextElf,    \* elf->next; NULL in a structure that is not on the list
  programs    \* history: the programs on the list, in the order they were added

codeVars == <<evbase, base, evcode>>
listVars == <<root, tail, count, nextElf, programs>>
vars == <<codeVars, phase, running, listVars>>

\* "free"  no such structure
\* "start" its entry point runs
\* "live"  loaded, and on the list
\* "lost"  its file was not a program: the structure is never freed
Phase == {"free", "start", "live", "lost"}

Init ==
  /\ evbase = EvBase
  /\ phase = [e \in Elf |-> "free"]
  /\ base = [e \in Elf |-> 0]
  /\ evcode = [e \in Elf |-> 0]
  /\ running = <<>>
  /\ root = None
  /\ tail = None
  /\ count = 0
  /\ nextElf = [e \in Elf |-> None]
  /\ programs = <<>>

-----------------------------------------------------------------------------
(* The list.                                                               *)

elfListAdd(e) ==
  /\ root' = IF root = None THEN e ELSE root
  /\ nextElf' = IF root = None
                THEN [nextElf EXCEPT ![e] = None]
                ELSE [nextElf EXCEPT ![tail] = e, ![e] = None]
  /\ tail' = e
  /\ count' = count + 1
  /\ programs' = Append(programs, e)

\* pelf, where the walk along the list finds e: the program before it, if any.
Before(e) == {p \in Elf : phase[p] = "live" /\ nextElf[p] = e}

\* Mutant: the tail is not moved when the last program goes.
elfListFindAndDelKeepingTail(e) ==
  /\ IF Before(e) = {}
     THEN root' = nextElf[e] /\ nextElf' = [nextElf EXCEPT ![e] = None]
     ELSE /\ \E pelf \in Before(e) :
               nextElf' = [nextElf EXCEPT ![pelf] = nextElf[e], ![e] = None]
          /\ UNCHANGED root
  /\ UNCHANGED tail
  /\ count' = count - 1
  /\ \E n \in DOMAIN programs : programs[n] = e /\ programs' = RemoveAt(programs, n)

elfListFindAndDel(e) ==
  /\ IF Before(e) = {}
     THEN /\ root' = nextElf[e]
          /\ tail' = IF nextElf[e] = None THEN None ELSE tail
          /\ nextElf' = [nextElf EXCEPT ![e] = None]
     ELSE \E pelf \in Before(e) :
          /\ tail' = IF nextElf[e] = None THEN pelf ELSE tail
          /\ nextElf' = [nextElf EXCEPT ![pelf] = nextElf[e], ![e] = None]
          /\ UNCHANGED root
  /\ count' = count - 1
  /\ \E n \in DOMAIN programs : programs[n] = e /\ programs' = RemoveAt(programs, n)

\* The structure and the image are freed, and what they held is lost.
Free(e) ==
  /\ phase' = [phase EXCEPT ![e] = "free"]
  /\ base' = [base EXCEPT ![e] = 0]
  /\ evcode' = [evcode EXCEPT ![e] = 0]

-----------------------------------------------------------------------------
(* ldrLoadElf.                                                             *)

\* The image is parsed and its entry point is called.
Start(e, code) ==
  /\ phase[e] = "free"
  /\ phase' = [phase EXCEPT ![e] = "start"]
  /\ evcode' = [evcode EXCEPT ![e] = code]
  /\ running' = Append(running, e)
  /\ UNCHANGED listVars

StartWithOwnCode(e, code) ==
  /\ code \in OwnCode
  /\ Start(e, code)
  /\ base' = [base EXCEPT ![e] = code]
  /\ UNCHANGED evbase

\* Mutant: the counter moves on by one code less than the program may use.
StartFromCounterShort(e) ==
  /\ evbase + Reserve <= MaxBase
  /\ Start(e, 0)
  /\ base' = [base EXCEPT ![e] = evbase]
  /\ evbase' = evbase + Reserve - 1

StartFromCounter(e) ==
  /\ evbase + Reserve <= MaxBase
  /\ Start(e, 0)
  /\ base' = [base EXCEPT ![e] = evbase]
  /\ evbase' = evbase + Reserve

\* ldrParseImage finds no entry point: the image is freed, the structure is not.
ParseFails(e) ==
  /\ phase[e] = "free"
  /\ phase' = [phase EXCEPT ![e] = "lost"]
  /\ UNCHANGED <<codeVars, running, listVars>>

Returning(e) == running # <<>> /\ Last(running) = e

\* The entry point returned RESULT_OK.
EntrySucceeds(e) ==
  /\ Returning(e)
  /\ elfListAdd(e)
  /\ phase' = [phase EXCEPT ![e] = "live"]
  /\ running' = Front(running)
  /\ UNCHANGED codeVars

\* Mutant: a program with a code of its own gives a range back, too.
EntryFailsTakingAny(e) ==
  /\ Returning(e)
  /\ evbase' = evbase - Reserve
  /\ Free(e)
  /\ running' = Front(running)
  /\ UNCHANGED listVars

\* It returned anything else: the range is taken back, and ldrUnloadElf frees the
\* program, which is not on the list.
EntryFails(e) ==
  /\ Returning(e)
  /\ evbase' = IF evcode[e] = 0 THEN evbase - Reserve ELSE evbase
  /\ Free(e)
  /\ running' = Front(running)
  /\ UNCHANGED listVars

\* Mutant: the range is given back on an unload, too.
ldrUnloadElfGivingBack(e) ==
  /\ phase[e] = "live"
  /\ elfListFindAndDel(e)
  /\ Free(e)
  /\ evbase' = IF evcode[e] = 0 THEN evbase - Reserve ELSE evbase
  /\ UNCHANGED running

\* ldrUnloadElf, called by the program itself when it exits, by the window of the
\* loader, or by another program, at any time. Its range is not given back.
ldrUnloadElf(e) ==
  /\ phase[e] = "live"
  /\ elfListFindAndDel(e)
  /\ Free(e)
  /\ UNCHANGED <<evbase, running>>

Next ==
  \E e \in Elf :
    \/ \E code \in OwnCode : StartWithOwnCode(e, code)
    \/ StartFromCounter(e)
    \/ ParseFails(e)
    \/ EntrySucceeds(e)
    \/ EntryFails(e)
    \/ ldrUnloadElf(e)

Spec == Init /\ [][Next]_vars

-----------------------------------------------------------------------------
(* Properties.                                                             *)

\* Every variable has its type. The counter never falls below its first value,
\* whatever loads fail and in which order.
TypeOK ==
  /\ evbase \in Nat
  /\ evbase >= EvBase
  /\ phase \in [Elf -> Phase]
  /\ base \in [Elf -> Nat]
  /\ evcode \in [Elf -> Nat]
  /\ running \in Seq(Elf)
  /\ root \in Elf \cup {None}
  /\ tail \in Elf \cup {None}
  /\ count \in Nat
  /\ nextElf \in [Elf -> Elf \cup {None}]
  /\ programs \in Seq(Elf)

\* From root, along next, to tail: the list holds the live programs, each once, in the
\* order in which their entry points returned, and count is their number. No pointer
\* of the list leads to a program that was freed.
ListIsSequence ==
  LET n == Len(programs)
  IN  /\ count = n
      /\ root = IF n = 0 THEN None ELSE programs[1]
      /\ tail = IF n = 0 THEN None ELSE programs[n]
      /\ \A k \in 1 .. n :
           /\ phase[programs[k]] = "live"
           /\ nextElf[programs[k]] = IF k = n THEN None ELSE programs[k + 1]
      /\ \A j, k \in 1 .. n : programs[j] = programs[k] => j = k
      /\ \A e \in Elf : phase[e] = "live" => \E k \in 1 .. n : programs[k] = e

\* Programs that exist and have a range of the counter.
Ranged == {e \in Elf : phase[e] \in {"start", "live"} /\ evcode[e] = 0}

\* The ranges of programs whose entry points run are apart, in the order of the calls,
\* even when others overlap: so each failure gives back at most what it took.
StackRangesApart ==
  \A k \in DOMAIN running : evcode[running[k]] = 0 =>
    /\ base[running[k]] + Reserve <= evbase
    /\ \A j \in 1 .. k - 1 :
         evcode[running[j]] = 0 => base[running[j]] + Reserve <= base[running[k]]

\* The ranges of these programs do not overlap, and the next one will not overlap them.
RangesApart ==
  /\ \A d, e \in Ranged : d # e => base[d] + Reserve <= base[e] \/ base[e] + Reserve <= base[d]
  /\ \A e \in Ranged : base[e] + Reserve <= evbase

\* The entry point of a program fails while a program it has loaded lives on.
FailsAfterLoading(d) ==
  EntryFails(d) /\ evcode[d] = 0 /\ \E e \in Ranged : base[d] < base[e]

\* Ranges come to overlap in one way only: an entry point loads another program and
\* then fails, and the range that is taken back is the other program's.
OnlyLateFailureOverlaps ==
  [][RangesApart => RangesApart' \/ \E d \in Elf : FailsAfterLoading(d)]_vars

=============================================================================
