----------------------------- MODULE Em1Autorun -----------------------------
(***************************************************************************)
(* The loader of the EM1 phones (elfloader/loader.c): the list of programs *)
(* on the phone, the file of those to start when it is switched on, and    *)
(* the command that adds a program to that file or removes it.             *)
(*                                                                         *)
(* The file is a header with a number of elements, and that many entries.  *)
(* The list shows which programs are in it; the command trusts what the    *)
(* list shows. The phone may be switched off at any time. A write is all   *)
(* or nothing; opening the file for writing empties it at once.            *)
(***************************************************************************)
EXTENDS Integers, FiniteSets, SequencesExt

CONSTANTS
  Program,    \* the programs there may be
  Found,      \* the order in which a search finds the ones on the disk
  MaxHandles, \* how many files may be open
  Missing,    \* there is no startup.cfg
  Empty       \* there is one, of length 0

ASSUME FoundAssumption ==
  /\ Found \in [SUBSET Program -> Seq(Program)]
  /\ \A ps \in SUBSET Program : ToSet(Found[ps]) = ps /\ IsInjective(Found[ps])

ASSUME HandlesAssumption == MaxHandles \in Nat \ {0}

VARIABLES
  disk,        \* the programs on the phone
  startupcfg,  \* the file: Missing, Empty, or [Elements, entries]
  pc,          \* what the loader is doing
  next,        \* in DoAutorun, the next entry
  fname,       \* the programs in the list, and the place of each in the file
  SelectedElf, \* what the last Navigate said, less one for every command since
  handles,     \* files that were opened and never closed
  buffer,      \* what AutRun_Action is about to write
  started      \* history: what DoAutorun has started, in order

listVars == <<fname, SelectedElf>>
vars == <<disk, startupcfg, pc, next, listVars, handles, buffer, started>>

\* "autorun"  DoAutorun runs (the phone is being switched on)
\* "off"      the list is not shown
\* "list"     it is
\* "write"    AutRun_Action has its file open, and has not written it
\* "wild"     it works from a header it could not read: anything may happen
PC == {"autorun", "off", "list", "write", "wild"}

\* The structures of startup.cfg.
File == [Elements : Nat, entries : Seq(Program)]

Init ==
  /\ disk \in SUBSET Program
  /\ startupcfg = Missing
  /\ pc = "autorun"
  /\ next = 1
  /\ fname = <<>>
  /\ SelectedElf = 0
  /\ handles = 0
  /\ buffer = Empty
  /\ started = <<>>

\* The file has something in it.
Filled == startupcfg \notin {Missing, Empty}

\* There is a handle for one more file.
CanOpen == handles < MaxHandles

-----------------------------------------------------------------------------
(* Switching on.                                                           *)

\* What the i-th read of an entry leaves in Entry: at the end of the file,
\* what was there.
EntryRead(i) ==
  startupcfg.entries[IF i <= Len(startupcfg.entries) THEN i ELSE Len(startupcfg.entries)]

\* Mutant: the loop runs once too often.
EntriesToRunAndOne == IF Filled THEN startupcfg.Elements + 1 ELSE 0

EntriesToRun == IF Filled THEN startupcfg.Elements ELSE 0

\* DoAutorun starts the next program of the file, if it is still there and
\* LoadElf finds it good.
DoAutorun ==
  /\ pc = "autorun"
  /\ next <= EntriesToRun
  /\ \/ /\ EntryRead(next) \in disk
        /\ started' = Append(started, EntryRead(next))
     \/ UNCHANGED started
  /\ next' = next + 1
  /\ UNCHANGED <<disk, startupcfg, pc, listVars, handles, buffer>>

DoAutorunEnds ==
  /\ pc = "autorun"
  /\ next > EntriesToRun
  /\ pc' = "off"
  /\ UNCHANGED <<disk, startupcfg, next, listVars, handles, buffer, started>>

\* The phone is switched off, or its battery goes, and it is switched on.
PowerOff ==
  /\ pc' = "autorun"
  /\ next' = 1
  /\ fname' = <<>>
  /\ SelectedElf' = 0
  /\ handles' = 0
  /\ buffer' = Empty
  /\ started' = <<>>
  /\ UNCHANGED <<disk, startupcfg>>

-----------------------------------------------------------------------------
(* The list.                                                               *)

\* The place of p in file f, from 1; 0 when it is not in it.
Place(p, f) ==
  IF f \in {Missing, Empty} THEN 0
  ELSE LET at == {i \in 1 .. f.Elements : i <= Len(f.entries) /\ f.entries[i] = p}
       IN  IF at = {} THEN 0 ELSE CHOOSE i \in at : \A j \in at : i <= j

\* How many of the first n programs of s are in file f.
InFile(s, n, f) == Cardinality({i \in 1 .. n : Place(s[i], f) > 0})

\* Mutant: the place is counted from 0.
MarkFromZero(s, i, f) ==
  IF handles + InFile(s, i - 1, f) < MaxHandles /\ Place(s[i], f) > 0
  THEN Place(s[i], f) - 1 ELSE 0

\* InAutorun( i ): it opens the file for every program, and returns without
\* closing it when it finds the program. When the handles are used up no
\* program is found any more.
Mark(s, i, f) ==
  IF handles + InFile(s, i - 1, f) < MaxHandles THEN Place(s[i], f) ELSE 0

\* FindAppS, with ps on the disk and file f.
FindAppS(ps, f) ==
  LET s == Found[ps]
      used == handles + InFile(s, Len(s), f)
  IN  /\ fname' = [i \in 1 .. Len(s) |-> [name |-> s[i], in_autorun |-> Mark(s, i, f)]]
      /\ handles' = IF used <= MaxHandles THEN used ELSE MaxHandles

\* Update( item ). The list may or may not tell the loader which item it
\* shows as selected; sel is what SelectedElf is without that.
Update(ps, f, item, sel) ==
  /\ FindAppS(ps, f)
  /\ SelectedElf' \in {sel, item}
  /\ pc' = "list"

\* The user opens the loader (or comes back from About_Action).
MainStateEnter ==
  /\ pc \in {"off", "list"}
  /\ Update(disk, startupcfg, 1, SelectedElf)
  /\ UNCHANGED <<disk, startupcfg, next, buffer, started>>

Navigate(item) ==
  /\ pc = "list"
  /\ SelectedElf' = item
  /\ UNCHANGED <<disk, startupcfg, pc, next, fname, handles, buffer, started>>

\* if( SelectedElf > 0 ) --SelectedElf;  the index of a command in fname, from 0.
Index == IF SelectedElf > 0 THEN SelectedElf - 1 ELSE 0

\* The program a command is for. A list with nothing in it sends none.
Selected == fname[Index + 1]

AppLoaderExit ==
  /\ pc = "list"
  /\ fname' = <<>>
  /\ pc' = "off"
  /\ UNCHANGED <<disk, startupcfg, next, SelectedElf, handles, buffer, started>>

\* Run_Action and Select start the program and leave.
Run_Action ==
  /\ pc = "list"
  /\ fname # <<>>
  /\ SelectedElf' = Index
  /\ fname' = <<>>
  /\ pc' = "off"
  /\ UNCHANGED <<disk, startupcfg, next, handles, buffer, started>>

\* The program is deleted; its entry in the file stays.
Del_Action ==
  /\ pc = "list"
  /\ fname # <<>>
  /\ disk' = disk \ {Selected.name}
  /\ Update(disk', startupcfg, 1, Index)
  /\ UNCHANGED <<startupcfg, next, buffer, started>>

\* A program is copied to the phone while the list is not shown.
Copy(p) ==
  /\ pc = "off"
  /\ disk' = disk \cup {p}
  /\ UNCHANGED <<startupcfg, pc, next, listVars, handles, buffer, started>>

-----------------------------------------------------------------------------
(* AutRun_Action.                                                          *)

\* The entries a loop over the first n reads, from the start of the file.
Read(n) == [i \in 1 .. n |-> EntryRead(i)]

\* The program is marked. The loop over the entries leaves out its place
\* without reading past it: what it writes are the first entries, one fewer
\* than there were. The file is opened again for writing, which empties it.
RemoveOpens ==
  /\ pc = "list"
  /\ fname # <<>>
  /\ Selected.in_autorun > 0
  /\ CanOpen
  /\ Filled    \* it always is, when a program is marked
  /\ buffer' = [Elements |-> startupcfg.Elements - 1, entries |-> Read(startupcfg.Elements - 1)]
  /\ startupcfg' = Empty
  /\ SelectedElf' = Index
  /\ pc' = "write"
  /\ UNCHANGED <<disk, next, fname, handles, started>>

\* Mutant: the command adds whatever the list shows.
AddsWhatever == TRUE

Adds == Selected.in_autorun = 0

\* The program is not marked: it goes behind the entries there are. The file
\* is opened without being emptied, or made.
AddOpens ==
  /\ pc = "list"
  /\ fname # <<>>
  /\ Adds
  /\ CanOpen
  /\ buffer' = IF Filled
               THEN [Elements |-> startupcfg.Elements + 1,
                     entries |-> Append(Read(startupcfg.Elements), Selected.name)]
               ELSE [Elements |-> 1, entries |-> <<Selected.name>>]
  /\ startupcfg' = IF startupcfg = Missing THEN Empty ELSE startupcfg
  /\ SelectedElf' = Index
  /\ pc' = "write"
  /\ UNCHANGED <<disk, next, fname, handles, started>>

\* The buffer is written, the file closed, and the list made anew.
Write ==
  /\ pc = "write"
  /\ startupcfg' = buffer
  /\ buffer' = Empty
  /\ Update(disk, buffer, SelectedElf + 1, SelectedElf)
  /\ UNCHANGED <<disk, next, started>>

\* No handle is left, and neither open succeeds. To add a program, the
\* buffer is written nowhere.
AddFails ==
  /\ pc = "list"
  /\ fname # <<>>
  /\ Adds
  /\ ~CanOpen
  /\ Update(disk, startupcfg, Index + 1, Index)
  /\ UNCHANGED <<disk, startupcfg, next, buffer, started>>

\* To remove one, Head is used although it was never read. With most values
\* the loop writes over memory until PowerOff; with some it does nothing. The
\* file is not open in any case.
RemoveFails ==
  /\ pc = "list"
  /\ fname # <<>>
  /\ Selected.in_autorun > 0
  /\ ~CanOpen
  /\ \/ /\ pc' = "wild"
        /\ UNCHANGED <<listVars, handles>>
     \/ Update(disk, startupcfg, Index + 1, Index)
  /\ UNCHANGED <<disk, startupcfg, next, buffer, started>>

-----------------------------------------------------------------------------
Next ==
  \/ DoAutorun
  \/ DoAutorunEnds
  \/ PowerOff
  \/ MainStateEnter
  \/ \E item \in DOMAIN fname : Navigate(item)
  \/ AppLoaderExit
  \/ Run_Action
  \/ Del_Action
  \/ \E p \in Program : Copy(p)
  \/ RemoveOpens
  \/ AddOpens
  \/ Write
  \/ AddFails
  \/ RemoveFails

Spec == Init /\ [][Next]_vars

-----------------------------------------------------------------------------
(* Properties.                                                             *)

TypeOK ==
  /\ disk \subseteq Program
  /\ startupcfg \in {Missing, Empty} \cup File
  /\ pc \in PC
  /\ next \in Nat \ {0}
  /\ fname \in Seq([name : Program, in_autorun : Nat])
  /\ SelectedElf \in Nat
  /\ handles \in 0 .. MaxHandles
  /\ buffer \in {Empty} \cup File
  /\ started \in Seq(Program)

\* f holds as many entries as it says, and no program twice.
Sound(f) ==
  f \notin {Missing, Empty} =>
    /\ f.Elements = Len(f.entries)
    /\ IsInjective(f.entries)

\* The file is sound, and what is about to be written is: although the
\* command trusts marks made earlier, although those are wrong once the
\* handles are used up (InAutorun does not close the file of a program it
\* finds), and whenever the phone is switched off, the file never names a
\* program twice nor counts one too many, so the next switching on reads no
\* entry behind its end (loader.c:505, :1399).
FileSound == Sound(startupcfg) /\ Sound(buffer)

\* As long as there is a handle left, what the list shows is what the file
\* says: after every command, on whatever entry of whichever length of file,
\* and for programs that are copied and deleted (loader.c:704, :597).
MarksAgree ==
  pc = "list" /\ CanOpen =>
    \A i \in DOMAIN fname : fname[i].in_autorun = Place(fname[i].name, startupcfg)

\* Switching on starts no program twice, and none that is not in the file
\* (loader.c:1432).
StartsOnce ==
  /\ IsInjective(started)
  /\ pc = "autorun" => \A i \in DOMAIN started : Place(started[i], startupcfg) > 0

\* "Add/Remove autorun", the name of the command in the menu
\* (loader.c:400-403): for a program that is in the file, what it writes is
\* the others.
RemovesSelected ==
  [][ RemoveOpens =>
        ToSet(buffer'.entries) = ToSet(startupcfg.entries) \ {Selected.name} ]_vars

=============================================================================
