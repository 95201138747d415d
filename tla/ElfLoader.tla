----------------------------- MODULE ElfLoader -----------------------------
(***************************************************************************)
(* The dynamic loader of ElfPack 2: programs (ELF executables) and the     *)
(* shared libraries they need, kept in the table fnLibraries[] and counted *)
(* by Ldr_Lib.refs (loadCommon.c, loadElf.c, loadLibrary.c and the dl*     *)
(* calls of API.c).                                                        *)
(*                                                                         *)
(* Loading is recursive and calls foreign code in the middle: the entry    *)
(* point of a program, _init and _fini of a library may call the loader    *)
(* again. The C call stack is therefore part of the state: every load or   *)
(* unload in progress is a frame, and only the innermost frame runs. A     *)
(* frame is named by the image it works on, because each load allocates    *)
(* its own image and each unload frees one.                                *)
(*                                                                         *)
(* A link mask (Ldr_IElf.link, Ldr_Lib.link, ldrElf.link) holds slot       *)
(* numbers, never pointers: unloadLibs() looks the slots up again when the *)
(* owner goes away, and trusts the reference counts to keep them valid.    *)
(***************************************************************************)
EXTENDS Integers, Sequences, FiniteSets

CONSTANTS
  Elfs,          \* executable files
  Libs,          \* library files
  Needs,         \* DT_NEEDED entries of each file, in order
  Image,         \* memory images: suAllocMem finds room for this many at once
  MaxLibraries,  \* MAX_LIBRARIES; slots 0 and 1 are the standard library and the patch
  CountModulus,  \* fnLibCount counts modulo this: 2^32 for UINT32
  None           \* NULL

File == Elfs \cup Libs
Slot == 2 .. MaxLibraries - 1

ASSUME FilesAssumption ==
  /\ Elfs \cap Libs = {}
  /\ None \notin Image
  /\ None \notin File

ASSUME NeedsAssumption == Needs \in [File -> Seq(Libs)]

ASSUME ImageAssumption == IsFiniteSet(Image)

ASSUME MaxLibrariesAssumption == MaxLibraries \in Nat /\ MaxLibraries > 2

ASSUME CountAssumption == CountModulus \in Nat /\ CountModulus > MaxLibraries

VARIABLES
  table,       \* fnLibraries[2..]: the library registered in each slot
  fnLibCount,  \* the counter kept beside it
  file,        \* the file an image was read from
  pc,          \* what the loader is doing with an image
  refs,        \* Ldr_Lib.refs
  link,        \* the link mask, as a set of slots
  todo,        \* slots the running unloadLibs(link) has still to visit
  next,        \* index of the next DT_NEEDED entry in linkLibraries
  caller,      \* the frame that called this one
  top,         \* the innermost frame, None when the loader is idle
  spoiled      \* history: slots that a failed load has unloaded a second time

frameVars == <<file, next, caller, top>>
vars == <<table, fnLibCount, file, pc, refs, link, todo, next, caller, top, spoiled>>

(***************************************************************************)
(* "free"  no such image                                                   *)
(* "link"  prepareElf: linkLibraries, then the relocations                 *)
(* "run"   foreign code runs: a library's _init or a program's entry       *)
(* "live"  loaded; no frame                                                *)
(* "clear" clearElf(TRUE) called by prepareElf after an error              *)
(* "drop"  the last unloadLibs before the image's memory is released       *)
(* "fini"  foreign code runs: a library's _fini                            *)
(***************************************************************************)
Phase == {"free", "link", "run", "live", "clear", "drop", "fini"}

Occupied == {s \in Slot : table[s] # None}

\* The slots whose reference an image still has to give back.
Held(i) == IF pc[i] \in {"clear", "drop"} THEN todo[i] ELSE link[i]

Holders(s) == {i \in Image : s \in Held(i)}

\* A live library the table does not know was opened with dlopen.
Handle(i) == pc[i] = "live" /\ file[i] \in Libs /\ \A s \in Slot : table[s] # i

\* loadedElfsList
Listed(i) == pc[i] = "live" /\ file[i] \in Elfs

\* Programs and foreign code on the stack may call the loader's interface.
MayCall == top # None => pc[top] \in {"run", "fini"}

Init ==
  /\ table = [s \in Slot |-> None]
  /\ fnLibCount = 2
  /\ file = [i \in Image |-> None]
  /\ pc = [i \in Image |-> "free"]
  /\ refs = [i \in Image |-> 0]
  /\ link = [i \in Image |-> {}]
  /\ todo = [i \in Image |-> {}]
  /\ next = [i \in Image |-> 1]
  /\ caller = [i \in Image |-> None]
  /\ top = None
  /\ spoiled = {}

-----------------------------------------------------------------------------
(* Frames.                                                                 *)

Push(i) ==
  /\ caller' = [caller EXCEPT ![i] = top]
  /\ top' = i

Pop(i) ==
  /\ caller' = [caller EXCEPT ![i] = None]
  /\ top' = caller[i]

\* A new image enters prepareElf.
Begin(i, f) ==
  /\ pc[i] = "free"
  /\ file' = [file EXCEPT ![i] = f]
  /\ pc' = [pc EXCEPT ![i] = "link"]
  /\ link' = [link EXCEPT ![i] = {}]
  /\ next' = [next EXCEPT ![i] = 1]
  /\ Push(i)
  /\ UNCHANGED <<table, fnLibCount, refs, todo, spoiled>>

\* unloadLibs(link) starts for image i, in phase p.
Unlink(i, p) ==
  /\ pc' = [pc EXCEPT ![i] = p]
  /\ todo' = [todo EXCEPT ![i] = link[i]]

\* The frame that waits in linkLibraries for image i, if i is a needed library.
IsNeeded(i) == caller[i] # None /\ pc[caller[i]] = "link"

-----------------------------------------------------------------------------
(* Requests of programs: ldrLoadElf, dlopen, ldrUnloadElf, dlclose, and    *)
(* the reload of the standard library. A request whose file is missing or  *)
(* unreadable fails before anything is linked and leaves no trace.         *)

LoadElf(i, f) == MayCall /\ f \in Elfs /\ Begin(i, f)

\* dlopen always reads the file: it never looks in the table.
Dlopen(i, f) == MayCall /\ f \in Libs /\ Begin(i, f)

\* elfListFindAndDel, then freeElf: unloadLibs(elf->link) and the memory.
UnloadElf(i) ==
  /\ MayCall
  /\ Listed(i)
  /\ Unlink(i, "drop")
  /\ Push(i)
  /\ UNCHANGED <<table, fnLibCount, file, refs, link, next, spoiled>>

\* unloadLibrary of a handle: the last reference goes, freeLibrary runs _fini.
Dlclose(i) ==
  /\ MayCall
  /\ Handle(i)
  /\ refs' = [refs EXCEPT ![i] = @ - 1]
  /\ pc' = [pc EXCEPT ![i] = "fini"]
  /\ Push(i)
  /\ UNCHANGED <<table, fnLibCount, file, link, todo, next, spoiled>>

\* loadDefaultLib replaces slots 0 and 1 and sets the counter as if the table
\* held nothing else; a failure sets it to 0.
ReloadDefaultLib ==
  /\ MayCall
  /\ fnLibCount' \in {0, 2}
  /\ UNCHANGED <<table, file, pc, refs, link, todo, next, caller, top, spoiled>>

-----------------------------------------------------------------------------
(* prepareElf: linkLibraries, then relocatePLT and relocateDyn.            *)

Linking(i) == top = i /\ pc[i] = "link"

Wanted(i) == Needs[file[i]][next[i]]

MoreNeeded(i) == next[i] <= Len(Needs[file[i]])

\* Slots that hold a library of this name.
Named(f) == {s \in Occupied : file[table[s]] = f}

\* Mutant: the bit is 1 << j instead of 1 << (j-2).
LinkExistingShifted(i) ==
  /\ Linking(i)
  /\ MoreNeeded(i)
  /\ \E j \in Named(Wanted(i)) :
       /\ \A k \in Named(Wanted(i)) : k <= j
       /\ refs' = [refs EXCEPT ![table[j]] = @ + 1]
       /\ link' = [link EXCEPT ![i] = @ \cup {j + 2}]
  /\ next' = [next EXCEPT ![i] = @ + 1]
  /\ UNCHANGED <<table, fnLibCount, file, pc, todo, caller, top, spoiled>>

\* Mutant: a library found in the table is not counted again.
LinkExistingUncounted(i) ==
  /\ Linking(i)
  /\ MoreNeeded(i)
  /\ \E j \in Named(Wanted(i)) :
       /\ \A k \in Named(Wanted(i)) : k <= j
       /\ link' = [link EXCEPT ![i] = @ \cup {j}]
  /\ next' = [next EXCEPT ![i] = @ + 1]
  /\ UNCHANGED <<table, fnLibCount, file, pc, refs, todo, caller, top, spoiled>>

\* The scan runs from the last slot down and takes the first match.
LinkExisting(i) ==
  /\ Linking(i)
  /\ MoreNeeded(i)
  /\ \E j \in Named(Wanted(i)) :
       /\ \A k \in Named(Wanted(i)) : k <= j
       /\ refs' = [refs EXCEPT ![table[j]] = @ + 1]
       /\ link' = [link EXCEPT ![i] = @ \cup {j}]
  /\ next' = [next EXCEPT ![i] = @ + 1]
  /\ UNCHANGED <<table, fnLibCount, file, pc, todo, caller, top, spoiled>>

\* Not in the table: loadLibrary reads it, as a nested frame.
LinkNew(i, c) ==
  /\ Linking(i)
  /\ MoreNeeded(i)
  /\ Named(Wanted(i)) = {}
  /\ Begin(c, Wanted(i))

\* The library is not found or not readable, or there is no memory for it.
LinkFails(i) ==
  /\ Linking(i)
  /\ MoreNeeded(i)
  /\ Named(Wanted(i)) = {}
  /\ Unlink(i, "clear")
  /\ UNCHANGED <<table, fnLibCount, refs, link, spoiled, frameVars>>

\* All symbols are found; the entry point or _init is called next.
Relocate(i) ==
  /\ Linking(i)
  /\ ~MoreNeeded(i)
  /\ pc' = [pc EXCEPT ![i] = "run"]
  /\ UNCHANGED <<table, fnLibCount, refs, link, todo, spoiled, frameVars>>

\* A symbol is missing from the linked libraries.
RelocateFails(i) ==
  /\ Linking(i)
  /\ ~MoreNeeded(i)
  /\ Unlink(i, "clear")
  /\ UNCHANGED <<table, fnLibCount, refs, link, spoiled, frameVars>>

-----------------------------------------------------------------------------
(* The foreign code returns.                                               *)

Returning(i) == top = i /\ pc[i] = "run"

\* The entry point returned its ldrElf: registerElf lists it.
RegisterElf(i) ==
  /\ Returning(i)
  /\ file[i] \in Elfs
  /\ pc' = [pc EXCEPT ![i] = "live"]
  /\ Pop(i)
  /\ UNCHANGED <<table, fnLibCount, file, refs, link, todo, next, spoiled>>

\* _init succeeded and the caller is dlopen, which returns the handle.
OpenHandle(i) ==
  /\ Returning(i)
  /\ file[i] \in Libs
  /\ ~IsNeeded(i)
  /\ refs' = [refs EXCEPT ![i] = 1]
  /\ pc' = [pc EXCEPT ![i] = "live"]
  /\ Pop(i)
  /\ UNCHANGED <<table, fnLibCount, file, link, todo, next, spoiled>>

\* Mutant: the reference is counted by loadLibrary and again by linkLibraries.
RegisterLibraryTwiceCounted(i) ==
  /\ Returning(i)
  /\ file[i] \in Libs
  /\ IsNeeded(i)
  /\ \E j \in Slot \ Occupied :
       /\ \A k \in Slot \ Occupied : j <= k
       /\ table' = [table EXCEPT ![j] = i]
       /\ link' = [link EXCEPT ![caller[i]] = @ \cup {j}]
  /\ fnLibCount' = (fnLibCount + 1) % CountModulus
  /\ refs' = [refs EXCEPT ![i] = 2]
  /\ pc' = [pc EXCEPT ![i] = "live"]
  /\ next' = [next EXCEPT ![caller[i]] = @ + 1]
  /\ Pop(i)
  /\ UNCHANGED <<file, todo, spoiled>>

\* Mutant: the mask gets no bit for a library that was loaded, not found.
RegisterLibraryUnlinked(i) ==
  /\ Returning(i)
  /\ file[i] \in Libs
  /\ IsNeeded(i)
  /\ \E j \in Slot \ Occupied :
       /\ \A k \in Slot \ Occupied : j <= k
       /\ table' = [table EXCEPT ![j] = i]
  /\ fnLibCount' = (fnLibCount + 1) % CountModulus
  /\ refs' = [refs EXCEPT ![i] = 1]
  /\ pc' = [pc EXCEPT ![i] = "live"]
  /\ next' = [next EXCEPT ![caller[i]] = @ + 1]
  /\ Pop(i)
  /\ UNCHANGED <<file, link, todo, spoiled>>

\* _init succeeded and the caller is linkLibraries: registerLibrary takes the
\* first free slot and the caller's mask gets its bit.
RegisterLibrary(i) ==
  /\ Returning(i)
  /\ file[i] \in Libs
  /\ IsNeeded(i)
  /\ \E j \in Slot \ Occupied :
       /\ \A k \in Slot \ Occupied : j <= k
       /\ table' = [table EXCEPT ![j] = i]
       /\ link' = [link EXCEPT ![caller[i]] = @ \cup {j}]
  /\ fnLibCount' = (fnLibCount + 1) % CountModulus
  /\ refs' = [refs EXCEPT ![i] = 1]
  /\ pc' = [pc EXCEPT ![i] = "live"]
  /\ next' = [next EXCEPT ![caller[i]] = @ + 1]
  /\ Pop(i)
  /\ UNCHANGED <<file, todo, spoiled>>

\* Mutant: the scan of a full table ends at the last slot, which is overwritten.
RegistryFullOverwriting(i) ==
  /\ Returning(i)
  /\ file[i] \in Libs
  /\ IsNeeded(i)
  /\ Occupied = Slot
  /\ table' = [table EXCEPT ![MaxLibraries - 1] = i]
  /\ link' = [link EXCEPT ![caller[i]] = @ \cup {MaxLibraries - 1}]
  /\ refs' = [refs EXCEPT ![i] = 1]
  /\ pc' = [pc EXCEPT ![i] = "live"]
  /\ next' = [next EXCEPT ![caller[i]] = @ + 1]
  /\ Pop(i)
  /\ UNCHANGED <<fnLibCount, file, todo, spoiled>>

\* The table is full: linkLibraries unloads the library it has just loaded.
RegistryFull(i) ==
  /\ Returning(i)
  /\ file[i] \in Libs
  /\ IsNeeded(i)
  /\ Occupied = Slot
  /\ pc' = [pc EXCEPT ![i] = "fini"]
  /\ UNCHANGED <<table, fnLibCount, refs, link, todo, spoiled, frameVars>>

\* _init failed, or the entry point returned NULL: clearElf(TRUE), once.
CallFails(i) ==
  /\ Returning(i)
  /\ Unlink(i, "drop")
  /\ UNCHANGED <<table, fnLibCount, refs, link, spoiled, frameVars>>

-----------------------------------------------------------------------------
(* Unloading.                                                              *)

Unlinking(i) == top = i /\ pc[i] \in {"clear", "drop"}

LowestTodo(i, s) == s \in todo[i] /\ \A t \in todo[i] : s <= t

\* Mutant: the visit of a shared library forgets to count it down.
ReleaseSharedUncounted(i) ==
  /\ Unlinking(i)
  /\ \E s \in todo[i] :
       /\ LowestTodo(i, s)
       /\ table[s] # None
       /\ refs[table[s]] > 1
       /\ todo' = [todo EXCEPT ![i] = @ \ {s}]
  /\ UNCHANGED <<table, fnLibCount, pc, refs, link, spoiled, frameVars>>

\* unloadLibs at a slot whose library has other users.
ReleaseShared(i) ==
  /\ Unlinking(i)
  /\ \E s \in todo[i] :
       /\ LowestTodo(i, s)
       /\ table[s] # None
       /\ refs[table[s]] > 1
       /\ refs' = [refs EXCEPT ![table[s]] = @ - 1]
       /\ todo' = [todo EXCEPT ![i] = @ \ {s}]
  /\ UNCHANGED <<table, fnLibCount, pc, link, spoiled, frameVars>>

\* Mutant: the slot keeps its pointer when the library is freed.
ReleaseLastKeepingSlot(i) ==
  /\ Unlinking(i)
  /\ \E s \in todo[i] :
       /\ LowestTodo(i, s)
       /\ table[s] # None
       /\ refs[table[s]] = 1
       /\ refs' = [refs EXCEPT ![table[s]] = 0]
       /\ pc' = [pc EXCEPT ![table[s]] = "fini"]
       /\ todo' = [todo EXCEPT ![i] = @ \ {s}]
       /\ Push(table[s])
  /\ UNCHANGED <<table, fnLibCount, file, link, next, spoiled>>

\* Mutant: the library goes with any of its users.
ReleaseLastOfMany(i) ==
  /\ Unlinking(i)
  /\ \E s \in todo[i] :
       /\ LowestTodo(i, s)
       /\ table[s] # None
       /\ refs[table[s]] > 0
       /\ refs' = [refs EXCEPT ![table[s]] = 0]
       /\ pc' = [pc EXCEPT ![table[s]] = "fini"]
       /\ table' = [table EXCEPT ![s] = None]
       /\ todo' = [todo EXCEPT ![i] = @ \ {s}]
       /\ Push(table[s])
  /\ fnLibCount' = (fnLibCount - 1) % CountModulus
  /\ UNCHANGED <<file, link, next, spoiled>>

\* unloadLibs at a slot with the last reference: the slot is emptied before
\* unloadLibrary calls freeLibrary, which runs _fini as a nested frame.
ReleaseLast(i) ==
  /\ Unlinking(i)
  /\ \E s \in todo[i] :
       /\ LowestTodo(i, s)
       /\ table[s] # None
       /\ refs[table[s]] = 1
       /\ refs' = [refs EXCEPT ![table[s]] = 0]
       /\ pc' = [pc EXCEPT ![table[s]] = "fini"]
       /\ table' = [table EXCEPT ![s] = None]
       /\ todo' = [todo EXCEPT ![i] = @ \ {s}]
       /\ Push(table[s])
  /\ fnLibCount' = (fnLibCount - 1) % CountModulus
  /\ UNCHANGED <<file, link, next, spoiled>>

\* unloadLibs at an empty slot: "ERROR: link with unloaded lib[%d]!"
ReleaseUnloaded(i) ==
  /\ Unlinking(i)
  /\ \E s \in todo[i] :
       /\ LowestTodo(i, s)
       /\ table[s] = None
       /\ todo' = [todo EXCEPT ![i] = @ \ {s}]
  /\ UNCHANGED <<table, fnLibCount, pc, refs, link, spoiled, frameVars>>

\* prepareElf has cleared the image; loadElf or loadLibrary sees its error and
\* calls clearElf(TRUE) again, with the mask still set.
ClearAgain(i) ==
  /\ top = i
  /\ pc[i] = "clear"
  /\ todo[i] = {}
  /\ Unlink(i, "drop")
  /\ spoiled' = spoiled \cup link[i]
  /\ UNCHANGED <<table, fnLibCount, refs, link, frameVars>>

\* _fini returned; its result does not stop freeLibrary.
FiniDone(i) ==
  /\ top = i
  /\ pc[i] = "fini"
  /\ Unlink(i, "drop")
  /\ UNCHANGED <<table, fnLibCount, refs, link, spoiled, frameVars>>

\* Mutant: the error of a needed library does not reach the load that waits for it.
ReleaseSilent(i) ==
  /\ top = i
  /\ pc[i] = "drop"
  /\ todo[i] = {}
  /\ pc' = [pc EXCEPT ![i] = "free"]
  /\ file' = [file EXCEPT ![i] = None]
  /\ refs' = [refs EXCEPT ![i] = 0]
  /\ link' = [link EXCEPT ![i] = {}]
  /\ next' = [next EXCEPT ![i] = 1]
  /\ Pop(i)
  /\ UNCHANGED <<table, fnLibCount, todo, spoiled>>

\* The image's memory is released. A frame that waited for this library to be
\* loaded gets the error and clears its own image.
Release(i) ==
  /\ top = i
  /\ pc[i] = "drop"
  /\ todo[i] = {}
  /\ IF IsNeeded(i)
     THEN /\ pc' = [pc EXCEPT ![i] = "free", ![caller[i]] = "clear"]
          /\ todo' = [todo EXCEPT ![caller[i]] = link[caller[i]]]
     ELSE /\ pc' = [pc EXCEPT ![i] = "free"]
          /\ UNCHANGED todo
  /\ file' = [file EXCEPT ![i] = None]
  /\ refs' = [refs EXCEPT ![i] = 0]
  /\ link' = [link EXCEPT ![i] = {}]
  /\ next' = [next EXCEPT ![i] = 1]
  /\ Pop(i)
  /\ UNCHANGED <<table, fnLibCount, spoiled>>

-----------------------------------------------------------------------------

Request ==
  \/ \E i \in Image, f \in Elfs : LoadElf(i, f)
  \/ \E i \in Image, f \in Libs : Dlopen(i, f)
  \/ \E i \in Image : UnloadElf(i)
  \/ \E i \in Image : Dlclose(i)
  \/ ReloadDefaultLib

Return ==
  \E i \in Image :
     \/ RegisterElf(i)
     \/ OpenHandle(i)
     \/ RegisterLibrary(i)
     \/ RegistryFull(i)
     \/ CallFails(i)
     \/ FiniDone(i)

Work ==
  \/ \E i, c \in Image : LinkNew(i, c)
  \/ \E i \in Image :
     \/ LinkExisting(i)
     \/ LinkFails(i)
     \/ Relocate(i)
     \/ RelocateFails(i)
     \/ ReleaseShared(i)
     \/ ReleaseLast(i)
     \/ ReleaseUnloaded(i)
     \/ ClearAgain(i)
     \/ Release(i)

Next == Request \/ Return \/ Work

Spec == Init /\ [][Next]_vars

\* Foreign code returns to the loader, and the loader runs on.
FairSpec == Spec /\ WF_vars(Work) /\ WF_vars(Return)

-----------------------------------------------------------------------------
(* Properties.                                                             *)

\* Every variable has its type.
TypeOK ==
  /\ table \in [Slot -> Image \cup {None}]
  /\ fnLibCount \in 0 .. CountModulus - 1
  /\ file \in [Image -> File \cup {None}]
  /\ pc \in [Image -> Phase]
  /\ refs \in [Image -> Nat]
  /\ link \in [Image -> SUBSET Slot]
  /\ todo \in [Image -> SUBSET Slot]
  /\ next \in [Image -> Nat \ {0}]
  /\ caller \in [Image -> Image \cup {None}]
  /\ top \in Image \cup {None}
  /\ spoiled \in SUBSET Slot

\* A registered library is live, is in one slot only, and is counted: whatever
\* fails, the table never points at an image that is being or has been freed.
TableSound ==
  \A s \in Occupied :
     /\ pc[table[s]] = "live"
     /\ file[table[s]] \in Libs
     /\ refs[table[s]] > 0
     /\ \A t \in Occupied : table[s] = table[t] => s = t

\* A mask names no empty slot, unless a failed load has unloaded that slot twice:
\* no program or library outlives a library it is linked with.
NoDanglingLink ==
  \A i \in Image : Held(i) \subseteq Occupied \cup spoiled

\* The reference count of a library is the number of images linked with it, unless
\* a failed load has unloaded its slot twice. One count too few frees the library
\* early, one too many keeps it for ever.
RefsExact ==
  \A s \in Occupied \ spoiled : refs[table[s]] = Cardinality(Holders(s))

\* A slot an image still holds keeps its library: the bit in the mask stands for
\* the library that was there when it was set.
HeldSlotStable ==
  [][\A i \in Image : \A s \in Held(i) \cap Held(i)' :
       table'[s] = table[s] \/ s \in spoiled']_vars

\* Foreign code runs only while every library its image needs is loaded, in one of
\* the slots of the image's mask. Nothing is said of an image whose mask holds a slot that
\* a second clean-up has spoiled.
LinkedAsNeeded ==
  \A i \in Image : pc[i] \in {"run", "live", "fini"} =>
    \A k \in DOMAIN Needs[file[i]] :
      \E s \in link[i] :
         \/ s \in spoiled
         \/ table[s] # None /\ file[table[s]] = Needs[file[i]][k]

\* "ERROR: link with unloaded lib[%d]!" (loadCommon.c:923) is never logged.
NeverLinkWithUnloaded ==
  \A i \in Image : Unlinking(i) => \A s \in todo[i] : LowestTodo(i, s) => table[s] # None

\* When programs stop making requests, the load or unload in progress ends.
LoaderReturns ==
  (<>[][~Request]_vars) => []<>(top = None)

\* The table keeps the promise of LibraryUse: a library is loaded for its first
\* user, shared by the others and unloaded with the last one.
Use == INSTANCE LibraryUse WITH
  loaded <- [s \in Slot |-> IF s \in spoiled THEN None ELSE table[s]],
  users <- [s \in Slot |-> IF s \in spoiled THEN {} ELSE Holders(s)],
  lost <- spoiled

KeepsPromise == Use!Spec

=============================================================================
