# A verification development of ElfPack

ElfPack loads programs (ELF executables) into Motorola phones at run time. The
repository holds three generations of it, for three families of phones, with the
SDKs, toolchains and many of the programs they load. This directory models
mostly the newest one, ElfPack 2 (`src/ELFKIT_EP2_Windows/elfpack2/mainsrc`),
which is also the most complete: shared libraries with reference counts, a pop-up
console, a configuration, autorun, key shortcuts and display callbacks. Of the
EM2 generation it models the loader (`src/ELFKIT_EM2_Windows/ldr`), and of the EM1
generation the autorun file and the list that edits it
(`src/ELFKIT_EM1_Windows/elfloader`).

The modules are TLA+, checked with TLC on small instances; the theorems are
checked with TLAPS for every value of the constants.

## 1. The system

Everything ElfPack 2 does happens in one task of the phone's firmware, in event
handlers of one application and in the handlers of the programs it has loaded.
There is no preemption between them. What makes it hard is re-entrance (a loader
that calls foreign code that calls the loader), timers whose expiries are events
in a queue, state shared by all programs, and clean-up after partial failure.

| Component | State it keeps | Operations | Interacts with |
|---|---|---|---|
| Loader core (`loadCommon.c`, `loadElf.c`, `loadLibrary.c`) | `fnLibraries[]`, `fnLibCount`; per image: `refs`, the link mask `link`, `body`, symbol tables | `loadElf`, `loadLibrary`, `linkLibraries`, `relocatePLT/Dyn`, `registerLibrary`, `unloadLibs`, `unloadLibrary`, `freeElf` | calls the entry point of a program, `_init` and `_fini` of a library, all of which may call it again |
| Loader interface (`API.c`) | none of its own | `ldrLoadElf`, `ldrUnloadElf`, `dlopen`, `dlsym`, `dlclose`, `ldrSendEvent`, console calls, search | programs call it at any time |
| Default library (`loadDefLib.c`) | slots 0 and 1 of `fnLibraries[]`, `cstLibrary` | load and reload from `library.bin`; look up a function or a constant | the relocations read it; F-key and reload event rewrite it |
| Console: fade and timers (`console.c`, `elfloaderApp.c`, `API.c`) | `conAction`, `conStep`, `conAutoHide`, `ctimer_iface.handle` | `cprint`, `ldrToggleConsole`, `ldrEnableConsole`, the expiries | the firmware's timers; every program prints |
| Console: text (`console.c`) | the ring `conBuf`, strides of each line, the window, the cursor | `cprint`, `cscroll`, `ConsoleRender` | the display callback draws what `cprint` left |
| Application (`elfloaderApp.c`) | the timers' handles, `currentEventBase` | start, delayed `ElfPackLoad`, event dispatch, exit | owns all the handlers |
| Keys (`elfloaderApp.c`) | `lkey`, `lcount`, `lconsume`, `ktimer_iface.handle` | press, release, long-press ticks, actions | console scroll, fast run, configuration reload |
| Configuration and parser (`config.c`, `parser.c`) | `Config` and the strings it owns | load, defaults, copy, set, free; line parser | read at start and on reload; programs copy and set it |
| Autorun (`autorun.c`) | none | loads the programs that the lines of a file name | `loadElf` |
| Display callbacks (`dispCallBacks.c`) | `dispCallbacks[]`, `dispCbkRects[]`, `dispCbkPostFlags` | register, unregister, one pass over the table before each screen update and one after | callbacks may register, unregister and draw |
| List of programs (`utils.c`) | `loadedElfsList` | add, find, find and delete | the loader |
| EM2 loader (`ELFKIT_EM2_Windows/ldr`) | `evbase`, a linked list of programs, `autorun.bin`, `extLib` | load, unload, autorun file operations | entry points call it again |
| EM1 loader (`ELFKIT_EM1_Windows/elfloader`) | `startup.cfg`, `fname`, `SelectedElf`, open files | autorun at switching on; list, run, delete, add to and remove from autorun | `LoadElf`; the list dialog tells it which item is selected |

The rest of the repository (SDK headers, GCC and ADS toolchains, the EP1 kits
with the patch generator and the library editor, sample programs, the window of
the EM2 loader) is listed in `PROJECT.json` as not modelled.

### What is hard, and what would be correct

*Loader core.* A load may fail at any point: after some libraries were linked,
in the middle of a nested load, because the table is full, in a relocation or in
the program's own entry point. Each failure runs a clean-up which walks the link
mask and drops references, and each of those may run `_fini`, which may load and
unload other things. A mask holds slot *numbers*; only the reference counts keep
them from coming to mean another library. Correct means: the table never points
at freed memory; a program never outlives a library it uses; a library leaves
exactly with its last user; code runs only with all its libraries present; and a
load or unload always ends.

*Fade and timers.* One handle stands for three uses of a timer, two of them
cyclical. Every path that changes `conAction` has to stop the old timer and
remember the new one. Correct means: a fade has its timer, no timer runs that
nobody can stop, the opacity agrees with the action, and the console does not
stay on the screen for ever unless it was asked to.

*Text.* Text arrives in calls that are cut without regard to lines or colours,
while the user scrolls. Correct means: what is drawn is what was written, and
the window follows the end of the text or stays where the user put it.

*Keys.* A press starts a timer that counts ticks until the release; what the
release does depends on the count. Presses while the keypad is locked, another
key before the first is released, and a counter of 8 bits are the hard cases. Correct
means: the count is that of the key that is down, a release is kept from the
programs only if its press was, and the keys do not keep the console on the
screen when nobody holds them.

*EM2 loader.* Entry points nest here, too, but what they share is a counter of
event codes and a linked list. Correct means: the list holds the live programs,
whatever leaves in whatever order, and two programs do not listen to the same
codes.

*Configuration and default library.* Both are replaced while the phone runs, in
blocks of the heap, of which any allocation may fail. A string of the
configuration may be a constant of the loader, a block or NULL, and different
functions tell these apart in different ways (by pointer, by text, not at all).
Correct means: no block is used after it is freed or freed twice, none is lost
without reason, every field says what was asked of it, and a constant that
`library.bin` lists is found.

*Display callbacks.* A pass walks over the table by index and calls functions that
change the table and start other passes. Correct means: what is in the table is
what was asked for, a function that should be called is called, and it gets a
rectangle that it can use.

*EM1 autorun.* The command that changes the file trusts marks made when the list
was last shown, in a file that is emptied before it is written, with handles that
are not always closed. Correct means: the file counts its entries right and names
each program once, the marks are true, and switching on starts each program once.

## 2. Modules

| Module | What it is |
|---|---|
| `ElfLoader` | the loader core, the table and the calls of the interface that reach it |
| `LibraryUse` | what the table promises, abstractly |
| `MCElfLoader` | two programs and two libraries for TLC |
| `ElfLoaderProofs` | theorems about `ElfLoader` |
| `Console` | fade, timers, and all that touches them |
| `MCConsole` | symmetry for TLC |
| `ConsoleProofs` | theorems about `Console` |
| `ConsoleText` | `cprint` and `cscroll` |
| `MCConsoleText` | the instance for TLC |
| `ConsoleTextProofs` | theorems about `ConsoleText` |
| `Em2Loader` | the EM2 loader: nested loads, event ranges, the list of programs |
| `MCEm2Loader` | symmetry for TLC |
| `Em2LoaderProofs` | theorems about `Em2Loader` |
| `Keys` | the keys and the key timer, composed with `Console` |
| `MCKeys`, `KeysProofs` | the instance for TLC, theorems |
| `DisplayCallbacks` | the table of display callbacks, the two passes, the tests of overlap |
| `MCDisplayCallbacks`, `DisplayCallbacksProofs` | the instance for TLC, theorems |
| `Settings` | the configuration's strings and the standard library on the heap |
| `MCSettings`, `SettingsProofs` | the instance for TLC, theorems |
| `Em1Autorun` | the autorun file and the list of programs of the EM1 loader |
| `MCEm1Autorun`, `Em1AutorunProofs` | the instance for TLC, theorems |

Operators named `...Shifted`, `...Leaking` and the like, with a comment that
starts with "Mutant", are plausible mistakes in the code they stand beside. They
are not part of any specification; each one was checked to break the property it
is paired with in `PROJECT.json`.

### ElfLoader

The C call stack is state. A load or unload in progress is a *frame*, named by
the image it works on (each load allocates its own image); `caller` and `top`
are the stack, and `pc` says where in the code the frame is:

| `pc` | in the code |
|---|---|
| `link` | `prepareElf`: the loop of `linkLibraries`, then the relocations |
| `run` | the entry point of a program, or `_init` |
| `live` | loaded, and not on the stack |
| `clear` | the `unloadLibs` of the first `clearElf(TRUE)`, in `prepareElf` |
| `drop` | the last `unloadLibs` before the memory is released |
| `fini` | `_fini` |

A step of the model is a stretch of the code between two points where foreign
code can run or where a loop turns. `LinkExisting`, `LinkNew` and `LinkFails`
are one turn of `linkLibraries`; `ReleaseShared`, `ReleaseLast` and
`ReleaseUnloaded` one turn of `unloadLibs`; `RegisterLibrary` and `RegistryFull`
are what `linkLibraries` does with the library that `loadLibrary` returned.
`Request` may happen while the loader is idle *or* while foreign code runs on top
of the stack: this is the re-entrance. `Listed` is `loadedElfsList`, `Handle` a
library opened with `dlopen` (never in the table).

An image that fails in `prepareElf` is cleared twice: `prepareElf` calls
`clearElf(TRUE)`, and its caller, seeing the error, calls it again with the mask
still set. The model does exactly this (`clear`, then `ClearAgain`, then
`drop`). The history variable `spoiled` remembers the slots this has visited a
second time; every property says what is true of the other slots, so that the
consequences of this one defect do not hide anything else. Its own consequence is
the run `loader_twice`.

Abstracted: the contents of an ELF file are its list of needed libraries and
whether each stage succeeds (every stage that can fail may). Memory is the number
of images it has room for. Slots 0 and 1 are always present in this module; only
what `loadDefaultLib` does to the counter `fnLibCount` is kept. A library's name
and its file are one. Requests with an unreadable file have no effect and are
not steps.

### LibraryUse

Three actions on a slot: a library is provided for its first user, shared with
one more, left by one; when the last leaves, it goes in the same step.
`ElfLoader` implements it under the mapping `loaded <- table`,
`users <- Holders` (the images whose mask or unfinished clean-up holds the slot),
`lost <- spoiled`. `Lose` is the abstract face of the double clean-up.

### Console

`handle`, `kind`, `armed` and `pending` are the firmware's timers as the code
sees them: a timer that runs, the identifier it was created with, and how many of
its expiries are posted and not yet handled. The firmware is not in the
repository; how it is used (`CreateTimer`, `StopTimer`, cyclical and simple) is.
What the repository does not say is whether `StopTimer` also withdraws an expiry
that is already posted. The constant `LateEvents` makes this explicit, and every
property says under which of the two it was checked.

`HandleTimer` is one action per case and branch (`FadeInStep`, `FadeInEnd`,
`FadeOutStep`, `FadeOutEnd`, `StayEnd`). It tests the timer's identifier only,
neither the handle nor `conAction`, as the code does. `ConsoleUpdate` is the
common tail of `cprint` and `cscroll`. The programs' calls may come at any time,
from `ElfPackLoad` too (`app = "load"`: autorun runs programs, and no other event
is handled until it returns).

Abstracted: the steps of the fade are 1, as in the code; drawing; the type of the
console; what is printed.

### ConsoleText

One action per kind of character of `cprint`, and one for each of its two
endings. A glyph is known by the colour it was asked for, kept in the history
variables `ink`, `text` and `filledText`; what the console would draw is `Drawn`
of the strides. Of the ring, only the line being filled and the one filled last
are kept, since no other line changes; `conCurLine` is kept, because
`ConsoleRender` uses `conAbsTopLine % BUFLINENUM` instead and both must agree.
`cscroll` moves by one line, as the keys do, or resets.

The first stride of a new line has its colour set and its number of strides, `cline->num`, left as the line
that was there before had it (`console.c:250-254`), until something is written. `ConsoleRender` (`console.c:426`)
would draw those strides, but until the ring is full that number is 0, and afterwards the line lies below the window that is
drawn; this is not modelled.

`HasRoom` is an assumption about the texts: a line has fewer colour changes than
its array of strides holds. `cprint` does not check this; the hazard is listed.

### Em2Loader

`running` is the stack of entry points in progress, so `ldrLoadElf` is two steps:
`StartWithOwnCode` or `StartFromCounter` up to the call of the entry point, by
whether the caller gave an event code, and `EntrySucceeds` or `EntryFails` from its
return. Between them other programs may load and leave. `ParseFails` is a file
that is not a program: the code frees the image and not the structure, which is
"lost". `ldrUnloadElf` may be called for any program on the list at any time.

`root`, `tail`, `count` and `nextElf` are the C list; `Before` is where the walk of
`elfListFindAndDel` stops. The comparison of whole structures finds the structure
itself, since their `image` pointers differ. `programs` is the list as a sequence, a history variable that
no action reads except to remove from it; `ListIsSequence` relates the two.

Assumed of the programs: none unloads itself from inside its entry point, which
would free it twice if it then failed; those of the repository unload themselves
from their event handlers. Own codes (of autorun records) are not compared with
the counter's ranges: the code does not, and they are chosen by the user.

### Keys

`Keys` instantiates `Console` and takes its actions: a release that hides the
console *is* `C!ToggleOff`, a tick that scrolls it is `C!HoldVolume`. So a step of the
keys changes the console by one of the console's own actions or not at all. This is how
the module is written and not something it shows; what it is good for is that the
theorems about `Console` carry over (`KeysLeaveConsoleSound`).

The key timer is described as in `Console`: how many run, how many expiries wait,
whether the handle is 0. `HandleKeypress` and `HandleKeyrelease` are one action each, with
everything they call; `PressLocked` and `ReleaseLocked` are their early returns.
`KeypadLock` is the phone's lock, which may change at any time, also between a press
and its release. What a release starts depends on the count (`ActionPress`); the
program of the fast key may print, or change the console by a step of its own
afterwards, which is what it could do inside the call, since nothing else is
handled until it returns. `down`, `missed`, `swallowed`, `lone` and `ticks` are history;
`missed` remembers that the key the code takes for held was released while the keypad was locked.

`lcount` is a UINT8; `TickModulus` stands for 256. The cases of the switch in `ActionPress` (1 and 2, 3 and 4,
8 and 9 ticks) are the constants `RunPress`, `TogglePress` and `ReloadPress`, so that a run can do with one
length of each; 0 is the case of its own that it is in the code.

### DisplayCallbacks

`stack` holds the updates in progress, one inside the other; a frame is one of the two
loops (`hook`) with its index `i`, and `running` says that a callback has been called
and not returned. A step is one turn of the loop (`Skip`, `Call`), the return of a
callback, or a request of the program that runs. `owed` is history: the slots a
pass would have called when it began and has not. `promised` is what the programs
asked for.

`UtilIsRectIntersect` and `Clipped` (what `UtilRectIntersect` writes) compute with the
INT16 conversions of the code. `null_rect` stands for the whole display in both.
`dispCbkCount` is set to 0 and not used, and is left out. So is the read of the entry behind a
full table, whose value the test of the bound that follows makes irrelevant. Nothing is modelled of two
threads updating at once: the injected code runs in the caller's task.

### Settings

`heap` is what every block holds; a pointer of the C code is a block, `Null`, or `BuiltIn`
for a pointer into `defaultConfig`. `suAllocMem` is the set of what an allocation may return, so
each one may fail by itself. `ldrLoadConfig`, `ldrSetConfig`, `ldrCopyConfig` and `loadDefaultLib`
are sequences of steps (`pc`), one for each allocation, between which no other code
runs. The loop over `configFields` takes the fields in any order. The line parser is what a line
does to a field: a new block with the text, whatever the field pointed at.

`ldrGetConstVal` is the binary search as a recursive function, checked against the table that was
loaded (`table`, history).

Assumed: programs pass to `ldrSetConfig`, and copy with `ldrCopyConfig`, only configurations
whose strings are all there, since the code reads them without a look at the
pointer; the ids of a `library.bin` are sorted, as the generator of the repository
writes them (`ConstantsAssumption`); the blocks are big enough (`malloc( 2*u_strlen + 1 )`, `config.c:179`, is one byte
short of a wide string, which the heap's rounding hides); no text is equal to NULL (`Null \notin Text`)
and freeing NULL does nothing. The last two matter after `freeConfig`: `setConfig` then
compares the fields of `Config` and frees them through NULL (`config.c:153-157`, `172-176`), and what
`AsAsked` says of it rests on the phone reading address 0 as something other than the text. So `AsAsked` shows
nothing about those two comparisons. Where the parser goes on after a value is not modelled either: the
value ends with its delimiter, and when that is a line end `SkipLine` (`parser.c:261`, from `parser.c:302` and `:358`) may swallow the
next line, or run past the last one. The model lets any sequence of settings follow. Left out: byte and word
fields, which own nothing; `fnLibCount`, which is written and never read.

### Em1Autorun

`startupcfg` is the file: missing, empty, or a header with a number and entries. A
command opens it and writes it in two steps, between which the phone may be
switched off (`PowerOff`, which is possible at any time); opening it for writing
empties it. `handles` counts the files that `InAutorun` opened and never closed, up to
`MaxHandles`: `Mark` is what `FindAppS` then sees. When no file can be opened `AddFails` and
`RemoveFails` go on as the code does, the second with a header it has not read: with
most values the loop overwrites memory (`pc = "wild"`, nothing more happens until
`PowerOff`).

Assumed: a write is all or nothing; a search finds programs in an order that depends only on
which there are; a file that is left open for reading does not keep it from being opened again;
`AutRun_Action` gets its memory; programs leave the disk only through the loader's own delete
command. A file that is removed by other means while the list is shown leaves `SelectedElf` and the marks
stale, and is not considered. Left out: event codes, and the memory of `fname`, which is
never freed (`if( !fname )`, `loader.c:686`). A list without items sends no commands. Showing the list with a
selected item may or may not make the dialog tell the loader so; `Update` allows both.

## 3. What is checked

| Run | Instance | Distinct states | Shows |
|---|---|---|---|
| `loader` | programs e1 (needs l1, l2), e2 (needs l2); l1 needs l2; 4 images; 2 free slots | 419 300 | `TypeOK`, `TableSound`, `NoDanglingLink`, `RefsExact`, `LinkedAsNeeded`, `HeldSlotStable`, and the refinement `KeepsPromise` |
| `loader_full` | the same files, 3 images, 1 slot | 36 880 | `RefsExact` through full tables; `LoaderReturns` |
| `loader_twice` | 3 images, 2 slots | stops at the violation | `NeverLinkWithUnloaded` is false |
| `console` | 9 fade steps, 3 timers, stopped expiries withdrawn, fairness | 37 038 | `TypeOK`, `FadeIsDriven`, `NoLostTimer`, `StepFitsAction`, `OnlyLoadStrands`, `Settles` |
| `console_late` | 3 fade steps, 4 timers, stopped expiries still arrive | 422 906 | `FadeIsDriven`, `OnlyLoadStrands` |
| `console_text` | 3 columns, window of 2 lines, ring of 6, counter of 8, 2 colours | 2 123 493 | `TypeOK`, `DrawnAsWritten`, `FollowsTail`, `StaysScrolled`, `RingInStep` |
| `em2` | 5 structures, ranges of 2 codes from 2 to 12, one own code | 39 715 | `TypeOK`, `ListIsSequence`, `StackRangesApart`, `OnlyLateFailureOverlaps` |
| `keys` | a volume key and the fast key, fades of 1 step, 2 console timers, counter of 5, stopped expiries withdrawn, fairness | 541 720 | `TicksAreOwn`, `PressAndReleaseGoTogether`, `ConsumesForConsole`, `RestsUnlessHeld` |
| `display` | 3 slots, 2 functions, 2 rectangles registered and 2 updated, 2 updates deep | 1 043 794 | `TableAsPromised`, `NoneMissed`, `GetsItsShare` |
| `settings` | 2 fields, 2 texts, 6 blocks, libraries of 0 to 3 constants | 141 810 | `OwnedOnce`, `AsAsked`, `OnlyKnownLosses`, `ConstantsFound` |
| `em1` | 4 programs, 6 file handles | 1 388 287 | `FileSound`, `MarksAgree`, `StartsOnce` |
| `em1_remove` | the same | stops at the violation | `RemovesSelected` is false |

The type invariants of `Keys`, `DisplayCallbacks`, `Settings` and `Em1Autorun` are proved (section 4)
and not repeated in their runs, and so is `CountsHeldKey`, the safety part of `RestsUnlessHeld`.

**Bounds.** In the loader four images are enough for two programs that share a
library, a nested load of two levels, and a handle opened by foreign code
meanwhile; two slots let both libraries be present, reused and swapped. With one
slot the table is full whenever a program needs two libraries. `CountModulus`
stands for 2^32 and is only asked to exceed the size of the table. In the console
three timers are one that runs, one that is being created, and one that could
have been lost; with late events a fourth can be stray. `MaxPending` bounds how
many expiries of one cyclical timer wait in the queue. Nine fade steps are those of
the code; the run with late events uses three. In the
text a ring of three windows is that of the code, and `LineModulus` 8 is not a
multiple of the ring, as 65536 is not a multiple of the real one. In the EM2
loader five structures are a list with a front, a middle and an end under two
nested loads, and five ranges are one for each; a range of 2 codes (64 in the code)
can overlap another in part. `MaxBase` only cuts off programs that come and go for ever:
their ranges are not given back.

Of the keys, one that scrolls and the one that acts are enough, since the code
distinguishes no more of them; two may be down at once, in either order. A counter of 5 has one length of
press for each case of `ActionPress` (0, 1, 2, 3, and 4 for those that do nothing), and wraps.
Fades are of one step, since the keys do nothing in a fade that depends on how far it is; `console` has all
nine. `MaxPending` 1 is one expiry in the queue, which is what a release can race with. Three slots
of display callbacks are one before, at and behind the place of a pass, two functions
are the one that runs and another, two updates deep is a callback that draws; the
rectangles are the whole display, one that overlaps the update in part and one that meets it
in a single column, where the two tests differ. In the settings two fields are the
one that names the library and any other; six blocks hold a configuration, a copy and
a file at once, or a library and a copy, and leave some for the lost ones; when all are used every
allocation fails. Libraries of 0 to 3 constants with ids at both ends and in between drive the
search to each of its exits. Four programs make a file with a first, an inner and a last
entry and one program outside it; six handles are a list with four marked programs shown
once and a half.

**Symmetry** is used for images, timers, structures, callbacks and blocks, in runs without
liveness only. No action chooses among them by name.

**Fairness.** `LoaderReturns` assumes that the loader itself goes on (it is a
sequential program that loops over finite masks) and that foreign code returns
(otherwise the phone hangs, with or without the loader). It assumes nothing of
requests, and speaks of behaviours in which requests stop. `Settles` assumes that
a running timer expires, that the firmware delivers a posted event, and that
`ElfPackLoad` returns. `RestsUnlessHeld` assumes less: that one of these happens when one of them can (with
stopped expiries withdrawn, there is never a choice that lasts). It assumes nothing of the key timer,
nor that a key is ever released; that is why it has a case for a key that is held.

**Deadlock** is checked in every run except `em2`: there is always a request that
can be made, a key that can be pressed, an operation that can begin, a phone that can be
switched off. In `em2` every file that is not a program costs a structure for good,
and when all are lost nothing more can be loaded, as in the code.

### What the checks found

`em1_remove`: to remove a program from `startup.cfg`, `AutRun_Action`
(`loader.c:522`) leaves the selected entry out with a `continue` that also skips
the read from the file. What is written are the first entries, one fewer than
there were: the last program is lost and the selected one starts again. The
menu calls the command "Add/Remove autorun" (`loader.c:400-403`). With one program in the file, or
the last one selected, it does what it says.

`loader_twice`: a load that fails after linking libraries unloads them twice.
`unloadLibs` (`loadCommon.c:923`) logs "ERROR: link with unloaded lib" for a slot
that is empty: the message calls this an error that should not occur. It occurs
in the shortest failing load, since `prepareElf` (`loadCommon.c:104`) clears the
image and its caller clears it again with the same mask. In the longer runs it
also takes references that belong to other programs, which is why `spoiled`
exists: `NoDanglingLink`, `RefsExact` and `KeepsPromise` are false for such slots.

Six behaviours are not counted as findings, because nothing in the repository
promises otherwise, but a reader should know them. With `LateEvents` true,
`Settles` and `NoLostTimer` are false: a late TID_STAY makes the handler overwrite
`ctimer_iface.handle` without stopping what it names, and a cyclical fade
timer is lost. And the end of `ElfPackLoad` can leave a console that should
hide with no timer (`OnlyLoadStrands` says it is the only step that does): it then
stays until a print or a volume key gives it one. In the EM2 loader an
entry point that loads another program and then fails takes back the other
program's range, because `evbase -= EVBASE_RESERVE` (`ldr_core.c:93`) assumes that its own was
the last. The next program then shares the codes of the other, and each gets events meant for both.
`OnlyLateFailureOverlaps` says there is no other way to come to this. A file handle stays open
for every program that `InAutorun` finds (`loader.c:1399`), so after enough lists the marks are all 0
and the file cannot be changed; `FileSound` says that it is not damaged by this, and `MarksAgree`
that marks are right until then. Three paths lose a block of memory (`OnlyKnownLosses`): a
setting named twice, a file that cannot be read to its end, and a copy of the configuration made over a copy.
And a volume key that is pressed and then released while the keypad is locked goes on scrolling: `HandleKeyrelease` returns
at once (`elfloaderApp.c:442`), the key timer runs on, and each of its expiries starts the console's timer again, so that
a console which should hide stays on the screen until a key is handled. `RestsUnlessHeld` is false without
`missed` in `HoldsConsole`, and true with it: there is no other way to come to this.

## 4. What is proved

`ElfLoaderProofs`, for every set of files and dependency relation, any finite set
of images, any table size:

* `TypeCorrect`, `TableIsSound`, `HeldSlotsAreStable`, `NoDanglingLinks`,
  `ImagesAreLinked`;
* `IdleIsDone`: when the loader is idle, no load or unload is left half done;
* `OnlyDlopenOpens` and `HandlesCloseAtOnce`: a library becomes a handle only when `dlopen`
  returns it, and its reference is then the last. The model relies on both where it tells handles
  from libraries of the table (`Handle`), and where `Dlclose` always frees;
* `LoaderDescends`: every step brings the innermost frame nearer to its end;
* `CountsAreExact`, `NoLibraryIsLeft` (in an idle loader every library of the table has a user)
  and `PromiseIsKept` (the refinement of `LibraryUse`), on the
  condition `NeedsOnce` that every file names each library it needs once. The
  loader does not test it. A library named twice is counted twice and has one bit in
  the mask, so without the condition all three are false.

`ConsoleProofs`, for any number of fade steps and set of timers:

* `FadesAreDriven`, `OpacityFits`, `TimersAreNotLost`, `LoadAloneStrands`,
  `ConsoleTypes`, `TimersKeepGoing` (a known timer runs or has an expiry waiting) and
  `ExpiriesLeadToRest` (each expiry brings the console nearer to being hidden). The three
  that need stopped expiries to be withdrawn say so in their statements (`~LateEvents => ...`).

`ConsoleTextProofs`, for any size of the console and width of the counters:

* `LinesAreDrawnAsWritten`, `WindowFollows`, `WindowStays`, `TextTypes`, `RingKeepsStep`.

`Em2LoaderProofs`, for any number of structures, size of a range and own codes:

* `ListIsSound`, `StackRanges`, `LateFailureAlone`, `Em2Types`.

`KeysProofs`, for any set of keys, width of the counter, fade steps and timers:

* `CountsOwnTicks`, `CountedKeysAreDown`, `PressesArePaired`, `OnlyVolumeIsConsumed`, `KeysTypes`;
  `OnlyHeldKeysRenew`: the key timer changes the console only for a volume key that is down or whose release
  was missed; and `KeysLeaveConsoleSound`: the
  theorems of `ConsoleProofs` hold of the console and the keys together. `TicksAreOwn` says in its statement that it needs
  stopped expiries to be withdrawn.

`DisplayCallbacksProofs`, for any size of the table, functions, depth and rectangles
whose coordinates are within 16000 of 0:

* `NobodyIsMissed`, `EverybodyGetsTheirShare`, `TableKeepsPromises`, `DisplayTypes`.

`SettingsProofs`, for any heap, fields, texts and library files:

* `NothingHeldTwice`, `ConfigurationAsAsked`, `NoOtherLosses`, `ConstantsAreFound`,
  `SettingsTypes`.

`Em1AutorunProofs`, for any programs, order of a search and number of handles:

* `FileStaysSound`, `ListMatchesFile`, `EachStartsOnce`, `Em1Types`.

**The argument.** `TableSound` is not inductive. A step that frees an image must
not free one that is in the table, which needs that the images on the stack are
not in it; so the invariant `Sound` adds that the callers form a chain without
sharing and every frame on it is in progress (`StackSound`), that an image that
exists has a file, that a loaded library has a positive count and that a free
image has no mask. `NoDanglingLink` needs that counts are never *too low*: `Cover`
says, for every slot not in `spoiled`, that an empty slot has no holders and an
occupied one has at least as many references as holders. This is one-sided on purpose: it
is what safety needs, and it does not depend on a file naming each library once,
which `RefsExact` does. `HeldSlotStable` follows from `Cover`: a slot changes
hands only when empty, and an empty slot has no holders.

The lemma `SlotSteps` reduces the twenty-one actions to what they do to the table: a
step leaves every slot alone that can still be trusted, or does one of four things to one
slot (`Joined`, `Filled`, `Parted`, `Emptied`). `Cover`, `RefsExact` and the refinement
are each proved from these five cases. `ImageSteps` does the same for an image: it begins,
has one more entry linked, or keeps its mask. From it follow `Linked` (every entry
linked so far has a slot), which gives `LinkedAsNeeded`, and its converse `Asked` (every
slot in the mask of a linking image has an entry already linked). `Linked` needs
`AwaitsWanted`: the library a linking frame waits for is the one it asked for, although
foreign code has run in between. `RefsExact` needs `Asked`: a library found in the table is
counted once more, so it must not be in the mask yet, and with `NeedsOnce` it cannot be. The refinement
needs the counts to be exact, as the promise is that the *last* user takes the library away.

For the call stack, the lemma `CallSteps` leaves three kinds of step: a frame is called, the
innermost returns, or it goes on. `IdleIsDone` needs that every image in progress is
innermost or has called another (`OnStack`), and that the callers form no ring (`Ranked`: the
images can be numbered so that a caller comes after those it calls); then, of the images in progress
without an innermost frame, the one numbered lowest would have called a lower one. With exact counts
`NoLibraryIsLeft` follows: a positive count means a holder, and in an idle loader a holder is
loaded. `LoaderDescends` measures an image by the steps it still has to take in the worst case
(`Steps`: entries to link, slots to visit, phases to come), counted twice, and one for a
call in progress (`Left`). As a call is the only step that makes an image's measure rise, and that
image is then the innermost, the measures along the stack, from the outermost frame inwards, fall
in the order of a dictionary. That is why loading ends although libraries load libraries. That steps are
then really taken is what fairness adds, and `LoaderReturns` checks.

For the console, `FadeIsDriven` needs that the expiry of a simple timer is its
last (`StayOnce`); the handler of TID_STAY may then start a new timer without
stopping the old. `NoLostTimer` and `StepFitsAction` hold together only: an expiry
of a fade is handled during that fade because it can come from the known handle
only. `ExpiriesLeadToRest` rests on the same two, and `TimersKeepGoing` on `FadeIsDriven`; they
are the two halves of the argument for `Settles`: there is always an expiry to come, and each counts. For the window of the text the invariant `LinesOK` (the counters keep their
width) suffices; for the ring it is `TypeOK`, with the lemma `NextPlace`: the place of
the next line is the remainder of its number. `DrawnAsWritten` follows from
`Written`: the closed strides, and the open one drawn up to the next glyph, are the text so far;
between two calls the open one is empty. What `Drawn` is for any number of strides, the community
modules' flattening of a sequence of sequences, is proved from its recursive definition
(`FlattenIs`, `FlattenAppend`), in the way described for the settings below.

For the EM2 loader the invariant `Inv` joins the types, `ListIsSequence`,
`StackRangesApart` and two facts: the stack holds exactly the programs being
started, each once (`StackSound`), and their ranges start at `EvBase` or above
(`RangesAbove`). `StackRangesApart` is what makes the subtraction harmless to
those further out: the ranges on the stack are ordered, so the innermost failure gives back
no more than the topmost of them. That is why the counter cannot fall below its
first value, and why an overlap takes a program that was *added* meanwhile.

For the keys, `TicksAreOwn` is an equation modulo the width of the counter between what
the timer has counted, what the code has and what waits; it is inductive with
the types and `OneTimer` (a timer runs exactly while a key is known, and then one), by
two lemmas about remainders. `PressAndReleaseGoTogether` and `ConsumesForConsole` need that a
press that is `lone` has its key alone down (`SInv`). `CountsHeldKey` is inductive as it
stands, and with it `OnlyHeldKeysRenew` follows: what the code takes for held is down or was missed.

For the display callbacks, every frame on the stack is `Good`: it owes calls at or
behind its index only, to slots that it would still call, and the slot whose function
runs is owed nothing. `GetsItsShare` rests on two lemmas about rectangles: the
stricter test implies the other (`PreImpliesPost`), and the clipped rectangle lies in both and is
not empty (`CommonPart`); both need that differences do not leave 16 bits, which is
where the bound on coordinates comes from.

For the settings, `OwnedOnce` is taken apart into pointers that are live (`AllLive`) and apart
(`StringsApart`, `PartsApart`), which each step changes in one place. The invariant adds that blocks of
strings hold texts and what each operation starts from (`Phases`): defaults before a file is
read, complete strings before a copy. `OnlyKnownLosses` is an action property: for
each step, the blocks it allocates are held afterwards and those it lets go are
freed. `ConstantsFound` needs that the two blocks of the library in use hold what its file lists
(`Holds`), which no later operation disturbs, as nobody else points at them (`OwnedOnce`). The
search itself is a recursive function over intervals, and for the provers such a function is a
choice among the functions that satisfy its equation; so three facts are proved about it. One
exists (`AnswersExist`, by a function built up by the width of the interval), every one that
satisfies the equation answers right on a sorted table (`AnswersRight`), and therefore so does the
one that is chosen (`SearchRight`). Where the argument is an induction, it is that of a least
counterexample (`Smallest`), as numbers are well founded.

For the EM1 autorun, a command needs that its index is in the list: `Commands` bounds
`SelectedElf`, which every command lowers by one, by the number of programs. `FileSound` needs that a program
is added only when its mark is 0 and the mark is true, which `MarksAgree` says
while a handle is left, that is whenever a command can open the file. `StartsOnce` needs that what is started
comes from the entries before `next` (`StartedFromFile`).

The assumptions are those named in the modules: files of both kinds are
different, `Needs` lists libraries, there are finitely many images, at least one
slot, the sizes of the console are positive, the fast key does not scroll, the
lengths of press that do something are different, the
coordinates are those of a display, NULL and the built-in strings are no blocks, the tables of a
`library.bin` are sorted by id (the generator sorts them, `libgen.cpp:343`), and a search
finds each program once.

**Only model-checked:** the liveness properties `LoaderReturns`, `Settles` and `RestsUnlessHeld`. Liveness under
fairness and ENABLED are out of the prover's reach; what is proved of them is that every step
descends (`LoaderDescends`, `ExpiriesLeadToRest`), and that nothing else disturbs the console (`OnlyHeldKeysRenew`), for any files, images, slots and fade steps.

## 5. What is not modelled

* `ElfPackExit`, `ConsoleDone`, `ATI_Done`: the phone runs the application until it
  is switched off.
* ELF parsing, relocation arithmetic and the search of symbols in the loader
  core: each is a success or a failure.
* Memory other than the number of images, and a failed allocation inside the
  console or the list of programs.
* A window that was scrolled back and then overtaken by the ring shows lines
  that were overwritten. The model keeps the window's position and not the lines
  under it.
* The line counters start again at 65536. `FollowsTail` and `RingInStep` are
  stated up to that step, at which the code does lose its place.
* How a line of the configuration file is cut into a name and a value, and number formats.
* EP2 autorun: a loop of `loadElf` over the lines of a file; every sequence of loads is a
  behaviour of `ElfLoader`.
* EM2 autorun: the deletion of a record reads the number of records through a pointer
  that is never set (`ldr_autorun.c:83`), so what it does is undefined from there on.
* What a reload of the standard library does to a relocation in progress, which goes on
  with pointers to freed memory (`loadCommon.c:44`).
* The window of the EM2 loader, and the programs themselves, which are foreign code to the
  loaders: independent applications, each on its own.
* Most of the repository by size is none of its own code: headers of the C and C++
  libraries and of the compilers, SDKs that declare the firmware's functions, object files, and
  copies of the same for three phones. It has no behaviour that could be modelled.

## 6. Plan

What remains, in order of importance:

1. The standard library as an object of `ElfLoader`, so that a reload in the
   middle of a relocation can be stated.
2. How the line parser goes on after a value (`SkipLine`), against a reference definition.
3. `Em2Autorun`: adding and running records, without the deletion.
