------------------------------ MODULE Settings ------------------------------
(***************************************************************************)
(* What the reload of ElfPack 2 replaces: the strings of the configuration *)
(* (config.c, parser.c) and the standard library with its constants        *)
(* (loadDefLib.c), both on the heap of the phone.                          *)
(*                                                                         *)
(* A string of Config points at its built-in default, at a block of the    *)
(* heap, or nowhere. The loader fills Config from one of two files; a      *)
(* program may copy it into a structure of its own, change the copy, make  *)
(* it current and free it. Any allocation may fail.                        *)
(*                                                                         *)
(* No other code runs between the steps of one operation (pc # "idle");    *)
(* they are steps so that every allocation can fail by itself.             *)
(***************************************************************************)
EXTENDS Integers, Sequences

CONSTANTS
  Field,          \* the string fields of LDR_CONFIG_T
  DefLibraryPath, \* the one of them that names the library file
  Text,           \* what a string may say
  DefaultText,    \* what defaultConfig says, for every field
  Block,          \* the blocks of the heap
  Table,          \* what a library file may list: sequences of [id, val], by id
  ConstID,        \* the ids programs ask for
  Null,           \* a NULL pointer
  BuiltIn,        \* a pointer into defaultConfig
  Free            \* the content of a block that is not allocated

ASSUME FieldAssumption ==
  /\ DefLibraryPath \in Field
  /\ DefaultText \in [Field -> Text]

ASSUME HeapAssumption ==
  /\ Null \notin Block
  /\ BuiltIn \notin Block
  /\ BuiltIn # Null
  /\ Free \notin Text
  /\ Null \notin Text

ASSUME TableAssumption ==
  /\ \A t \in Table : t \in Seq([id : Nat, val : Nat])
  /\ Free \notin Seq(Nat)

\* The generator of the library files sorts the constants (libgen.cpp:343).
ASSUME ConstantsAssumption ==
  /\ \A t \in Table : \A i, j \in DOMAIN t : i <= j => t[i].id <= t[j].id
  /\ ConstID \subseteq Nat

VARIABLES
  heap,     \* what every block holds
  Config,   \* the strings of the current configuration
  own,      \* the strings of a program's own LDR_CONFIG_T
  lib,      \* fnLibraries[0] (while it loads, the local of that name) and cstLibrary
  buf,      \* the configuration file in memory
  pc,       \* what the loader is doing
  todo,     \* the fields the loop over configFields has not reached
  then,     \* what follows the configuration: "library" when both are reloaded
  table,    \* history: what the library in use lists; <<>> if there is none
  asked,    \* history: what every field was last set to
  short     \* history: the fields there was no memory for when they were

strings == <<Config, own>>
history == <<asked, short>>
library == <<lib, table>>
control == <<pc, todo, then>>
vars == <<heap, strings, library, buf, control, history>>

NoLibrary == [fn |-> Null, ID |-> Null, Vals |-> Null, count |-> 0]

\* ElfPackInit, and the start of ElfPackLoad.
Init ==
  /\ heap = [b \in Block |-> Free]
  /\ Config = [f \in Field |-> BuiltIn]
  /\ own = [f \in Field |-> Null]
  /\ lib = NoLibrary
  /\ buf = Null
  /\ pc = "idle"
  /\ todo = {}
  /\ then = "idle"
  /\ table = <<>>
  /\ asked = DefaultText
  /\ short = {}

-----------------------------------------------------------------------------
(* The heap.                                                               *)

\* What suAllocMem may return: NULL, or a block that is free.
suAllocMem == {Null} \cup {b \in Block : heap[b] = Free}

\* The heap with c in block p; NULL holds nothing.
With(p, c) == [b \in Block |-> IF b = p THEN c ELSE heap[b]]

\* The heap without the blocks ps points at.
Without(ps) == [b \in Block |-> IF b \in ps THEN Free ELSE heap[b]]

\* What string f of cfg says.
Says(cfg, f) ==
  CASE cfg[f] = BuiltIn -> DefaultText[f]
    [] cfg[f] = Null    -> Null
    [] OTHER            -> heap[cfg[f]]

\* The blocks that strings of cfg are in.
Strings(cfg) == {cfg[f] : f \in Field} \cap Block

\* Mutant: freeConfig leaves the pointers to what it has freed.
EmptiedKeepingPointers(cfg) == cfg

\* cfg after freeConfig.
Emptied(cfg) == [f \in Field |-> IF cfg[f] = BuiltIn THEN BuiltIn ELSE Null]

-----------------------------------------------------------------------------
(* The configuration of the loader.                                        *)

\* freeConfig( &Config ), setDefaultConfig( &Config )
Defaults ==
  /\ heap' = Without(Strings(Config))
  /\ Config' = [f \in Field |-> BuiltIn]
  /\ asked' = DefaultText
  /\ short' = {}
  /\ UNCHANGED own

ldrSetDefaultConfig ==
  /\ pc = "idle"
  /\ Defaults
  /\ UNCHANGED <<library, buf, control>>

\* Mutant: the reload starts from the configuration there is.
ldrLoadConfigOver(next) ==
  /\ pc = "idle"
  /\ asked' = DefaultText
  /\ short' = {}
  /\ UNCHANGED <<heap, strings>>
  /\ pc' = "file1"
  /\ then' = next
  /\ UNCHANGED <<library, buf, todo>>

\* Called by itself, or before loadDefaultLib: at start, by the key and by
\* the reload event.
ldrLoadConfig(next) ==
  /\ pc = "idle"
  /\ Defaults
  /\ pc' = "file1"
  /\ then' = next
  /\ UNCHANGED <<library, buf, todo>>

\* loadConfig frees the strings there are before it opens the file, and
\* ParseFile reads all of it into memory.
ParseFile ==
  /\ pc \in {"file1", "file2"}
  /\ \E p \in suAllocMem \ {Null} :
       /\ heap' = [Without(Strings(Config)) EXCEPT ![p] = <<>>]
       /\ buf' = p
  /\ Config' = Emptied(Config)
  /\ pc' = "lines"
  /\ UNCHANGED <<own, library, todo, then, history>>

\* The file is missing, empty or too big for the memory there is; then the
\* second one is tried. A file that cannot be read to its end leaves the
\* buffer allocated.
ParseFileFails ==
  /\ pc \in {"file1", "file2"}
  /\ \E p \in suAllocMem, read \in BOOLEAN :
       heap' = [b \in Block |->
                 IF b \in Strings(Config) THEN Free
                 ELSE IF read /\ b = p THEN <<>> ELSE heap[b]]
  /\ Config' = [f \in Field |-> BuiltIn]
  /\ asked' = DefaultText
  /\ short' = {}
  /\ pc' = IF pc = "file1" THEN "file2" ELSE then
  /\ UNCHANGED <<own, library, buf, todo, then>>

\* ParserConfigLine, ParserConfigValue: a line that sets string f. What the
\* field pointed at is not looked at.
ParserConfigLine(f, t) ==
  /\ pc = "lines"
  /\ \E p \in suAllocMem :
       /\ heap' = With(p, t)
       /\ Config' = [Config EXCEPT ![f] = p]
       /\ short' = IF p = Null THEN short \cup {f} ELSE short \ {f}
  /\ asked' = [asked EXCEPT ![f] = t]
  /\ UNCHANGED <<own, library, buf, control>>

EndOfFile ==
  /\ pc = "lines"
  /\ heap' = Without({buf})
  /\ buf' = Null
  /\ pc' = then
  /\ UNCHANGED <<strings, library, todo, then, history>>

-----------------------------------------------------------------------------
(* The configuration in the hands of a program. It passes only copies that *)
(* are complete, and copies only a configuration that is: the code reads   *)
(* every string without a look at its pointer.                             *)

Complete(cfg) == \A f \in Field : cfg[f] # Null

\* ldrCopyConfig( &own ), one field after the other. The pointers that were
\* in own are overwritten.
copyConfig ==
  /\ pc = "idle"
  /\ Complete(Config)
  /\ pc' = "copy"
  /\ todo' = Field
  /\ UNCHANGED <<heap, strings, library, buf, then, history>>

CopyField(f) ==
  /\ pc = "copy"
  /\ f \in todo
  /\ \E p \in suAllocMem :
       /\ heap' = With(p, Says(Config, f))
       /\ own' = [own EXCEPT ![f] = p]
  /\ todo' = todo \ {f}
  /\ pc' = IF todo = {f} THEN "idle" ELSE "copy"
  /\ UNCHANGED <<Config, library, buf, then, history>>

\* The program writes into a string of its copy.
Edit(f, t) ==
  /\ pc = "idle"
  /\ own[f] # Null
  /\ heap' = [heap EXCEPT ![own[f]] = t]
  /\ UNCHANGED <<strings, library, buf, control, history>>

\* ldrFreeConfig( &own )
freeConfig ==
  /\ pc = "idle"
  /\ heap' = Without(Strings(own))
  /\ own' = Emptied(own)
  /\ UNCHANGED <<Config, library, buf, control, history>>

\* Mutant: the strings of the current configuration are not freed first.
setConfigOver ==
  /\ pc = "idle"
  /\ Complete(own)
  /\ pc' = "set"
  /\ todo' = Field
  /\ UNCHANGED <<heap, strings, library, buf, then, history>>

\* ldrSetConfig( &own ), one field after the other.
setConfig ==
  /\ pc = "idle"
  /\ Complete(own)
  /\ heap' = Without(Strings(Config))
  /\ Config' = Emptied(Config)
  /\ pc' = "set"
  /\ todo' = Field
  /\ UNCHANGED <<own, library, buf, then, history>>

\* A string that says the same stays; one that does not say the default is freed.
SetField(f) ==
  LET new == Says(own, f)
      old == IF Says(Config, f) = DefaultText[f] THEN {} ELSE {Config[f]}
  IN
  /\ pc = "set"
  /\ f \in todo
  /\ \/ /\ Says(Config, f) = new
        /\ short' = short \ {f}
        /\ UNCHANGED <<heap, Config>>
     \/ /\ Says(Config, f) # new
        /\ \E p \in suAllocMem :
             /\ heap' = [b \in Block |-> IF b = p THEN new ELSE Without(old)[b]]
             /\ Config' = [Config EXCEPT ![f] = p]
             /\ short' = IF p = Null THEN short \cup {f} ELSE short \ {f}
  /\ asked' = [asked EXCEPT ![f] = new]
  /\ todo' = todo \ {f}
  /\ pc' = IF todo = {f} THEN "idle" ELSE "set"
  /\ UNCHANGED <<own, library, buf, then>>

-----------------------------------------------------------------------------
(* The standard library and its constants.                                 *)

\* The blocks the library is in.
Parts(l) == {l.fn, l.ID, l.Vals} \cap Block

\* unloadDefaultLib
unloadDefaultLib ==
  /\ heap' = Without(Parts(lib))
  /\ lib' = NoLibrary
  /\ table' = <<>>

\* ldrLoadDefLibrary, called by a program.
ldrLoadDefLibrary ==
  /\ pc = "idle"
  /\ pc' = "library"
  /\ UNCHANGED <<heap, strings, library, buf, todo, then, history>>

\* loadDefaultLib( NULL ) unloads the library there is, and opens the file.
loadDefaultLib ==
  /\ pc = "library"
  /\ IF lib.fn # Null THEN unloadDefaultLib ELSE UNCHANGED <<heap, library>>
  /\ pc' = "functions"
  /\ UNCHANGED <<strings, buf, todo, then, history>>

\* A file of this phone's firmware is there and lists t. The functions are
\* read into one block.
ReadFunctions(t) ==
  /\ pc = "functions"
  /\ Config[DefLibraryPath] # Null
  /\ \E p \in suAllocMem \ {Null} :
       /\ heap' = With(p, <<>>)
       /\ lib' = [fn |-> p, ID |-> Null, Vals |-> Null, count |-> Len(t)]
  /\ table' = t
  /\ pc' = IF t = <<>> THEN "idle" ELSE "ids"
  /\ UNCHANGED <<strings, buf, todo, then, history>>

ReadIDs ==
  /\ pc = "ids"
  /\ \E p \in suAllocMem \ {Null} :
       /\ heap' = With(p, [i \in 1 .. lib.count |-> table[i].id])
       /\ lib' = [lib EXCEPT !.ID = p]
  /\ pc' = "vals"
  /\ UNCHANGED <<strings, buf, table, todo, then, history>>

ReadVals ==
  /\ pc = "vals"
  /\ \E p \in suAllocMem \ {Null} :
       /\ heap' = With(p, [i \in 1 .. lib.count |-> table[i].val])
       /\ lib' = [lib EXCEPT !.Vals = p]
  /\ pc' = "idle"
  /\ UNCHANGED <<strings, buf, table, todo, then, history>>

\* The file is missing, of another firmware or cut short, or there is no
\* memory for the next part of it: everything that was loaded goes.
LoadFails ==
  /\ pc \in {"functions", "ids", "vals"}
  /\ unloadDefaultLib
  /\ pc' = "idle"
  /\ UNCHANGED <<strings, buf, todo, then, history>>

NoConst == -1

\* Mutant: the last constant of the interval is never looked at.
SearchBelow(id, l) ==
  LET at[interval \in (0 .. l.count) \X (-1 .. l.count - 1)] ==
        LET low == interval[1]
            high == interval[2]
            mid == (low + high) \div 2
            here == heap[l.ID][mid + 1]
        IN  IF high <= low THEN NoConst
            ELSE IF id < here THEN at[<<low, mid - 1>>]
            ELSE IF id > here THEN at[<<mid + 1, high>>]
            ELSE heap[l.Vals][mid + 1]
  IN  at[<<0, l.count - 1>>]

\* The binary search in ID, from low to high.
Search(id, l) ==
  LET at[interval \in (0 .. l.count) \X (-1 .. l.count - 1)] ==
        LET low == interval[1]
            high == interval[2]
            mid == (low + high) \div 2
            here == heap[l.ID][mid + 1]
        IN  IF high < low THEN NoConst
            ELSE IF id < here THEN at[<<low, mid - 1>>]
            ELSE IF id > here THEN at[<<mid + 1, high>>]
            ELSE heap[l.Vals][mid + 1]
  IN  at[<<0, l.count - 1>>]

ldrGetConstVal(id) == IF lib.count = 0 THEN NoConst ELSE Search(id, lib)

-----------------------------------------------------------------------------
LoaderConfig ==
  \/ \E next \in {"idle", "library"} : ldrLoadConfig(next)
  \/ ldrSetDefaultConfig
  \/ ParseFile
  \/ ParseFileFails
  \/ \E f \in Field, t \in Text : ParserConfigLine(f, t)
  \/ EndOfFile

ProgramConfig ==
  \/ copyConfig
  \/ setConfig
  \/ freeConfig
  \/ \E f \in Field : CopyField(f) \/ SetField(f)
  \/ \E f \in Field, t \in Text : Edit(f, t)

LibraryLoad ==
  \/ ldrLoadDefLibrary
  \/ loadDefaultLib
  \/ \E t \in Table : ReadFunctions(t)
  \/ ReadIDs
  \/ ReadVals
  \/ LoadFails

Next == LoaderConfig \/ ProgramConfig \/ LibraryLoad

Spec == Init /\ [][Next]_vars

-----------------------------------------------------------------------------
(* Properties.                                                             *)

Content == Text \cup {Free} \cup Seq(Nat)
StringPointer == Block \cup {Null, BuiltIn}
PC == {"idle", "file1", "file2", "lines", "copy", "set", "library", "functions", "ids", "vals"}

\* Every variable keeps its type; a program's copy never points at the
\* constant strings of the loader.
TypeOK ==
  /\ heap \in [Block -> Content]
  /\ Config \in [Field -> StringPointer]
  /\ own \in [Field -> Block \cup {Null}]
  /\ lib \in [fn : Block \cup {Null}, ID : Block \cup {Null}, Vals : Block \cup {Null}, count : Nat]
  /\ buf \in Block \cup {Null}
  /\ pc \in PC
  /\ todo \subseteq Field
  /\ then \in {"idle", "library"}
  /\ table = <<>> \/ table \in Table
  /\ asked \in [Field -> Text]
  /\ short \subseteq Field

\* The pointers the loader and the program hold, by the name of who holds
\* them, and where they point.
Holder == [who : {"Config", "own"}, field : Field] \cup [who : {"fn", "ID", "Vals", "buf"}]

Pointer(h) ==
  CASE h.who = "Config" -> Config[h.field]
    [] h.who = "own"    -> own[h.field]
    [] h.who = "fn"     -> lib.fn
    [] h.who = "ID"     -> lib.ID
    [] h.who = "Vals"   -> lib.Vals
    [] h.who = "buf"    -> buf

\* A block that the configuration, a program's copy of it, the library or
\* the file being read points at is allocated, and only one of them points
\* at it: through loads that fail anywhere, copies and reloads no string is
\* read after it is freed, and none is freed twice (config.c, loadDefLib.c).
OwnedOnce ==
  \A h \in Holder : Pointer(h) \in Block =>
    /\ heap[Pointer(h)] # Free
    /\ \A k \in Holder : Pointer(k) = Pointer(h) => k = h

\* Every string of the configuration says what the last line, default or
\* ldrSetConfig asked of it, or is NULL where there was no memory for it:
\* the pointers that freeConfig sets to NULL never stay so, although
\* loadConfig calls it and reads a file that may not name the field, and
\* setConfig skips the fields that compare equal (config.c:72, :172).
AsAsked ==
  \A f \in Field :
    \/ pc = "set" /\ f \in todo
    \/ Says(Config, f) = asked[f]
    \/ Config[f] = Null /\ f \in short

Owned(b) == \E h \in Holder : Pointer(h) = b
Lost == {b \in Block : heap[b] # Free /\ ~Owned(b)}

\* A block is lost, that is allocated with nobody left to free it, only when
\* a file names a field twice, a file cannot be read to its end, or a
\* program copies the configuration over a copy it has not freed: no reload,
\* failed load or change of the configuration loses one (parser.c:49, :345,
\* config.c:240).
OnlyKnownLosses ==
  [][ \/ Lost' \subseteq Lost
      \/ pc = "lines" /\ (\E f \in Field : Config[f] \in Block /\ Config'[f] # Config[f])
      \/ pc = "copy" /\ (\E f \in Field : own[f] \in Block /\ own'[f] # own[f])
      \/ pc \in {"file1", "file2"} /\ buf' = Null
    ]_vars

\* What ldrGetConstVal answers is what the library in use lists: after loads
\* that fail at any point, at its start or between the two halves of the
\* constants, and after a library without constants replaces one with some,
\* no old constant is found and none is missed (loadDefLib.c:126-167,
\* API.c:169).
ConstantsFound ==
  pc = "idle" =>
    \A id \in ConstID :
      LET listed == {i \in DOMAIN table : table[i].id = id}
      IN  IF listed = {}
          THEN ldrGetConstVal(id) = NoConst
          ELSE \E i \in listed : ldrGetConstVal(id) = table[i].val

=============================================================================
