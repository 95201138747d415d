-------------------------- MODULE ElfLoaderProofs --------------------------
(***************************************************************************)
(* Safety of the ElfPack 2 loader for every set of files, every dependency *)
(* relation, any number of images and any size of the library table.       *)
(***************************************************************************)
EXTENDS ElfLoader, FiniteSetTheorems, WellFoundedInduction, TLAPS

\* The phases of an image some frame works on.
Running == Phase \ {"free", "live"}

\* An image that exists was read from a file.
FilesKnown == \A i \in Image : pc[i] # "free" => file[i] \in File

\* A loaded library has at least one reference.
LiveCounted == \A i \in Image : pc[i] = "live" /\ file[i] \in Libs => refs[i] > 0

\* A mask belongs to an image that exists.
FreeUnlinked == \A i \in Image : pc[i] = "free" => link[i] = {}

\* The callers form a stack: a chain without sharing that ends in a frame nobody
\* called from, each link of it in progress.
StackSound ==
  /\ top # None => pc[top] \in Running
  /\ \A i \in Image : caller[i] # None =>
       /\ pc[i] \in Running
       /\ pc[caller[i]] \in Running
       /\ caller[i] # i
       /\ caller[i] # top
  /\ \A i, j \in Image : caller[i] = caller[j] /\ caller[i] # None => i = j

\* The part of the invariant that does not depend on what was cleared twice.
Sound ==
  /\ TypeOK
  /\ FilesKnown
  /\ LiveCounted
  /\ FreeUnlinked
  /\ StackSound
  /\ TableSound

\* A set of numbers that is not empty has a smallest.
LEMMA Smallest ==
  ASSUME NEW T \in SUBSET Nat, T # {}
  PROVE  \E m \in T : \A k \in T : m <= k
<1> DEFINE R == OpToRel(<, Nat)
<1>1. IsWellFoundedOn(R, Nat)
  BY NatLessThanWellFounded
<1>2. \A x, y \in Nat : <<y, x>> \in R <=> y < x
  BY DEF OpToRel
<1> HIDE DEF R
<1>3. PICK m \in T : \A k \in T : <<k, m>> \notin R
  BY <1>1, WFMin
<1>4. ASSUME NEW k \in T PROVE m <= k
  <2>1. m \in Nat /\ k \in Nat
    OBVIOUS
  <2>2. ~ (k < m)
    BY <1>2, <1>3, <2>1
  <2> QED
    BY <2>1, <2>2
<1> QED
  BY <1>4

USE FilesAssumption, NeedsAssumption, ImageAssumption, MaxLibrariesAssumption, CountAssumption

\* The loader starts with an empty table and no image.
LEMMA InitSound == Init => Sound
<1> SUFFICES ASSUME Init PROVE Sound
  OBVIOUS
<1>1. TypeOK
  BY DEF Init, TypeOK, Phase, Slot
<1>2. Occupied = {}
  BY DEF Init, Occupied
<1>3. FilesKnown /\ LiveCounted /\ FreeUnlinked /\ StackSound
  BY DEF Init, FilesKnown, LiveCounted, FreeUnlinked, StackSound
<1> QED
  BY <1>1, <1>2, <1>3 DEF Sound, TableSound

\* The file the next DT_NEEDED entry names is a library.
LEMMA WantedIsLibrary ==
  ASSUME NEW i \in Image, TypeOK, FilesKnown, Linking(i), MoreNeeded(i)
  PROVE  Wanted(i) \in Libs
<1>1. file[i] \in File
  BY DEF FilesKnown, Linking
<1>2. Needs[file[i]] \in Seq(Libs)
  BY <1>1
<1>3. next[i] \in 1 .. Len(Needs[file[i]])
  BY <1>2 DEF TypeOK, MoreNeeded
<1> QED
  BY <1>2, <1>3 DEF Wanted


\* Every new image is read from a file of the system.
LEMMA BeginsByFile ==
  ASSUME Sound
  PROVE  /\ \A i \in Image, f \in Elfs : LoadElf(i, f) => f \in File /\ Begin(i, f)
         /\ \A i \in Image, f \in Libs : Dlopen(i, f) => f \in File /\ Begin(i, f)
         /\ \A i, c \in Image : LinkNew(i, c) => Wanted(i) \in File /\ Begin(c, Wanted(i))
<1>1. \A i, c \in Image : LinkNew(i, c) => Wanted(i) \in Libs
  BY WantedIsLibrary DEF LinkNew, Sound
<1> QED
  BY <1>1 DEF LoadElf, Dlopen, LinkNew, File

\* Every action keeps the types.
LEMMA TypeOKNext == Sound /\ [Next]_vars => TypeOK'
<1> SUFFICES ASSUME Sound, [Next]_vars PROVE TypeOK'
  OBVIOUS
<1> USE DEF Sound, frameVars
<1>1. ASSUME NEW c \in Image, NEW f \in File, Begin(c, f) PROVE TypeOK'
  BY <1>1 DEF Begin, Push, TypeOK, Phase
<1>2. ASSUME NEW i \in Image, UnloadElf(i) PROVE TypeOK'
  BY <1>2 DEF UnloadElf, Unlink, Push, MayCall, Listed, TypeOK, Phase
<1>3. ASSUME NEW i \in Image, Dlclose(i) PROVE TypeOK'
  BY <1>3 DEF Dlclose, Push, MayCall, Handle, TypeOK, LiveCounted, Phase
<1>4. ASSUME NEW i \in Image, RegisterElf(i) PROVE TypeOK'
  BY <1>4 DEF RegisterElf, Returning, Pop, TypeOK, Phase
<1>5. ASSUME NEW i \in Image, OpenHandle(i) PROVE TypeOK'
  BY <1>5 DEF OpenHandle, Returning, Pop, IsNeeded, TypeOK, Phase
<1>6. ASSUME NEW i \in Image, RegisterLibrary(i) PROVE TypeOK'
  BY <1>6 DEF RegisterLibrary, Returning, Pop, IsNeeded, TypeOK, Phase
<1>7. ASSUME NEW i \in Image, RegistryFull(i) PROVE TypeOK'
  BY <1>7 DEF RegistryFull, Returning, TypeOK, Phase
<1>8. ASSUME NEW i \in Image, CallFails(i) PROVE TypeOK'
  BY <1>8 DEF CallFails, Unlink, Returning, TypeOK, Phase
<1>9. ASSUME NEW i \in Image, FiniDone(i) PROVE TypeOK'
  BY <1>9 DEF FiniDone, Unlink, TypeOK, Phase
<1>10. ASSUME NEW i \in Image, LinkExisting(i) PROVE TypeOK'
  BY <1>10 DEF LinkExisting, Linking, Named, Occupied, TypeOK, Phase
<1>11. ASSUME NEW i \in Image, LinkFails(i) PROVE TypeOK'
  BY <1>11 DEF LinkFails, Linking, Unlink, TypeOK, Phase
<1>12. ASSUME NEW i \in Image, Relocate(i) PROVE TypeOK'
  BY <1>12 DEF Relocate, Linking, TypeOK, Phase
<1>13. ASSUME NEW i \in Image, RelocateFails(i) PROVE TypeOK'
  BY <1>13 DEF RelocateFails, Linking, Unlink, TypeOK, Phase
<1>14. ASSUME NEW i \in Image, ReleaseShared(i) PROVE TypeOK'
  BY <1>14 DEF ReleaseShared, Unlinking, TypeOK, Phase
<1>15. ASSUME NEW i \in Image, ReleaseLast(i) PROVE TypeOK'
  BY <1>15 DEF ReleaseLast, Unlinking, Push, TypeOK, Phase
<1>16. ASSUME NEW i \in Image, ReleaseUnloaded(i) PROVE TypeOK'
  BY <1>16 DEF ReleaseUnloaded, Unlinking, TypeOK, Phase
<1>17. ASSUME NEW i \in Image, ClearAgain(i) PROVE TypeOK'
  BY <1>17 DEF ClearAgain, Unlink, TypeOK, Phase
<1>18. ASSUME NEW i \in Image, Release(i) PROVE TypeOK'
  <2>1. CASE IsNeeded(i)
    <3>1. caller[i] \in Image /\ link[caller[i]] \in SUBSET Slot
      BY <2>1 DEF TypeOK, IsNeeded
    <3>2. pc' \in [Image -> Phase] /\ todo' \in [Image -> SUBSET Slot]
      BY <1>18, <2>1, <3>1 DEF Release, TypeOK, Phase
    <3> QED
      BY <1>18, <3>2 DEF Release, Pop, TypeOK
  <2>2. CASE ~IsNeeded(i)
    <3>1. pc' \in [Image -> Phase] /\ todo' = todo
      BY <1>18, <2>2 DEF Release, TypeOK, Phase
    <3> QED
      BY <1>18, <3>1 DEF Release, Pop, TypeOK
  <2> QED
    BY <2>1, <2>2
<1>19. CASE ReloadDefaultLib
  BY <1>19 DEF ReloadDefaultLib, TypeOK, Phase
<1>20. CASE UNCHANGED vars
  BY <1>20 DEF vars, TypeOK, Phase
<1> QED
  BY <1>1, <1>2, <1>3, <1>4, <1>5, <1>6, <1>7, <1>8, <1>9, <1>10, <1>11, <1>12, <1>13, <1>14, <1>15, <1>16, <1>17, <1>18, <1>19, <1>20, BeginsByFile DEF Next, Request, Return, Work

\* Every action keeps the file of an image that exists.
LEMMA FilesKnownNext == Sound /\ [Next]_vars => FilesKnown'
<1> SUFFICES ASSUME Sound, [Next]_vars PROVE FilesKnown'
  OBVIOUS
<1> USE DEF Sound, frameVars
<1>1. ASSUME NEW c \in Image, NEW f \in File, Begin(c, f) PROVE FilesKnown'
  BY <1>1 DEF Begin, Push, TypeOK, FilesKnown
<1>2. ASSUME NEW i \in Image, UnloadElf(i) PROVE FilesKnown'
  BY <1>2 DEF UnloadElf, Unlink, Push, MayCall, Listed, TypeOK, FilesKnown
<1>3. ASSUME NEW i \in Image, Dlclose(i) PROVE FilesKnown'
  BY <1>3 DEF Dlclose, Push, MayCall, Handle, TypeOK, FilesKnown
<1>4. ASSUME NEW i \in Image, RegisterElf(i) PROVE FilesKnown'
  BY <1>4 DEF RegisterElf, Returning, Pop, TypeOK, FilesKnown
<1>5. ASSUME NEW i \in Image, OpenHandle(i) PROVE FilesKnown'
  BY <1>5 DEF OpenHandle, Returning, Pop, IsNeeded, TypeOK, FilesKnown
<1>6. ASSUME NEW i \in Image, RegisterLibrary(i) PROVE FilesKnown'
  BY <1>6 DEF RegisterLibrary, Returning, Pop, IsNeeded, TypeOK, FilesKnown
<1>7. ASSUME NEW i \in Image, RegistryFull(i) PROVE FilesKnown'
  BY <1>7 DEF RegistryFull, Returning, TypeOK, FilesKnown
<1>8. ASSUME NEW i \in Image, CallFails(i) PROVE FilesKnown'
  BY <1>8 DEF CallFails, Unlink, Returning, TypeOK, FilesKnown
<1>9. ASSUME NEW i \in Image, FiniDone(i) PROVE FilesKnown'
  BY <1>9 DEF FiniDone, Unlink, TypeOK, FilesKnown
<1>10. ASSUME NEW i \in Image, LinkExisting(i) PROVE FilesKnown'
  BY <1>10 DEF LinkExisting, Linking, Named, Occupied, TypeOK, FilesKnown
<1>11. ASSUME NEW i \in Image, LinkFails(i) PROVE FilesKnown'
  BY <1>11 DEF LinkFails, Linking, Unlink, TypeOK, FilesKnown
<1>12. ASSUME NEW i \in Image, Relocate(i) PROVE FilesKnown'
  BY <1>12 DEF Relocate, Linking, TypeOK, FilesKnown
<1>13. ASSUME NEW i \in Image, RelocateFails(i) PROVE FilesKnown'
  BY <1>13 DEF RelocateFails, Linking, Unlink, TypeOK, FilesKnown
<1>14. ASSUME NEW i \in Image, ReleaseShared(i) PROVE FilesKnown'
  BY <1>14 DEF ReleaseShared, Unlinking, TypeOK, FilesKnown
<1>15. ASSUME NEW i \in Image, ReleaseLast(i) PROVE FilesKnown'
  BY <1>15 DEF ReleaseLast, Unlinking, Push, TypeOK, FilesKnown, TableSound, Occupied
<1>16. ASSUME NEW i \in Image, ReleaseUnloaded(i) PROVE FilesKnown'
  BY <1>16 DEF ReleaseUnloaded, Unlinking, TypeOK, FilesKnown
<1>17. ASSUME NEW i \in Image, ClearAgain(i) PROVE FilesKnown'
  BY <1>17 DEF ClearAgain, Unlink, TypeOK, FilesKnown
<1>18. ASSUME NEW i \in Image, Release(i) PROVE FilesKnown'
  BY <1>18 DEF Release, Pop, IsNeeded, TypeOK, FilesKnown
<1>19. CASE ReloadDefaultLib
  BY <1>19 DEF ReloadDefaultLib, TypeOK, FilesKnown
<1>20. CASE UNCHANGED vars
  BY <1>20 DEF vars, TypeOK, FilesKnown
<1> QED
  BY <1>1, <1>2, <1>3, <1>4, <1>5, <1>6, <1>7, <1>8, <1>9, <1>10, <1>11, <1>12, <1>13, <1>14, <1>15, <1>16, <1>17, <1>18, <1>19, <1>20, BeginsByFile DEF Next, Request, Return, Work

\* Every action keeps loaded libraries counted.
LEMMA LiveCountedNext == Sound /\ [Next]_vars => LiveCounted'
<1> SUFFICES ASSUME Sound, [Next]_vars PROVE LiveCounted'
  OBVIOUS
<1> USE DEF Sound, frameVars
<1>1. ASSUME NEW c \in Image, NEW f \in File, Begin(c, f) PROVE LiveCounted'
  BY <1>1 DEF Begin, Push, TypeOK, LiveCounted
<1>2. ASSUME NEW i \in Image, UnloadElf(i) PROVE LiveCounted'
  BY <1>2 DEF UnloadElf, Unlink, Push, MayCall, Listed, TypeOK, LiveCounted
<1>3. ASSUME NEW i \in Image, Dlclose(i) PROVE LiveCounted'
  BY <1>3 DEF Dlclose, Push, MayCall, Handle, TypeOK, LiveCounted
<1>4. ASSUME NEW i \in Image, RegisterElf(i) PROVE LiveCounted'
  BY <1>4 DEF RegisterElf, Returning, Pop, TypeOK, LiveCounted
<1>5. ASSUME NEW i \in Image, OpenHandle(i) PROVE LiveCounted'
  BY <1>5 DEF OpenHandle, Returning, Pop, IsNeeded, TypeOK, LiveCounted
<1>6. ASSUME NEW i \in Image, RegisterLibrary(i) PROVE LiveCounted'
  BY <1>6 DEF RegisterLibrary, Returning, Pop, IsNeeded, TypeOK, LiveCounted
<1>7. ASSUME NEW i \in Image, RegistryFull(i) PROVE LiveCounted'
  BY <1>7 DEF RegistryFull, Returning, TypeOK, LiveCounted
<1>8. ASSUME NEW i \in Image, CallFails(i) PROVE LiveCounted'
  BY <1>8 DEF CallFails, Unlink, Returning, TypeOK, LiveCounted
<1>9. ASSUME NEW i \in Image, FiniDone(i) PROVE LiveCounted'
  BY <1>9 DEF FiniDone, Unlink, TypeOK, LiveCounted
<1>10. ASSUME NEW i \in Image, LinkExisting(i) PROVE LiveCounted'
  BY <1>10 DEF LinkExisting, Linking, Named, Occupied, TypeOK, LiveCounted
<1>11. ASSUME NEW i \in Image, LinkFails(i) PROVE LiveCounted'
  BY <1>11 DEF LinkFails, Linking, Unlink, TypeOK, LiveCounted
<1>12. ASSUME NEW i \in Image, Relocate(i) PROVE LiveCounted'
  BY <1>12 DEF Relocate, Linking, TypeOK, LiveCounted
<1>13. ASSUME NEW i \in Image, RelocateFails(i) PROVE LiveCounted'
  BY <1>13 DEF RelocateFails, Linking, Unlink, TypeOK, LiveCounted
<1>14. ASSUME NEW i \in Image, ReleaseShared(i) PROVE LiveCounted'
  BY <1>14 DEF ReleaseShared, Unlinking, TypeOK, LiveCounted
<1>15. ASSUME NEW i \in Image, ReleaseLast(i) PROVE LiveCounted'
  BY <1>15 DEF ReleaseLast, Unlinking, Push, TypeOK, LiveCounted
<1>16. ASSUME NEW i \in Image, ReleaseUnloaded(i) PROVE LiveCounted'
  BY <1>16 DEF ReleaseUnloaded, Unlinking, TypeOK, LiveCounted
<1>17. ASSUME NEW i \in Image, ClearAgain(i) PROVE LiveCounted'
  BY <1>17 DEF ClearAgain, Unlink, TypeOK, LiveCounted
<1>18. ASSUME NEW i \in Image, Release(i) PROVE LiveCounted'
  BY <1>18 DEF Release, Pop, IsNeeded, TypeOK, LiveCounted
<1>19. CASE ReloadDefaultLib
  BY <1>19 DEF ReloadDefaultLib, TypeOK, LiveCounted
<1>20. CASE UNCHANGED vars
  BY <1>20 DEF vars, TypeOK, LiveCounted
<1> QED
  BY <1>1, <1>2, <1>3, <1>4, <1>5, <1>6, <1>7, <1>8, <1>9, <1>10, <1>11, <1>12, <1>13, <1>14, <1>15, <1>16, <1>17, <1>18, <1>19, <1>20, BeginsByFile DEF Next, Request, Return, Work

\* Every action leaves a released image without a mask.
LEMMA FreeUnlinkedNext == Sound /\ [Next]_vars => FreeUnlinked'
<1> SUFFICES ASSUME Sound, [Next]_vars PROVE FreeUnlinked'
  OBVIOUS
<1> USE DEF Sound, frameVars
<1>1. ASSUME NEW c \in Image, NEW f \in File, Begin(c, f) PROVE FreeUnlinked'
  BY <1>1 DEF Begin, Push, TypeOK, FreeUnlinked
<1>2. ASSUME NEW i \in Image, UnloadElf(i) PROVE FreeUnlinked'
  BY <1>2 DEF UnloadElf, Unlink, Push, MayCall, Listed, TypeOK, FreeUnlinked
<1>3. ASSUME NEW i \in Image, Dlclose(i) PROVE FreeUnlinked'
  BY <1>3 DEF Dlclose, Push, MayCall, Handle, TypeOK, FreeUnlinked
<1>4. ASSUME NEW i \in Image, RegisterElf(i) PROVE FreeUnlinked'
  BY <1>4 DEF RegisterElf, Returning, Pop, TypeOK, FreeUnlinked
<1>5. ASSUME NEW i \in Image, OpenHandle(i) PROVE FreeUnlinked'
  BY <1>5 DEF OpenHandle, Returning, Pop, IsNeeded, TypeOK, FreeUnlinked
<1>6. ASSUME NEW i \in Image, RegisterLibrary(i) PROVE FreeUnlinked'
  BY <1>6 DEF RegisterLibrary, Returning, Pop, IsNeeded, TypeOK, FreeUnlinked
<1>7. ASSUME NEW i \in Image, RegistryFull(i) PROVE FreeUnlinked'
  BY <1>7 DEF RegistryFull, Returning, TypeOK, FreeUnlinked
<1>8. ASSUME NEW i \in Image, CallFails(i) PROVE FreeUnlinked'
  BY <1>8 DEF CallFails, Unlink, Returning, TypeOK, FreeUnlinked
<1>9. ASSUME NEW i \in Image, FiniDone(i) PROVE FreeUnlinked'
  BY <1>9 DEF FiniDone, Unlink, TypeOK, FreeUnlinked
<1>10. ASSUME NEW i \in Image, LinkExisting(i) PROVE FreeUnlinked'
  BY <1>10 DEF LinkExisting, Linking, Named, Occupied, TypeOK, FreeUnlinked
<1>11. ASSUME NEW i \in Image, LinkFails(i) PROVE FreeUnlinked'
  BY <1>11 DEF LinkFails, Linking, Unlink, TypeOK, FreeUnlinked
<1>12. ASSUME NEW i \in Image, Relocate(i) PROVE FreeUnlinked'
  BY <1>12 DEF Relocate, Linking, TypeOK, FreeUnlinked
<1>13. ASSUME NEW i \in Image, RelocateFails(i) PROVE FreeUnlinked'
  BY <1>13 DEF RelocateFails, Linking, Unlink, TypeOK, FreeUnlinked
<1>14. ASSUME NEW i \in Image, ReleaseShared(i) PROVE FreeUnlinked'
  BY <1>14 DEF ReleaseShared, Unlinking, TypeOK, FreeUnlinked
<1>15. ASSUME NEW i \in Image, ReleaseLast(i) PROVE FreeUnlinked'
  BY <1>15 DEF ReleaseLast, Unlinking, Push, TypeOK, FreeUnlinked
<1>16. ASSUME NEW i \in Image, ReleaseUnloaded(i) PROVE FreeUnlinked'
  BY <1>16 DEF ReleaseUnloaded, Unlinking, TypeOK, FreeUnlinked
<1>17. ASSUME NEW i \in Image, ClearAgain(i) PROVE FreeUnlinked'
  BY <1>17 DEF ClearAgain, Unlink, TypeOK, FreeUnlinked
<1>18. ASSUME NEW i \in Image, Release(i) PROVE FreeUnlinked'
  BY <1>18 DEF Release, Pop, IsNeeded, TypeOK, FreeUnlinked
<1>19. CASE ReloadDefaultLib
  BY <1>19 DEF ReloadDefaultLib, TypeOK, FreeUnlinked
<1>20. CASE UNCHANGED vars
  BY <1>20 DEF vars, TypeOK, FreeUnlinked
<1> QED
  BY <1>1, <1>2, <1>3, <1>4, <1>5, <1>6, <1>7, <1>8, <1>9, <1>10, <1>11, <1>12, <1>13, <1>14, <1>15, <1>16, <1>17, <1>18, <1>19, <1>20, BeginsByFile DEF Next, Request, Return, Work

\* Calls and returns keep the callers a stack.
LEMMA StackSoundNext == Sound /\ [Next]_vars => StackSound'
<1> SUFFICES ASSUME Sound, [Next]_vars PROVE StackSound'
  OBVIOUS
<1> USE DEF Sound, frameVars
<1>1. ASSUME NEW c \in Image, NEW f \in File, Begin(c, f) PROVE StackSound'
  BY <1>1 DEF Begin, Push, TypeOK, Running, Phase, StackSound
<1>2. ASSUME NEW i \in Image, UnloadElf(i) PROVE StackSound'
  BY <1>2 DEF UnloadElf, Unlink, Push, MayCall, Listed, TypeOK, Running, Phase, StackSound
<1>3. ASSUME NEW i \in Image, Dlclose(i) PROVE StackSound'
  BY <1>3 DEF Dlclose, Push, MayCall, Handle, TypeOK, Running, Phase, StackSound
<1>4. ASSUME NEW i \in Image, RegisterElf(i) PROVE StackSound'
  BY <1>4 DEF RegisterElf, Returning, Pop, TypeOK, Running, Phase, StackSound
<1>5. ASSUME NEW i \in Image, OpenHandle(i) PROVE StackSound'
  BY <1>5 DEF OpenHandle, Returning, Pop, IsNeeded, TypeOK, Running, Phase, StackSound
<1>6. ASSUME NEW i \in Image, RegisterLibrary(i) PROVE StackSound'
  BY <1>6 DEF RegisterLibrary, Returning, Pop, IsNeeded, TypeOK, Running, Phase, StackSound
<1>7. ASSUME NEW i \in Image, RegistryFull(i) PROVE StackSound'
  BY <1>7 DEF RegistryFull, Returning, TypeOK, Running, Phase, StackSound
<1>8. ASSUME NEW i \in Image, CallFails(i) PROVE StackSound'
  BY <1>8 DEF CallFails, Unlink, Returning, TypeOK, Running, Phase, StackSound
<1>9. ASSUME NEW i \in Image, FiniDone(i) PROVE StackSound'
  BY <1>9 DEF FiniDone, Unlink, TypeOK, Running, Phase, StackSound
<1>10. ASSUME NEW i \in Image, LinkExisting(i) PROVE StackSound'
  BY <1>10 DEF LinkExisting, Linking, Named, Occupied, TypeOK, Running, Phase, StackSound
<1>11. ASSUME NEW i \in Image, LinkFails(i) PROVE StackSound'
  BY <1>11 DEF LinkFails, Linking, Unlink, TypeOK, Running, Phase, StackSound
<1>12. ASSUME NEW i \in Image, Relocate(i) PROVE StackSound'
  BY <1>12 DEF Relocate, Linking, TypeOK, Running, Phase, StackSound
<1>13. ASSUME NEW i \in Image, RelocateFails(i) PROVE StackSound'
  BY <1>13 DEF RelocateFails, Linking, Unlink, TypeOK, Running, Phase, StackSound
<1>14. ASSUME NEW i \in Image, ReleaseShared(i) PROVE StackSound'
  BY <1>14 DEF ReleaseShared, Unlinking, TypeOK, Running, Phase, StackSound
<1>15. ASSUME NEW i \in Image, ReleaseLast(i) PROVE StackSound'
  BY <1>15 DEF ReleaseLast, Unlinking, Push, TypeOK, TableSound, Occupied, Running, Phase, StackSound
<1>16. ASSUME NEW i \in Image, ReleaseUnloaded(i) PROVE StackSound'
  BY <1>16 DEF ReleaseUnloaded, Unlinking, TypeOK, Running, Phase, StackSound
<1>17. ASSUME NEW i \in Image, ClearAgain(i) PROVE StackSound'
  BY <1>17 DEF ClearAgain, Unlink, TypeOK, Running, Phase, StackSound
<1>18. ASSUME NEW i \in Image, Release(i) PROVE StackSound'
  <2>1. \A k \in Image : k # i /\ pc[k] \in Running => pc'[k] \in Running
    BY <1>18 DEF Release, IsNeeded, TypeOK, Running, Phase
  <2>2. caller' = [caller EXCEPT ![i] = None] /\ top' = caller[i] /\ top = i
    BY <1>18 DEF Release, Pop
  <2> QED
    BY <2>1, <2>2 DEF TypeOK, StackSound
<1>19. CASE ReloadDefaultLib
  BY <1>19 DEF ReloadDefaultLib, TypeOK, Running, Phase, StackSound
<1>20. CASE UNCHANGED vars
  BY <1>20 DEF vars, TypeOK, Running, Phase, StackSound
<1> QED
  BY <1>1, <1>2, <1>3, <1>4, <1>5, <1>6, <1>7, <1>8, <1>9, <1>10, <1>11, <1>12, <1>13, <1>14, <1>15, <1>16, <1>17, <1>18, <1>19, <1>20, BeginsByFile DEF Next, Request, Return, Work

\* No action frees, or registers twice, a library of the table.
LEMMA TableSoundNext == Sound /\ [Next]_vars => TableSound'
<1> SUFFICES ASSUME Sound, [Next]_vars PROVE TableSound'
  OBVIOUS
<1> USE DEF Sound, frameVars
<1>1. ASSUME NEW c \in Image, NEW f \in File, Begin(c, f) PROVE TableSound'
  BY <1>1 DEF Begin, Push, TypeOK, TableSound, LiveCounted, Occupied
<1>2. ASSUME NEW i \in Image, UnloadElf(i) PROVE TableSound'
  BY <1>2 DEF UnloadElf, Unlink, Push, MayCall, Listed, TypeOK, TableSound, LiveCounted, Occupied
<1>3. ASSUME NEW i \in Image, Dlclose(i) PROVE TableSound'
  BY <1>3 DEF Dlclose, Push, MayCall, Handle, TypeOK, TableSound, LiveCounted, Occupied
<1>4. ASSUME NEW i \in Image, RegisterElf(i) PROVE TableSound'
  BY <1>4 DEF RegisterElf, Returning, Pop, TypeOK, TableSound, LiveCounted, Occupied
<1>5. ASSUME NEW i \in Image, OpenHandle(i) PROVE TableSound'
  BY <1>5 DEF OpenHandle, Returning, Pop, IsNeeded, TypeOK, TableSound, LiveCounted, Occupied
<1>6. ASSUME NEW i \in Image, RegisterLibrary(i) PROVE TableSound'
  BY <1>6 DEF RegisterLibrary, Returning, Pop, IsNeeded, TypeOK, TableSound, LiveCounted, Occupied
<1>7. ASSUME NEW i \in Image, RegistryFull(i) PROVE TableSound'
  BY <1>7 DEF RegistryFull, Returning, TypeOK, TableSound, LiveCounted, Occupied
<1>8. ASSUME NEW i \in Image, CallFails(i) PROVE TableSound'
  BY <1>8 DEF CallFails, Unlink, Returning, TypeOK, TableSound, LiveCounted, Occupied
<1>9. ASSUME NEW i \in Image, FiniDone(i) PROVE TableSound'
  BY <1>9 DEF FiniDone, Unlink, TypeOK, TableSound, LiveCounted, Occupied
<1>10. ASSUME NEW i \in Image, LinkExisting(i) PROVE TableSound'
  BY <1>10 DEF LinkExisting, Linking, Named, Occupied, TypeOK, TableSound, LiveCounted, Occupied
<1>11. ASSUME NEW i \in Image, LinkFails(i) PROVE TableSound'
  BY <1>11 DEF LinkFails, Linking, Unlink, TypeOK, TableSound, LiveCounted, Occupied
<1>12. ASSUME NEW i \in Image, Relocate(i) PROVE TableSound'
  BY <1>12 DEF Relocate, Linking, TypeOK, TableSound, LiveCounted, Occupied
<1>13. ASSUME NEW i \in Image, RelocateFails(i) PROVE TableSound'
  BY <1>13 DEF RelocateFails, Linking, Unlink, TypeOK, TableSound, LiveCounted, Occupied
<1>14. ASSUME NEW i \in Image, ReleaseShared(i) PROVE TableSound'
  BY <1>14 DEF ReleaseShared, Unlinking, TypeOK, TableSound, LiveCounted, Occupied
<1>15. ASSUME NEW i \in Image, ReleaseLast(i) PROVE TableSound'
  BY <1>15 DEF ReleaseLast, Unlinking, Push, TypeOK, TableSound, LiveCounted, Occupied
<1>16. ASSUME NEW i \in Image, ReleaseUnloaded(i) PROVE TableSound'
  BY <1>16 DEF ReleaseUnloaded, Unlinking, TypeOK, TableSound, LiveCounted, Occupied
<1>17. ASSUME NEW i \in Image, ClearAgain(i) PROVE TableSound'
  BY <1>17 DEF ClearAgain, Unlink, TypeOK, TableSound, LiveCounted, Occupied
<1>18. ASSUME NEW i \in Image, Release(i) PROVE TableSound'
  BY <1>18 DEF Release, Pop, IsNeeded, TypeOK, TableSound, LiveCounted, Occupied
<1>19. CASE ReloadDefaultLib
  BY <1>19 DEF ReloadDefaultLib, TypeOK, TableSound, LiveCounted, Occupied
<1>20. CASE UNCHANGED vars
  BY <1>20 DEF vars, TypeOK, TableSound, LiveCounted, Occupied
<1> QED
  BY <1>1, <1>2, <1>3, <1>4, <1>5, <1>6, <1>7, <1>8, <1>9, <1>10, <1>11, <1>12, <1>13, <1>14, <1>15, <1>16, <1>17, <1>18, <1>19, <1>20, BeginsByFile DEF Next, Request, Return, Work

\* Types, the call stack and the table are sound whatever fails.
LEMMA SoundNext == Sound /\ [Next]_vars => Sound'
BY TypeOKNext, FilesKnownNext, LiveCountedNext, FreeUnlinkedNext, StackSoundNext, TableSoundNext
   DEF Sound

\* The part of the invariant that holds whatever loads fail.
LEMMA SpecSound == Spec => []Sound
BY InitSound, SoundNext, PTL DEF Spec

\* Every variable keeps its type in every behaviour of the loader.
THEOREM TypeCorrect == Spec => []TypeOK
BY SpecSound, PTL DEF Sound

\* The library table never points at an image that is being, or has been, freed,
\* whatever loads fail and whatever foreign code calls back.
THEOREM TableIsSound == Spec => []TableSound
BY SpecSound, PTL DEF Sound


-----------------------------------------------------------------------------
(* No dangling links.                                                      *)

\* A slot no failed load has unloaded twice: nobody holds it while it is empty,
\* and its library has a reference for every image that holds it.
Covered(s) ==
  /\ table[s] = None => Holders(s) = {}
  /\ table[s] # None => Cardinality(Holders(s)) <= refs[table[s]]

\* Every slot that no failed load has unloaded twice is covered.
Cover == \A s \in Slot \ spoiled : Covered(s)

\* Holders can be counted: a slot is held by images, of which there are finitely many.
LEMMA HoldersFinite ==
  ASSUME NEW s \in Slot
  PROVE  IsFiniteSet(Holders(s)) /\ Cardinality(Holders(s)) \in Nat
BY FS_Subset, FS_CardinalityType DEF Holders

\* What a step may do to slot s. Nothing:
Same(s) ==
  /\ table'[s] = table[s]
  /\ Holders(s)' = Holders(s)
  /\ table[s] # None => refs'[table[s]] = refs[table[s]]

\* image i, which needs it, finds the library there;
Joined(s, i) ==
  /\ Linking(i) /\ MoreNeeded(i) /\ table[s] \in Image /\ file[table[s]] = Wanted(i)
  /\ table'[s] = table[s]
  /\ Holders(s)' = Holders(s) \cup {i}
  /\ refs'[table[s]] = refs[table[s]] + 1

\* a library is registered there for image i;
Filled(s, i) ==
  /\ table[s] = None
  /\ table'[s] \in Image
  /\ Holders(s)' = Holders(s) \cup {i}
  /\ refs'[table'[s]] = 1

\* image i leaves the library to others;
Parted(s, i) ==
  /\ table[s] \in Image /\ i \in Holders(s) /\ refs[table[s]] > 1
  /\ table'[s] = table[s]
  /\ Holders(s)' = Holders(s) \ {i}
  /\ refs'[table[s]] = refs[table[s]] - 1

\* image i leaves with the last reference.
Emptied(s, i) ==
  /\ table[s] \in Image /\ i \in Holders(s) /\ refs[table[s]] = 1
  /\ table'[s] = None
  /\ Holders(s)' = Holders(s) \ {i}

\* No slot that can still be trusted changes,
Quiet ==
  /\ spoiled \subseteq spoiled'
  /\ \A s \in Slot \ spoiled' : Same(s)

\* or exactly one slot does.
Moves(j, i) ==
  /\ spoiled' = spoiled
  /\ \A s \in Slot \ {j} : Same(s)
  /\ Joined(j, i) \/ Filled(j, i) \/ Parted(j, i) \/ Emptied(j, i)

\* A step that leaves the table, the counts and what is held alone is quiet.
LEMMA QuietStep ==
  ASSUME spoiled \subseteq spoiled', table' = table,
         \A s \in Occupied : refs'[table[s]] = refs[table[s]],
         \A h \in Image : \A s \in Slot \ spoiled' : s \in Held(h)' <=> s \in Held(h)
  PROVE  Quiet
<1>1. \A s \in Slot \ spoiled' : Holders(s)' = Holders(s)
  BY DEF Holders
<1> QED
  BY <1>1 DEF Quiet, Same, Occupied

\* A step changes the users of one slot at most. Only four actions do.
LEMMA SlotSteps ==
  ASSUME Sound, Cover, [Next]_vars
  PROVE  Quiet \/ \E j \in Slot, i \in Image : Moves(j, i)
<1> USE DEF Sound, frameVars
<1> DEFINE Still ==
      /\ spoiled \subseteq spoiled'
      /\ table' = table
      /\ \A s \in Occupied : refs'[table[s]] = refs[table[s]]
      /\ \A h \in Image : \A s \in Slot \ spoiled' : s \in Held(h)' <=> s \in Held(h)
<1>0. ASSUME Still PROVE Quiet
  BY <1>0, QuietStep
<1>1. ASSUME NEW c \in Image, NEW f \in File, Begin(c, f) PROVE Still
  BY <1>1 DEF Begin, Held, TypeOK, FreeUnlinked
<1>2. ASSUME NEW i \in Image, UnloadElf(i) PROVE Still
  BY <1>2 DEF UnloadElf, Unlink, Listed, Held, Occupied, TypeOK
<1>3. ASSUME NEW i \in Image, Dlclose(i) PROVE Still
  BY <1>3 DEF Dlclose, Handle, Held, Occupied, TypeOK
<1>4. ASSUME NEW i \in Image, RegisterElf(i) PROVE Still
  BY <1>4 DEF RegisterElf, Returning, Held, Occupied, TypeOK
<1>5. ASSUME NEW i \in Image, OpenHandle(i) PROVE Still
  BY <1>5 DEF OpenHandle, Returning, TableSound, Held, Occupied, TypeOK
<1>6. ASSUME NEW i \in Image, RegistryFull(i) PROVE Still
  BY <1>6 DEF RegistryFull, Returning, Held, Occupied, TypeOK
<1>7. ASSUME NEW i \in Image, CallFails(i) PROVE Still
  BY <1>7 DEF CallFails, Unlink, Returning, Held, Occupied, TypeOK
<1>8. ASSUME NEW i \in Image, FiniDone(i) PROVE Still
  BY <1>8 DEF FiniDone, Unlink, Held, Occupied, TypeOK
<1>9. ASSUME NEW i \in Image, LinkFails(i) PROVE Still
  BY <1>9 DEF LinkFails, Linking, Unlink, Held, Occupied, TypeOK
<1>10. ASSUME NEW i \in Image, Relocate(i) PROVE Still
  BY <1>10 DEF Relocate, Linking, Held, Occupied, TypeOK
<1>11. ASSUME NEW i \in Image, RelocateFails(i) PROVE Still
  BY <1>11 DEF RelocateFails, Linking, Unlink, Held, Occupied, TypeOK
<1>12. ASSUME NEW i \in Image, ClearAgain(i) PROVE Still
  BY <1>12 DEF ClearAgain, Unlink, Held, Occupied, TypeOK
<1>13. ASSUME NEW i \in Image, Release(i) PROVE Still
  BY <1>13 DEF Release, IsNeeded, TableSound, Held, Occupied, TypeOK
<1>14. ASSUME ReloadDefaultLib PROVE Still
  BY <1>14 DEF ReloadDefaultLib, Held
<1>15. ASSUME UNCHANGED vars PROVE Still
  BY <1>15 DEF vars, Held
<1>16. ASSUME NEW i \in Image, LinkExisting(i) PROVE \E j \in Slot : Moves(j, i)
  <2>1. PICK j \in Named(Wanted(i)) :
          /\ refs' = [refs EXCEPT ![table[j]] = @ + 1]
          /\ link' = [link EXCEPT ![i] = @ \cup {j}]
    BY <1>16 DEF LinkExisting
  <2>2. j \in Slot /\ table[j] \in Image /\ file[table[j]] = Wanted(i)
    BY DEF Named, Occupied, TypeOK
  <2>3. /\ table' = table /\ pc' = pc /\ todo' = todo /\ spoiled' = spoiled /\ pc[i] = "link"
        /\ Linking(i) /\ MoreNeeded(i)
    BY <1>16 DEF LinkExisting, Linking
  <2>4. Holders(j)' = Holders(j) \cup {i}
    BY <2>1, <2>2, <2>3 DEF Holders, Held, TypeOK
  <2>5. \A s \in Slot \ {j} : Holders(s)' = Holders(s)
    BY <2>1, <2>2, <2>3 DEF Holders, Held, TypeOK
  <2>6. \A s \in Occupied \ {j} : refs'[table[s]] = refs[table[s]]
    BY <2>1, <2>2 DEF TableSound, Occupied, TypeOK
  <2>7. refs'[table[j]] = refs[table[j]] + 1
    BY <2>1, <2>2 DEF TypeOK
  <2>8. Joined(j, i)
    BY <2>2, <2>3, <2>4, <2>7 DEF Joined
  <2>9. \A s \in Slot \ {j} : Same(s)
    BY <2>3, <2>5, <2>6 DEF Same, Occupied
  <2> QED
    BY <2>2, <2>3, <2>8, <2>9 DEF Moves
<1>17. ASSUME NEW i \in Image, RegisterLibrary(i) PROVE \E j \in Slot : Moves(j, caller[i])
  <2>1. PICK j \in Slot \ Occupied :
          /\ table' = [table EXCEPT ![j] = i]
          /\ link' = [link EXCEPT ![caller[i]] = @ \cup {j}]
    BY <1>17 DEF RegisterLibrary
  <2>2. /\ pc' = [pc EXCEPT ![i] = "live"] /\ refs' = [refs EXCEPT ![i] = 1]
        /\ todo' = todo /\ spoiled' = spoiled
        /\ pc[i] = "run" /\ caller[i] \in Image /\ pc[caller[i]] = "link"
    BY <1>17 DEF RegisterLibrary, Returning, IsNeeded, TypeOK
  <2>3. \A s \in Slot \ {j} : Holders(s)' = Holders(s)
    BY <2>1, <2>2 DEF Holders, Held, TypeOK
  <2>4. \A s \in Occupied : table'[s] = table[s] /\ refs'[table[s]] = refs[table[s]]
    BY <2>1, <2>2 DEF TableSound, Occupied, TypeOK
  <2>5. table[j] = None /\ table'[j] = i /\ refs'[i] = 1
    BY <2>1, <2>2 DEF Occupied, TypeOK
  <2>6. Holders(j)' = Holders(j) \cup {caller[i]}
    BY <2>1, <2>2 DEF Holders, Held, TypeOK
  <2>7. \A s \in Slot \ {j} : table'[s] = table[s]
    BY <2>1 DEF TypeOK
  <2>8. Filled(j, caller[i])
    BY <2>5, <2>6 DEF Filled
  <2>9. \A s \in Slot \ {j} : Same(s)
    BY <2>3, <2>4, <2>7 DEF Same, Occupied
  <2> QED
    BY <2>2, <2>8, <2>9 DEF Moves
<1>18. ASSUME NEW i \in Image, ReleaseShared(i) PROVE \E j \in Slot : Moves(j, i)
  <2>1. PICK j \in todo[i] :
          /\ table[j] # None
          /\ refs[table[j]] > 1
          /\ refs' = [refs EXCEPT ![table[j]] = @ - 1]
          /\ todo' = [todo EXCEPT ![i] = @ \ {j}]
    BY <1>18 DEF ReleaseShared
  <2>2. j \in Slot /\ table[j] \in Image
    BY <2>1 DEF TypeOK
  <2>3. /\ table' = table /\ pc' = pc /\ link' = link /\ spoiled' = spoiled
        /\ pc[i] \in {"clear", "drop"}
    BY <1>18 DEF ReleaseShared, Unlinking
  <2>4. Holders(j)' = Holders(j) \ {i} /\ i \in Holders(j)
    BY <2>1, <2>2, <2>3 DEF Holders, Held, TypeOK
  <2>5. \A s \in Slot \ {j} : Holders(s)' = Holders(s)
    BY <2>1, <2>2, <2>3 DEF Holders, Held, TypeOK
  <2>6. \A s \in Occupied \ {j} : refs'[table[s]] = refs[table[s]]
    BY <2>1, <2>2 DEF TableSound, Occupied, TypeOK
  <2>7. refs'[table[j]] = refs[table[j]] - 1
    BY <2>1, <2>2 DEF TypeOK
  <2>8. Parted(j, i)
    BY <2>1, <2>2, <2>3, <2>4, <2>7 DEF Parted
  <2>9. \A s \in Slot \ {j} : Same(s)
    BY <2>3, <2>5, <2>6 DEF Same, Occupied
  <2> QED
    BY <2>2, <2>3, <2>8, <2>9 DEF Moves
<1>19. ASSUME NEW i \in Image, ReleaseLast(i) PROVE \E j \in Slot : Moves(j, i)
  <2>1. PICK j \in todo[i] :
          /\ table[j] # None
          /\ refs[table[j]] = 1
          /\ refs' = [refs EXCEPT ![table[j]] = 0]
          /\ pc' = [pc EXCEPT ![table[j]] = "fini"]
          /\ table' = [table EXCEPT ![j] = None]
          /\ todo' = [todo EXCEPT ![i] = @ \ {j}]
    BY <1>19 DEF ReleaseLast
  <2>2. j \in Slot /\ table[j] \in Image /\ pc[table[j]] = "live"
    BY <2>1 DEF TypeOK, TableSound, Occupied
  <2>3. link' = link /\ spoiled' = spoiled /\ pc[i] \in {"clear", "drop"}
    BY <1>19 DEF ReleaseLast, Unlinking
  <2>4. Holders(j)' = Holders(j) \ {i} /\ i \in Holders(j)
    BY <2>1, <2>2, <2>3 DEF Holders, Held, TypeOK
  <2>5. \A s \in Slot \ {j} : Holders(s)' = Holders(s)
    BY <2>1, <2>2, <2>3 DEF Holders, Held, TypeOK
  <2>6. \A s \in Occupied \ {j} : table'[s] = table[s] /\ refs'[table[s]] = refs[table[s]]
    BY <2>1, <2>2 DEF TableSound, Occupied, TypeOK
  <2>7. table'[j] = None /\ \A s \in Slot \ {j} : table'[s] = table[s]
    BY <2>1, <2>2 DEF TypeOK
  <2>8. Emptied(j, i)
    BY <2>1, <2>2, <2>4, <2>7 DEF Emptied
  <2>9. \A s \in Slot \ {j} : Same(s)
    BY <2>5, <2>6, <2>7 DEF Same, Occupied
  <2> QED
    BY <2>2, <2>3, <2>8, <2>9 DEF Moves
<1>20. ASSUME NEW i \in Image, ReleaseUnloaded(i) PROVE Quiet
  <2>1. PICK j \in todo[i] : table[j] = None /\ todo' = [todo EXCEPT ![i] = @ \ {j}]
    BY <1>20 DEF ReleaseUnloaded
  <2>2. /\ table' = table /\ pc' = pc /\ link' = link /\ spoiled' = spoiled /\ refs' = refs
        /\ pc[i] \in {"clear", "drop"}
    BY <1>20 DEF ReleaseUnloaded, Unlinking
  <2>3. i \in Holders(j) /\ j \in Slot
    BY <2>1, <2>2 DEF Holders, Held, TypeOK
  <2>4. j \in spoiled
    BY <2>1, <2>3 DEF Cover, Covered
  <2>5. \A s \in Slot \ {j} : Holders(s)' = Holders(s)
    BY <2>1, <2>2 DEF Holders, Held, TypeOK
  <2> QED
    BY <2>2, <2>4, <2>5 DEF Quiet, Same
<1>21. ASSUME NEW i \in Image, RegisterLibrary(i) PROVE caller[i] \in Image
  BY <1>21 DEF RegisterLibrary, IsNeeded, TypeOK
<1> QED
  BY <1>0, <1>1, <1>2, <1>3, <1>4, <1>5, <1>6, <1>7, <1>8, <1>9, <1>10, <1>11, <1>12, <1>13, <1>14, <1>15, <1>16, <1>17, <1>18, <1>19, <1>20, <1>21, BeginsByFile DEF Next, Request, Return, Work

\* One holder more is one more to count at most, and exactly one if it is new.
LEMMA OneMore ==
  ASSUME NEW s \in Slot, NEW i
  PROVE  /\ Cardinality(Holders(s) \cup {i}) \in Nat
         /\ Cardinality(Holders(s) \cup {i}) <= Cardinality(Holders(s)) + 1
         /\ i \notin Holders(s) => Cardinality(Holders(s) \cup {i}) = Cardinality(Holders(s)) + 1
<1>1. IsFiniteSet(Holders(s)) /\ Cardinality(Holders(s)) \in Nat
  BY HoldersFinite
<1>2. /\ IsFiniteSet(Holders(s) \cup {i})
      /\ Cardinality(Holders(s) \cup {i}) =
            IF i \in Holders(s) THEN Cardinality(Holders(s)) ELSE Cardinality(Holders(s)) + 1
  BY <1>1, FS_AddElement
<1> QED
  BY <1>1, <1>2, FS_CardinalityType

\* One holder less is one less to count.
LEMMA OneLess ==
  ASSUME NEW s \in Slot, NEW i \in Holders(s)
  PROVE  /\ Cardinality(Holders(s) \ {i}) = Cardinality(Holders(s)) - 1
         /\ Cardinality(Holders(s)) \in Nat
         /\ Cardinality(Holders(s)) = 1 => Holders(s) = {i}
         /\ Holders(s) = {i} => Cardinality(Holders(s)) = 1
<1>1. IsFiniteSet(Holders(s)) /\ Cardinality(Holders(s)) \in Nat
  BY HoldersFinite
<1>2. /\ IsFiniteSet(Holders(s) \ {i})
      /\ Cardinality(Holders(s) \ {i}) = Cardinality(Holders(s)) - 1
  BY <1>1, FS_RemoveElement
<1>3. ASSUME Cardinality(Holders(s)) = 1 PROVE Holders(s) \ {i} = {}
  <2>1. Cardinality(Holders(s) \ {i}) = 0
    BY <1>2, <1>3
  <2> QED
    BY <1>2, <2>1, FS_EmptySet
<1>4. Cardinality({i}) = 1
  BY FS_Singleton
<1> QED
  BY <1>1, <1>2, <1>3, <1>4

\* Every step keeps the slots covered.
LEMMA CoverNext == Sound /\ Cover /\ [Next]_vars => Cover'
<1> SUFFICES ASSUME Sound, Cover, [Next]_vars, NEW s \in Slot, s \notin spoiled' PROVE Covered(s)'
  BY DEF Cover
<1>1. Cardinality(Holders(s))' = Cardinality(Holders(s)')
  OBVIOUS
<1>2. ASSUME Same(s), s \notin spoiled PROVE Covered(s)'
  BY <1>2, <1>1 DEF Same, Cover, Covered
<1>3. CASE Quiet
  BY <1>2, <1>3 DEF Quiet
<1>4. ASSUME NEW j \in Slot, NEW i \in Image, Moves(j, i) PROVE Covered(s)'
  <2> s \notin spoiled
    BY <1>4 DEF Moves
  <2>0. CASE s # j
    BY <1>2, <1>4, <2>0 DEF Moves
  <2>1. CASE s = j /\ Joined(j, i)
    <3>1. Cardinality(Holders(s)) <= refs[table[s]] /\ refs[table[s]] \in Nat /\ table[s] # None
      BY <2>1 DEF Joined, Cover, Covered, Sound, TypeOK
    <3>2. Cardinality(Holders(s)) \in Nat
      BY HoldersFinite
    <3>3. /\ Cardinality(Holders(s) \cup {i}) \in Nat
          /\ Cardinality(Holders(s) \cup {i}) <= Cardinality(Holders(s)) + 1
      BY OneMore
    <3>4. table'[s] = table[s] /\ Holders(s)' = Holders(s) \cup {i} /\ refs'[table[s]] = refs[table[s]] + 1
      BY <2>1 DEF Joined
    <3>5. Cardinality(Holders(s)') <= refs'[table'[s]]
      BY <3>1, <3>2, <3>3, <3>4
    <3> QED
      BY <3>1, <3>4, <3>5, <1>1 DEF Covered
  <2>2. CASE s = j /\ Filled(j, i)
    <3>1. Holders(s)' = {i}
      BY <2>2 DEF Filled, Cover, Covered
    <3>2. Cardinality(Holders(s)') = 1
      BY <3>1, FS_Singleton
    <3> QED
      BY <2>2, <3>2, <1>1 DEF Filled, Covered
  <2>3. CASE s = j /\ Parted(j, i)
    <3>1. Cardinality(Holders(s)) <= refs[table[s]] /\ refs[table[s]] \in Nat /\ table[s] # None
      BY <2>3 DEF Parted, Cover, Covered, Sound, TypeOK
    <3> QED
      BY <2>3, <3>1, <1>1, OneLess DEF Parted, Covered
  <2>4. CASE s = j /\ Emptied(j, i)
    <3>1. Cardinality(Holders(s)) <= 1 /\ table[s] # None
      BY <2>4 DEF Emptied, Cover, Covered
    <3>2. Cardinality(Holders(s)) \in Nat /\ Cardinality(Holders(s) \ {i}) = Cardinality(Holders(s)) - 1
      BY <2>4, OneLess DEF Emptied
    <3>3. IsFiniteSet(Holders(s) \ {i}) /\ Cardinality(Holders(s) \ {i}) \in Nat
      BY HoldersFinite, FS_Subset, FS_CardinalityType
    <3>4. Holders(s)' = {}
      BY <2>4, <3>1, <3>2, <3>3, FS_EmptySet DEF Emptied
    <3> QED
      BY <2>4, <3>4 DEF Emptied, Covered
  <2> QED
    BY <1>4, <2>0, <2>1, <2>2, <2>3, <2>4 DEF Moves
<1> QED
  BY <1>3, <1>4, SlotSteps

\* An empty table is covered: nobody holds anything.
LEMMA InitCover == Init => Cover
BY DEF Init, Cover, Covered, Holders, Held

\* The inductive invariant of the loader.
LEMMA SpecCover == Spec => [](Sound /\ Cover)
BY InitSound, SoundNext, InitCover, CoverNext, PTL DEF Spec

\* No program or library outlives a library it is linked with, and no mask names an
\* empty slot, unless a failed load has unloaded that slot twice.
THEOREM NoDanglingLinks == Spec => []NoDanglingLink
<1>1. ASSUME Sound, Cover PROVE NoDanglingLink
  <2> SUFFICES ASSUME NEW i \in Image, NEW s \in Held(i), s \notin spoiled
               PROVE  s \in Occupied
    BY DEF NoDanglingLink
  <2>1. s \in Slot /\ i \in Holders(s)
    BY <1>1 DEF Held, Sound, TypeOK, Holders
  <2> QED
    BY <1>1, <2>1 DEF Cover, Covered, Occupied
<1> QED
  BY <1>1, SpecCover, PTL

\* What an image holds before and after a step is there, and does not change hands.
LEMMA HeldKept ==
  ASSUME Sound, Cover, [Next]_vars, NEW h \in Image, NEW s \in Held(h), s \in Held(h)', s \notin spoiled'
  PROVE  table'[s] = table[s] /\ table[s] # None /\ s \notin spoiled
<1>1. s \in Slot /\ h \in Holders(s) /\ h \in Holders(s)'
  BY DEF Held, Sound, TypeOK, Holders
<1>2. s \notin spoiled
  BY SlotSteps DEF Quiet, Moves
<1>3. table[s] # None /\ Cardinality(Holders(s)) <= refs[table[s]]
  BY <1>1, <1>2 DEF Cover, Covered
<1>4. CASE Quiet
  BY <1>1, <1>2, <1>3, <1>4 DEF Quiet, Same
<1>5. ASSUME NEW j \in Slot, NEW i \in Image, Moves(j, i) PROVE table'[s] = table[s]
  <2>1. CASE s = j /\ Emptied(j, i)
    <3>1. Cardinality(Holders(s)) <= 1 /\ i \in Holders(s) /\ Holders(s)' = Holders(s) \ {i}
      BY <1>3, <2>1 DEF Emptied
    <3>2. Cardinality(Holders(s)) = 1 \/ Cardinality(Holders(s)) = 0
      BY <1>1, <3>1, HoldersFinite
    <3>3. Cardinality(Holders(s)) # 0
      BY <1>1, HoldersFinite, FS_EmptySet
    <3>4. Holders(s) = {i}
      BY <1>1, <3>1, <3>2, <3>3, OneLess
    <3> QED
      BY <1>1, <3>1, <3>4
  <2>2. CASE s = j /\ Filled(j, i)
    BY <1>3, <2>2 DEF Filled
  <2> QED
    BY <1>1, <1>5, <2>1, <2>2 DEF Moves, Same, Joined, Parted
<1> QED
  BY <1>2, <1>3, <1>4, <1>5, SlotSteps

\* A slot that an image holds before and after a step keeps its library, unless a
\* failed load has unloaded it twice: a mask never comes to mean another library.
THEOREM HeldSlotsAreStable == Spec => HeldSlotStable
<1> DEFINE Stable == \A i \in Image : \A s \in Held(i) \cap Held(i)' :
                       table'[s] = table[s] \/ s \in spoiled'
<1>1. Sound /\ Cover /\ [Next]_vars => [Stable]_vars
  BY HeldKept
<1> QED
  BY <1>1, SpecCover, PTL DEF Spec, HeldSlotStable

-----------------------------------------------------------------------------
(* Images run with what they need.                                         *)

\* The library a linking frame waits for is the one it asked for.
AwaitsWanted ==
  \A c \in Image : IsNeeded(c) => MoreNeeded(caller[c]) /\ file[c] = Wanted(caller[c])

\* The phases in which an image's mask is not being given back.
Settled == {"link", "run", "live", "fini"}

\* The library in slot s was read from file f.
Provides(s, f) == table[s] # None /\ file[table[s]] = f

\* The entries of its file that an image has linked so far.
Done(i) == {k \in DOMAIN Needs[file[i]] : pc[i] = "link" => k < next[i]}

\* Every entry an image has linked has a slot in its mask.
Linked ==
  \A i \in Image : pc[i] \in Settled =>
    \A k \in Done(i) : \E s \in link[i] : s \in spoiled \/ Provides(s, Needs[file[i]][k])

\* Every slot in the mask of an image that is linking has an entry already linked.
Asked ==
  \A i \in Image : pc[i] = "link" =>
    \A s \in link[i] \ spoiled : \E k \in Done(i) : Provides(s, Needs[file[i]][k])

\* Every action keeps the call of a linking frame the one it asked for.
LEMMA AwaitsWantedNext == Sound /\ AwaitsWanted /\ [Next]_vars => AwaitsWanted'
<1> SUFFICES ASSUME Sound, AwaitsWanted, [Next]_vars, NEW c \in Image, IsNeeded(c)'
             PROVE  (MoreNeeded(caller[c]) /\ file[c] = Wanted(caller[c]))'
  BY DEF AwaitsWanted
<1> DEFINE Goal == (MoreNeeded(caller[c]) /\ file[c] = Wanted(caller[c]))'
<1> USE DEF Sound, frameVars
<1>0. ASSUME caller'[c] = caller[c], caller[c] # None, IsNeeded(c),
             file'[c] = file[c], file'[caller[c]] = file[caller[c]],
             next'[caller[c]] = next[caller[c]]
      PROVE  Goal
  BY <1>0 DEF AwaitsWanted, MoreNeeded, Wanted
<1> DEFINE Kept ==
      /\ caller'[c] = caller[c] /\ caller[c] # None /\ IsNeeded(c)
      /\ file'[c] = file[c] /\ file'[caller[c]] = file[caller[c]]
      /\ next'[caller[c]] = next[caller[c]]
<1>1. ASSUME NEW i \in Image, NEW f \in Elfs, LoadElf(i, f) PROVE Kept
  BY <1>1 DEF LoadElf, MayCall, Begin, Push, TypeOK, IsNeeded, StackSound, Running, Phase
<1>2. ASSUME NEW i \in Image, NEW f \in Libs, Dlopen(i, f) PROVE Kept
  BY <1>2 DEF Dlopen, MayCall, Begin, Push, TypeOK, IsNeeded, StackSound, Running, Phase
<1>3. ASSUME NEW i \in Image, UnloadElf(i) PROVE Kept
  BY <1>3 DEF UnloadElf, Unlink, Push, MayCall, Listed, TypeOK, IsNeeded, StackSound, Running, Phase
<1>4. ASSUME NEW i \in Image, Dlclose(i) PROVE Kept
  BY <1>4 DEF Dlclose, Push, MayCall, Handle, TypeOK, IsNeeded, StackSound, Running, Phase
<1>5. ASSUME NEW i \in Image, RegisterElf(i) PROVE Kept
  BY <1>5 DEF RegisterElf, Returning, Pop, TypeOK, IsNeeded, StackSound, Running, Phase
<1>6. ASSUME NEW i \in Image, OpenHandle(i) PROVE Kept
  BY <1>6 DEF OpenHandle, Returning, Pop, TypeOK, IsNeeded, StackSound, Running, Phase
<1>7. ASSUME NEW i \in Image, RegisterLibrary(i) PROVE Kept
  BY <1>7 DEF RegisterLibrary, Returning, Pop, TypeOK, IsNeeded, StackSound, Running, Phase
<1>8. ASSUME NEW i \in Image, RegistryFull(i) PROVE Kept
  BY <1>8 DEF RegistryFull, Returning, TypeOK, IsNeeded, StackSound, Running, Phase
<1>9. ASSUME NEW i \in Image, CallFails(i) PROVE Kept
  BY <1>9 DEF CallFails, Unlink, Returning, TypeOK, IsNeeded, StackSound, Running, Phase
<1>10. ASSUME NEW i \in Image, FiniDone(i) PROVE Kept
  BY <1>10 DEF FiniDone, Unlink, TypeOK, IsNeeded, StackSound, Running, Phase
<1>11. ASSUME NEW i \in Image, LinkExisting(i) PROVE Kept
  BY <1>11 DEF LinkExisting, Linking, TypeOK, IsNeeded, StackSound, Running, Phase
<1>12. ASSUME NEW i \in Image, LinkFails(i) PROVE Kept
  BY <1>12 DEF LinkFails, Linking, Unlink, TypeOK, IsNeeded, StackSound, Running, Phase
<1>13. ASSUME NEW i \in Image, Relocate(i) PROVE Kept
  BY <1>13 DEF Relocate, Linking, TypeOK, IsNeeded, StackSound, Running, Phase
<1>14. ASSUME NEW i \in Image, RelocateFails(i) PROVE Kept
  BY <1>14 DEF RelocateFails, Linking, Unlink, TypeOK, IsNeeded, StackSound, Running, Phase
<1>15. ASSUME NEW i \in Image, ReleaseShared(i) PROVE Kept
  BY <1>15 DEF ReleaseShared, Unlinking, TypeOK, IsNeeded, StackSound, Running, Phase
<1>16. ASSUME NEW i \in Image, ReleaseLast(i) PROVE Kept
  BY <1>16 DEF ReleaseLast, Unlinking, Push, TypeOK, TableSound, Occupied, IsNeeded, StackSound, Running, Phase
<1>17. ASSUME NEW i \in Image, ReleaseUnloaded(i) PROVE Kept
  BY <1>17 DEF ReleaseUnloaded, Unlinking, TypeOK, IsNeeded, StackSound, Running, Phase
<1>18. ASSUME NEW i \in Image, ClearAgain(i) PROVE Kept
  BY <1>18 DEF ClearAgain, Unlink, TypeOK, IsNeeded, StackSound, Running, Phase
<1>19. ASSUME NEW i \in Image, Release(i) PROVE Kept
  <2>1. c # i /\ caller'[c] = caller[c] /\ caller[c] # None /\ caller[c] # i
    BY <1>19 DEF Release, Pop, IsNeeded, TypeOK, StackSound
  <2>2. \A k \in Image \ {i} : pc'[k] = "link" => pc[k] = "link"
    BY <1>19 DEF Release, IsNeeded, TypeOK
  <2>3. caller[c] \in Image
    BY <2>1 DEF TypeOK
  <2> QED
    BY <1>19, <2>1, <2>2, <2>3 DEF Release, IsNeeded, TypeOK
<1>20. ASSUME ReloadDefaultLib PROVE Kept
  BY <1>20 DEF ReloadDefaultLib, IsNeeded
<1>21. ASSUME UNCHANGED vars PROVE Kept
  BY <1>21 DEF vars, IsNeeded
<1>22. ASSUME NEW i \in Image, NEW n \in Image, LinkNew(i, n) PROVE Goal
  <2>1. CASE c = n
    BY <1>22, <2>1 DEF LinkNew, Linking, Begin, Push, TypeOK, MoreNeeded, Wanted
  <2>2. CASE c # n
    <3>1. Kept
      BY <1>22, <2>2 DEF LinkNew, Linking, Begin, Push, TypeOK, IsNeeded, StackSound, Running, Phase
    <3> QED
      BY <3>1, <1>0
  <2> QED
    BY <2>1, <2>2
<1> QED
  BY <1>0, <1>1, <1>2, <1>3, <1>4, <1>5, <1>6, <1>7, <1>8, <1>9, <1>10, <1>11, <1>12, <1>13, <1>14, <1>15, <1>16, <1>17, <1>18, <1>19, <1>20, <1>21, <1>22 DEF Next, Request, Return, Work

\* A library of the table keeps its file.
LEMMA LibraryFileKept ==
  ASSUME Sound, [Next]_vars, NEW s \in Slot, table[s] # None
  PROVE  file'[table[s]] = file[table[s]]
<1> USE DEF Sound, frameVars
<1>1. pc[table[s]] = "live" /\ table[s] \in Image
  BY DEF TableSound, Occupied, TypeOK
<1>2. ASSUME NEW c \in Image, NEW f \in File, Begin(c, f) PROVE file'[table[s]] = file[table[s]]
  BY <1>1, <1>2 DEF Begin, TypeOK
<1>3. ASSUME NEW i \in Image, Release(i) PROVE file'[table[s]] = file[table[s]]
  BY <1>1, <1>3 DEF Release, TypeOK
<1> QED
  BY <1>2, <1>3, BeginsByFile DEF Next, Request, Return, Work, UnloadElf, Dlclose, ReloadDefaultLib,
     RegisterElf, OpenHandle, RegisterLibrary, RegistryFull, CallFails, FiniDone, LinkExisting, LinkFails,
     Relocate, RelocateFails, ReleaseShared, ReleaseLast, ReleaseUnloaded, ClearAgain, vars

\* What a step may do to an image whose mask is settled after it. It begins,
Fresh(i) ==
  /\ pc'[i] = "link"
  /\ next'[i] = 1
  /\ link'[i] = {}

\* has one more entry linked,
Advanced(i) ==
  /\ pc[i] = "link" /\ pc'[i] = "link" /\ MoreNeeded(i)
  /\ file'[i] = file[i]
  /\ next'[i] = next[i] + 1
  /\ \E j \in Slot : /\ link'[i] = link[i] \cup {j}
                     /\ table'[j] # None
                     /\ file'[table'[j]] = Wanted(i)

\* or keeps what it has.
Steady(i) ==
  /\ pc[i] \in Settled
  /\ file'[i] = file[i]
  /\ link'[i] = link[i]
  /\ next'[i] = next[i]
  /\ pc'[i] = "link" => pc[i] = "link"
  /\ pc[i] = "link" => pc'[i] = "link" \/ ~MoreNeeded(i)

\* No step does anything else to an image.
LEMMA ImageSteps ==
  ASSUME Sound, AwaitsWanted, [Next]_vars, NEW h \in Image, pc'[h] \in Settled
  PROVE  Fresh(h) \/ Advanced(h) \/ Steady(h)
<1> USE DEF Sound, frameVars
<1>1. ASSUME NEW c \in Image, NEW f \in File, Begin(c, f) PROVE Fresh(h) \/ Steady(h)
  BY <1>1 DEF Begin, TypeOK, Fresh, Steady, Settled, Phase
<1>2. ASSUME NEW i \in Image, UnloadElf(i) PROVE Steady(h)
  BY <1>2 DEF UnloadElf, Unlink, Listed, TypeOK, Steady, Settled, Phase
<1>3. ASSUME NEW i \in Image, Dlclose(i) PROVE Steady(h)
  BY <1>3 DEF Dlclose, Handle, TypeOK, Steady, Settled, Phase
<1>4. ASSUME NEW i \in Image, RegisterElf(i) PROVE Steady(h)
  BY <1>4 DEF RegisterElf, Returning, TypeOK, Steady, Settled, Phase
<1>5. ASSUME NEW i \in Image, OpenHandle(i) PROVE Steady(h)
  BY <1>5 DEF OpenHandle, Returning, TypeOK, Steady, Settled, Phase
<1>6. ASSUME NEW i \in Image, RegistryFull(i) PROVE Steady(h)
  BY <1>6 DEF RegistryFull, Returning, TypeOK, Steady, Settled, Phase
<1>7. ASSUME NEW i \in Image, CallFails(i) PROVE Steady(h)
  BY <1>7 DEF CallFails, Unlink, Returning, TypeOK, Steady, Settled, Phase
<1>8. ASSUME NEW i \in Image, FiniDone(i) PROVE Steady(h)
  BY <1>8 DEF FiniDone, Unlink, TypeOK, Steady, Settled, Phase
<1>9. ASSUME NEW i \in Image, LinkFails(i) PROVE Steady(h)
  BY <1>9 DEF LinkFails, Linking, Unlink, TypeOK, Steady, Settled, Phase
<1>10. ASSUME NEW i \in Image, Relocate(i) PROVE Steady(h)
  BY <1>10 DEF Relocate, Linking, TypeOK, Steady, Settled, Phase
<1>11. ASSUME NEW i \in Image, RelocateFails(i) PROVE Steady(h)
  BY <1>11 DEF RelocateFails, Linking, Unlink, TypeOK, Steady, Settled, Phase
<1>12. ASSUME NEW i \in Image, ReleaseShared(i) PROVE Steady(h)
  BY <1>12 DEF ReleaseShared, TypeOK, Steady, Settled, Phase
<1>13. ASSUME NEW i \in Image, ReleaseLast(i) PROVE Steady(h)
  BY <1>13 DEF ReleaseLast, TypeOK, TableSound, Occupied, Steady, Settled, Phase
<1>14. ASSUME NEW i \in Image, ReleaseUnloaded(i) PROVE Steady(h)
  BY <1>14 DEF ReleaseUnloaded, TypeOK, Steady, Settled, Phase
<1>15. ASSUME NEW i \in Image, ClearAgain(i) PROVE Steady(h)
  BY <1>15 DEF ClearAgain, Unlink, TypeOK, Steady, Settled, Phase
<1>16. ASSUME NEW i \in Image, Release(i) PROVE Steady(h)
  <2>1. h # i /\ pc'[h] = pc[h]
    BY <1>16 DEF Release, IsNeeded, TypeOK, Settled, Phase
  <2> QED
    BY <1>16, <2>1 DEF Release, TypeOK, Steady, Settled, Phase
<1>17. ASSUME ReloadDefaultLib \/ UNCHANGED vars PROVE Steady(h)
  BY <1>17 DEF ReloadDefaultLib, vars, Steady
<1>18. ASSUME NEW i \in Image, LinkExisting(i) PROVE Advanced(h) \/ Steady(h)
  <2>1. CASE h = i
    <3>1. PICK j \in Named(Wanted(i)) : link' = [link EXCEPT ![i] = @ \cup {j}]
      BY <1>18 DEF LinkExisting
    <3>2. j \in Slot /\ table[j] # None /\ file[table[j]] = Wanted(i)
      BY DEF Named, Occupied
    <3>3. /\ table' = table /\ file' = file /\ pc' = pc /\ next' = [next EXCEPT ![i] = @ + 1]
          /\ pc[i] = "link" /\ MoreNeeded(i)
      BY <1>18 DEF LinkExisting, Linking
    <3> QED
      BY <2>1, <3>1, <3>2, <3>3 DEF Advanced, TypeOK
  <2>2. CASE h # i
    BY <1>18, <2>2 DEF LinkExisting, TypeOK, Steady, Settled
  <2> QED
    BY <2>1, <2>2
<1>19. ASSUME NEW i \in Image, RegisterLibrary(i) PROVE Advanced(h) \/ Steady(h)
  <2>1. PICK j \in Slot \ Occupied :
          /\ table' = [table EXCEPT ![j] = i]
          /\ link' = [link EXCEPT ![caller[i]] = @ \cup {j}]
    BY <1>19 DEF RegisterLibrary
  <2>2. /\ pc' = [pc EXCEPT ![i] = "live"] /\ file' = file
        /\ next' = [next EXCEPT ![caller[i]] = @ + 1]
        /\ pc[i] = "run" /\ IsNeeded(i)
    BY <1>19 DEF RegisterLibrary, Returning
  <2>3. MoreNeeded(caller[i]) /\ file[i] = Wanted(caller[i]) /\ pc[caller[i]] = "link"
    BY <2>2 DEF AwaitsWanted, IsNeeded
  <2>4. CASE h = caller[i]
    BY <2>1, <2>2, <2>3, <2>4 DEF Advanced, TypeOK
  <2>5. CASE h # caller[i]
    BY <2>1, <2>2, <2>5 DEF TypeOK, Steady, Settled
  <2> QED
    BY <2>4, <2>5
<1> QED
  BY <1>1, <1>2, <1>3, <1>4, <1>5, <1>6, <1>7, <1>8, <1>9, <1>10, <1>11, <1>12, <1>13, <1>14, <1>15, <1>16, <1>17, <1>18, <1>19, BeginsByFile DEF Next, Request, Return, Work

\* A slot that provided an image's library before a step provides it after the step,
\* while the image keeps its mask.
LEMMA ProvidesKept ==
  ASSUME Sound, Cover, [Next]_vars, NEW h \in Image, NEW s \in link[h], s \in link'[h],
         pc[h] \in Settled, pc'[h] \in Settled, s \notin spoiled'
  PROVE  /\ s \notin spoiled /\ table[s] # None
         /\ \A f : Provides(s, f)' <=> Provides(s, f)
<1>1. s \in Held(h) /\ s \in Held(h)' /\ s \in Slot
  BY DEF Held, Settled, Sound, TypeOK
<1>2. table'[s] = table[s] /\ table[s] # None /\ s \notin spoiled
  BY <1>1, HeldKept
<1>3. file'[table[s]] = file[table[s]]
  BY <1>1, <1>2, LibraryFileKept
<1> QED
  BY <1>2, <1>3 DEF Provides

\* The entry an image wants next is one of its file.
LEMMA WantedInDomain ==
  ASSUME Sound, NEW i \in Image, pc[i] = "link", MoreNeeded(i)
  PROVE  /\ next[i] \in DOMAIN Needs[file[i]]
         /\ DOMAIN Needs[file[i]] \subseteq Nat
         /\ next[i] \in Nat
<1>1. Needs[file[i]] \in Seq(Libs)
  BY DEF Sound, FilesKnown
<1> QED
  BY <1>1 DEF MoreNeeded, Sound, TypeOK

\* An image whose linking has ended has linked every entry.
LEMMA AllDone ==
  ASSUME Sound, NEW i \in Image, pc[i] = "link", ~MoreNeeded(i)
  PROVE  \A k \in DOMAIN Needs[file[i]] : k < next[i]
<1>1. Needs[file[i]] \in Seq(Libs)
  BY DEF Sound, FilesKnown
<1> QED
  BY <1>1 DEF MoreNeeded, Sound, TypeOK

\* Every step keeps the masks complete.
LEMMA LinkedNext == Sound /\ Cover /\ AwaitsWanted /\ Linked /\ [Next]_vars => Linked'
<1> SUFFICES ASSUME Sound, Cover, AwaitsWanted, Linked, [Next]_vars,
                    NEW h \in Image, pc'[h] \in Settled, NEW k \in Done(h)'
             PROVE  \E s \in link'[h] : s \in spoiled' \/ Provides(s, Needs[file[h]][k])'
  BY DEF Linked
<1>1. spoiled \subseteq spoiled'
  BY SlotSteps DEF Quiet, Moves
<1>2. ASSUME pc[h] \in Settled, file'[h] = file[h], link[h] \subseteq link'[h], k \in Done(h)
      PROVE  \E s \in link'[h] : s \in spoiled' \/ Provides(s, Needs[file[h]][k])'
  <2>1. PICK s \in link[h] : s \in spoiled \/ Provides(s, Needs[file[h]][k])
    BY <1>2 DEF Linked
  <2>2. s \in link'[h]
    BY <1>2
  <2>3. CASE s \in spoiled'
    BY <2>2, <2>3
  <2>4. CASE s \notin spoiled'
    <3>1. Provides(s, Needs[file[h]][k])
      BY <2>1, <2>4, <1>1
    <3>2. \A f : Provides(s, f)' <=> Provides(s, f)
      BY <1>2, <2>2, <2>4, ProvidesKept
    <3>3. table'[s] # None /\ file'[table'[s]] = Needs[file'[h]][k]
      BY <1>2, <3>1, <3>2 DEF Provides
    <3> QED
      BY <2>2, <3>3 DEF Provides
  <2> QED
    BY <2>3, <2>4
<1>3. CASE Fresh(h)
  <2>1. Needs[file'[h]] \in Seq(Libs)
    BY <1>3, FilesKnownNext, TypeOKNext DEF Fresh, Sound, FilesKnown
  <2>2. k \in 1 .. Len(Needs[file'[h]]) /\ k < 1
    BY <1>3, <2>1 DEF Fresh, Done
  <2> QED
    BY <2>1, <2>2
<1>4. CASE Steady(h)
  <2>1. k \in Done(h)
    BY <1>4, AllDone DEF Steady, Done
  <2> QED
    BY <1>2, <1>4, <2>1 DEF Steady
<1>5. CASE Advanced(h)
  <2>1. next[h] \in DOMAIN Needs[file[h]] /\ DOMAIN Needs[file[h]] \subseteq Nat /\ next[h] \in Nat
    BY <1>5, WantedInDomain DEF Advanced
  <2>2. k \in DOMAIN Needs[file[h]] /\ k < next[h] + 1
    BY <1>5 DEF Advanced, Done
  <2>3. CASE k = next[h]
    BY <1>5, <2>3 DEF Advanced, Wanted, Provides
  <2>4. CASE k # next[h]
    <3>1. k < next[h]
      BY <2>1, <2>2, <2>4
    <3> QED
      BY <1>2, <1>5, <2>2, <3>1 DEF Advanced, Done, Settled
  <2> QED
    BY <2>3, <2>4
<1> QED
  BY <1>3, <1>4, <1>5, ImageSteps

\* Every step keeps the masks of linking images to what was asked for.
LEMMA AskedNext == Sound /\ Cover /\ AwaitsWanted /\ Asked /\ [Next]_vars => Asked'
<1> SUFFICES ASSUME Sound, Cover, AwaitsWanted, Asked, [Next]_vars,
                    NEW h \in Image, pc'[h] = "link", NEW s \in link'[h], s \notin spoiled'
             PROVE  \E k \in Done(h)' : Provides(s, Needs[file[h]][k])'
  BY DEF Asked
<1>1. spoiled \subseteq spoiled'
  BY SlotSteps DEF Quiet, Moves
<1>2. ASSUME pc[h] = "link", file'[h] = file[h], s \in link[h], Done(h) \subseteq Done(h)'
      PROVE  \E k \in Done(h)' : Provides(s, Needs[file[h]][k])'
  <2>1. PICK k \in Done(h) : Provides(s, Needs[file[h]][k])
    BY <1>1, <1>2 DEF Asked
  <2>2. \A f : Provides(s, f)' <=> Provides(s, f)
    BY <1>2, ProvidesKept DEF Settled
  <2>3. table'[s] # None /\ file'[table'[s]] = Needs[file'[h]][k]
    BY <1>2, <2>1, <2>2 DEF Provides
  <2> QED
    BY <1>2, <2>1, <2>3 DEF Provides
<1>3. CASE Fresh(h)
  BY <1>3 DEF Fresh
<1>4. CASE Steady(h)
  <2>1. Done(h)' = Done(h)
    BY <1>4 DEF Steady, Done
  <2> QED
    BY <1>2, <1>4, <2>1 DEF Steady
<1>5. CASE Advanced(h)
  <2>1. next[h] \in DOMAIN Needs[file[h]] /\ DOMAIN Needs[file[h]] \subseteq Nat /\ next[h] \in Nat
    BY <1>5, WantedInDomain DEF Advanced
  <2>2. Done(h) \subseteq Done(h)' /\ next[h] \in Done(h)'
    BY <1>5, <2>1 DEF Advanced, Done
  <2>3. CASE s \in link[h]
    BY <1>2, <1>5, <2>2, <2>3 DEF Advanced
  <2>4. CASE s \notin link[h]
    <3>1. table'[s] # None /\ file'[table'[s]] = Needs[file'[h]][next[h]]
      BY <1>5, <2>4 DEF Advanced, Wanted
    <3> QED
      BY <2>2, <3>1 DEF Provides
  <2> QED
    BY <2>3, <2>4
<1> QED
  BY <1>3, <1>4, <1>5, ImageSteps DEF Settled

\* With no image nothing is awaited, linked or asked for.
LEMMA InitLinked == Init => AwaitsWanted /\ Linked /\ Asked
BY DEF Init, AwaitsWanted, IsNeeded, Linked, Asked, Settled

\* The invariant about what the masks stand for.
LEMMA SpecLinked == Spec => [](Sound /\ Cover /\ AwaitsWanted /\ Linked /\ Asked)
BY InitSound, SoundNext, InitCover, CoverNext, InitLinked, AwaitsWantedNext, LinkedNext, AskedNext,
   PTL DEF Spec

\* Foreign code runs only while every library its image needs is loaded, in a slot of
\* the image's mask, unless a failed load has unloaded that slot twice.
THEOREM ImagesAreLinked == Spec => []LinkedAsNeeded
<1>1. ASSUME Linked PROVE LinkedAsNeeded
  BY <1>1 DEF Linked, LinkedAsNeeded, Settled, Done, Provides
<1> QED
  BY <1>1, SpecLinked, PTL

-----------------------------------------------------------------------------
(* Exact counts, and the promise of LibraryUse.                            *)

\* Every file names each library it needs once.
NeedsOnce ==
  \A f \in File : \A a, b \in DOMAIN Needs[f] : Needs[f][a] = Needs[f][b] => a = b

\* Then a library that an image finds in the table is new to its mask.
LEMMA NewUser ==
  ASSUME NeedsOnce, Sound, Asked, NEW s \in Slot \ spoiled, NEW i \in Image, Linking(i), MoreNeeded(i),
         file[table[s]] = Wanted(i)
  PROVE  i \notin Holders(s)
<1> SUFFICES ASSUME i \in Holders(s) PROVE FALSE
  OBVIOUS
<1>1. pc[i] = "link" /\ s \in link[i]
  BY DEF Linking, Holders, Held
<1>2. PICK k \in Done(i) : file[table[s]] = Needs[file[i]][k]
  BY <1>1 DEF Asked, Provides
<1>3. k \in DOMAIN Needs[file[i]] /\ k < next[i] /\ file[i] \in File
  BY <1>1 DEF Done, Sound, FilesKnown
<1>4. next[i] \in DOMAIN Needs[file[i]] /\ next[i] \in Nat
  BY <1>1, WantedInDomain
<1>5. k = next[i]
  BY <1>2, <1>3, <1>4 DEF NeedsOnce, Wanted
<1> QED
  BY <1>3, <1>4, <1>5

\* Every step then keeps the counts exact.
LEMMA RefsExactNext ==
  ASSUME NeedsOnce
  PROVE  Sound /\ Cover /\ Asked /\ RefsExact /\ [Next]_vars => RefsExact'
<1> SUFFICES ASSUME Sound, Cover, Asked, RefsExact, [Next]_vars,
                    NEW s \in Slot, table'[s] # None, s \notin spoiled'
             PROVE  refs'[table'[s]] = Cardinality(Holders(s))'
  BY DEF RefsExact, Occupied
<1>1. Cardinality(Holders(s))' = Cardinality(Holders(s)')
  OBVIOUS
<1>2. ASSUME table[s] # None, s \notin spoiled
      PROVE  refs[table[s]] = Cardinality(Holders(s)) /\ Cardinality(Holders(s)) \in Nat
  BY <1>2, HoldersFinite DEF RefsExact, Occupied
<1>3. ASSUME Same(s), s \notin spoiled PROVE refs'[table'[s]] = Cardinality(Holders(s))'
  BY <1>1, <1>2, <1>3 DEF Same
<1>4. CASE Quiet
  BY <1>3, <1>4 DEF Quiet
<1>5. ASSUME NEW j \in Slot, NEW i \in Image, Moves(j, i) PROVE refs'[table'[s]] = Cardinality(Holders(s))'
  <2>0. s \notin spoiled
    BY <1>5 DEF Moves
  <2>1. CASE s # j
    BY <1>3, <1>5, <2>0, <2>1 DEF Moves
  <2>2. CASE s = j /\ Joined(j, i)
    <3>1. i \notin Holders(s)
      BY <2>0, <2>2, NewUser DEF Joined
    <3>2. Cardinality(Holders(s) \cup {i}) = Cardinality(Holders(s)) + 1
      BY <3>1, OneMore
    <3>3. table[s] # None
      BY <2>2 DEF Joined
    <3> QED
      BY <1>1, <1>2, <2>0, <2>2, <3>2, <3>3 DEF Joined
  <2>3. CASE s = j /\ Filled(j, i)
    <3>1. Holders(s)' = {i}
      BY <2>0, <2>3 DEF Filled, Cover, Covered
    <3> QED
      BY <1>1, <2>3, <3>1, FS_Singleton DEF Filled
  <2>4. CASE s = j /\ Parted(j, i)
    <3>1. Cardinality(Holders(s) \ {i}) = Cardinality(Holders(s)) - 1
      BY <2>4, OneLess DEF Parted
    <3>2. table[s] # None
      BY <2>4 DEF Parted
    <3> QED
      BY <1>1, <1>2, <2>0, <2>4, <3>1, <3>2 DEF Parted
  <2>5. CASE s = j /\ Emptied(j, i)
    BY <2>5 DEF Emptied
  <2> QED
    BY <1>5, <2>1, <2>2, <2>3, <2>4, <2>5 DEF Moves
<1> QED
  BY <1>4, <1>5, SlotSteps

\* The whole invariant of the loader.
Inv == Sound /\ Cover /\ AwaitsWanted /\ Linked /\ Asked /\ RefsExact

\* It holds from the start,
LEMMA InitInv == Init => Inv
BY InitSound, InitCover, InitLinked DEF Inv, Init, RefsExact, Occupied

\* in every state.
LEMMA SpecInv ==
  ASSUME NeedsOnce
  PROVE  Spec => []Inv
<1>1. Inv /\ [Next]_vars => Inv'
  BY SoundNext, CoverNext, AwaitsWantedNext, LinkedNext, AskedNext, RefsExactNext DEF Inv
<1> QED
  BY <1>1, InitInv, PTL DEF Spec

\* When every file names each library once, the reference count of a library is the
\* number of images linked with it, unless a failed load has unloaded its slot twice.
THEOREM CountsAreExact ==
  ASSUME NeedsOnce
  PROVE  Spec => []RefsExact
BY SpecInv, PTL DEF Inv

\* Every step is one of LibraryUse or leaves it alone.
LEMMA StepKeepsPromise ==
  ASSUME NeedsOnce, Inv, [Next]_vars
  PROVE  [Use!Next]_(Use!vars)
<1> DEFINE L == [s \in Slot |-> IF s \in spoiled THEN None ELSE table[s]]
           U == [s \in Slot |-> IF s \in spoiled THEN {} ELSE Holders(s)]
<1> USE DEF Inv
<1>1. spoiled \subseteq Slot /\ spoiled' \subseteq Slot /\ spoiled \subseteq spoiled'
  BY TypeOKNext, SlotSteps DEF Sound, TypeOK, Quiet, Moves
<1>2. ASSUME \A s \in Slot \ spoiled' : Same(s) PROVE Use!Next
  <2>1. PICK S \in SUBSET Slot : S = spoiled'
    BY <1>1
  <2>2. spoiled' = spoiled \cup S
    BY <1>1, <2>1
  <2>3. L' = [s \in Slot |-> IF s \in spoiled' THEN None ELSE L[s]]
    BY <1>1, <1>2 DEF Same
  <2>4. U' = [s \in Slot |-> IF s \in spoiled' THEN {} ELSE U[s]]
    BY <1>1, <1>2 DEF Same
  <2>5. Use!Lose(S)
    BY <2>2, <2>3, <2>4 DEF Use!Lose
  <2> QED
    BY <2>5 DEF Use!Next
<1>3. CASE Quiet
  BY <1>2, <1>3 DEF Quiet
<1>4. ASSUME NEW j \in Slot, NEW i \in Image, Moves(j, i) PROVE Use!Next
  <2>1. CASE j \in spoiled
    BY <1>2, <1>4, <2>1 DEF Moves
  <2>2. CASE j \notin spoiled
    <3>0. /\ spoiled' = spoiled
          /\ L[j] = table[j] /\ U[j] = Holders(j)
          /\ \A s \in Slot \ {j} : L'[s] = L[s] /\ U'[s] = U[s]
          /\ L'[j] = table'[j] /\ U'[j] = Holders(j)'
          /\ L = [s \in Slot |-> L[s]] /\ L' = [s \in Slot |-> L'[s]]
          /\ U = [s \in Slot |-> U[s]] /\ U' = [s \in Slot |-> U'[s]]
      BY <1>4, <2>2 DEF Moves, Same
    <3>1. CASE Joined(j, i)
      <4>1. i \notin Holders(j)
        BY <2>2, <3>1, NewUser DEF Joined
      <4>2. L' = L /\ U' = [U EXCEPT ![j] = @ \cup {i}] /\ L[j] # None
        BY <3>0, <3>1 DEF Joined
      <4>3. Use!Share(j, i)
        BY <3>0, <4>1, <4>2 DEF Use!Share
      <4> QED
        BY <4>3 DEF Use!Next
    <3>2. CASE Filled(j, i)
      <4>1. Holders(j)' = {i}
        BY <2>2, <3>2 DEF Filled, Cover, Covered
      <4>2. L' = [L EXCEPT ![j] = table'[j]] /\ U' = [U EXCEPT ![j] = {i}] /\ L[j] = None
        BY <3>0, <3>2, <4>1 DEF Filled
      <4>3. Use!Provide(j, table'[j], i)
        BY <2>2, <3>0, <4>2 DEF Use!Provide
      <4>4. table'[j] \in Image
        BY <3>2 DEF Filled
      <4> QED
        BY <4>3, <4>4 DEF Use!Next
    <3>3. CASE Parted(j, i)
      <4>1. refs[table[j]] = Cardinality(Holders(j)) /\ i \in Holders(j)
        BY <2>2, <3>3 DEF Parted, RefsExact, Occupied
      <4>2. Holders(j) # {i}
        <5>1. Cardinality(Holders(j)) > 1
          BY <3>3, <4>1 DEF Parted
        <5>2. Holders(j) = {i} => Cardinality(Holders(j)) = 1
          BY <4>1, OneLess
        <5> QED
          BY <5>1, <5>2
      <4>3. L' = L /\ U' = [U EXCEPT ![j] = @ \ {i}]
        BY <3>0, <3>3 DEF Parted
      <4>4. Use!Leave(j, i)
        BY <3>0, <4>1, <4>2, <4>3 DEF Use!Leave
      <4> QED
        BY <4>4 DEF Use!Next
    <3>4. CASE Emptied(j, i)
      <4>1. refs[table[j]] = Cardinality(Holders(j)) /\ i \in Holders(j)
        BY <2>2, <3>4 DEF Emptied, RefsExact, Occupied
      <4>2. Holders(j) = {i}
        BY <3>4, <4>1, OneLess DEF Emptied
      <4>3. L' = [L EXCEPT ![j] = None] /\ U' = [U EXCEPT ![j] = @ \ {i}]
        BY <3>0, <3>4 DEF Emptied
      <4>4. Use!Leave(j, i)
        BY <3>0, <4>1, <4>2, <4>3 DEF Use!Leave
      <4> QED
        BY <4>4 DEF Use!Next
    <3> QED
      BY <1>4, <3>1, <3>2, <3>3, <3>4 DEF Moves
  <2> QED
    BY <2>1, <2>2
<1> QED
  BY <1>3, <1>4, SlotSteps

\* When every file names each library once, the table keeps the promise of LibraryUse:
\* a library is loaded for its first user, shared by the others, and unloaded with the
\* last one, neither earlier nor later.
THEOREM PromiseIsKept ==
  ASSUME NeedsOnce
  PROVE  Spec => KeepsPromise
<1>1. Init => Use!Init
  BY DEF Init, Use!Init, Holders, Held
<1>2. Inv /\ [Next]_vars => [Use!Next]_(Use!vars)
  BY StepKeepsPromise
<1> QED
  BY <1>1, <1>2, SpecInv, PTL DEF Spec, KeepsPromise, Use!Spec

-----------------------------------------------------------------------------
(* The call stack.                                                         *)

\* A frame is pushed for an image that had none.
Called(i) ==
  /\ pc[i] \notin Running
  /\ pc'[i] \in Running
  /\ \A j \in Image \ {i} : pc'[j] = pc[j]
  /\ Push(i)

\* The innermost frame returns.
Returned(i) ==
  /\ top = i
  /\ pc'[i] \notin Running
  /\ \A j \in Image \ {i} : pc'[j] \in Running <=> pc[j] \in Running
  /\ Pop(i)

\* The innermost frame goes on.
Within ==
  /\ UNCHANGED <<caller, top>>
  /\ \A j \in Image : pc'[j] \in Running <=> pc[j] \in Running

\* Every step calls, returns or goes on.
LEMMA CallSteps ==
  ASSUME Sound, [Next]_vars
  PROVE  Within \/ \E i \in Image : Called(i) \/ Returned(i)
<1> DEFINE Goal == Within \/ \E i \in Image : Called(i) \/ Returned(i)
<1> USE DEF Sound, frameVars, Running, Phase
<1>1. ASSUME NEW c \in Image, NEW f \in File, Begin(c, f) PROVE Called(c)
  BY <1>1 DEF Begin, TypeOK, Called
<1>2. ASSUME NEW i \in Image, UnloadElf(i) PROVE Called(i)
  BY <1>2 DEF UnloadElf, Unlink, Listed, TypeOK, Called
<1>3. ASSUME NEW i \in Image, Dlclose(i) PROVE Called(i)
  BY <1>3 DEF Dlclose, Handle, TypeOK, Called
<1>4. ASSUME NEW i \in Image, RegisterElf(i) PROVE Returned(i)
  BY <1>4 DEF RegisterElf, Returning, TypeOK, Returned
<1>5. ASSUME NEW i \in Image, OpenHandle(i) PROVE Returned(i)
  BY <1>5 DEF OpenHandle, Returning, TypeOK, Returned
<1>6. ASSUME NEW i \in Image, RegisterLibrary(i) PROVE Returned(i)
  BY <1>6 DEF RegisterLibrary, Returning, TypeOK, Returned
<1>7. ASSUME NEW i \in Image, RegistryFull(i) PROVE Within
  BY <1>7 DEF RegistryFull, Returning, TypeOK, Within
<1>8. ASSUME NEW i \in Image, CallFails(i) PROVE Within
  BY <1>8 DEF CallFails, Unlink, Returning, TypeOK, Within
<1>9. ASSUME NEW i \in Image, FiniDone(i) PROVE Within
  BY <1>9 DEF FiniDone, Unlink, TypeOK, Within
<1>10. ASSUME NEW i \in Image, LinkExisting(i) PROVE Within
  BY <1>10 DEF LinkExisting, TypeOK, Within
<1>11. ASSUME NEW i \in Image, LinkFails(i) PROVE Within
  BY <1>11 DEF LinkFails, Linking, Unlink, TypeOK, Within
<1>12. ASSUME NEW i \in Image, Relocate(i) PROVE Within
  BY <1>12 DEF Relocate, Linking, TypeOK, Within
<1>13. ASSUME NEW i \in Image, RelocateFails(i) PROVE Within
  BY <1>13 DEF RelocateFails, Linking, Unlink, TypeOK, Within
<1>14. ASSUME NEW i \in Image, ReleaseShared(i) \/ ReleaseUnloaded(i) PROVE Within
  BY <1>14 DEF ReleaseShared, ReleaseUnloaded, Within
<1>15. ASSUME NEW i \in Image, ReleaseLast(i) PROVE Goal
  <2>1. PICK s \in Slot : /\ table[s] # None
                          /\ pc' = [pc EXCEPT ![table[s]] = "fini"]
                          /\ Push(table[s])
    BY <1>15 DEF ReleaseLast, Unlinking, TypeOK
  <2>2. table[s] \in Image /\ pc[table[s]] = "live"
    BY <2>1 DEF TypeOK, TableSound, Occupied
  <2>3. Called(table[s])
    BY <2>1, <2>2 DEF TypeOK, Called
  <2> QED
    BY <2>2, <2>3
<1>16. ASSUME NEW i \in Image, ClearAgain(i) PROVE Within
  BY <1>16 DEF ClearAgain, Unlink, TypeOK, Within
<1>17. ASSUME NEW i \in Image, Release(i) PROVE Returned(i)
  <2>1. \A j \in Image \ {i} : pc'[j] \in Running <=> pc[j] \in Running
    BY <1>17 DEF Release, IsNeeded, TypeOK
  <2>2. pc'[i] = "free"
    BY <1>17 DEF Release, IsNeeded, TypeOK, StackSound
  <2> QED
    BY <1>17, <2>1, <2>2 DEF Release, Returned
<1>18. CASE ReloadDefaultLib \/ UNCHANGED vars
  BY <1>18 DEF ReloadDefaultLib, vars, Within
<1> QED
  BY <1>1, <1>2, <1>3, <1>4, <1>5, <1>6, <1>7, <1>8, <1>9, <1>10, <1>11, <1>12, <1>13, <1>14,
     <1>15, <1>16, <1>17, <1>18, BeginsByFile DEF Next, Request, Return, Work

\* Every image some frame works on is on the stack: innermost, or waiting for the one it
\* has called.
OnStack ==
  \A i \in Image : pc[i] \in Running => i = top \/ \E j \in Image : caller[j] = i

\* The stack is no ring: the images can be numbered so that a caller comes after those it calls.
Ranks(d) ==
  /\ d \in [Image -> Nat]
  /\ \A j \in Image : caller[j] # None => d[j] < d[caller[j]]

Ranked == \E d : Ranks(d)

\* Calls and returns keep the running images on the stack.
LEMMA OnStackNext == Sound /\ OnStack /\ [Next]_vars => OnStack'
<1> SUFFICES ASSUME Sound, OnStack, [Next]_vars, NEW j \in Image, pc'[j] \in Running
             PROVE  j = top' \/ \E k \in Image : caller'[k] = j
  BY DEF OnStack
<1> USE DEF Sound, TypeOK, StackSound
<1>1. CASE Within
  BY <1>1 DEF Within, OnStack
<1>2. ASSUME NEW i \in Image, Called(i) PROVE j = top' \/ \E k \in Image : caller'[k] = j
  <2>1. caller[i] = None /\ caller' = [caller EXCEPT ![i] = top] /\ top' = i
    BY <1>2 DEF Called, Push
  <2>2. CASE j = i
    BY <2>1, <2>2
  <2>3. CASE j # i /\ j = top
    BY <2>1, <2>3
  <2>4. CASE j # i /\ j # top
    <3>1. PICK k \in Image : caller[k] = j
      BY <1>2, <2>4 DEF Called, OnStack
    <3>2. k # i
      BY <2>1, <3>1
    <3> QED
      BY <2>1, <3>1, <3>2
  <2> QED
    BY <2>2, <2>3, <2>4
<1>3. ASSUME NEW i \in Image, Returned(i) PROVE j = top' \/ \E k \in Image : caller'[k] = j
  <2>1. j # i /\ pc[j] \in Running
    BY <1>3 DEF Returned
  <2>2. PICK k \in Image : caller[k] = j
    BY <1>3, <2>1 DEF Returned, OnStack
  <2> QED
    BY <1>3, <2>2 DEF Returned, Pop
<1> QED
  BY <1>1, <1>2, <1>3, CallSteps

\* A call puts the new frame before all others; a return changes no other rank.
LEMMA RankedNext == Sound /\ Ranked /\ [Next]_vars => Ranked'
<1> SUFFICES ASSUME Sound, Ranked, [Next]_vars PROVE Ranked'
  OBVIOUS
<1>0. PICK d : Ranks(d)
  BY DEF Ranked
<1> USE DEF Sound, TypeOK, StackSound, Ranks
<1>1. CASE Within
  BY <1>0, <1>1 DEF Within, Ranked
<1>2. ASSUME NEW i \in Image, Called(i) PROVE Ranked'
  <2> DEFINE e == [j \in Image |-> IF j = i THEN 0 ELSE d[j] + 1]
  <2>1. caller' = [caller EXCEPT ![i] = top] /\ pc[i] \notin Running
    BY <1>2 DEF Called, Push
  <2>2. e \in [Image -> Nat]
    BY <1>0
  <2>3. ASSUME NEW j \in Image, caller'[j] # None PROVE e[j] < e[caller'[j]]
    <3>1. CASE j = i
      <4>1. caller'[j] = top /\ top # i /\ top \in Image
        BY <2>1, <2>3, <3>1
      <4> QED
        BY <1>0, <3>1, <4>1
    <3>2. CASE j # i
      <4>1. caller'[j] = caller[j] /\ caller[j] # i /\ caller[j] \in Image
        BY <2>1, <2>3, <3>2
      <4> QED
        BY <1>0, <2>3, <3>2, <4>1
    <3> QED
      BY <3>1, <3>2
  <2>4. Ranks(e)'
    BY <2>2, <2>3
  <2> QED
    BY <2>4 DEF Ranked
<1>3. ASSUME NEW i \in Image, Returned(i) PROVE Ranked'
  BY <1>0, <1>3 DEF Returned, Pop, Ranked
<1> QED
  BY <1>1, <1>2, <1>3, CallSteps

\* An idle loader works on no image.
Idle == top = None => \A i \in Image : pc[i] \in {"free", "live"}

\* On a stack without its top, each frame would have called another, which comes before it.
LEMMA StackMeansIdle == Sound /\ OnStack /\ Ranked => Idle
<1> SUFFICES ASSUME Sound, OnStack, Ranked, top = None, NEW i \in Image, pc[i] \in Running
             PROVE  FALSE
  BY DEF Idle, Running, Sound, TypeOK
<1>1. PICK d : Ranks(d)
  BY DEF Ranked
<1> DEFINE T == {d[j] : j \in {k \in Image : pc[k] \in Running}}
<1>2. T \in SUBSET Nat /\ T # {}
  BY <1>1 DEF Ranks
<1>3. PICK m \in T : \A k \in T : m <= k
  <2> HIDE DEF T
  <2> QED
    BY <1>2, Smallest
<1>4. PICK j \in Image : pc[j] \in Running /\ d[j] = m
  BY <1>3
<1>5. PICK k \in Image : caller[k] = j
  BY <1>4 DEF OnStack
<1>6. pc[k] \in Running /\ d[k] < d[j]
  BY <1>1, <1>5 DEF Sound, StackSound, Ranks
<1>7. d[k] \in T /\ d[k] \in Nat /\ d[j] \in Nat
  BY <1>1, <1>6 DEF Ranks
<1>8. d[j] <= d[k]
  BY <1>3, <1>4, <1>7
<1> QED
  BY <1>6, <1>7, <1>8

\* The call stack in every behaviour.
LEMMA SpecStack == Spec => [](OnStack /\ Ranked)
<1>1. Init => OnStack
  BY DEF Init, OnStack, Running
<1>2. Init => Ranked
  <2> SUFFICES ASSUME Init PROVE Ranked
    OBVIOUS
  <2>1. Ranks([j \in Image |-> 0])
    BY DEF Init, Ranks
  <2> QED
    BY <2>1 DEF Ranked
<1> QED
  BY <1>1, <1>2, SpecSound, OnStackNext, RankedNext, PTL DEF Spec

\* When the loader is idle no load and no unload has been left half done: every image is
\* loaded or gone, whatever failed on the way.
THEOREM IdleIsDone == Spec => []Idle
BY SpecSound, SpecStack, StackMeansIdle, PTL

\* In an idle loader every library of the table has a loaded user.
NoneLeft ==
  top = None =>
    \A s \in Occupied \ spoiled : \E i \in Image : pc[i] = "live" /\ s \in link[i]

\* When every file names each library once, no library outlives its users: between two
\* requests each one in the table is needed by something that is loaded, unless a failed
\* load has unloaded its slot twice.
THEOREM NoLibraryIsLeft ==
  ASSUME NeedsOnce
  PROVE  Spec => []NoneLeft
<1>1. Inv /\ Idle => NoneLeft
  <2> SUFFICES ASSUME Inv, Idle, top = None, NEW s \in Occupied \ spoiled
               PROVE  \E i \in Image : pc[i] = "live" /\ s \in link[i]
    BY DEF NoneLeft
  <2>1. refs[table[s]] > 0 /\ refs[table[s]] = Cardinality(Holders(s))
    BY DEF Inv, Sound, TableSound, RefsExact
  <2>2. PICK i \in Image : s \in Held(i)
    <3> SUFFICES ASSUME Holders(s) = {} PROVE FALSE
      BY DEF Holders
    <3>1. Cardinality(Holders(s)) = 0
      BY FS_EmptySet
    <3> QED
      BY <2>1, <3>1
  <2>3. pc[i] \in {"free", "live"} /\ s \in link[i]
    BY <2>2 DEF Idle, Held
  <2>4. pc[i] # "free"
    BY <2>3 DEF Inv, Sound, FreeUnlinked
  <2> QED
    BY <2>3, <2>4
<1> QED
  BY <1>1, SpecInv, IdleIsDone, PTL

-----------------------------------------------------------------------------
(* What makes a load or an unload end.                                     *)

\* The index of the next entry is at most one past the last.
NextBounded == \A i \in Image : pc[i] = "link" => next[i] <= Len(Needs[file[i]]) + 1

\* Whether a frame waits for one it has called.
Waits(i) == \E j \in Image : caller[j] = i

\* How many steps an image is away from being loaded or gone, whatever fails, not counting
\* those of the images it calls.
Steps(i) ==
  CASE pc[i] \in {"free", "live"} -> 0
    [] pc[i] = "drop" -> 1 + Cardinality(todo[i])
    [] pc[i] = "fini" -> 2 + Cardinality(Slot)
    [] pc[i] = "clear" -> 2 + Cardinality(Slot) + Cardinality(todo[i])
    [] pc[i] = "run" -> 3 + 2 * Cardinality(Slot)
    [] pc[i] = "link" -> 5 + 2 * Cardinality(Slot) + Len(Needs[file[i]]) - next[i]

\* The same, with the calls themselves counted: linkLibraries has a step less to go when it
\* waits for a library, the other phases when their call returns.
Left(i) == 2 * Steps(i) + IF pc[i] = "link" <=> Waits(i) THEN 0 ELSE 1

\* Every step of the loader brings its innermost frame nearer to its end, and takes no image
\* farther away but the one this frame calls.
Descends ==
  [][~Request =>
       /\ \E i \in Image : top = i /\ Left(i)' < Left(i)
       /\ \A i \in Image : Left(i)' > Left(i) => top' = i /\ caller'[i] = top]_vars

\* The slots of a mask can be counted.
LEMMA MaskSize ==
  ASSUME NEW m \in SUBSET Slot
  PROVE  /\ Cardinality(m) \in Nat
         /\ Cardinality(Slot) \in Nat
         /\ Cardinality(m) <= Cardinality(Slot)
         /\ \A s \in m : Cardinality(m \ {s}) = Cardinality(m) - 1
<1>1. IsFiniteSet(Slot)
  BY FS_Interval DEF Slot
<1> QED
  BY <1>1, FS_Subset, FS_CardinalityType, FS_RemoveElement

\* The files of a frame list a number of libraries.
LEMMA LengthType ==
  ASSUME TypeOK, FilesKnown, NEW i \in Image, pc[i] # "free"
  PROVE  Len(Needs[file[i]]) \in Nat
<1>1. file[i] \in File
  BY DEF FilesKnown
<1>2. Needs[file[i]] \in Seq(Libs)
  BY <1>1
<1> QED
  BY <1>2

\* Only an entry that is there is passed by.
LEMMA NextBoundedNext ==
  Sound /\ AwaitsWanted /\ NextBounded /\ [Next]_vars => NextBounded'
<1> SUFFICES ASSUME Sound, AwaitsWanted, NextBounded, [Next]_vars,
                    NEW j \in Image, pc'[j] = "link"
             PROVE  next'[j] <= Len(Needs[file'[j]]) + 1
  BY DEF NextBounded
<1> DEFINE Goal == next'[j] <= Len(Needs[file'[j]]) + 1
           Kept == pc[j] = "link" /\ file'[j] = file[j] /\ next'[j] = next[j]
<1> USE DEF Sound, frameVars
<1>0. ASSUME Kept PROVE Goal
  BY <1>0 DEF NextBounded
<1>1. ASSUME NEW c \in Image, NEW f \in File, Begin(c, f) PROVE Goal
  <2>1. CASE j = c
    <3>1. Needs[f] \in Seq(Libs)
      OBVIOUS
    <3>2. Len(Needs[f]) \in Nat
      BY <3>1
    <3> QED
      BY <1>1, <2>1, <3>2 DEF Begin, TypeOK
  <2>2. CASE j # c
    BY <1>0, <1>1, <2>2 DEF Begin, TypeOK
  <2> QED
    BY <2>1, <2>2
<1>2. ASSUME NEW i \in Image,
             UnloadElf(i) \/ Dlclose(i) \/ RegisterElf(i) \/ OpenHandle(i) \/ RegistryFull(i)
             \/ CallFails(i) \/ FiniDone(i) \/ LinkFails(i) \/ Relocate(i) \/ RelocateFails(i)
             \/ ReleaseShared(i) \/ ReleaseUnloaded(i) \/ ClearAgain(i)
      PROVE  Kept
  BY <1>2 DEF UnloadElf, Dlclose, RegisterElf, OpenHandle, RegistryFull, CallFails, FiniDone,
              LinkFails, Relocate, RelocateFails, ReleaseShared, ReleaseUnloaded, ClearAgain,
              Unlink, TypeOK
<1>3. ASSUME NEW i \in Image, RegisterLibrary(i) PROVE Goal
  <2>1. caller[i] \in Image /\ MoreNeeded(caller[i]) /\ pc[j] = "link" /\ file'[j] = file[j]
    BY <1>3 DEF RegisterLibrary, IsNeeded, AwaitsWanted, TypeOK
  <2>2. next' = [next EXCEPT ![caller[i]] = @ + 1]
    BY <1>3 DEF RegisterLibrary
  <2>3. CASE j = caller[i]
    <3>1. Len(Needs[file[j]]) \in Nat
      BY <2>1, LengthType
    <3> QED
      BY <2>1, <2>2, <2>3, <3>1 DEF MoreNeeded, TypeOK
  <2>4. CASE j # caller[i]
    BY <1>0, <2>1, <2>2, <2>4 DEF TypeOK
  <2> QED
    BY <2>3, <2>4
<1>4. ASSUME NEW i \in Image, LinkExisting(i) PROVE Goal
  <2>1. MoreNeeded(i) /\ pc[i] = "link" /\ pc' = pc /\ file' = file
        /\ next' = [next EXCEPT ![i] = @ + 1]
    BY <1>4 DEF LinkExisting, Linking
  <2>2. CASE j = i
    <3>1. Len(Needs[file[j]]) \in Nat
      BY <2>1, <2>2, LengthType
    <3> QED
      BY <2>1, <2>2, <3>1 DEF MoreNeeded, TypeOK
  <2>3. CASE j # i
    BY <1>0, <2>1, <2>3 DEF TypeOK
  <2> QED
    BY <2>2, <2>3
<1>5. ASSUME NEW i \in Image, ReleaseLast(i) PROVE Kept
  BY <1>5 DEF ReleaseLast, TypeOK
<1>6. ASSUME NEW i \in Image, Release(i) PROVE Kept
  <2>1. j # i /\ pc[j] = "link"
    BY <1>6 DEF Release, IsNeeded, TypeOK, StackSound
  <2> QED
    BY <1>6, <2>1 DEF Release, TypeOK
<1>7. CASE ReloadDefaultLib \/ UNCHANGED vars
  BY <1>0, <1>7 DEF ReloadDefaultLib, vars
<1> QED
  BY <1>0, <1>1, <1>2, <1>3, <1>4, <1>5, <1>6, <1>7, BeginsByFile DEF Next, Request, Return, Work

\* The work of an image is a number of steps.
LEMMA StepsType ==
  ASSUME TypeOK, FilesKnown, NextBounded, NEW i \in Image
  PROVE  Steps(i) \in Nat /\ Left(i) \in Nat
<1>0. Cardinality(todo[i]) \in Nat /\ Cardinality(Slot) \in Nat
  BY MaskSize DEF TypeOK
<1>1. Cardinality(todo[i]) \in Nat /\ Cardinality(Slot) \in Nat /\ 2 * Cardinality(Slot) \in Nat
  BY <1>0
<1>2. pc[i] = "link" => Len(Needs[file[i]]) \in Nat /\ next[i] \in Nat
                        /\ next[i] <= Len(Needs[file[i]]) + 1
  BY LengthType DEF NextBounded, TypeOK
<1>3. pc[i] \in Phase
  BY DEF TypeOK
<1>4. Steps(i) \in Nat
  <2>1. CASE pc[i] \in {"free", "live"}
    BY <2>1 DEF Steps
  <2>2. CASE pc[i] = "drop"
    BY <1>1, <2>2 DEF Steps
  <2>3. CASE pc[i] = "fini"
    BY <1>1, <2>3 DEF Steps
  <2>4. CASE pc[i] = "clear"
    BY <1>1, <2>4 DEF Steps
  <2>5. CASE pc[i] = "run"
    BY <1>1, <2>5 DEF Steps
  <2>6. CASE pc[i] = "link"
    <3>1. Steps(i) = 5 + 2 * Cardinality(Slot) + Len(Needs[file[i]]) - next[i]
      BY <2>6 DEF Steps
    <3> DEFINE l == Len(Needs[file[i]])
               n == next[i]
               c == 2 * Cardinality(Slot)
    <3>2. l \in Nat /\ n \in Nat /\ n <= l + 1 /\ c \in Nat
      BY <1>1, <1>2, <2>6
    <3>3. Steps(i) = 5 + c + l - n
      BY <3>1
    <3> HIDE DEF l, n, c
    <3> QED
      BY <3>2, <3>3
  <2> QED
    BY <1>3, <2>1, <2>2, <2>3, <2>4, <2>5, <2>6 DEF Phase
<1> QED
  BY <1>4 DEF Left

\* Every image has a number of steps to go.
Measured == \A i \in Image : Steps(i) \in Nat

\* In a step, an image comes nearer to its end,
Nearer(i) == Steps(i)' < Steps(i)

\* or stays where it is.
Stays(i) == Steps(i)' = Steps(i) /\ (pc'[i] = "link" <=> pc[i] = "link")

\* What a step of the loader does to the images: the innermost frame comes nearer to its end
\* or calls another, and a frame it returns to comes nearer or has only waited.
Works(i) ==
  /\ top = i
  /\ \/ Within /\ Nearer(i) /\ \A j \in Image \ {i} : Stays(j)
     \/ /\ Returned(i)
        /\ Nearer(i)
        /\ \A j \in Image \ {i} : Stays(j) \/ (j = caller[i] /\ Nearer(j))
        /\ IsNeeded(i) => Nearer(caller[i])
     \/ \E c \in Image \ {i} :
          /\ Called(c)
          /\ Nearer(i) \/ (Stays(i) /\ pc[i] = "link")
          /\ \A j \in Image \ {i, c} : Stays(j)

\* Then the innermost frame has less left, and all others but the one it calls no more.
LEMMA WorksDescends ==
  ASSUME Sound, Measured, Measured', NEW i \in Image, Works(i)
  PROVE  /\ Left(i)' < Left(i)
         /\ \A j \in Image : Left(j)' > Left(j) => top' = j /\ caller'[j] = top
<1>1. ASSUME NEW j \in Image, Nearer(j) PROVE Left(j)' < Left(j)
  <2>1. Steps(j) \in Nat /\ Steps(j)' \in Nat
    BY DEF Measured
  <2> QED
    BY <1>1, <2>1 DEF Nearer, Left
<1>2. ASSUME NEW j \in Image, Stays(j), Waits(j)' <=> Waits(j) PROVE Left(j)' = Left(j)
  BY <1>2 DEF Stays, Left
<1>3. ASSUME NEW j \in Image, Stays(j), pc[j] = "link", ~Waits(j), Waits(j)' PROVE Left(j)' < Left(j)
  <2>1. Steps(j) \in Nat
    BY DEF Measured
  <2> QED
    BY <1>3, <2>1 DEF Stays, Left
<1>4. ASSUME NEW j \in Image, Stays(j), pc[j] # "link", Waits(j), ~Waits(j)' PROVE Left(j)' < Left(j)
  <2>1. Steps(j) \in Nat
    BY DEF Measured
  <2> QED
    BY <1>4, <2>1 DEF Stays, Left
<1>5. \A j \in Image : Left(j) \in Nat /\ Left(j)' \in Nat
  BY DEF Measured, Left
<1>6. top = i /\ ~Waits(i)
  BY DEF Works, Waits, Sound, StackSound
<1>7. CASE Within /\ Nearer(i) /\ \A j \in Image \ {i} : Stays(j)
  <2>1. \A j \in Image : Waits(j)' <=> Waits(j)
    BY <1>7 DEF Within, Waits
  <2>2. \A j \in Image \ {i} : Left(j)' = Left(j)
    BY <1>2, <1>7, <2>1
  <2> QED
    BY <1>1, <1>5, <1>7, <2>2
<1>8. CASE /\ Returned(i)
           /\ Nearer(i)
           /\ \A j \in Image \ {i} : Stays(j) \/ (j = caller[i] /\ Nearer(j))
           /\ IsNeeded(i) => Nearer(caller[i])
  <2>0. caller' = [caller EXCEPT ![i] = None]
    BY <1>8 DEF Returned, Pop
  <2>1. \A j \in Image \ {caller[i]} : Waits(j)' <=> Waits(j)
    BY <2>0 DEF Waits, Sound, TypeOK
  <2>2. ASSUME NEW j \in Image, j = caller[i] PROVE Waits(j) /\ ~Waits(j)'
    BY <2>0, <2>2 DEF Waits, Sound, TypeOK, StackSound
  <2>3. ASSUME NEW j \in Image \ {i} PROVE Left(j)' <= Left(j)
    <3>1. CASE Nearer(j)
      BY <1>1, <1>5, <3>1
    <3>2. CASE Stays(j) /\ j # caller[i]
      BY <1>2, <1>5, <2>1, <3>2
    <3>3. CASE Stays(j) /\ j = caller[i] /\ pc[j] # "link"
      BY <1>4, <1>5, <2>2, <3>3
    <3>4. CASE j = caller[i] /\ pc[j] = "link"
      <4>1. IsNeeded(i)
        BY <3>4 DEF IsNeeded
      <4> QED
        BY <1>8, <3>1, <3>4, <4>1
    <3> QED
      BY <1>8, <3>1, <3>2, <3>3, <3>4
  <2> QED
    BY <1>1, <1>5, <1>8, <2>3
<1>9. ASSUME NEW c \in Image \ {i}, Called(c),
             Nearer(i) \/ (Stays(i) /\ pc[i] = "link"),
             \A j \in Image \ {i, c} : Stays(j)
      PROVE  /\ Left(i)' < Left(i)
             /\ \A j \in Image : Left(j)' > Left(j) => top' = j /\ caller'[j] = top
  <2>0. caller[c] = None /\ caller' = [caller EXCEPT ![c] = i] /\ top' = c
    BY <1>6, <1>9 DEF Called, Push, Sound, TypeOK, StackSound
  <2>1. \A j \in Image \ {i} : Waits(j)' <=> Waits(j)
    BY <2>0 DEF Waits, Sound, TypeOK
  <2>2. Waits(i)'
    BY <2>0 DEF Waits, Sound, TypeOK
  <2>3. Left(i)' < Left(i)
    BY <1>1, <1>3, <1>6, <1>9, <2>2
  <2>4. \A j \in Image \ {i, c} : Left(j)' = Left(j)
    BY <1>2, <1>9, <2>1
  <2>5. top' = c /\ caller'[c] = top
    BY <1>6, <2>0 DEF Sound, TypeOK
  <2> QED
    BY <1>5, <2>3, <2>4, <2>5
<1> QED
  BY <1>7, <1>8, <1>9 DEF Works

\* An image nothing happens to stays where it is.
LEMMA UntouchedStays ==
  ASSUME NEW j \in Image, pc'[j] = pc[j], todo'[j] = todo[j], file'[j] = file[j], next'[j] = next[j]
  PROVE  Stays(j)
BY DEF Stays, Steps

\* A frame that gives up begins to unload what it has linked so far.
LEMMA ClearIsNearer ==
  ASSUME Sound, NextBounded, NEW i \in Image, pc[i] = "link", pc'[i] = "clear", todo'[i] = link[i]
  PROVE  Nearer(i)
<1> DEFINE c == Cardinality(Slot)
           m == Cardinality(link[i])
           l == Len(Needs[file[i]])
           n == next[i]
<1>1. c \in Nat /\ m \in Nat /\ m <= c
  BY MaskSize DEF Sound, TypeOK
<1>2. l \in Nat /\ n \in Nat /\ n <= l + 1
  BY LengthType DEF Sound, TypeOK, NextBounded
<1>3. Steps(i) = 5 + 2 * c + l - n
  BY DEF Steps
<1>4. Steps(i)' = 2 + c + m
  BY DEF Steps
<1> HIDE DEF c, m, l, n
<1>5. 2 + c + m < 5 + 2 * c + l - n
  BY <1>1, <1>2
<1> QED
  BY <1>3, <1>4, <1>5 DEF Nearer

\* A frame that has linked one more entry is nearer to its relocations.
LEMMA LinkIsNearer ==
  ASSUME Sound, NEW i \in Image, pc[i] = "link", pc'[i] = "link",
         file'[i] = file[i], next'[i] = next[i] + 1
  PROVE  Nearer(i)
<1> DEFINE c == Cardinality(Slot)
           l == Len(Needs[file[i]])
           n == next[i]
<1>1. c \in Nat
  BY MaskSize
<1>2. l \in Nat /\ n \in Nat
  BY LengthType DEF Sound, TypeOK
<1>3. Steps(i) = 5 + 2 * c + l - n
  BY DEF Steps
<1>4. Steps(i)' = 5 + 2 * c + l - (n + 1)
  BY DEF Steps
<1> HIDE DEF c, l, n
<1>5. 5 + 2 * c + l - (n + 1) < 5 + 2 * c + l - n
  BY <1>1, <1>2
<1> QED
  BY <1>3, <1>4, <1>5 DEF Nearer

\* The frame that unloads a slot has one slot less to visit.
LEMMA VisitIsNearer ==
  ASSUME Sound, NEW i \in Image, NEW s \in todo[i], pc[i] \in {"clear", "drop"},
         pc'[i] = pc[i], todo'[i] = todo[i] \ {s}
  PROVE  Nearer(i)
<1>1. /\ Cardinality(todo[i]) \in Nat
      /\ Cardinality(Slot) \in Nat
      /\ Cardinality(todo[i] \ {s}) = Cardinality(todo[i]) - 1
  BY MaskSize DEF Sound, TypeOK
<1>2. CASE pc[i] = "clear"
  BY <1>1, <1>2 DEF Nearer, Steps
<1>3. CASE pc[i] = "drop"
  BY <1>1, <1>3 DEF Nearer, Steps
<1> QED
  BY <1>2, <1>3

\* A frame that returns had at least a step to go.
LEMMA EndIsNearer ==
  ASSUME Sound, NEW i \in Image, pc[i] \in {"run", "drop"}, pc'[i] \in {"free", "live"}
  PROVE  Nearer(i)
<1>1. Cardinality(todo[i]) \in Nat /\ Cardinality(Slot) \in Nat
  BY MaskSize DEF Sound, TypeOK
<1>2. Steps(i)' = 0
  BY DEF Steps
<1>3. CASE pc[i] = "run"
  <2>1. Steps(i) = 3 + 2 * Cardinality(Slot)
    BY <1>3 DEF Steps
  <2> QED
    BY <1>1, <1>2, <2>1 DEF Nearer
<1>4. CASE pc[i] = "drop"
  <2>1. Steps(i) = 1 + Cardinality(todo[i])
    BY <1>4 DEF Steps
  <2> QED
    BY <1>1, <1>2, <2>1 DEF Nearer
<1> QED
  BY <1>3, <1>4

\* The last unloading is shorter than what comes before it.
LEMMA DropIsNearer ==
  ASSUME Sound, NEW i \in Image, pc[i] \in {"run", "fini", "clear"}, pc'[i] = "drop", todo'[i] = link[i]
  PROVE  Nearer(i)
<1>1. /\ Cardinality(todo[i]) \in Nat /\ Cardinality(link[i]) \in Nat
      /\ Cardinality(Slot) \in Nat
      /\ Cardinality(link[i]) <= Cardinality(Slot)
  BY MaskSize DEF Sound, TypeOK
<1>2. Steps(i)' = 1 + Cardinality(link[i])
  BY DEF Steps
<1>3. CASE pc[i] = "run"
  BY <1>1, <1>2, <1>3 DEF Nearer, Steps
<1>4. CASE pc[i] = "fini"
  BY <1>1, <1>2, <1>4 DEF Nearer, Steps
<1>5. CASE pc[i] = "clear"
  BY <1>1, <1>2, <1>5 DEF Nearer, Steps
<1> QED
  BY <1>3, <1>4, <1>5

\* Foreign code comes after the linking and before _fini.
LEMMA CodeIsNearer ==
  ASSUME Sound, NextBounded, NEW i \in Image,
         \/ pc[i] = "link" /\ pc'[i] = "run"
         \/ pc[i] = "run" /\ pc'[i] = "fini"
  PROVE  Nearer(i)
<1> DEFINE c == Cardinality(Slot)
<1>1. c \in Nat
  BY MaskSize
<1>2. CASE pc[i] = "link" /\ pc'[i] = "run"
  <2> DEFINE l == Len(Needs[file[i]])
             n == next[i]
  <2>1. l \in Nat /\ n \in Nat /\ n <= l + 1
    BY <1>2, LengthType DEF Sound, TypeOK, NextBounded
  <2>2. Steps(i) = 5 + 2 * c + l - n /\ Steps(i)' = 3 + 2 * c
    BY <1>2 DEF Steps
  <2> HIDE DEF c, l, n
  <2>3. 3 + 2 * c < 5 + 2 * c + l - n
    BY <1>1, <2>1
  <2> QED
    BY <2>2, <2>3 DEF Nearer
<1>3. CASE pc[i] = "run" /\ pc'[i] = "fini"
  <2>1. Steps(i) = 3 + 2 * c /\ Steps(i)' = 2 + c
    BY <1>3 DEF Steps
  <2> HIDE DEF c
  <2> QED
    BY <1>1, <2>1 DEF Nearer
<1> QED
  BY <1>2, <1>3

\* Every step of the loader, and every return of foreign code to it, works on its frame.
LEMMA LoaderWorks ==
  ASSUME Sound, AwaitsWanted, NextBounded, Next, ~Request
  PROVE  \E i \in Image : Works(i)
<1> USE DEF Sound, frameVars
<1> DEFINE OnlyPhase(i) ==
      /\ top = i
      /\ Within
      /\ \A j \in Image \ {i} : pc'[j] = pc[j] /\ todo'[j] = todo[j] /\ next'[j] = next[j]
      /\ file' = file
<1>0. ASSUME NEW i \in Image, OnlyPhase(i), Nearer(i) PROVE Works(i)
  BY <1>0, UntouchedStays DEF Works
<1>1. ASSUME NEW i \in Image, RegistryFull(i) PROVE Works(i)
  <2>1. OnlyPhase(i) /\ pc[i] = "run" /\ pc'[i] = "fini"
    BY <1>1 DEF RegistryFull, Returning, TypeOK, Within, Running, Phase
  <2> QED
    BY <1>0, <2>1, CodeIsNearer
<1>2. ASSUME NEW i \in Image, CallFails(i) \/ FiniDone(i) \/ ClearAgain(i) PROVE Works(i)
  <2>1. OnlyPhase(i) /\ pc[i] \in {"run", "fini", "clear"} /\ pc'[i] = "drop" /\ todo'[i] = link[i]
    BY <1>2 DEF CallFails, FiniDone, ClearAgain, Unlink, Returning, TypeOK, Within, Running, Phase
  <2> QED
    BY <1>0, <2>1, DropIsNearer
<1>3. ASSUME NEW i \in Image, LinkFails(i) \/ RelocateFails(i) PROVE Works(i)
  <2>1. OnlyPhase(i) /\ pc[i] = "link" /\ pc'[i] = "clear" /\ todo'[i] = link[i]
    BY <1>3 DEF LinkFails, RelocateFails, Unlink, Linking, TypeOK, Within, Running, Phase
  <2> QED
    BY <1>0, <2>1, ClearIsNearer
<1>4. ASSUME NEW i \in Image, Relocate(i) PROVE Works(i)
  <2>1. OnlyPhase(i) /\ pc[i] = "link" /\ pc'[i] = "run"
    BY <1>4 DEF Relocate, Linking, TypeOK, Within, Running, Phase
  <2> QED
    BY <1>0, <2>1, CodeIsNearer
<1>5. ASSUME NEW i \in Image, LinkExisting(i) PROVE Works(i)
  <2>1. OnlyPhase(i) /\ pc[i] = "link" /\ pc'[i] = "link" /\ next'[i] = next[i] + 1
    BY <1>5 DEF LinkExisting, Linking, TypeOK, Within, Running, Phase
  <2> QED
    BY <1>0, <2>1, LinkIsNearer
<1>6. ASSUME NEW i \in Image, ReleaseShared(i) \/ ReleaseUnloaded(i) PROVE Works(i)
  <2>1. PICK s \in todo[i] : todo' = [todo EXCEPT ![i] = @ \ {s}]
    BY <1>6 DEF ReleaseShared, ReleaseUnloaded
  <2>2. pc[i] \in {"clear", "drop"} /\ pc' = pc /\ OnlyPhase(i)
    BY <1>6, <2>1 DEF ReleaseShared, ReleaseUnloaded, Unlinking, TypeOK, Within
  <2>3. todo'[i] = todo[i] \ {s}
    BY <2>1 DEF TypeOK
  <2> QED
    BY <1>0, <2>2, <2>3, VisitIsNearer
<1>7. ASSUME NEW i \in Image, RegisterElf(i) \/ OpenHandle(i) PROVE Works(i)
  <2>1. /\ top = i /\ Returned(i) /\ pc[i] = "run" /\ pc'[i] = "live"
        /\ \A j \in Image \ {i} : Stays(j)
    BY <1>7, UntouchedStays DEF RegisterElf, OpenHandle, Returning, Returned, TypeOK, Running, Phase
  <2>2. ASSUME IsNeeded(i) PROVE file[i] \in Libs
    <3>1. caller[i] \in Image /\ pc[caller[i]] = "link"
      BY <2>2 DEF IsNeeded, TypeOK
    <3>2. MoreNeeded(caller[i]) /\ file[i] = Wanted(caller[i])
      BY <2>2 DEF AwaitsWanted
    <3>3. Needs[file[caller[i]]] \in Seq(Libs)
      BY <3>1 DEF FilesKnown
    <3>4. next[caller[i]] \in 1 .. Len(Needs[file[caller[i]]])
      BY <3>1, <3>2, <3>3 DEF TypeOK, MoreNeeded
    <3> QED
      BY <3>2, <3>3, <3>4 DEF Wanted
  <2>3. ~IsNeeded(i)
    BY <1>7, <2>2 DEF RegisterElf, OpenHandle
  <2> QED
    BY <2>1, <2>3, EndIsNearer DEF Works
<1>8. ASSUME NEW i \in Image, RegisterLibrary(i) PROVE Works(i)
  <2>1. /\ top = i /\ Returned(i) /\ pc[i] = "run" /\ pc' = [pc EXCEPT ![i] = "live"]
        /\ next' = [next EXCEPT ![caller[i]] = @ + 1] /\ todo' = todo /\ file' = file
    BY <1>8 DEF RegisterLibrary, Returning, Returned, TypeOK, Running, Phase
  <2>2. caller[i] \in Image \ {i} /\ pc[caller[i]] = "link"
    BY <1>8 DEF RegisterLibrary, IsNeeded, TypeOK, StackSound
  <2>3. Nearer(caller[i])
    BY <2>1, <2>2, LinkIsNearer DEF TypeOK
  <2>4. \A j \in Image \ {i, caller[i]} : Stays(j)
    BY <2>1, UntouchedStays DEF TypeOK
  <2>5. Nearer(i)
    BY <2>1, EndIsNearer DEF TypeOK
  <2> QED
    BY <2>1, <2>3, <2>4, <2>5 DEF Works
<1>9. ASSUME NEW i \in Image, Release(i) PROVE Works(i)
  <2>1. top = i /\ pc[i] = "drop" /\ Pop(i) /\ caller[i] # i
    BY <1>9 DEF Release, TypeOK, StackSound
  <2>2. pc'[i] = "free" /\ \A j \in Image \ {i} : pc'[j] \in Running <=> pc[j] \in Running
    BY <1>9, <2>1 DEF Release, IsNeeded, TypeOK, Running, Phase
  <2>3. Returned(i) /\ Nearer(i)
    BY <2>1, <2>2, EndIsNearer DEF Returned, Running
  <2>4. \A j \in Image \ {i} : file'[j] = file[j] /\ next'[j] = next[j]
    BY <1>9 DEF Release, TypeOK
  <2>5. CASE IsNeeded(i)
    <3>1. caller[i] \in Image /\ pc[caller[i]] = "link"
      BY <2>5 DEF IsNeeded, TypeOK
    <3>2. pc'[caller[i]] = "clear" /\ todo'[caller[i]] = link[caller[i]]
      BY <1>9, <2>1, <2>5, <3>1 DEF Release, TypeOK
    <3>3. Nearer(caller[i])
      BY <3>1, <3>2, ClearIsNearer
    <3>4. \A j \in Image \ {i, caller[i]} : pc'[j] = pc[j] /\ todo'[j] = todo[j]
      BY <1>9, <2>5 DEF Release, TypeOK
    <3> QED
      BY <2>1, <2>3, <2>4, <3>3, <3>4, UntouchedStays DEF Works
  <2>6. CASE ~IsNeeded(i)
    <3>1. \A j \in Image \ {i} : pc'[j] = pc[j] /\ todo'[j] = todo[j]
      BY <1>9, <2>6 DEF Release, TypeOK
    <3> QED
      BY <2>1, <2>3, <2>4, <2>6, <3>1, UntouchedStays DEF Works
  <2> QED
    BY <2>5, <2>6
<1>10. ASSUME NEW i \in Image, NEW c \in Image, LinkNew(i, c) PROVE Works(i)
  <2>1. top = i /\ pc[i] = "link" /\ pc[c] = "free" /\ c # i
    BY <1>10 DEF LinkNew, Linking, Begin
  <2>2. Called(c)
    BY <1>10 DEF LinkNew, Begin, Called, TypeOK, Running, Phase
  <2>3. \A j \in Image \ {c} : Stays(j)
    BY <1>10, UntouchedStays DEF LinkNew, Begin, TypeOK
  <2> QED
    BY <2>1, <2>2, <2>3 DEF Works
<1>11. ASSUME NEW i \in Image, ReleaseLast(i) PROVE Works(i)
  <2>1. PICK s \in todo[i] : /\ table[s] # None
                             /\ pc' = [pc EXCEPT ![table[s]] = "fini"]
                             /\ todo' = [todo EXCEPT ![i] = @ \ {s}]
                             /\ Push(table[s])
    BY <1>11 DEF ReleaseLast
  <2>2. top = i /\ pc[i] \in {"clear", "drop"} /\ file' = file /\ next' = next
    BY <1>11 DEF ReleaseLast, Unlinking
  <2>3. s \in Slot /\ table[s] \in Image /\ pc[table[s]] = "live" /\ table[s] # i
    BY <2>1, <2>2 DEF TypeOK, TableSound, Occupied
  <2>4. Called(table[s])
    BY <2>1, <2>3 DEF Called, TypeOK, Running, Phase
  <2>5. Nearer(i)
    BY <2>1, <2>2, <2>3, VisitIsNearer DEF TypeOK
  <2>6. \A j \in Image \ {i, table[s]} : Stays(j)
    BY <2>1, <2>2, UntouchedStays DEF TypeOK
  <2> QED
    BY <2>2, <2>3, <2>4, <2>5, <2>6 DEF Works
<1> QED
  BY <1>1, <1>2, <1>3, <1>4, <1>5, <1>6, <1>7, <1>8, <1>9, <1>10, <1>11 DEF Next, Return, Work

\* Every image has a number of steps to go, in every behaviour.
LEMMA SpecMeasured == Spec => [](Sound /\ AwaitsWanted /\ NextBounded /\ Measured)
<1>1. Init => NextBounded
  BY DEF Init, NextBounded
<1>2. Sound /\ NextBounded => Measured
  BY StepsType DEF Sound, Measured
<1> QED
  BY <1>1, <1>2, SpecLinked, NextBoundedNext, PTL DEF Spec

\* Unless programs make requests, no frame of the loader can go on for ever: every step, also
\* one that fails, brings the innermost frame nearer to its end; the only image that may get
\* farther away is the one this frame calls, and the frames below never do.
THEOREM LoaderDescends == Spec => Descends
<1>1. ASSUME Sound, AwaitsWanted, NextBounded, Measured, Measured', [Next]_vars
      PROVE  [~Request =>
               /\ \E i \in Image : top = i /\ Left(i)' < Left(i)
               /\ \A i \in Image : Left(i)' > Left(i) => top' = i /\ caller'[i] = top]_vars
  <2> SUFFICES ASSUME Next, ~Request
               PROVE  /\ \E i \in Image : top = i /\ Left(i)' < Left(i)
                      /\ \A i \in Image : Left(i)' > Left(i) => top' = i /\ caller'[i] = top
    BY <1>1
  <2>1. PICK i \in Image : Works(i)
    BY <1>1, LoaderWorks
  <2>2. /\ Left(i)' < Left(i)
        /\ \A j \in Image : Left(j)' > Left(j) => top' = j /\ caller'[j] = top
    BY <1>1, <2>1, WorksDescends
  <2>3. top = i
    BY <2>1 DEF Works
  <2> QED
    BY <2>2, <2>3
<1> QED
  BY <1>1, SpecMeasured, PTL DEF Spec, Descends

-----------------------------------------------------------------------------
(* Handles.                                                                *)

\* A library becomes a handle only when dlopen returns it: none falls out of the table while
\* it is loaded. It would be left in memory with nobody to unload it.
HandlesAreOpened ==
  [][\A i \in Image : Handle(i)' /\ ~Handle(i) => OpenHandle(i)]_vars

\* A library leaves the table only to be unloaded, and enters it when its _init returns.
LEMMA HandlesStep ==
  ASSUME Sound, [Next]_vars, NEW h \in Image, Handle(h)', ~Handle(h)
  PROVE  OpenHandle(h)
<1> USE DEF Sound, frameVars
<1> DEFINE Unmoved == pc'[h] = pc[h] /\ file'[h] = file[h] /\ table' = table
<1>0. pc'[h] = "live" /\ file'[h] \in Libs /\ \A s \in Slot : table'[s] # h
  BY DEF Handle
<1>1. ~Unmoved
  BY <1>0 DEF Handle
<1>2. ASSUME NEW c \in Image, NEW f \in File, Begin(c, f) PROVE FALSE
  BY <1>0, <1>1, <1>2 DEF Begin, TypeOK
<1>3. ASSUME NEW i \in Image,
             UnloadElf(i) \/ Dlclose(i) \/ RegistryFull(i) \/ CallFails(i) \/ FiniDone(i)
             \/ LinkFails(i) \/ Relocate(i) \/ RelocateFails(i) \/ ClearAgain(i)
      PROVE  FALSE
  BY <1>0, <1>1, <1>3
  DEF UnloadElf, Dlclose, RegistryFull, CallFails, FiniDone, LinkFails, Relocate, RelocateFails,
      ClearAgain, Unlink, TypeOK
<1>4. ASSUME NEW i \in Image, LinkExisting(i) \/ ReleaseShared(i) \/ ReleaseUnloaded(i) PROVE FALSE
  BY <1>1, <1>4 DEF LinkExisting, ReleaseShared, ReleaseUnloaded
<1>5. ASSUME NEW i \in Image, RegisterElf(i) PROVE FALSE
  BY <1>0, <1>1, <1>5 DEF RegisterElf, TypeOK
<1>6. ASSUME NEW i \in Image, OpenHandle(i) PROVE OpenHandle(h)
  BY <1>1, <1>6 DEF OpenHandle, TypeOK
<1>7. ASSUME NEW i \in Image, RegisterLibrary(i) PROVE FALSE
  <2>1. PICK j \in Slot \ Occupied : table' = [table EXCEPT ![j] = i]
    BY <1>7 DEF RegisterLibrary
  <2>2. table'[j] = i
    BY <2>1 DEF TypeOK
  <2>3. h # i
    BY <1>0, <2>1, <2>2
  <2>4. pc[h] = "live" /\ file[h] \in Libs
    BY <1>0, <1>7, <2>3 DEF RegisterLibrary, TypeOK
  <2>5. PICK s \in Slot : table[s] = h
    BY <2>4 DEF Handle
  <2>6. table'[s] = h
    BY <2>1, <2>5 DEF TypeOK, Occupied
  <2> QED
    BY <1>0, <2>6
<1>8. ASSUME NEW i \in Image, ReleaseLast(i) PROVE FALSE
  <2>1. PICK s \in Slot : /\ table[s] # None
                          /\ table' = [table EXCEPT ![s] = None]
                          /\ pc' = [pc EXCEPT ![table[s]] = "fini"]
    BY <1>8 DEF ReleaseLast, Unlinking, TypeOK
  <2>2. h # table[s] /\ pc[h] = "live" /\ file[h] \in Libs
    BY <1>0, <1>8, <2>1 DEF ReleaseLast, TypeOK
  <2>3. PICK t \in Slot : table[t] = h
    BY <2>2 DEF Handle
  <2>4. table'[t] = h
    BY <2>1, <2>2, <2>3 DEF TypeOK
  <2> QED
    BY <1>0, <2>4
<1>9. ASSUME NEW i \in Image, Release(i) PROVE FALSE
  <2>1. file' = [file EXCEPT ![i] = None] /\ pc'[i] = "free" /\ table' = table
    BY <1>9 DEF Release, IsNeeded, TypeOK, StackSound
  <2>2. h # i /\ file'[h] = file[h]
    BY <1>0, <2>1 DEF TypeOK
  <2>3. pc'[h] = pc[h]
    BY <1>0, <1>9, <2>2 DEF Release, IsNeeded, TypeOK
  <2> QED
    BY <1>1, <2>1, <2>2, <2>3
<1>10. CASE ReloadDefaultLib \/ UNCHANGED vars
  BY <1>1, <1>10 DEF ReloadDefaultLib, vars
<1> QED
  BY <1>2, <1>3, <1>4, <1>5, <1>6, <1>7, <1>8, <1>9, <1>10, BeginsByFile DEF Next, Request, Return, Work

\* What dlclose may be called on is what dlopen has returned and nothing else, whatever the
\* reference counts of the table do.
THEOREM OnlyDlopenOpens == Spec => HandlesAreOpened
<1>1. ASSUME Sound, [Next]_vars
      PROVE  [\A i \in Image : Handle(i)' /\ ~Handle(i) => OpenHandle(i)]_vars
  BY <1>1, HandlesStep
<1> QED
  BY <1>1, SpecSound, PTL DEF Spec, HandlesAreOpened

\* A handle has one reference, that of the program that opened it.
HandlesHaveOneRef == \A i \in Image : Handle(i) => refs[i] = 1

\* A library that no slot names is neither found nor released by another image.
LEMMA HandleRefsStep ==
  ASSUME Sound, HandlesHaveOneRef, [Next]_vars
  PROVE  HandlesHaveOneRef'
<1> SUFFICES ASSUME NEW h \in Image, Handle(h)' PROVE refs'[h] = 1
  BY DEF HandlesHaveOneRef
<1> USE DEF Sound, frameVars
<1>1. CASE ~Handle(h)
  BY <1>1, HandlesStep DEF OpenHandle, TypeOK
<1>2. CASE Handle(h)
  <2>0. refs[h] = 1 /\ pc[h] = "live" /\ pc'[h] = "live" /\ \A s \in Slot : table[s] # h
    BY <1>2 DEF HandlesHaveOneRef, Handle
  <2> SUFFICES ASSUME refs'[h] # refs[h] PROVE FALSE
    BY <2>0
  <2>1. ASSUME NEW c \in Image, NEW f \in File, Begin(c, f) PROVE FALSE
    BY <2>1 DEF Begin
  <2>2. ASSUME NEW i \in Image,
               UnloadElf(i) \/ RegisterElf(i) \/ RegistryFull(i) \/ CallFails(i) \/ FiniDone(i)
               \/ LinkFails(i) \/ Relocate(i) \/ RelocateFails(i) \/ ReleaseUnloaded(i) \/ ClearAgain(i)
        PROVE  FALSE
    BY <2>2
    DEF UnloadElf, RegisterElf, RegistryFull, CallFails, FiniDone, LinkFails, Relocate, RelocateFails,
        ReleaseUnloaded, ClearAgain
  <2>3. ASSUME NEW i \in Image, Dlclose(i) \/ OpenHandle(i) \/ RegisterLibrary(i) \/ Release(i)
        PROVE  FALSE
    BY <2>0, <2>3 DEF Dlclose, OpenHandle, RegisterLibrary, Release, IsNeeded, Returning, TypeOK, StackSound
  <2>4. ASSUME NEW i \in Image, LinkExisting(i) PROVE FALSE
    <3>1. PICK j \in Slot : refs' = [refs EXCEPT ![table[j]] = @ + 1]
      BY <2>4 DEF LinkExisting, Named, Occupied
    <3> QED
      BY <2>0, <3>1 DEF TypeOK
  <2>5. ASSUME NEW i \in Image, ReleaseShared(i) \/ ReleaseLast(i) PROVE FALSE
    <3>1. PICK s \in Slot : \/ refs' = [refs EXCEPT ![table[s]] = @ - 1]
                            \/ refs' = [refs EXCEPT ![table[s]] = 0]
      BY <2>5 DEF ReleaseShared, ReleaseLast, Unlinking, TypeOK
    <3> QED
      BY <2>0, <3>1 DEF TypeOK
  <2>6. CASE ReloadDefaultLib \/ UNCHANGED vars
    BY <2>6 DEF ReloadDefaultLib, vars
  <2> QED
    BY <2>1, <2>2, <2>3, <2>4, <2>5, <2>6, BeginsByFile DEF Next, Request, Return, Work
<1> QED
  BY <1>1, <1>2

\* One dlclose frees what one dlopen has loaded: its reference is the last, whatever is loaded
\* and unloaded in between, also the same library by its name.
THEOREM HandlesCloseAtOnce == Spec => []HandlesHaveOneRef
<1>1. Init => HandlesHaveOneRef
  BY DEF Init, HandlesHaveOneRef, Handle
<1>2. Sound /\ HandlesHaveOneRef /\ [Next]_vars => HandlesHaveOneRef'
  BY HandleRefsStep
<1> QED
  BY <1>1, <1>2, SpecSound, PTL DEF Spec

=============================================================================
