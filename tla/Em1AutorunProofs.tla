-------------------------- MODULE Em1AutorunProofs --------------------------
(***************************************************************************)
(* Proofs about Em1Autorun, for any programs, any order in which a search  *)
(* finds them and any number of handles.                                   *)
(***************************************************************************)
EXTENDS Em1Autorun, FiniteSetTheorems, SequenceTheorems, WellFoundedInduction, TLAPS

USE FoundAssumption, HandlesAssumption

\* What the variable startupcfg may be.
Files == {Missing, Empty} \cup File

-----------------------------------------------------------------------------
(* Places and marks.                                                       *)

\* A set of numbers has a least one.
LEMMA Least ==
  ASSUME NEW S \in SUBSET Nat, S # {}
  PROVE  \E i \in S : \A j \in S : i <= j
<1> DEFINE R == OpToRel(<, Nat)
<1>1. PICK i \in S : \A j \in S : ~(<<j, i>> \in R)
  <2>1. IsWellFoundedOn(R, Nat)
    BY NatLessThanWellFounded
  <2> HIDE DEF R
  <2> QED
    BY <2>1, WFMin
<1>2. ASSUME NEW j \in S
      PROVE  i <= j
  <2>1. <<j, i>> \in Nat \X Nat
    OBVIOUS
  <2>2. ~(j < i)
    BY <1>1, <1>2, <2>1, Zenon DEF OpToRel
  <2> QED
    BY <2>2
<1> QED
  BY <1>2

\* The place of a program is 0, or where it is.
LEMMA PlaceIs ==
  ASSUME NEW f, f \notin {Missing, Empty} => f \in File, NEW p
  PROVE  /\ Place(p, f) \in Nat
         /\ Place(p, f) > 0 => /\ f \notin {Missing, Empty}
                               /\ Place(p, f) \in 1 .. f.Elements
                               /\ Place(p, f) <= Len(f.entries)
                               /\ f.entries[Place(p, f)] = p
<1> DEFINE at == {i \in 1 .. f.Elements : i <= Len(f.entries) /\ f.entries[i] = p}
<1>1. CASE f \in {Missing, Empty}
  BY <1>1 DEF Place
<1>2. CASE f \notin {Missing, Empty} /\ at = {}
  BY <1>2 DEF Place
<1>3. CASE f \notin {Missing, Empty} /\ at # {}
  <2>1. at \in SUBSET Nat /\ at # {}
    BY <1>3 DEF File
  <2>2. PICK i \in at : \A j \in at : i <= j
    <3> HIDE DEF at
    <3> QED
      BY <2>1, Least
  <2>3. Place(p, f) \in at
    BY <1>3, <2>2 DEF Place
  <2> QED
    BY <1>3, <2>3 DEF File
<1> QED
  BY <1>1, <1>2, <1>3

\* A program that is an entry has a place.
LEMMA HasPlace ==
  ASSUME NEW f \in File, f \notin {Missing, Empty}, f.Elements = Len(f.entries),
         NEW i \in 1 .. Len(f.entries)
  PROVE  Place(f.entries[i], f) > 0
<1> DEFINE p == f.entries[i]
           at == {j \in 1 .. f.Elements : j <= Len(f.entries) /\ f.entries[j] = p}
<1>1. i \in at /\ at \in SUBSET (Nat \ {0})
  BY DEF File
<1>2. PICK k \in at : \A j \in at : k <= j
  <2> HIDE DEF at
  <2> QED
    BY <1>1, Least
<1>3. Place(p, f) \in at
  BY <1>1, <1>2 DEF Place
<1> QED
  BY <1>1, <1>3

\* How many of the first programs are in a file never gets fewer.
LEMMA InFileGrows ==
  ASSUME NEW s, NEW f, NEW m \in Int, NEW n \in Int, m <= n
  PROVE  /\ InFile(s, n, f) \in Nat
         /\ InFile(s, m, f) \in Nat
         /\ InFile(s, m, f) <= InFile(s, n, f)
<1> DEFINE A(k) == {i \in 1 .. k : Place(s[i], f) > 0}
<1>1. ASSUME NEW k \in Int
      PROVE  IsFiniteSet(A(k)) /\ Cardinality(A(k)) \in Nat
  <2>1. IsFiniteSet(1 .. k)
    BY FS_Interval
  <2>2. IsFiniteSet(A(k))
    BY <2>1, FS_Subset
  <2> QED
    BY <2>2, FS_CardinalityType
<1>2. A(m) \subseteq A(n)
  OBVIOUS
<1>3. Cardinality(A(m)) <= Cardinality(A(n))
  BY <1>1, <1>2, FS_Subset
<1> QED
  BY <1>1, <1>3 DEF InFile

\* When a handle is left at the end, every mark is the place.
LEMMA MarksAreTrue ==
  ASSUME NEW s \in Seq(Program), NEW f, handles \in Nat,
         handles + InFile(s, Len(s), f) < MaxHandles,
         NEW i \in 1 .. Len(s)
  PROVE  Mark(s, i, f) = Place(s[i], f)
<1>1. i - 1 \in Int /\ Len(s) \in Int /\ i - 1 <= Len(s)
  OBVIOUS
<1>2. InFile(s, i - 1, f) <= InFile(s, Len(s), f) /\ InFile(s, i - 1, f) \in Nat
      /\ InFile(s, Len(s), f) \in Nat
  BY <1>1, InFileGrows
<1> QED
  BY <1>2 DEF Mark

\* As many programs are found as there are.
LEMMA FoundAll ==
  ASSUME NEW ps \in SUBSET Program
  PROVE  IsFiniteSet(ps) /\ Len(Found[ps]) = Cardinality(ps) /\ Len(Found[ps]) \in Nat
<1> DEFINE s == Found[ps]
<1>1. s \in Seq(Program) /\ ToSet(s) = ps /\ IsInjective(s)
  OBVIOUS
<1>2. Len(s) \in Nat /\ DOMAIN s = 1 .. Len(s) /\ s \in [1 .. Len(s) -> Program]
  BY <1>1, LenProperties
<1>3. ps = {s[i] : i \in 1 .. Len(s)}
  BY <1>1, <1>2 DEF ToSet
<1>4. s \in Bijection(1 .. Len(s), ps)
  BY <1>1, <1>2, <1>3 DEF Bijection, Injection, Surjection, IsInjective
<1>5. ExistsBijection(1 .. Len(s), ps)
  BY <1>4 DEF ExistsBijection
<1>6. IsFiniteSet(ps) /\ Cardinality(ps) = Len(s)
  BY <1>2, <1>5, FS_CountingElements, FS_NatBijection
<1> QED
  BY <1>2, <1>6

\* A function on the first numbers is a sequence.
LEMMA MakesSeq ==
  ASSUME NEW S, NEW n \in Nat, NEW q \in [1 .. n -> S]
  PROVE  q \in Seq(S) /\ Len(q) = n
<1>1. q \in Seq(S)
  BY SeqDef
<1>2. Len(q) \in Nat /\ 1 .. Len(q) = 1 .. n
  BY <1>1, LenProperties
<1> QED
  BY <1>1, <1>2

-----------------------------------------------------------------------------
(* The list.                                                               *)

\* What FindAppS leaves: as many names as there are programs, and, when a
\* handle is left, the right marks.
LEMMA FindAppSGives ==
  ASSUME handles \in 0 .. MaxHandles, NEW ps \in SUBSET Program,
         NEW f, f \notin {Missing, Empty} => f \in File, FindAppS(ps, f)
  PROVE  /\ fname' \in Seq([name : Program, in_autorun : Nat])
         /\ Len(fname') = Cardinality(ps)
         /\ handles' \in 0 .. MaxHandles
         /\ handles' < MaxHandles =>
              \A i \in DOMAIN fname' : fname'[i].in_autorun = Place(fname'[i].name, f)
<1> DEFINE s == Found[ps]
           used == handles + InFile(s, Len(s), f)
<1>1. s \in Seq(Program) /\ Len(s) \in Nat /\ Len(s) = Cardinality(ps) /\ DOMAIN s = 1 .. Len(s)
  BY FoundAll, LenProperties
<1>2. /\ fname' = [i \in 1 .. Len(s) |-> [name |-> s[i], in_autorun |-> Mark(s, i, f)]]
      /\ handles' = IF used <= MaxHandles THEN used ELSE MaxHandles
  BY DEF FindAppS
<1>3. used \in Nat
  BY <1>1, InFileGrows
<1> HIDE DEF s
<1>4. ASSUME NEW i \in 1 .. Len(s)
      PROVE  s[i] \in Program /\ Mark(s, i, f) \in Nat
  BY <1>1, PlaceIs, ElementOfSeq DEF Mark
<1>5. fname' \in [1 .. Len(s) -> [name : Program, in_autorun : Nat]]
  BY <1>2, <1>4
<1>6. fname' \in Seq([name : Program, in_autorun : Nat]) /\ Len(fname') = Len(s)
  <2> DEFINE Item == [name : Program, in_autorun : Nat]
  <2>1. fname' \in [1 .. Len(s) -> Item]
    BY <1>5
  <2> HIDE DEF Item
  <2>2. \A n \in Nat : \A q \in [1 .. n -> Item] : q \in Seq(Item) /\ Len(q) = n
    BY MakesSeq
  <2>3. fname' \in Seq(Item) /\ Len(fname') = Len(s)
    BY <1>1, <2>1, <2>2
  <2> QED
    BY <2>3 DEF Item
<1>7. handles' \in 0 .. MaxHandles
  BY <1>2, <1>3
<1>8. ASSUME handles' < MaxHandles, NEW i \in DOMAIN fname'
      PROVE  fname'[i].in_autorun = Place(fname'[i].name, f)
  <2>1. used < MaxHandles
    BY <1>2, <1>3, <1>8
  <2>2. i \in 1 .. Len(s) /\ fname'[i] = [name |-> s[i], in_autorun |-> Mark(s, i, f)]
    BY <1>2
  <2>3. Mark(s, i, f) = Place(s[i], f)
    BY <1>1, <2>1, <2>2, MarksAreTrue
  <2> QED
    BY <2>2, <2>3
<1> QED
  BY <1>1, <1>6, <1>7, <1>8

\* Every command finds its program.
Commands ==
  /\ SelectedElf <= 1 \/ SelectedElf <= Cardinality(disk)
  /\ pc \in {"list", "write"} => Len(fname) = Cardinality(disk)
  /\ pc = "write" => SelectedElf < Cardinality(disk)

\* A program in a list that is not empty.
LEMMA SelectedIs ==
  ASSUME TypeOK, Commands, pc = "list", fname # <<>>
  PROVE  /\ Index \in Nat /\ Index + 1 \in DOMAIN fname
         /\ Index < Cardinality(disk) /\ Index <= SelectedElf
         /\ Selected \in [name : Program, in_autorun : Nat]
<1>1. /\ Len(fname) \in Nat \ {0}
      /\ DOMAIN fname = 1 .. Len(fname)
      /\ fname \in [1 .. Len(fname) -> [name : Program, in_autorun : Nat]]
  BY EmptySeq, LenProperties DEF TypeOK
<1>2. Len(fname) = Cardinality(disk) /\ SelectedElf \in Nat
  BY DEF Commands, TypeOK
<1>3. Index \in Nat /\ Index + 1 \in 1 .. Len(fname) /\ Index <= SelectedElf
  BY <1>1, <1>2 DEF Index, Commands
<1> QED
  BY <1>1, <1>2, <1>3 DEF Selected

\* What a step that makes the list anew leaves.
LEMMA UpdateGives ==
  ASSUME handles \in 0 .. MaxHandles, NEW ps \in SUBSET Program,
         NEW f, f \notin {Missing, Empty} => f \in File,
         NEW item \in Nat, NEW sel \in Nat, Update(ps, f, item, sel),
         item <= 1 \/ item <= Cardinality(ps),
         sel <= 1 \/ sel <= Cardinality(ps)
  PROVE  /\ fname' \in Seq([name : Program, in_autorun : Nat])
         /\ Len(fname') = Cardinality(ps)
         /\ handles' \in 0 .. MaxHandles
         /\ handles' < MaxHandles =>
              \A i \in DOMAIN fname' : fname'[i].in_autorun = Place(fname'[i].name, f)
         /\ SelectedElf' \in Nat
         /\ SelectedElf' <= 1 \/ SelectedElf' <= Cardinality(ps)
         /\ pc' = "list"
BY FindAppSGives DEF Update

-----------------------------------------------------------------------------
(* The invariant.                                                          *)

\* What is being switched on came from the file, in its order.
StartedFromFile ==
  pc = "autorun" =>
    \A i \in DOMAIN started :
      /\ Filled
      /\ \E j \in 1 .. next - 1 : j <= Len(startupcfg.entries) /\ started[i] = startupcfg.entries[j]

IInv == TypeOK /\ FileSound /\ MarksAgree /\ Commands /\ IsInjective(started) /\ StartedFromFile

\* A file of the right type that has something in it.
LEMMA FilledIsFile ==
  ASSUME TypeOK, FileSound, Filled
  PROVE  /\ startupcfg \in File /\ startupcfg.Elements \in Nat
         /\ startupcfg.entries \in Seq(Program)
         /\ startupcfg.Elements = Len(startupcfg.entries)
         /\ IsInjective(startupcfg.entries)
         /\ \A i \in 1 .. Len(startupcfg.entries) :
              EntryRead(i) = startupcfg.entries[i] /\ startupcfg.entries[i] \in Program
<1>1. startupcfg \in File
  BY DEF TypeOK, Filled
<1>2. /\ startupcfg.Elements \in Nat /\ startupcfg.entries \in Seq(Program)
  BY <1>1 DEF File
<1>3. startupcfg.Elements = Len(startupcfg.entries) /\ IsInjective(startupcfg.entries)
  BY DEF FileSound, Sound, Filled
<1>4. ASSUME NEW i \in 1 .. Len(startupcfg.entries)
      PROVE  EntryRead(i) = startupcfg.entries[i] /\ startupcfg.entries[i] \in Program
  BY <1>2, <1>4, ElementOfSeq DEF EntryRead
<1> QED
  BY <1>1, <1>2, <1>3, <1>4

\* The first entries of the file, as the loops read them.
LEMMA ReadGives ==
  ASSUME TypeOK, FileSound, Filled, NEW n \in Nat, n <= startupcfg.Elements
  PROVE  /\ Read(n) \in Seq(Program) /\ Len(Read(n)) = n
         /\ \A i \in 1 .. n : Read(n)[i] = startupcfg.entries[i]
         /\ IsInjective(Read(n))
<1>1. n <= Len(startupcfg.entries) /\ Len(startupcfg.entries) \in Nat
  BY FilledIsFile
<1>2. Read(n) \in [1 .. n -> Program] /\ \A i \in 1 .. n : Read(n)[i] = startupcfg.entries[i]
  BY <1>1, FilledIsFile DEF Read
<1>3. Read(n) \in Seq(Program) /\ Len(Read(n)) = n /\ DOMAIN Read(n) = 1 .. n
  BY <1>2, MakesSeq
<1>4. 1 .. n \subseteq DOMAIN startupcfg.entries
  BY <1>1, FilledIsFile, LenProperties
<1>5. IsInjective(Read(n))
  BY <1>2, <1>3, <1>4, FilledIsFile DEF IsInjective
<1> QED
  BY <1>2, <1>3, <1>5

\* A sequence without repetition stays so when what is not in it is added.
LEMMA AppendNew ==
  ASSUME NEW S, NEW s \in Seq(S), IsInjective(s), NEW x \in S,
         \A i \in 1 .. Len(s) : s[i] # x
  PROVE  IsInjective(Append(s, x))
<1>1. /\ Len(s) \in Nat /\ Len(Append(s, x)) = Len(s) + 1
      /\ DOMAIN Append(s, x) = 1 .. Len(s) + 1 /\ DOMAIN s = 1 .. Len(s)
  BY LenProperties, AppendProperties
<1>2. \A i \in 1 .. Len(s) + 1 : Append(s, x)[i] = IF i <= Len(s) THEN s[i] ELSE x
  BY AppendProperties
<1> QED
  BY <1>1, <1>2 DEF IsInjective

\* A file made of a sequence of programs is sound.
LEMMA MakesFile ==
  ASSUME NEW e \in Seq(Program), IsInjective(e)
  PROVE  LET f == [Elements |-> Len(e), entries |-> e] IN f \in File /\ Sound(f)
<1> DEFINE f == [Elements |-> Len(e), entries |-> e]
<1>1. f \in File
  BY LenProperties DEF File
<1>2. f.Elements = Len(f.entries) /\ IsInjective(f.entries)
  OBVIOUS
<1> QED
  BY <1>1, <1>2 DEF Sound

\* The initial state satisfies the invariant.
LEMMA InitIInv == Init => IInv
<1> SUFFICES ASSUME Init PROVE IInv
  OBVIOUS
<1> USE DEF Init
<1>1. TypeOK
  BY EmptySeq DEF TypeOK, PC
<1>2. FileSound
  BY DEF FileSound, Sound
<1>3. IsInjective(started) /\ StartedFromFile
  BY DEF IsInjective, StartedFromFile
<1> QED
  BY <1>1, <1>2, <1>3 DEF IInv, MarksAgree, Commands

-----------------------------------------------------------------------------
(* The steps.                                                              *)

\* Switching on and off keeps the invariant.
LEMMA SwitchingStep ==
  ASSUME IInv, DoAutorun \/ DoAutorunEnds \/ PowerOff
  PROVE  IInv'
<1> USE DEF IInv
<1>1. CASE DoAutorun
  <2> USE <1>1 DEF DoAutorun
  <2>1. Filled /\ next \in 1 .. Len(startupcfg.entries)
    <3>1. Filled /\ next <= startupcfg.Elements
      BY DEF EntriesToRun, TypeOK
    <3> QED
      BY <3>1, FilledIsFile DEF TypeOK
  <2>2. EntryRead(next) = startupcfg.entries[next] /\ EntryRead(next) \in Program
    BY <2>1, FilledIsFile
  <2>3. CASE UNCHANGED started
    <3>1. TypeOK'
      BY <2>3 DEF TypeOK, listVars
    <3>2. StartedFromFile'
      BY <2>3 DEF StartedFromFile, Filled, TypeOK
    <3> QED
      BY <2>3, <3>1, <3>2 DEF FileSound, Sound, MarksAgree, CanOpen, Commands, listVars
  <2>4. CASE started' = Append(started, EntryRead(next))
    <3>1. started' \in Seq(Program) /\ TypeOK'
      BY <2>2, <2>4, AppendProperties DEF TypeOK, listVars
    <3>2. ASSUME NEW i \in 1 .. Len(started)
          PROVE  \E j \in 1 .. next - 1 : j <= Len(startupcfg.entries) /\ started[i] = startupcfg.entries[j]
      BY <3>2, LenProperties DEF StartedFromFile, TypeOK
    <3>3. ASSUME NEW i \in 1 .. Len(started)
          PROVE  started[i] # EntryRead(next)
      <4>1. PICK j \in 1 .. next - 1 : j <= Len(startupcfg.entries) /\ started[i] = startupcfg.entries[j]
        BY <3>2
      <4>2. /\ IsInjective(startupcfg.entries)
            /\ DOMAIN startupcfg.entries = 1 .. Len(startupcfg.entries)
            /\ Len(startupcfg.entries) \in Nat
        BY <2>1, FilledIsFile, LenProperties
      <4>3. j \in DOMAIN startupcfg.entries /\ next \in DOMAIN startupcfg.entries /\ j # next
        BY <2>1, <4>1, <4>2 DEF TypeOK
      <4> QED
        BY <2>2, <4>1, <4>2, <4>3 DEF IsInjective
    <3>4. IsInjective(started')
      BY <2>2, <2>4, <3>3, AppendNew DEF TypeOK
    <3>5. StartedFromFile'
      <4>1. /\ DOMAIN started' = 1 .. Len(started) + 1 /\ Len(started) \in Nat
            /\ \A i \in 1 .. Len(started) : started'[i] = started[i]
            /\ started'[Len(started) + 1] = EntryRead(next)
        BY <2>2, <2>4, AppendProperties, LenProperties DEF TypeOK
      <4>2. ASSUME NEW i \in DOMAIN started'
            PROVE  \E j \in 1 .. next' - 1 : j <= Len(startupcfg.entries) /\ started'[i] = startupcfg.entries[j]
        <5>1. CASE i <= Len(started)
          <6>1. i \in 1 .. Len(started) /\ started'[i] = started[i]
            BY <4>1, <5>1
          <6>2. PICK j \in 1 .. next - 1 : j <= Len(startupcfg.entries) /\ started[i] = startupcfg.entries[j]
            BY <3>2, <6>1
          <6>3. j \in 1 .. next' - 1
            BY DEF TypeOK
          <6> QED
            BY <6>1, <6>2, <6>3
        <5>2. CASE i = Len(started) + 1
          <6>1. next \in Nat \ {0} /\ next' = next + 1
            BY DEF TypeOK
          <6>2. next \in 1 .. next' - 1 /\ next <= Len(startupcfg.entries)
            BY <2>1, <6>1
          <6>3. started'[i] = startupcfg.entries[next]
            BY <2>2, <4>1, <5>2
          <6> QED
            BY <6>2, <6>3
        <5> QED
          BY <4>1, <5>1, <5>2
      <4> QED
        BY <2>1, <4>2 DEF StartedFromFile, Filled
    <3> QED
      BY <3>1, <3>4, <3>5 DEF FileSound, Sound, MarksAgree, CanOpen, Commands, listVars
  <2> QED
    BY <2>3, <2>4
<1>2. CASE DoAutorunEnds
  <2> USE <1>2 DEF DoAutorunEnds
  <2>1. TypeOK'
    BY DEF TypeOK, listVars, PC
  <2> QED
    BY <2>1 DEF FileSound, Sound, MarksAgree, Commands, StartedFromFile, listVars
<1>3. CASE PowerOff
  <2> USE <1>3 DEF PowerOff
  <2>1. TypeOK'
    BY EmptySeq DEF TypeOK, PC
  <2>2. IsInjective(started') /\ StartedFromFile'
    BY DEF IsInjective, StartedFromFile
  <2> QED
    BY <2>1, <2>2 DEF FileSound, Sound, MarksAgree, Commands
<1> QED
  BY <1>1, <1>2, <1>3

\* What a step needs when it makes the list anew.
LEMMA UpdateStep ==
  ASSUME IInv, pc # "wild",
         disk' \subseteq Program, startupcfg' \in Files, Sound(startupcfg'),
         buffer' \in {Empty} \cup File, Sound(buffer'),
         UNCHANGED <<next, started>>,
         NEW item \in Nat, NEW sel \in Nat, Update(disk', startupcfg', item, sel),
         item <= 1 \/ item <= Cardinality(disk'),
         sel <= 1 \/ sel <= Cardinality(disk')
  PROVE  IInv'
<1>1. handles \in 0 .. MaxHandles /\ disk' \in SUBSET Program
  BY DEF IInv, TypeOK
<1>2. startupcfg' \notin {Missing, Empty} => startupcfg' \in File
  BY DEF Files
<1>3. /\ fname' \in Seq([name : Program, in_autorun : Nat])
      /\ Len(fname') = Cardinality(disk')
      /\ handles' \in 0 .. MaxHandles
      /\ handles' < MaxHandles =>
           \A i \in DOMAIN fname' : fname'[i].in_autorun = Place(fname'[i].name, startupcfg')
      /\ SelectedElf' \in Nat
      /\ SelectedElf' <= 1 \/ SelectedElf' <= Cardinality(disk')
      /\ pc' = "list"
  BY <1>1, <1>2, UpdateGives
<1>4. TypeOK'
  BY <1>3 DEF IInv, TypeOK, Files, PC
<1>5. MarksAgree'
  <2>1. ASSUME handles' < MaxHandles, NEW i \in DOMAIN fname'
        PROVE  (fname[i].in_autorun = Place(fname[i].name, startupcfg))'
    BY <1>3, <2>1 DEF Place
  <2> QED
    BY <2>1 DEF MarksAgree, CanOpen
<1>6. Commands'
  BY <1>3 DEF Commands
<1> QED
  BY <1>3, <1>4, <1>5, <1>6 DEF IInv, FileSound, StartedFromFile

\* So do the user's steps through the list, and changes of the disk.
LEMMA ListStep ==
  ASSUME IInv,
         \/ MainStateEnter \/ AppLoaderExit \/ Run_Action \/ Del_Action
         \/ \E item \in DOMAIN fname : Navigate(item)
         \/ \E p \in Program : Copy(p)
  PROVE  IInv'
<1> USE DEF IInv
<1>1. CASE MainStateEnter
  <2> USE <1>1 DEF MainStateEnter
  <2>1. Update(disk', startupcfg', 1, SelectedElf) /\ pc # "wild" /\ UNCHANGED <<next, started>>
    OBVIOUS
  <2>2. /\ disk' \subseteq Program /\ startupcfg' \in Files /\ Sound(startupcfg')
        /\ buffer' \in {Empty} \cup File /\ Sound(buffer')
    BY DEF TypeOK, FileSound, Sound, Files
  <2>3. SelectedElf \in Nat /\ (SelectedElf <= 1 \/ SelectedElf <= Cardinality(disk'))
    BY DEF TypeOK, Commands
  <2> QED
    BY <2>1, <2>2, <2>3, UpdateStep
<1>2. CASE AppLoaderExit
  <2>1. TypeOK'
    BY <1>2, EmptySeq DEF AppLoaderExit, TypeOK, PC
  <2> QED
    BY <1>2, <2>1 DEF AppLoaderExit, FileSound, Sound, MarksAgree, Commands, StartedFromFile
<1>3. CASE Run_Action
  <2>1. Index \in Nat /\ Index < Cardinality(disk)
    BY <1>3, SelectedIs DEF Run_Action
  <2>2. TypeOK'
    BY <1>3, <2>1, EmptySeq DEF Run_Action, TypeOK, PC
  <2>3. Cardinality(disk) \in Nat
    BY FoundAll, FS_CardinalityType DEF TypeOK
  <2> QED
    BY <1>3, <2>1, <2>2, <2>3 DEF Run_Action, FileSound, Sound, MarksAgree, Commands, StartedFromFile
<1>4. CASE Del_Action
  <2>0. /\ pc = "list" /\ fname # <<>> /\ disk' = disk \ {Selected.name}
        /\ Update(disk', startupcfg', 1, Index)
        /\ UNCHANGED <<startupcfg, buffer, next, started>>
    BY <1>4 DEF Del_Action
  <2>1. Index \in Nat /\ Index < Cardinality(disk)
    BY <2>0, SelectedIs
  <2>2. IsFiniteSet(disk) /\ Cardinality(disk) \in Nat
    BY FoundAll, FS_CardinalityType DEF TypeOK
  <2>3. Cardinality(disk') \in Nat /\ Cardinality(disk') >= Cardinality(disk) - 1
    <3> DEFINE x == Selected.name
    <3>1. Cardinality(disk \ {x}) = IF x \in disk THEN Cardinality(disk) - 1 ELSE Cardinality(disk)
      BY <2>2, FS_RemoveElement
    <3>2. IsFiniteSet(disk \ {x})
      BY <2>2, FS_RemoveElement
    <3>3. Cardinality(disk \ {x}) \in Nat
      BY <3>2, FS_CardinalityType
    <3>4. disk' = disk \ {x}
      BY <2>0
    <3> HIDE DEF x
    <3> QED
      BY <2>2, <3>1, <3>3, <3>4
  <2>4. Index <= Cardinality(disk')
    BY <2>1, <2>2, <2>3
  <2>5. /\ disk' \subseteq Program /\ startupcfg' \in Files /\ Sound(startupcfg')
        /\ buffer' \in {Empty} \cup File /\ Sound(buffer')
    BY <2>0 DEF TypeOK, FileSound, Sound, Files
  <2>6. pc # "wild" /\ UNCHANGED <<next, started>>
    BY <2>0
  <2>7. ASSUME NEW item \in Nat, NEW sel \in Nat, Update(disk', startupcfg', item, sel),
               item <= 1, sel <= Cardinality(disk')
        PROVE  IInv'
    BY <2>5, <2>6, <2>7, UpdateStep
  <2>8. 1 \in Nat /\ 1 <= 1 /\ Update(disk', startupcfg', 1, Index)
    BY <2>0
  <2> QED
    BY <2>1, <2>4, <2>7, <2>8
<1>5. ASSUME NEW item \in DOMAIN fname, Navigate(item)
      PROVE  IInv'
  <2>1. item \in 1 .. Len(fname) /\ Len(fname) = Cardinality(disk)
    BY <1>5, LenProperties DEF Navigate, TypeOK, Commands
  <2>2. Len(fname) \in Nat
    BY LenProperties DEF TypeOK
  <2>3. TypeOK'
    BY <1>5, <2>1, <2>2 DEF Navigate, TypeOK
  <2> QED
    BY <1>5, <2>1, <2>2, <2>3
    DEF Navigate, FileSound, Sound, MarksAgree, CanOpen, Commands, StartedFromFile
<1>6. ASSUME NEW p \in Program, Copy(p)
      PROVE  IInv'
  <2>1. IsFiniteSet(disk) /\ Cardinality(disk) \in Nat
    BY FoundAll, FS_CardinalityType DEF TypeOK
  <2>2. Cardinality(disk \cup {p}) \in Nat /\ Cardinality(disk \cup {p}) >= Cardinality(disk)
    <3>1. Cardinality(disk \cup {p}) = IF p \in disk THEN Cardinality(disk) ELSE Cardinality(disk) + 1
      BY <2>1, FS_AddElement
    <3> QED
      BY <2>1, <3>1
  <2>3. TypeOK'
    BY <1>6 DEF Copy, TypeOK, listVars
  <2> QED
    BY <1>6, <2>1, <2>2, <2>3
    DEF Copy, TypeOK, FileSound, Sound, MarksAgree, Commands, StartedFromFile, listVars
<1> QED
  BY <1>1, <1>2, <1>3, <1>4, <1>5, <1>6

\* And the steps of AutRun_Action.
LEMMA AutRunStep ==
  ASSUME IInv, RemoveOpens \/ AddOpens \/ Write \/ AddFails \/ RemoveFails
  PROVE  IInv'
<1> USE DEF IInv
<1>0. Cardinality(disk) \in Nat
  BY FoundAll, FS_CardinalityType DEF TypeOK
<1>1. CASE RemoveOpens
  <2> USE <1>1 DEF RemoveOpens
  <2>1. /\ Index \in Nat /\ Index + 1 \in DOMAIN fname /\ Index < Cardinality(disk)
        /\ Selected \in [name : Program, in_autorun : Nat]
    BY SelectedIs
  <2>2. Place(Selected.name, startupcfg) > 0
    BY <2>1 DEF MarksAgree, Selected
  <2>3. startupcfg.Elements - 1 \in Nat
    <3>1. startupcfg \notin {Missing, Empty} => startupcfg \in File
      BY DEF TypeOK
    <3>2. Place(Selected.name, startupcfg) \in 1 .. startupcfg.Elements
      BY <2>2, <3>1, PlaceIs
    <3>3. startupcfg.Elements \in Nat
      BY FilledIsFile
    <3> QED
      BY <3>2, <3>3
  <2> DEFINE n == startupcfg.Elements - 1
  <2>4. /\ Read(n) \in Seq(Program) /\ Len(Read(n)) = n /\ IsInjective(Read(n))
    BY <2>3, ReadGives, FilledIsFile
  <2>5. buffer' = [Elements |-> n, entries |-> Read(n)]
    OBVIOUS
  <2>6. buffer' \in File /\ Sound(buffer')
    BY <2>3, <2>4, <2>5 DEF File, Sound
  <2>7. TypeOK'
    BY <2>1, <2>6 DEF TypeOK, PC
  <2> QED
    BY <1>0, <2>1, <2>6, <2>7 DEF FileSound, Sound, MarksAgree, Commands, StartedFromFile
<1>2. CASE AddOpens
  <2>0. /\ pc = "list" /\ fname # <<>> /\ CanOpen /\ Selected.in_autorun = 0
        /\ Filled => buffer' = [Elements |-> startupcfg.Elements + 1,
                               entries |-> Append(Read(startupcfg.Elements), Selected.name)]
        /\ ~Filled => buffer' = [Elements |-> 1, entries |-> <<Selected.name>>]
    BY <1>2 DEF AddOpens, Adds
  <2>1. /\ Index \in Nat /\ Index + 1 \in DOMAIN fname /\ Index < Cardinality(disk)
        /\ Selected \in [name : Program, in_autorun : Nat]
    BY <2>0, SelectedIs
  <2>2. Place(Selected.name, startupcfg) = 0 /\ Selected.name \in Program
    BY <2>0, <2>1 DEF MarksAgree, Selected
  <2>3. buffer' \in File /\ Sound(buffer')
    <3>1. CASE Filled
      <4> DEFINE n == startupcfg.Elements
                 p == Selected.name
                 e == Append(Read(n), p)
      <4>1. n \in Nat /\ n = Len(startupcfg.entries)
        BY <3>1, FilledIsFile
      <4>2. /\ Read(n) \in Seq(Program) /\ Len(Read(n)) = n /\ IsInjective(Read(n))
            /\ \A i \in 1 .. n : Read(n)[i] = startupcfg.entries[i]
        BY <3>1, <4>1, ReadGives
      <4>3. \A i \in 1 .. n : startupcfg.entries[i] # p
        BY <2>2, <3>1, <4>1, FilledIsFile, HasPlace DEF Filled
      <4>4. e \in Seq(Program) /\ Len(e) = n + 1 /\ IsInjective(e)
        BY <2>2, <4>2, <4>3, AppendNew, AppendProperties
      <4>5. buffer' = [Elements |-> n + 1, entries |-> e]
        BY <2>0, <3>1
      <4> HIDE DEF n, p, e
      <4>6. buffer' = [Elements |-> Len(e), entries |-> e]
        BY <4>4, <4>5
      <4> QED
        BY <4>4, <4>6, MakesFile
    <3>2. CASE ~Filled
      <4> DEFINE e == <<Selected.name>>
      <4>1. e \in Seq(Program) /\ Len(e) = 1 /\ IsInjective(e)
        BY <2>2 DEF IsInjective
      <4>2. buffer' = [Elements |-> 1, entries |-> e]
        BY <2>0, <3>2
      <4> HIDE DEF e
      <4>3. buffer' = [Elements |-> Len(e), entries |-> e]
        BY <4>1, <4>2
      <4> QED
        BY <4>1, <4>3, MakesFile
    <3> QED
      BY <3>1, <3>2
  <2> USE <1>2 DEF AddOpens
  <2>4. TypeOK'
    BY <2>1, <2>3 DEF TypeOK, PC
  <2> QED
    BY <1>0, <2>1, <2>3, <2>4 DEF FileSound, Sound, MarksAgree, Commands, StartedFromFile
<1>3. CASE Write
  <2>1. /\ Update(disk', startupcfg', SelectedElf + 1, SelectedElf)
        /\ startupcfg' = buffer /\ buffer' = Empty
        /\ UNCHANGED <<disk, next, started>> /\ pc = "write"
    BY <1>3 DEF Write
  <2>2. /\ SelectedElf \in Nat /\ SelectedElf + 1 \in Nat
        /\ SelectedElf + 1 <= Cardinality(disk') /\ SelectedElf <= Cardinality(disk')
    BY <1>0, <2>1 DEF Commands, TypeOK
  <2>3. startupcfg' \in Files /\ Sound(startupcfg') /\ buffer' \in {Empty} \cup File /\ Sound(buffer')
    BY <2>1 DEF TypeOK, FileSound, Sound, Files
  <2> QED
    BY <2>1, <2>2, <2>3, UpdateStep DEF TypeOK
<1>4. CASE (AddFails \/ RemoveFails) /\ Update(disk, startupcfg, Index + 1, Index)
  <2>1. /\ Update(disk', startupcfg', Index + 1, Index)
        /\ UNCHANGED <<disk, startupcfg, next, buffer, started>>
        /\ pc = "list" /\ fname # <<>>
    BY <1>4 DEF AddFails, RemoveFails
  <2>2. /\ Index \in Nat /\ Index + 1 \in Nat
        /\ Index + 1 <= Cardinality(disk') /\ Index <= Cardinality(disk')
    BY <1>0, <2>1, SelectedIs
  <2> QED
    BY <2>1, <2>2, UpdateStep DEF TypeOK, FileSound, Files
<1>5. CASE RemoveFails /\ pc' = "wild" /\ UNCHANGED <<listVars, handles>>
  <2>1. TypeOK'
    BY <1>5 DEF RemoveFails, TypeOK, listVars, PC
  <2> QED
    BY <1>5, <2>1
    DEF RemoveFails, FileSound, Sound, MarksAgree, Commands, StartedFromFile, listVars
<1> QED
  BY <1>1, <1>2, <1>3, <1>4, <1>5 DEF AddFails, RemoveFails

\* Every reachable state satisfies the invariant.
LEMMA Em1Invariant == Spec => []IInv
<1>1. ASSUME IInv, [Next]_vars
      PROVE  IInv'
  <2>1. CASE UNCHANGED vars
    <3>1. TypeOK' /\ FileSound' /\ Commands' /\ StartedFromFile'
      BY <1>1, <2>1 DEF vars, listVars, IInv, TypeOK, FileSound, Sound, Commands, StartedFromFile, Filled
    <3>2. MarksAgree' /\ IsInjective(started)'
      BY <1>1, <2>1 DEF vars, listVars, IInv, MarksAgree, CanOpen, IsInjective
    <3> QED
      BY <3>1, <3>2 DEF IInv
  <2> QED
    BY <1>1, <2>1, SwitchingStep, ListStep, AutRunStep DEF Next
<1> QED
  BY <1>1, InitIInv, PTL DEF Spec

\* The variables keep their types, for any programs on the phone
\* (elfloader/loader.c).
THEOREM Em1Types == Spec => []TypeOK
<1>1. IInv => TypeOK
  BY DEF IInv
<1> QED
  BY <1>1, Em1Invariant, PTL

\* The file of programs to start is sound, however many handles the phone has
\* and whenever it is switched off (loader.c:479-600).
THEOREM FileStaysSound == Spec => []FileSound
<1>1. IInv => FileSound
  BY DEF IInv
<1> QED
  BY <1>1, Em1Invariant, PTL

\* The list shows what the file says as long as there is a handle
\* (loader.c:1361-1405).
THEOREM ListMatchesFile == Spec => []MarksAgree
<1>1. IInv => MarksAgree
  BY DEF IInv
<1> QED
  BY <1>1, Em1Invariant, PTL

\* Switching on starts each program of the file at most once (loader.c:1407).
THEOREM EachStartsOnce == Spec => []StartsOnce
<1>1. ASSUME IInv, pc = "autorun", NEW i \in DOMAIN started
      PROVE  Place(started[i], startupcfg) > 0
  <2>1. Filled
    BY <1>1 DEF IInv, StartedFromFile
  <2>2. PICK j \in 1 .. next - 1 : j <= Len(startupcfg.entries) /\ started[i] = startupcfg.entries[j]
    BY <1>1 DEF IInv, StartedFromFile
  <2>3. startupcfg \in File /\ startupcfg.Elements = Len(startupcfg.entries) /\ Len(startupcfg.entries) \in Nat
    BY <1>1, <2>1, FilledIsFile, LenProperties DEF IInv
  <2>4. j \in 1 .. Len(startupcfg.entries)
    BY <1>1, <2>2, <2>3 DEF IInv, TypeOK
  <2> QED
    BY <2>1, <2>2, <2>3, <2>4, HasPlace DEF Filled
<1>2. IInv => StartsOnce
  BY <1>1 DEF IInv, StartsOnce
<1> QED
  BY <1>2, Em1Invariant, PTL

=============================================================================
