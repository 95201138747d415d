-------------------------- MODULE Em2LoaderProofs --------------------------
(***************************************************************************)
(* The list and the event ranges of the EM2 loader, for any programs, any  *)
(* order of loads and unloads and any depth of nesting.                    *)
(***************************************************************************)
EXTENDS Em2Loader, SequenceTheorems, TLAPS

USE ElfAssumption, CodesAssumption

\* The programs whose entry points run are different, and none of them is on the list.
StackSound ==
  /\ \A k \in DOMAIN running : phase[running[k]] = "start"
  /\ \A j, k \in DOMAIN running : running[j] = running[k] => j = k

\* A range begins at the first value of the counter or above.
RangesAbove == \A k \in DOMAIN running : evcode[running[k]] = 0 => base[running[k]] >= EvBase

\* The inductive invariant of the loader.
Inv == TypeOK /\ StackSound /\ RangesAbove /\ StackRangesApart /\ ListIsSequence

-----------------------------------------------------------------------------
(* Sequences.                                                              *)

\* The sequence without its last element.
LEMMA FrontOf ==
  ASSUME NEW S, NEW s \in Seq(S), s # <<>>
  PROVE  /\ Front(s) \in Seq(S)
         /\ Len(Front(s)) = Len(s) - 1
         /\ \A k \in 1 .. Len(s) - 1 : Front(s)[k] = s[k]
         /\ Last(s) = s[Len(s)]
         /\ Len(s) \in Nat \ {0}
         /\ Last(s) \in S
<1>1. Len(s) \in Nat \ {0} /\ s \in [1 .. Len(s) -> S]
  OBVIOUS
<1>2. Front(s) = SubSeq(s, 1, Len(s) - 1)
  BY DEF Front
<1>3. /\ Front(s) \in Seq(S)
      /\ Len(Front(s)) = Len(s) - 1
      /\ \A k \in 1 .. Len(s) - 1 : Front(s)[k] = s[k]
  BY <1>1, <1>2, SubSeqProperties
<1> QED
  BY <1>1, <1>3 DEF Last

\* The sequence without its n-th element.
LEMMA RemoveAtOf ==
  ASSUME NEW S, NEW s \in Seq(S), NEW n \in 1 .. Len(s)
  PROVE  /\ RemoveAt(s, n) \in Seq(S)
         /\ Len(RemoveAt(s, n)) = Len(s) - 1
         /\ \A k \in 1 .. Len(s) - 1 : RemoveAt(s, n)[k] = IF k < n THEN s[k] ELSE s[k + 1]
<1> DEFINE a == SubSeq(s, 1, n - 1)
           b == SubSeq(s, n + 1, Len(s))
<1>1. a \in Seq(S) /\ Len(a) = n - 1 /\ \A k \in 1 .. n - 1 : a[k] = s[k]
  OBVIOUS
<1>2. b \in Seq(S) /\ Len(b) = Len(s) - n /\ \A k \in 1 .. Len(s) - n : b[k] = s[n + k]
  OBVIOUS
<1>3. RemoveAt(s, n) = a \o b
  BY DEF RemoveAt
<1> HIDE DEF a, b
<1>4. /\ a \o b \in Seq(S) /\ Len(a \o b) = Len(s) - 1
      /\ \A k \in 1 .. Len(s) - 1 : (a \o b)[k] = IF k <= n - 1 THEN a[k] ELSE b[k - (n - 1)]
  BY <1>1, <1>2, ConcatProperties
<1>5. \A k \in 1 .. Len(s) - 1 : (a \o b)[k] = IF k < n THEN s[k] ELSE s[k + 1]
  <2> TAKE k \in 1 .. Len(s) - 1
  <2>1. CASE k < n
    BY <1>1, <1>4, <2>1
  <2>2. CASE k >= n
    <3>1. k - (n - 1) \in 1 .. Len(s) - n /\ n + (k - (n - 1)) = k + 1
      BY <2>2
    <3> QED
      BY <1>2, <1>4, <2>2, <3>1
  <2>3. k < n \/ k >= n
    OBVIOUS
  <2> QED
    BY <2>1, <2>2, <2>3, Zenon
<1> QED
  BY <1>3, <1>4, <1>5, Zenon

-----------------------------------------------------------------------------
(* Types, the stack and the ranges on it.                                  *)

\* What the list operations do to the list's variables keeps their types.
LEMMA AddTypes ==
  ASSUME TypeOK, NEW e \in Elf, elfListAdd(e)
  PROVE  /\ root' \in Elf \cup {None} /\ tail' \in Elf \cup {None} /\ count' \in Nat
         /\ nextElf' \in [Elf -> Elf \cup {None}] /\ programs' \in Seq(Elf)
<1>1. root' \in Elf \cup {None} /\ tail' \in Elf \cup {None} /\ count' \in Nat
  BY DEF TypeOK, elfListAdd
<1>2. nextElf' \in [Elf -> Elf \cup {None}]
  BY DEF TypeOK, elfListAdd
<1>3. programs' \in Seq(Elf)
  BY DEF TypeOK, elfListAdd
<1> QED
  BY <1>1, <1>2, <1>3

\* Taking a program out keeps them, too.
LEMMA DelTypes ==
  ASSUME TypeOK, ListIsSequence, NEW e \in Elf, elfListFindAndDel(e)
  PROVE  /\ root' \in Elf \cup {None} /\ tail' \in Elf \cup {None} /\ count' \in Nat
         /\ nextElf' \in [Elf -> Elf \cup {None}] /\ programs' \in Seq(Elf)
<1>1. PICK n \in DOMAIN programs : programs[n] = e /\ programs' = RemoveAt(programs, n)
  BY DEF elfListFindAndDel
<1>2. n \in 1 .. Len(programs) /\ Len(programs) >= 1 /\ Len(programs) \in Nat
  BY <1>1 DEF TypeOK
<1>4. programs' \in Seq(Elf)
  BY <1>1, <1>2, RemoveAtOf DEF TypeOK
<1>5. root' \in Elf \cup {None} /\ tail' \in Elf \cup {None} /\ nextElf' \in [Elf -> Elf \cup {None}]
  <2>1. Before(e) \subseteq Elf
    BY DEF Before
  <2> USE DEF TypeOK
  <2>2. CASE Before(e) = {}
    <3>1. /\ root' = nextElf[e] /\ tail' \in {None, tail}
          /\ nextElf' = [nextElf EXCEPT ![e] = None]
      BY <2>2 DEF elfListFindAndDel
    <3> QED
      BY <3>1
  <2>3. CASE Before(e) # {}
    <3>1. PICK pelf \in Before(e) :
            /\ root' = root /\ tail' \in {pelf, tail}
            /\ nextElf' = [nextElf EXCEPT ![pelf] = nextElf[e], ![e] = None]
      BY <2>3 DEF elfListFindAndDel
    <3> QED
      BY <2>1, <3>1
  <2> QED
    BY <2>2, <2>3
<1>3. count' \in Nat
  BY <1>2 DEF TypeOK, ListIsSequence, elfListFindAndDel
<1> QED
  BY <1>3, <1>4, <1>5

\* A program that is started is not one that is being started or is on the list.
LEMMA StartKeeps ==
  ASSUME Inv, NEW e \in Elf, NEW code \in Nat, Start(e, code),
         base' = [base EXCEPT ![e] = IF code = 0 THEN evbase ELSE code],
         evbase' = IF code = 0 THEN evbase + Reserve ELSE evbase
  PROVE  Inv'
<1> DEFINE n == Len(running)
<1>1. /\ n \in Nat /\ DOMAIN running = 1 .. n
      /\ running' \in Seq(Elf) /\ DOMAIN running' = 1 .. n + 1
      /\ running'[n + 1] = e /\ \A k \in 1 .. n : running'[k] = running[k]
      /\ \A k \in 1 .. n : running[k] \in Elf /\ running[k] # e
  <2>1. running \in Seq(Elf) /\ running' = Append(running, e)
    BY DEF Inv, TypeOK, Start
  <2>2. /\ n \in Nat /\ DOMAIN running = 1 .. n
        /\ running' \in Seq(Elf) /\ DOMAIN running' = 1 .. n + 1
        /\ running'[n + 1] = e /\ \A k \in 1 .. n : running'[k] = running[k]
        /\ \A k \in 1 .. n : running[k] \in Elf
    BY <2>1
  <2>3. \A k \in 1 .. n : running[k] # e
    BY <2>2 DEF Inv, StackSound, Start
  <2> QED
    BY <2>2, <2>3
<1>2. TypeOK'
  BY <1>1 DEF Inv, TypeOK, Start, Phase, listVars
<1>3. StackSound'
  <2>1. phase \in [Elf -> Phase] /\ phase' = [phase EXCEPT ![e] = "start"]
    BY DEF Inv, TypeOK, Start
  <2>2. \A k \in 1 .. n : phase[running[k]] = "start"
    BY <1>1 DEF Inv, StackSound
  <2>3. \A j, k \in 1 .. n : running[j] = running[k] => j = k
    BY <1>1 DEF Inv, StackSound
  <2> HIDE DEF n
  <2>4. \A k \in 1 .. n + 1 : phase'[running'[k]] = "start"
    BY <1>1, <2>1, <2>2
  <2>5. \A j, k \in 1 .. n + 1 : running'[j] = running'[k] => j = k
    BY <1>1, <2>3
  <2> QED
    BY <1>1, <2>4, <2>5 DEF StackSound
<1>4. /\ \A k \in 1 .. n : evcode'[running'[k]] = evcode[running[k]] /\ base'[running'[k]] = base[running[k]]
      /\ evcode'[running'[n + 1]] = code /\ base'[running'[n + 1]] = (IF code = 0 THEN evbase ELSE code)
      /\ \A k \in 1 .. n : base[running[k]] \in Nat
  BY <1>1 DEF Inv, TypeOK, Start
<1>5. RangesAbove'
  <2>1. evcode'[running'[n + 1]] = 0 => base'[running'[n + 1]] >= EvBase
    BY <1>4 DEF Inv, TypeOK
  <2>2. \A k \in 1 .. n : evcode'[running'[k]] = 0 => base'[running'[k]] >= EvBase
    BY <1>1, <1>4 DEF Inv, RangesAbove
  <2> HIDE DEF n
  <2> QED
    BY <1>1, <2>1, <2>2 DEF RangesAbove
<1>6. StackRangesApart'
  <2> SUFFICES ASSUME NEW k \in 1 .. n + 1, evcode'[running'[k]] = 0
               PROVE  /\ base'[running'[k]] + Reserve <= evbase'
                      /\ \A j \in 1 .. k - 1 : evcode'[running'[j]] = 0 =>
                           base'[running'[j]] + Reserve <= base'[running'[k]]
    BY <1>1 DEF StackRangesApart
  <2>1. evbase \in Nat /\ evbase' \in Nat /\ evbase <= evbase'
    BY DEF Inv, TypeOK
  <2>4. \A i \in 1 .. n : evcode[running[i]] = 0 =>
          /\ base[running[i]] + Reserve <= evbase
          /\ \A j \in 1 .. i - 1 : evcode[running[j]] = 0 => base[running[j]] + Reserve <= base[running[i]]
    BY <1>1 DEF Inv, StackRangesApart
  <2> HIDE DEF n
  <2>2. CASE k \in 1 .. n
    <3>1. \A j \in 1 .. k - 1 : j \in 1 .. n
      BY <1>1, <2>2
    <3>2. base[running[k]] + Reserve <= evbase'
      BY <1>4, <2>1, <2>2, <2>4
    <3> QED
      BY <1>4, <2>2, <2>4, <3>1, <3>2
  <2>3. CASE k = n + 1
    <3>1. \A j \in 1 .. k - 1 : j \in 1 .. n
      BY <1>1, <2>3
    <3>2. code = 0 /\ base'[running'[k]] = evbase /\ evbase' = evbase + Reserve
      BY <1>4, <2>3
    <3> QED
      BY <1>4, <2>1, <2>4, <3>1, <3>2
  <2> QED
    BY <1>1, <2>2, <2>3
<1>7. ListIsSequence'
  BY DEF Inv, ListIsSequence, Start, TypeOK, listVars
<1> QED
  BY <1>2, <1>3, <1>5, <1>6, <1>7 DEF Inv

\* The innermost entry point ends, and its program is on the stack no longer.
LEMMA PopKeeps ==
  ASSUME Inv, NEW e \in Elf, Returning(e), running' = Front(running),
         evcode[e] # 0 => evbase' = evbase,
         evcode[e] = 0 => evbase' \in {evbase, evbase - Reserve},
         \A f \in Elf \ {e} : phase'[f] = phase[f] /\ base'[f] = base[f] /\ evcode'[f] = evcode[f]
  PROVE  /\ StackSound' /\ RangesAbove' /\ StackRangesApart'
         /\ running' \in Seq(Elf) /\ evbase' \in Nat /\ evbase' >= EvBase
         /\ phase[e] = "start"
<1> DEFINE n == Len(running)
<1>1. /\ n \in Nat /\ n >= 1 /\ DOMAIN running = 1 .. n /\ running[n] = e
      /\ running' \in Seq(Elf) /\ DOMAIN running' = 1 .. n - 1
      /\ \A k \in 1 .. n - 1 : running'[k] = running[k]
      /\ \A k \in 1 .. n - 1 : running[k] \in Elf \ {e}
      /\ phase[e] = "start"
  <2>1. running \in Seq(Elf) /\ running # <<>> /\ Last(running) = e
    BY DEF Inv, TypeOK, Returning
  <2>2. /\ n \in Nat /\ n >= 1 /\ DOMAIN running = 1 .. n /\ running[n] = e
        /\ running' \in Seq(Elf) /\ DOMAIN running' = 1 .. n - 1
        /\ \A k \in 1 .. n - 1 : running'[k] = running[k]
        /\ \A k \in 1 .. n : running[k] \in Elf
    BY <2>1, FrontOf
  <2> HIDE DEF n
  <2>3. phase[e] = "start" /\ \A k \in 1 .. n - 1 : running[k] # e
    BY <2>2 DEF Inv, StackSound
  <2> QED
    BY <2>2, <2>3
<1>2. /\ \A k \in 1 .. n - 1 : evcode'[running'[k]] = evcode[running[k]]
      /\ \A k \in 1 .. n - 1 : base'[running'[k]] = base[running[k]]
      /\ \A k \in 1 .. n - 1 : phase'[running'[k]] = phase[running[k]]
      /\ \A k \in 1 .. n : base[running[k]] \in Nat
  <2> HIDE DEF n
  <2>1. \A k \in 1 .. n : running[k] \in Elf
    BY <1>1
  <2>2. \A k \in 1 .. n - 1 : running'[k] = running[k] /\ running[k] \in Elf \ {e}
    BY <1>1
  <2>3. \A k \in 1 .. n - 1 : /\ evcode'[running'[k]] = evcode[running[k]]
                              /\ base'[running'[k]] = base[running[k]]
                              /\ phase'[running'[k]] = phase[running[k]]
    BY <2>2
  <2>4. base \in [Elf -> Nat]
    BY DEF Inv, TypeOK
  <2>5. \A k \in 1 .. n : base[running[k]] \in Nat
    BY <2>1, <2>4
  <2> QED
    BY <2>3, <2>5
<1> HIDE DEF n
<1>3. StackSound' /\ RangesAbove'
  <2>1. StackSound'
    BY <1>1, <1>2 DEF Inv, StackSound
  <2>2. RangesAbove'
    BY <1>1, <1>2 DEF Inv, RangesAbove
  <2> QED
    BY <2>1, <2>2
<1>4. evcode[e] = 0 => base[e] >= EvBase /\ base[e] + Reserve <= evbase
  BY <1>1 DEF Inv, RangesAbove, StackRangesApart
<1>5. evbase' \in Nat /\ evbase' >= EvBase
  BY <1>1, <1>2, <1>4 DEF Inv, TypeOK
<1>6. StackRangesApart'
  <2> SUFFICES ASSUME NEW k \in 1 .. n - 1, evcode'[running'[k]] = 0
               PROVE  /\ base'[running'[k]] + Reserve <= evbase'
                      /\ \A j \in 1 .. k - 1 : evcode'[running'[j]] = 0 =>
                           base'[running'[j]] + Reserve <= base'[running'[k]]
    BY <1>1 DEF StackRangesApart
  <2>1. evcode[running[k]] = 0 /\ base[running[k]] + Reserve <= evbase
    <3>1. k \in DOMAIN running /\ evcode[running[k]] = 0
      BY <1>1, <1>2
    <3> QED
      BY <3>1 DEF Inv, StackRangesApart
  <2>2. evcode[e] = 0 => base[running[k]] + Reserve <= base[e]
    <3>1. n \in DOMAIN running /\ k \in 1 .. n - 1 /\ running[n] = e
      BY <1>1
    <3> QED
      BY <2>1, <3>1 DEF Inv, StackRangesApart
  <2>3. base[running[k]] + Reserve <= evbase'
    <3>1. base[running[k]] \in Nat /\ base[e] \in Nat /\ evbase \in Nat /\ evcode[e] \in Nat
      BY <1>1, <1>2 DEF Inv, TypeOK
    <3> QED
      BY <1>4, <2>1, <2>2, <3>1
  <2>4. \A j \in 1 .. k - 1 : evcode[running[j]] = 0 => base[running[j]] + Reserve <= base[running[k]]
    BY <1>1, <2>1 DEF Inv, StackRangesApart
  <2>5. \A j \in 1 .. k - 1 : j \in 1 .. n - 1
    BY <1>1
  <2> QED
    BY <1>2, <2>3, <2>4, <2>5
<1> QED
  BY <1>1, <1>3, <1>5, <1>6

\* What the invariant says of the list, written out.
LEMMA ListUnfolds ==
  ASSUME Inv
  PROVE  LET n == Len(programs)
         IN  /\ n \in Nat
             /\ \A k \in 1 .. n : programs[k] \in Elf
             /\ \A k \in 1 .. n : phase[programs[k]] = "live"
             /\ \A k \in 1 .. n : nextElf[programs[k]] = IF k = n THEN None ELSE programs[k + 1]
             /\ \A j, k \in 1 .. n : programs[j] = programs[k] => j = k
             /\ \A f \in Elf : phase[f] = "live" => \E k \in 1 .. n : programs[k] = f
             /\ phase \in [Elf -> Phase] /\ nextElf \in [Elf -> Elf \cup {None}]
             /\ count = n
             /\ root = IF n = 0 THEN None ELSE programs[1]
             /\ tail = IF n = 0 THEN None ELSE programs[n]
BY DEF Inv, TypeOK, ListIsSequence

\* A program that was not on the list is added at its end.
LEMMA AddKeepsList ==
  ASSUME Inv, NEW e \in Elf, phase[e] # "live", elfListAdd(e), phase' = [phase EXCEPT ![e] = "live"]
  PROVE  ListIsSequence'
<1> DEFINE n == Len(programs)
<1>0. /\ n \in Nat
      /\ \A k \in 1 .. n : programs[k] \in Elf
      /\ \A k \in 1 .. n : phase[programs[k]] = "live"
      /\ \A k \in 1 .. n : nextElf[programs[k]] = IF k = n THEN None ELSE programs[k + 1]
      /\ \A j, k \in 1 .. n : programs[j] = programs[k] => j = k
      /\ \A f \in Elf : phase[f] = "live" => \E k \in 1 .. n : programs[k] = f
      /\ phase \in [Elf -> Phase] /\ nextElf \in [Elf -> Elf \cup {None}]
      /\ count = n
      /\ root = IF n = 0 THEN None ELSE programs[1]
      /\ tail = IF n = 0 THEN None ELSE programs[n]
  BY ListUnfolds
<1>1. /\ n \in Nat /\ Len(programs') = n + 1 /\ programs'[n + 1] = e
      /\ \A k \in 1 .. n : programs'[k] = programs[k] /\ programs[k] \in Elf /\ programs[k] # e
  <2>1. programs \in Seq(Elf) /\ programs' = Append(programs, e)
    BY DEF Inv, TypeOK, elfListAdd
  <2>2. Len(programs') = n + 1 /\ programs'[n + 1] = e /\ \A k \in 1 .. n : programs'[k] = programs[k]
    BY <2>1
  <2> HIDE DEF n
  <2>3. \A k \in 1 .. n : programs[k] \in Elf /\ programs[k] # e
    BY <1>0
  <2> QED
    BY <1>0, <2>2, <2>3
<1> HIDE DEF n
<1>2. count' = n + 1 /\ tail' = e
  BY <1>0 DEF elfListAdd
<1>3. root' = programs'[1]
  BY <1>0, <1>1 DEF elfListAdd
<1>4. \A k \in 1 .. n + 1 : phase'[programs'[k]] = "live"
  BY <1>0, <1>1
<1>6. \A j, k \in 1 .. n + 1 : programs'[j] = programs'[k] => j = k
  BY <1>0, <1>1
<1>7. ASSUME NEW f \in Elf, phase'[f] = "live" PROVE \E k \in 1 .. n + 1 : programs'[k] = f
  <2>1. CASE f = e
    BY <1>1, <2>1
  <2>2. CASE f # e
    <3>1. PICK k \in 1 .. n : programs[k] = f
      BY <1>0, <1>7, <2>2
    <3>2. k \in 1 .. n + 1 /\ programs'[k] = f
      BY <1>0, <1>1, <3>1
    <3> QED
      BY <3>2
  <2> QED
    BY <2>1, <2>2
<1>5. \A k \in 1 .. n + 1 : nextElf'[programs'[k]] = IF k = n + 1 THEN None ELSE programs'[k + 1]
  <2> SUFFICES ASSUME NEW k \in 1 .. n + 1
               PROVE  nextElf'[programs'[k]] = IF k = n + 1 THEN None ELSE programs'[k + 1]
    OBVIOUS
  <2>1. CASE k = n + 1
    BY <1>1, <2>1 DEF Inv, TypeOK, elfListAdd
  <2>2. CASE k = n
    BY <1>0, <1>1, <2>2 DEF elfListAdd
  <2>3. CASE k \in 1 .. n - 1
    <3>1. root # None /\ tail = programs[n] /\ programs[k] # programs[n] /\ programs[k] # e
      <4>1. n \in 1 .. n /\ 1 \in 1 .. n /\ k \in 1 .. n /\ k # n
        BY <1>0, <2>3
      <4>2. root = programs[1] /\ tail = programs[n]
        BY <1>0, <2>3
      <4>3. root # None
        BY <1>0, <4>1, <4>2
      <4>4. programs[k] # programs[n]
        BY <1>0, <4>1
      <4>5. programs[k] # e
        BY <1>1, <4>1
      <4> QED
        BY <4>2, <4>3, <4>4, <4>5
    <3>2. nextElf'[programs[k]] = nextElf[programs[k]]
      <4>1. programs[k] \in Elf /\ nextElf' = [nextElf EXCEPT ![tail] = e, ![e] = None]
        BY <1>0, <2>3, <3>1 DEF elfListAdd
      <4> QED
        BY <1>0, <3>1, <4>1
    <3> QED
      BY <1>0, <1>1, <2>3, <3>2
  <2> QED
    BY <1>1, <2>1, <2>2, <2>3
<1>8. n + 1 # 0
  BY <1>0
<1> QED
  BY <1>1, <1>2, <1>3, <1>4, <1>5, <1>6, <1>7, <1>8, Zenon DEF ListIsSequence

\* A program on the list is taken out, wherever it is.
LEMMA DelKeepsList ==
  ASSUME Inv, NEW e \in Elf, phase[e] = "live", elfListFindAndDel(e), phase' = [phase EXCEPT ![e] = "free"]
  PROVE  ListIsSequence'
<1> DEFINE n == Len(programs)
<1>0. /\ n \in Nat
      /\ \A k \in 1 .. n : programs[k] \in Elf
      /\ \A k \in 1 .. n : phase[programs[k]] = "live"
      /\ \A k \in 1 .. n : nextElf[programs[k]] = IF k = n THEN None ELSE programs[k + 1]
      /\ \A j, k \in 1 .. n : programs[j] = programs[k] => j = k
      /\ \A f \in Elf : phase[f] = "live" => \E k \in 1 .. n : programs[k] = f
      /\ phase \in [Elf -> Phase] /\ nextElf \in [Elf -> Elf \cup {None}]
      /\ count = n
      /\ root = IF n = 0 THEN None ELSE programs[1]
      /\ tail = IF n = 0 THEN None ELSE programs[n]
  BY ListUnfolds
<1>1. PICK m \in 1 .. n : programs[m] = e /\ programs' = RemoveAt(programs, m)
  BY DEF elfListFindAndDel, Inv, TypeOK
<1>2. /\ n \in Nat /\ n >= 1 /\ Len(programs') = n - 1
      /\ \A k \in 1 .. n - 1 : programs'[k] = IF k < m THEN programs[k] ELSE programs[k + 1]
  <2>1. programs \in Seq(Elf)
    BY DEF Inv, TypeOK
  <2>2. /\ Len(RemoveAt(programs, m)) = n - 1
        /\ \A k \in 1 .. n - 1 :
             RemoveAt(programs, m)[k] = IF k < m THEN programs[k] ELSE programs[k + 1]
    BY <2>1, RemoveAtOf
  <2>3. n >= 1
    BY <1>0
  <2> QED
    BY <1>0, <1>1, <2>2, <2>3, Zenon
<1> HIDE DEF n
<1>3. Before(e) = IF m = 1 THEN {} ELSE {programs[m - 1]}
  <2>1. \A p \in Before(e) : m > 1 /\ p = programs[m - 1]
    <3> SUFFICES ASSUME NEW p \in Before(e) PROVE m > 1 /\ p = programs[m - 1]
      OBVIOUS
    <3>1. PICK k \in 1 .. n : programs[k] = p
      BY <1>0 DEF Before
    <3>2. k # n /\ programs[k + 1] = programs[m]
      BY <1>0, <1>1, <3>1 DEF Before
    <3> QED
      BY <1>0, <1>1, <3>1, <3>2
  <2>2. m > 1 => programs[m - 1] \in Before(e)
    BY <1>0, <1>1 DEF Before
  <2> QED
    BY <1>1, <2>1, <2>2
<1>4. count' = n - 1
  BY <1>0 DEF elfListFindAndDel
<1>5. /\ m = 1 => /\ root' = nextElf[e]
                  /\ tail' = (IF nextElf[e] = None THEN None ELSE tail)
                  /\ nextElf' = [nextElf EXCEPT ![e] = None]
      /\ m > 1 => /\ root' = root
                  /\ tail' = (IF nextElf[e] = None THEN programs[m - 1] ELSE tail)
                  /\ nextElf' = [nextElf EXCEPT ![programs[m - 1]] = nextElf[e], ![e] = None]
  BY <1>1, <1>3 DEF elfListFindAndDel
<1>6. nextElf[e] = (IF m = n THEN None ELSE programs[m + 1]) /\ (nextElf[e] = None <=> m = n)
  BY <1>0, <1>1
<1>7. root' = IF n - 1 = 0 THEN None ELSE programs'[1]
  BY <1>0, <1>1, <1>2, <1>5, <1>6
<1>8. tail' = IF n - 1 = 0 THEN None ELSE programs'[n - 1]
  BY <1>0, <1>1, <1>2, <1>5, <1>6
<1>9. \A k \in 1 .. n - 1 : programs'[k] \in Elf \ {e} /\ phase'[programs'[k]] = "live"
  <2> TAKE k \in 1 .. n - 1
  <2>1. PICK j \in 1 .. n : j # m /\ programs'[k] = programs[j]
    BY <1>1, <1>2
  <2> QED
    BY <1>0, <1>1, <2>1
<1>10. \A j, k \in 1 .. n - 1 : programs'[j] = programs'[k] => j = k
  <2> TAKE j, k \in 1 .. n - 1
  <2> DEFINE at(x) == IF x < m THEN x ELSE x + 1
  <2>1. at(j) \in 1 .. n /\ at(k) \in 1 .. n /\ (at(j) = at(k) => j = k)
    BY <1>1, <1>2
  <2>2. programs'[j] = programs[at(j)] /\ programs'[k] = programs[at(k)]
    BY <1>2
  <2> HIDE DEF at
  <2> QED
    BY <1>0, <2>1, <2>2
<1>11. ASSUME NEW f \in Elf, phase'[f] = "live" PROVE \E k \in 1 .. n - 1 : programs'[k] = f
  <2>1. PICK k \in 1 .. n : programs[k] = f
    BY <1>0, <1>11
  <2>2. k # m
    BY <1>0, <1>1, <1>11, <2>1
  <2>3. CASE k < m
    BY <1>2, <2>1, <2>3
  <2>4. CASE k > m
    <3>1. k - 1 \in 1 .. n - 1 /\ programs'[k - 1] = f
      BY <1>2, <2>1, <2>4
    <3> QED
      BY <3>1
  <2> QED
    BY <2>2, <2>3, <2>4
<1>12. ASSUME NEW k \in 1 .. n - 1
       PROVE  nextElf'[programs'[k]] = IF k = n - 1 THEN None ELSE programs'[k + 1]
  <2>1. CASE k < m - 1
    <3>1. programs'[k] = programs[k] /\ programs'[k + 1] = programs[k + 1] /\ k # n - 1
      BY <1>2, <2>1
    <3>2. m > 1 /\ programs[k] # e /\ programs[k] # programs[m - 1] /\ programs[k] \in Elf
      BY <1>0, <1>1, <1>2, <2>1
    <3>3. nextElf'[programs[k]] = nextElf[programs[k]]
      BY <1>0, <1>5, <3>2
    <3> QED
      BY <1>0, <1>2, <2>1, <3>1, <3>3
  <2>2. CASE k = m - 1
    <3>1. programs'[k] = programs[m - 1] /\ m > 1 /\ (k # n - 1 => programs'[k + 1] = programs[m + 1])
      BY <1>2, <2>2
    <3>2. nextElf'[programs[m - 1]] = nextElf[e]
      <4>1. programs[m - 1] \in Elf /\ programs[m - 1] # e
        BY <1>0, <1>1, <1>2, <3>1
      <4> QED
        BY <1>0, <1>5, <3>1, <4>1
    <3>3. k = n - 1 <=> m = n
      BY <1>0, <1>1, <2>2
    <3> QED
      BY <1>6, <3>1, <3>2, <3>3
  <2>3. CASE k >= m
    <3>1. programs'[k] = programs[k + 1] /\ (k # n - 1 => programs'[k + 1] = programs[k + 2])
      BY <1>2, <2>3
    <3>2. /\ k + 1 \in 1 .. n /\ programs[k + 1] # e /\ programs[k + 1] \in Elf
          /\ m > 1 => programs[k + 1] # programs[m - 1]
      BY <1>0, <1>1, <1>2, <2>3
    <3>3. nextElf'[programs[k + 1]] = nextElf[programs[k + 1]]
      BY <1>0, <1>1, <1>5, <3>2
    <3>4. k + 1 = n <=> k = n - 1
      BY <1>0
    <3>5. nextElf[programs[k + 1]] = IF k + 1 = n THEN None ELSE programs[k + 2]
      BY <1>0, <3>2
    <3> QED
      BY <3>1, <3>3, <3>4, <3>5
  <2> QED
    BY <1>0, <1>1, <2>1, <2>2, <2>3
<1> QED
  BY <1>2, <1>4, <1>7, <1>8, <1>9, <1>10, <1>11, <1>12, Zenon DEF ListIsSequence

\* The list does not depend on programs that neither join nor leave it.
LEMMA OthersKeepList ==
  ASSUME Inv, UNCHANGED listVars,
         \A e \in Elf : phase'[e] = "live" <=> phase[e] = "live"
  PROVE  ListIsSequence'
<1> DEFINE n == Len(programs)
<1>0. /\ n \in Nat
      /\ \A k \in 1 .. n : programs[k] \in Elf
      /\ \A k \in 1 .. n : phase[programs[k]] = "live"
      /\ \A k \in 1 .. n : nextElf[programs[k]] = IF k = n THEN None ELSE programs[k + 1]
      /\ \A j, k \in 1 .. n : programs[j] = programs[k] => j = k
      /\ \A f \in Elf : phase[f] = "live" => \E k \in 1 .. n : programs[k] = f
      /\ phase \in [Elf -> Phase] /\ nextElf \in [Elf -> Elf \cup {None}]
      /\ count = n
      /\ root = IF n = 0 THEN None ELSE programs[1]
      /\ tail = IF n = 0 THEN None ELSE programs[n]
  BY ListUnfolds
<1>1. \A k \in 1 .. n : phase'[programs[k]] = "live"
  BY <1>0
<1>2. \A f \in Elf : phase'[f] = "live" => \E k \in 1 .. n : programs[k] = f
  BY <1>0
<1> QED
  BY <1>0, <1>1, <1>2, Zenon DEF ListIsSequence, listVars

-----------------------------------------------------------------------------
(* The invariant.                                                          *)

\* The loader starts with nothing loaded.
LEMMA InitInv == Init => Inv
BY DEF Init, Inv, TypeOK, Phase, StackSound, RangesAbove, StackRangesApart, ListIsSequence

\* Every step keeps the invariant.
LEMMA InvNext == Inv /\ [Next]_vars => Inv'
<1> SUFFICES ASSUME Inv, [Next]_vars PROVE Inv'
  OBVIOUS
<1>1. ASSUME NEW e \in Elf, NEW code \in OwnCode, StartWithOwnCode(e, code) PROVE Inv'
  BY <1>1, StartKeeps DEF StartWithOwnCode
<1>2. ASSUME NEW e \in Elf, StartFromCounter(e) PROVE Inv'
  BY <1>2, StartKeeps DEF StartFromCounter
<1>3. ASSUME NEW e \in Elf, ParseFails(e) PROVE Inv'
  <2>1. ListIsSequence'
    BY <1>3, OthersKeepList DEF ParseFails, Inv, TypeOK
  <2> QED
    BY <1>3, <2>1
       DEF ParseFails, Inv, TypeOK, Phase, StackSound, RangesAbove, StackRangesApart, codeVars, listVars
<1>4. ASSUME NEW e \in Elf, EntrySucceeds(e) PROVE Inv'
  <2>1. StackSound' /\ RangesAbove' /\ StackRangesApart' /\ running' \in Seq(Elf) /\ phase[e] = "start"
    BY <1>4, PopKeeps DEF EntrySucceeds, codeVars, Inv, TypeOK
  <2>2. ListIsSequence'
    BY <1>4, <2>1, AddKeepsList DEF EntrySucceeds
  <2>3. TypeOK'
    BY <1>4, <2>1, AddTypes DEF EntrySucceeds, codeVars, Inv, TypeOK, Phase
  <2> QED
    BY <2>1, <2>2, <2>3 DEF Inv
<1>5. ASSUME NEW e \in Elf, EntryFails(e) PROVE Inv'
  <2>1. /\ StackSound' /\ RangesAbove' /\ StackRangesApart' /\ running' \in Seq(Elf)
        /\ evbase' \in Nat /\ evbase' >= EvBase /\ phase[e] = "start"
    BY <1>5, PopKeeps DEF EntryFails, Free, Inv, TypeOK
  <2>2. ListIsSequence'
    BY <1>5, <2>1, OthersKeepList DEF EntryFails, Free, Inv, TypeOK
  <2>3. TypeOK'
    BY <1>5, <2>1 DEF EntryFails, Free, listVars, Inv, TypeOK, Phase
  <2> QED
    BY <2>1, <2>2, <2>3 DEF Inv
<1>6. ASSUME NEW e \in Elf, ldrUnloadElf(e) PROVE Inv'
  <2>1. ListIsSequence'
    BY <1>6, DelKeepsList DEF ldrUnloadElf, Free
  <2>2. TypeOK'
    BY <1>6, DelTypes DEF ldrUnloadElf, Free, Inv, TypeOK, Phase
  <2>3. \A k \in DOMAIN running : running[k] \in Elf \ {e}
    BY <1>6 DEF ldrUnloadElf, Inv, TypeOK, StackSound
  <2>4. /\ evbase' = evbase /\ running' = running
        /\ \A k \in DOMAIN running : /\ phase'[running[k]] = phase[running[k]]
                                      /\ base'[running[k]] = base[running[k]]
                                      /\ evcode'[running[k]] = evcode[running[k]]
    BY <1>6, <2>3 DEF ldrUnloadElf, Free, Inv, TypeOK
  <2>5. StackSound' /\ RangesAbove'
    BY <2>4 DEF Inv, StackSound, RangesAbove
  <2>6. StackRangesApart'
    <3>1. \A k \in DOMAIN running : \A j \in 1 .. k - 1 : j \in DOMAIN running
      BY DEF Inv, TypeOK
    <3> QED
      BY <2>4, <3>1 DEF Inv, StackRangesApart
  <2> QED
    BY <2>1, <2>2, <2>5, <2>6 DEF Inv
<1>7. CASE UNCHANGED vars
  BY <1>7 DEF vars, codeVars, listVars, Inv, TypeOK, StackSound, RangesAbove, StackRangesApart, ListIsSequence
<1> QED
  BY <1>1, <1>2, <1>3, <1>4, <1>5, <1>6, <1>7 DEF Next

\* So it holds always.
LEMMA SpecInv == Spec => []Inv
BY InitInv, InvNext, PTL DEF Spec

\* Every variable keeps its type, and evbase never falls below its first value,
\* whatever entry points fail.
THEOREM Em2Types == Spec => []TypeOK
BY SpecInv, PTL DEF Inv

\* root, tail, next and count always describe the live programs, in the order in which
\* they were added; no pointer of the list leads to freed memory.
THEOREM ListIsSound == Spec => []ListIsSequence
BY SpecInv, PTL DEF Inv

\* Programs whose entry points run have event ranges of their own, however deep they
\* nest and whatever has failed before.
THEOREM StackRanges == Spec => []StackRangesApart
BY SpecInv, PTL DEF Inv

-----------------------------------------------------------------------------
(* The ranges of live programs.                                            *)

\* A range can be given out twice only after an entry point that has loaded another
\* program fails.
THEOREM LateFailureAlone == Spec => OnlyLateFailureOverlaps
<1>1. ASSUME Inv, [Next]_vars, RangesApart, ~ \E d \in Elf : FailsAfterLoading(d)
      PROVE  RangesApart'
  <2>1. \A e \in Ranged : base[e] \in Nat /\ base[e] + Reserve <= evbase
    BY <1>1 DEF Inv, TypeOK, Ranged, RangesApart
  <2>10. \A e \in Elf : Returning(e) => phase[e] = "start"
    <3> SUFFICES ASSUME NEW e \in Elf, Returning(e) PROVE phase[e] = "start"
      OBVIOUS
    <3>1. running \in Seq(Elf) /\ running # <<>> /\ Last(running) = e
      BY <1>1 DEF Inv, TypeOK, Returning
    <3>2. running[Len(running)] = e /\ Len(running) \in DOMAIN running
      BY <3>1, FrontOf
    <3> QED
      BY <1>1, <3>2 DEF Inv, StackSound
  <2>2. ASSUME Ranged' \subseteq Ranged, \A e \in Ranged' : base'[e] = base[e], evbase' = evbase
        PROVE  RangesApart'
    BY <1>1, <2>2 DEF RangesApart
  <2>3. ASSUME NEW e \in Elf, NEW code \in OwnCode, StartWithOwnCode(e, code) PROVE RangesApart'
    BY <1>1, <2>2, <2>3 DEF StartWithOwnCode, Start, Inv, TypeOK, Ranged
  <2>4. ASSUME NEW e \in Elf, StartFromCounter(e) PROVE RangesApart'
    <3>1. /\ Ranged' \subseteq Ranged \cup {e} /\ e \notin Ranged /\ base'[e] = evbase
          /\ evbase' = evbase + Reserve /\ evbase \in Nat
      BY <1>1, <2>4 DEF StartFromCounter, Start, Inv, TypeOK, Ranged
    <3>2. \A f \in Ranged : base'[f] = base[f]
      BY <1>1, <2>4, <3>1 DEF StartFromCounter, Inv, TypeOK, Ranged
    <3> QED
      BY <1>1, <2>1, <3>1, <3>2 DEF RangesApart
  <2>5. ASSUME NEW e \in Elf, ParseFails(e) PROVE RangesApart'
    BY <1>1, <2>2, <2>5 DEF ParseFails, codeVars, Inv, TypeOK, Ranged
  <2>6. ASSUME NEW e \in Elf, EntrySucceeds(e) PROVE RangesApart'
    BY <1>1, <2>2, <2>6, <2>10 DEF EntrySucceeds, codeVars, Inv, TypeOK, Ranged
  <2>7. ASSUME NEW e \in Elf, EntryFails(e) PROVE RangesApart'
    <3>1. Ranged' \subseteq Ranged /\ e \notin Ranged' /\ \A f \in Ranged' : base'[f] = base[f]
      BY <1>1, <2>7 DEF EntryFails, Free, Inv, TypeOK, Ranged
    <3>2. CASE evcode[e] # 0
      BY <2>2, <2>7, <3>1, <3>2 DEF EntryFails
    <3>3. CASE evcode[e] = 0
      <4>1. e \in Ranged /\ evbase' = evbase - Reserve /\ evbase \in Nat
        BY <1>1, <2>7, <2>10, <3>3 DEF EntryFails, Ranged, Inv, TypeOK
      <4>2. \A f \in Ranged' : base[f] + Reserve <= base[e]
        BY <1>1, <2>1, <2>7, <3>1, <3>3, <4>1 DEF FailsAfterLoading, RangesApart
      <4> QED
        BY <1>1, <2>1, <3>1, <4>1, <4>2 DEF RangesApart
    <3> QED
      BY <3>2, <3>3
  <2>8. ASSUME NEW e \in Elf, ldrUnloadElf(e) PROVE RangesApart'
    BY <1>1, <2>2, <2>8 DEF ldrUnloadElf, Free, Inv, TypeOK, Ranged
  <2>9. CASE UNCHANGED vars
    BY <2>2, <2>9 DEF vars, codeVars, Ranged
  <2> HIDE DEF RangesApart
  <2> QED
    BY <1>1, <2>3, <2>4, <2>5, <2>6, <2>7, <2>8, <2>9 DEF Next
<1> QED
  BY <1>1, SpecInv, PTL DEF Spec, Inv, OnlyLateFailureOverlaps

=============================================================================
