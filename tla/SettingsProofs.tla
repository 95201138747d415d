--------------------------- MODULE SettingsProofs ---------------------------
(***************************************************************************)
(* Proofs about Settings, for any heap, any string fields and texts, and   *)
(* any library files. What the search answers comes first: it is about     *)
(* data only.                                                              *)
(***************************************************************************)
EXTENDS Settings, SequenceTheorems, WellFoundedInduction, TLAPS

-----------------------------------------------------------------------------
(* The search. It is a recursive function, and to the provers a CHOOSE:    *)
(* that there is one and what it answers is shown each time by a least     *)
(* counterexample, over the length of the interval.                        *)

\* A set of numbers that is not empty has a least element.
LEMMA Smallest ==
  ASSUME NEW T \in SUBSET Nat, T # {}
  PROVE  \E n \in T : \A m \in T : n <= m
<1> DEFINE R == OpToRel(<, Nat)
<1>1. IsWellFoundedOn(R, Nat)
  BY NatLessThanWellFounded
<1>2. \A x, y \in Nat : (<<y, x>> \in R) <=> y < x
  BY DEF OpToRel
<1> HIDE DEF R
<1>3. PICK x \in T : \A y \in T : ~ (<<y, x>> \in R)
  BY <1>1, WFMin
<1>4. ASSUME NEW y \in T PROVE x <= y
  <2>1. x \in Nat /\ y \in Nat
    OBVIOUS
  <2>2. ~ (y < x)
    BY <1>2, <1>3, <2>1
  <2> QED
    BY <2>1, <2>2
<1> QED
  BY <1>4

\* The intervals of a library with n constants that the search may come to.
Intervals(n) == (0 .. n) \X (-1 .. n - 1)

Middle(i) == (i[1] + i[2]) \div 2

\* What the search answers for interval i, when at is what it answers for smaller ones.
Answer(at, i, id, ids, vals) ==
  IF i[2] < i[1] THEN NoConst
  ELSE IF id < ids[Middle(i) + 1] THEN at[<<i[1], Middle(i) - 1>>]
  ELSE IF id > ids[Middle(i) + 1] THEN at[<<Middle(i) + 1, i[2]>>]
  ELSE vals[Middle(i) + 1]

\* at answers for the intervals of k constants and fewer.
Answers(at, k, n, id, ids, vals) ==
  \A i \in Intervals(n) : i[2] - i[1] < k => at[i] = Answer(at, i, id, ids, vals)

\* The two parts an interval is cut into are intervals, and smaller.
LEMMA Halves ==
  ASSUME NEW n \in Nat, NEW i \in Intervals(n), i[1] <= i[2]
  PROVE  /\ Middle(i) \in i[1] .. i[2]
         /\ <<i[1], Middle(i) - 1>> \in Intervals(n)
         /\ <<Middle(i) + 1, i[2]>> \in Intervals(n)
<1>1. i[1] \in 0 .. n /\ i[2] \in -1 .. n - 1
  BY DEF Intervals
<1>2. Middle(i) \in i[1] .. i[2]
  <2> DEFINE a == i[1]
             b == i[2]
  <2>1. a \in Nat /\ b \in Nat /\ a <= b
    BY <1>1
  <2> HIDE DEF a, b
  <2>2. (a + b) \div 2 \in a .. b
    BY <2>1
  <2> QED
    BY <2>2 DEF Middle, a, b
<1> QED
  BY <1>1, <1>2 DEF Intervals

\* The search can be defined for intervals of any length.
LEMMA AnswersExist ==
  ASSUME NEW n \in Nat, NEW id, NEW ids, NEW vals, NEW k \in Nat
  PROVE  \E at : Answers(at, k, n, id, ids, vals)
<1> DEFINE T == {j \in Nat : ~ \E at : Answers(at, j, n, id, ids, vals)}
<1> SUFFICES ASSUME T # {} PROVE FALSE
  OBVIOUS
<1>1. PICK m \in T : \A j \in T : m <= j
  <2>1. T \in SUBSET Nat
    OBVIOUS
  <2> HIDE DEF T
  <2> QED
    BY <2>1, Smallest
<1>2. PICK f : m # 0 => Answers(f, m - 1, n, id, ids, vals)
  <2>1. CASE m = 0
    BY <2>1
  <2>2. CASE m # 0
    <3>1. m - 1 \in Nat /\ m - 1 \notin T
      BY <1>1, <2>2
    <3> QED
      BY <3>1
  <2> QED
    BY <2>1, <2>2
<1> DEFINE g == [i \in Intervals(n) |-> Answer(f, i, id, ids, vals)]
<1>3. ASSUME NEW i \in Intervals(n), i[2] - i[1] < m
      PROVE  g[i] = Answer(g, i, id, ids, vals)
  <2>1. i[1] \in Int /\ i[2] \in Int
    BY DEF Intervals
  <2>2. g[i] = Answer(f, i, id, ids, vals)
    OBVIOUS
  <2>3. CASE i[2] < i[1]
    BY <2>2, <2>3 DEF Answer
  <2>4. CASE i[1] <= i[2]
    <3>0. m # 0 /\ m \in Nat
      BY <1>3, <2>1, <2>4
    <3>1. ASSUME NEW h \in Intervals(n), h[2] - h[1] < m - 1
          PROVE  g[h] = f[h]
      BY <1>2, <3>0, <3>1 DEF Answers
    <3> HIDE DEF g
    <3>2. Middle(i) \in i[1] .. i[2]
      BY <2>4, Halves
    <3>3. g[<<i[1], Middle(i) - 1>>] = f[<<i[1], Middle(i) - 1>>]
      <4> DEFINE h == <<i[1], Middle(i) - 1>>
      <4>1. h \in Intervals(n)
        BY <2>4, Halves
      <4>2. h[2] - h[1] < m - 1
        BY <1>3, <2>1, <3>0, <3>2
      <4> HIDE DEF h
      <4>3. g[h] = f[h]
        BY <3>1, <4>1, <4>2
      <4> QED
        BY <4>3 DEF h
    <3>4. g[<<Middle(i) + 1, i[2]>>] = f[<<Middle(i) + 1, i[2]>>]
      <4> DEFINE h == <<Middle(i) + 1, i[2]>>
      <4>1. h \in Intervals(n)
        BY <2>4, Halves
      <4>2. h[2] - h[1] < m - 1
        BY <1>3, <2>1, <3>0, <3>2
      <4> HIDE DEF h
      <4>3. g[h] = f[h]
        BY <3>1, <4>1, <4>2
      <4> QED
        BY <4>3 DEF h
    <3> QED
      BY <2>2, <3>3, <3>4 DEF Answer
  <2> QED
    BY <2>1, <2>3, <2>4
<1> HIDE DEF g
<1>4. Answers(g, m, n, id, ids, vals)
  BY <1>3 DEF Answers
<1> QED
  BY <1>1, <1>4

\* The search of a library is a function that answers for all its intervals.
LEMMA SearchIs ==
  ASSUME NEW id, NEW l, l.count \in Nat
  PROVE  \E at : /\ \A i \in Intervals(l.count) :
                      at[i] = Answer(at, i, id, heap[l.ID], heap[l.Vals])
                 /\ Search(id, l) = at[<<0, l.count - 1>>]
<1> DEFINE n == l.count
           ids == heap[l.ID]
           vals == heap[l.Vals]
           C == CHOOSE at : at = [i \in Intervals(n) |-> Answer(at, i, id, ids, vals)]
<1>1. Search(id, l) = C[<<0, n - 1>>]
  BY DEF Search, Answer, Middle, Intervals
<1>2. \E at : at = [i \in Intervals(n) |-> Answer(at, i, id, ids, vals)]
  <2>1. PICK f : Answers(f, n, n, id, ids, vals)
    BY AnswersExist
  <2> DEFINE g == [i \in Intervals(n) |-> f[i]]
  <2>2. ASSUME NEW i \in Intervals(n)
        PROVE  f[i] = Answer(g, i, id, ids, vals)
    <3>1. i[1] \in 0 .. n /\ i[2] \in -1 .. n - 1
      BY DEF Intervals
    <3>2. f[i] = Answer(f, i, id, ids, vals)
      <4>1. CASE i[2] - i[1] < n
        BY <2>1, <4>1 DEF Answers
      <4> QED
        BY <3>1, <4>1
    <3>3. CASE i[2] < i[1]
      BY <3>2, <3>3 DEF Answer
    <3>4. CASE i[1] <= i[2]
      <4>1. /\ g[<<i[1], Middle(i) - 1>>] = f[<<i[1], Middle(i) - 1>>]
            /\ g[<<Middle(i) + 1, i[2]>>] = f[<<Middle(i) + 1, i[2]>>]
        BY <3>4, Halves
      <4> HIDE DEF g
      <4> QED
        BY <3>2, <4>1 DEF Answer
    <3> QED
      BY <3>1, <3>3, <3>4
  <2>3. g = [i \in Intervals(n) |-> Answer(g, i, id, ids, vals)]
    <3> DEFINE G == g
    <3>1. \A i \in Intervals(n) : f[i] = Answer(G, i, id, ids, vals)
      BY <2>2
    <3> HIDE DEF G
    <3>2. [i \in Intervals(n) |-> f[i]] = [i \in Intervals(n) |-> Answer(G, i, id, ids, vals)]
      BY <3>1
    <3> QED
      BY <3>2 DEF G
  <2> HIDE DEF g
  <2> QED
    BY <2>3
<1>3. C = [i \in Intervals(n) |-> Answer(C, i, id, ids, vals)]
  BY <1>2
<1> HIDE DEF C
<1>4. \A i \in Intervals(n) : C[i] = Answer(C, i, id, ids, vals)
  BY <1>3
<1> QED
  BY <1>1, <1>4

\* The places of the constants called id.
Listed(id, ids) == {i \in DOMAIN ids : ids[i] = id}

\* What the search has to answer.
Right(answer, id, ids, vals) ==
  IF Listed(id, ids) = {} THEN answer = NoConst
  ELSE \E i \in Listed(id, ids) : answer = vals[i]

\* In a sorted library, what answers for all intervals answers right for every interval
\* that all constants called id are in.
LEMMA AnswersRight ==
  ASSUME NEW n \in Nat, NEW id \in Nat, NEW ids \in [1 .. n -> Nat], NEW vals, NEW at,
         \A i, j \in 1 .. n : i <= j => ids[i] <= ids[j],
         \A i \in Intervals(n) : at[i] = Answer(at, i, id, ids, vals),
         NEW i \in Intervals(n), \A j \in Listed(id, ids) : j - 1 \in i[1] .. i[2]
  PROVE  Right(at[i], id, ids, vals)
<1> DEFINE Within(h) == \A j \in Listed(id, ids) : j - 1 \in h[1] .. h[2]
           Wrong(h) == Within(h) /\ ~Right(at[h], id, ids, vals)
           T == {k \in Nat : \E h \in Intervals(n) : h[2] - h[1] < k /\ Wrong(h)}
<1>1. CASE T = {}
  <2>1. \A h \in Intervals(n) : h[2] - h[1] < n + 1
    BY DEF Intervals
  <2>2. n + 1 \in Nat /\ n + 1 \notin T
    <3> HIDE DEF T
    <3> QED
      BY <1>1
  <2> QED
    BY <2>1, <2>2
<1>2. CASE T # {}
  <2>1. PICK m \in T : \A k \in T : m <= k
    <3>1. T \in SUBSET Nat
      OBVIOUS
    <3> HIDE DEF T
    <3> QED
      BY <1>2, <3>1, Smallest
  <2>2. PICK h \in Intervals(n) : h[2] - h[1] < m /\ Wrong(h)
    BY <2>1
  <2>3. h[1] \in 0 .. n /\ h[2] \in -1 .. n - 1 /\ m \in Nat
    BY DEF Intervals
  <2>4. at[h] = Answer(at, h, id, ids, vals)
    OBVIOUS
  <2>5. DOMAIN ids = 1 .. n
    OBVIOUS
  <2>6. CASE h[2] < h[1]
    <3>1. Listed(id, ids) = {}
      BY <2>2, <2>3, <2>6
    <3> QED
      BY <2>2, <2>4, <2>6, <3>1 DEF Answer, Right
  <2>7. CASE h[1] <= h[2]
    <3> DEFINE mid == Middle(h)
    <3>1. mid \in h[1] .. h[2] /\ mid + 1 \in 1 .. n
      <4>1. mid \in h[1] .. h[2]
        BY <2>7, Halves
      <4> HIDE DEF mid
      <4> QED
        BY <2>3, <2>7, <4>1
    <3>2. m # 0
      BY <2>2, <2>3, <2>7
    <3>3. ASSUME NEW g \in Intervals(n), g[2] - g[1] < m - 1, Within(g), at[h] = at[g]
          PROVE  FALSE
      <4>1. m - 1 \in Nat /\ Wrong(g)
        BY <2>2, <2>3, <3>2, <3>3
      <4>2. m - 1 \in T
        BY <3>3, <4>1
      <4> QED
        BY <2>1, <2>3, <4>2
    <3>4. CASE id < ids[mid + 1]
      <4> DEFINE g == <<h[1], mid - 1>>
      <4>1. g \in Intervals(n) /\ g[1] = h[1] /\ g[2] = mid - 1
        BY <2>7, Halves
      <4>2. at[h] = at[g]
        BY <2>4, <2>7, <2>3, <3>4 DEF Answer
      <4>3. g[2] - g[1] < m - 1
        BY <2>2, <2>3, <3>1, <4>1
      <4>4. Within(g)
        <5>1. ASSUME NEW j \in Listed(id, ids) PROVE j - 1 \in h[1] .. mid - 1
          <6>1. j \in 1 .. n /\ ids[j] = id /\ j - 1 \in h[1] .. h[2]
            BY <2>2 DEF Listed
          <6>2. ~(mid + 1 <= j)
            BY <3>1, <3>4, <6>1
          <6> QED
            BY <2>3, <3>1, <6>1, <6>2
        <5> QED
          BY <4>1, <5>1
      <4> HIDE DEF g
      <4> QED
        BY <3>3, <4>1, <4>2, <4>3, <4>4
    <3>5. CASE id > ids[mid + 1]
      <4> DEFINE g == <<mid + 1, h[2]>>
      <4>1. g \in Intervals(n) /\ g[1] = mid + 1 /\ g[2] = h[2]
        BY <2>7, Halves
      <4>2. at[h] = at[g]
        BY <2>4, <2>7, <2>3, <3>1, <3>5 DEF Answer
      <4>3. g[2] - g[1] < m - 1
        BY <2>2, <2>3, <3>1, <4>1
      <4>4. Within(g)
        <5>1. ASSUME NEW j \in Listed(id, ids) PROVE j - 1 \in mid + 1 .. h[2]
          <6>1. j \in 1 .. n /\ ids[j] = id /\ j - 1 \in h[1] .. h[2]
            BY <2>2 DEF Listed
          <6>2. ~(j <= mid + 1)
            BY <3>1, <3>5, <6>1
          <6> QED
            BY <2>3, <3>1, <6>1, <6>2
        <5> QED
          BY <4>1, <5>1
      <4> HIDE DEF g
      <4> QED
        BY <3>3, <4>1, <4>2, <4>3, <4>4
    <3>6. CASE id = ids[mid + 1]
      <4>1. at[h] = vals[mid + 1]
        BY <2>4, <2>7, <2>3, <3>6 DEF Answer
      <4>2. mid + 1 \in Listed(id, ids)
        BY <3>1, <3>6 DEF Listed
      <4> QED
        BY <2>2, <4>1, <4>2 DEF Right
    <3>7. ids[mid + 1] \in Nat
      BY <3>1
    <3> QED
      BY <3>4, <3>5, <3>6, <3>7
  <2> QED
    BY <2>3, <2>6, <2>7
<1> QED
  BY <1>1, <1>2

\* The search of a sorted library finds a constant there is, and none that is not.
LEMMA SearchRight ==
  ASSUME NEW id \in Nat, NEW l, l.count \in Nat,
         heap[l.ID] \in [1 .. l.count -> Nat],
         \A i, j \in 1 .. l.count : i <= j => heap[l.ID][i] <= heap[l.ID][j]
  PROVE  Right(Search(id, l), id, heap[l.ID], heap[l.Vals])
<1> DEFINE n == l.count
           ids == heap[l.ID]
           vals == heap[l.Vals]
           i == <<0, n - 1>>
<1>1. PICK at : /\ \A h \in Intervals(n) : at[h] = Answer(at, h, id, ids, vals)
                /\ Search(id, l) = at[i]
  BY SearchIs
<1>2. i \in Intervals(n) /\ i[1] = 0 /\ i[2] = n - 1
  BY DEF Intervals
<1>3. \A j \in Listed(id, ids) : j - 1 \in i[1] .. i[2]
  BY <1>2 DEF Listed
<1> HIDE DEF i, n, ids, vals
<1>4. /\ n \in Nat /\ ids \in [1 .. n -> Nat]
      /\ \A h, j \in 1 .. n : h <= j => ids[h] <= ids[j]
  BY DEF n, ids
<1>5. Right(at[i], id, ids, vals)
  BY <1>1, <1>2, <1>3, <1>4, AnswersRight
<1> QED
  BY <1>1, <1>5 DEF ids, vals

-----------------------------------------------------------------------------
(* The loader's steps.                                                     *)

USE FieldAssumption, HeapAssumption, TableAssumption

-----------------------------------------------------------------------------
(* OwnedOnce, holder by holder.                                            *)

\* What p points at, if it is a block, is allocated.
Live(p) == p \in Block => heap[p] # Free

\* p and q are not the same block.
Apart(p, q) == p \in Block => p # q

\* Every pointer of the loader and the program is live.
AllLive ==
  /\ \A f \in Field : Live(Config[f]) /\ Live(own[f])
  /\ Live(lib.fn) /\ Live(lib.ID) /\ Live(lib.Vals) /\ Live(buf)

\* The strings are apart from each other and from everything else.
StringsApart ==
  /\ \A f, g \in Field : f # g => Apart(Config[f], Config[g]) /\ Apart(own[f], own[g])
  /\ \A f, g \in Field : Apart(Config[f], own[g])
  /\ \A f \in Field :
       /\ Apart(Config[f], lib.fn) /\ Apart(Config[f], lib.ID)
       /\ Apart(Config[f], lib.Vals) /\ Apart(Config[f], buf)
       /\ Apart(own[f], lib.fn) /\ Apart(own[f], lib.ID)
       /\ Apart(own[f], lib.Vals) /\ Apart(own[f], buf)

\* So are the parts of the library and the file being read.
PartsApart ==
  /\ Apart(lib.fn, lib.ID) /\ Apart(lib.fn, lib.Vals) /\ Apart(lib.ID, lib.Vals)
  /\ Apart(lib.fn, buf) /\ Apart(lib.ID, buf) /\ Apart(lib.Vals, buf)

Flat == AllLive /\ StringsApart /\ PartsApart

\* The holders, by name.
InConfig(f) == [who |-> "Config", field |-> f]
InOwn(f) == [who |-> "own", field |-> f]
InFn == [who |-> "fn"]
InID == [who |-> "ID"]
InVals == [who |-> "Vals"]
InBuf == [who |-> "buf"]

\* They are all there is.
LEMMA HoldersAre ==
  ASSUME NEW h \in Holder
  PROVE  \/ \E f \in Field : h = InConfig(f)
         \/ \E f \in Field : h = InOwn(f)
         \/ h = InFn \/ h = InID \/ h = InVals \/ h = InBuf
BY DEF Holder, InConfig, InOwn, InFn, InID, InVals, InBuf

\* Each of them is one.
LEMMA AreHolders ==
  /\ \A f \in Field : InConfig(f) \in Holder /\ InOwn(f) \in Holder
  /\ InFn \in Holder /\ InID \in Holder /\ InVals \in Holder /\ InBuf \in Holder
BY DEF Holder, InConfig, InOwn, InFn, InID, InVals, InBuf

\* They differ.
LEMMA HoldersDiffer ==
  /\ \A f, g \in Field : f # g => InConfig(f) # InConfig(g) /\ InOwn(f) # InOwn(g)
  /\ \A f, g \in Field : InConfig(f) # InOwn(g)
  /\ \A f \in Field :
       /\ InConfig(f) # InFn /\ InConfig(f) # InID /\ InConfig(f) # InVals /\ InConfig(f) # InBuf
       /\ InOwn(f) # InFn /\ InOwn(f) # InID /\ InOwn(f) # InVals /\ InOwn(f) # InBuf
  /\ InFn # InID /\ InFn # InVals /\ InFn # InBuf
  /\ InID # InVals /\ InID # InBuf /\ InVals # InBuf
BY DEF InConfig, InOwn, InFn, InID, InVals, InBuf

\* Where they point.
LEMMA HoldersPoint ==
  /\ \A f \in Field : Pointer(InConfig(f)) = Config[f] /\ Pointer(InOwn(f)) = own[f]
  /\ Pointer(InFn) = lib.fn /\ Pointer(InID) = lib.ID
  /\ Pointer(InVals) = lib.Vals /\ Pointer(InBuf) = buf
BY DEF Pointer, InConfig, InOwn, InFn, InID, InVals, InBuf

\* OwnedOnce says what Flat says.
LEMMA OwnedIsFlat == OwnedOnce <=> Flat
<1>1. OwnedOnce => Flat
  <2> SUFFICES ASSUME OwnedOnce PROVE Flat
    OBVIOUS
  <2>1. ASSUME NEW h \in Holder
        PROVE  Live(Pointer(h))
    BY DEF OwnedOnce, Live
  <2>2. ASSUME NEW h \in Holder, NEW k \in Holder, h # k
        PROVE  Apart(Pointer(h), Pointer(k))
    BY <2>2 DEF OwnedOnce, Apart
  <2>3. AllLive
    <3>1. ASSUME NEW f \in Field
          PROVE  Live(Config[f]) /\ Live(own[f])
      <4>1. Live(Pointer(InConfig(f))) /\ Live(Pointer(InOwn(f)))
        BY <2>1, AreHolders
      <4> QED
        BY <4>1, HoldersPoint
    <3>2. Live(Pointer(InFn)) /\ Live(Pointer(InID)) /\ Live(Pointer(InVals)) /\ Live(Pointer(InBuf))
      BY <2>1, AreHolders
    <3> QED
      BY <3>1, <3>2, HoldersPoint DEF AllLive
  <2>4. StringsApart
    <3>1. ASSUME NEW f \in Field, NEW g \in Field
          PROVE  /\ f # g => Apart(Config[f], Config[g]) /\ Apart(own[f], own[g])
                 /\ Apart(Config[f], own[g])
      <4>1. /\ f # g => /\ Apart(Pointer(InConfig(f)), Pointer(InConfig(g)))
                        /\ Apart(Pointer(InOwn(f)), Pointer(InOwn(g)))
            /\ Apart(Pointer(InConfig(f)), Pointer(InOwn(g)))
        BY <2>2, AreHolders, HoldersDiffer
      <4> QED
        BY <4>1, HoldersPoint
    <3>2. ASSUME NEW f \in Field
          PROVE  /\ Apart(Config[f], lib.fn) /\ Apart(Config[f], lib.ID)
                 /\ Apart(Config[f], lib.Vals) /\ Apart(Config[f], buf)
      <4>1. /\ Apart(Pointer(InConfig(f)), Pointer(InFn))
            /\ Apart(Pointer(InConfig(f)), Pointer(InID))
            /\ Apart(Pointer(InConfig(f)), Pointer(InVals))
            /\ Apart(Pointer(InConfig(f)), Pointer(InBuf))
        BY <2>2, AreHolders, HoldersDiffer
      <4> QED
        BY <4>1, HoldersPoint
    <3>3. ASSUME NEW f \in Field
          PROVE  /\ Apart(own[f], lib.fn) /\ Apart(own[f], lib.ID)
                 /\ Apart(own[f], lib.Vals) /\ Apart(own[f], buf)
      <4>1. /\ Apart(Pointer(InOwn(f)), Pointer(InFn))
            /\ Apart(Pointer(InOwn(f)), Pointer(InID))
            /\ Apart(Pointer(InOwn(f)), Pointer(InVals))
            /\ Apart(Pointer(InOwn(f)), Pointer(InBuf))
        BY <2>2, AreHolders, HoldersDiffer
      <4> QED
        BY <4>1, HoldersPoint
    <3> QED
      BY <3>1, <3>2, <3>3 DEF StringsApart
  <2>5. PartsApart
    <3>1. /\ Apart(Pointer(InFn), Pointer(InID)) /\ Apart(Pointer(InFn), Pointer(InVals))
          /\ Apart(Pointer(InID), Pointer(InVals)) /\ Apart(Pointer(InFn), Pointer(InBuf))
          /\ Apart(Pointer(InID), Pointer(InBuf)) /\ Apart(Pointer(InVals), Pointer(InBuf))
      BY <2>2, AreHolders, HoldersDiffer
    <3> QED
      BY <3>1, HoldersPoint DEF PartsApart
  <2> QED
    BY <2>3, <2>4, <2>5 DEF Flat
<1>2. Flat => OwnedOnce
  <2> SUFFICES ASSUME Flat, NEW h \in Holder, Pointer(h) \in Block,
                      NEW k \in Holder
               PROVE  /\ heap[Pointer(h)] # Free
                      /\ Pointer(k) = Pointer(h) => k = h
    BY DEF OwnedOnce
  <2> USE HoldersPoint DEF Flat, AllLive, Live, StringsApart, PartsApart, Apart
  <2>1. CASE \E f \in Field : h = InConfig(f)
    BY <2>1, HoldersAre
  <2>2. CASE \E f \in Field : h = InOwn(f)
    BY <2>2, HoldersAre
  <2>3. CASE h = InFn \/ h = InID \/ h = InVals \/ h = InBuf
    BY <2>3, HoldersAre
  <2> QED
    BY <2>1, <2>2, <2>3, HoldersAre
<1> QED
  BY <1>1, <1>2

-----------------------------------------------------------------------------
(* The inductive invariant.                                                *)

\* A string is in a block that holds a text.
TextsIn(cfg) == \A f \in Field : cfg[f] \in Block => heap[cfg[f]] \in Text
Texts == TextsIn(Config) /\ TextsIn(own)

\* What every operation starts from, and the next one relies on.
Phases ==
  /\ pc \in {"file1", "file2"} =>
       asked = DefaultText /\ \A f \in Field : Config[f] = BuiltIn
  /\ pc = "copy" => Complete(Config)
  /\ pc = "set" => Complete(own)
  /\ pc \in {"ids", "vals"} => table \in Table /\ lib.count = Len(table)

IInv == TypeOK /\ Flat /\ Texts /\ Phases /\ AsAsked

\* A library file lists numbers.
LEMMA ListsNumbers ==
  ASSUME NEW t \in Table
  PROVE  /\ Len(t) \in Nat
         /\ [i \in 1 .. Len(t) |-> t[i].id] \in Seq(Nat)
         /\ [i \in 1 .. Len(t) |-> t[i].val] \in Seq(Nat)
<1>1. t \in Seq([id : Nat, val : Nat])
  OBVIOUS
<1>2. Len(t) \in Nat /\ \A i \in 1 .. Len(t) : t[i].id \in Nat /\ t[i].val \in Nat
  <2>1. Len(t) \in Nat /\ t \in [1 .. Len(t) -> [id : Nat, val : Nat]]
    BY <1>1, LenProperties
  <2>2. ASSUME NEW i \in 1 .. Len(t)
        PROVE  t[i].id \in Nat /\ t[i].val \in Nat
    <3>1. t[i] \in [id : Nat, val : Nat]
      BY <2>1
    <3> QED
      BY <3>1
  <2> QED
    BY <2>1, <2>2
<1>3. /\ [i \in 1 .. Len(t) |-> t[i].id] \in [1 .. Len(t) -> Nat]
      /\ [i \in 1 .. Len(t) |-> t[i].val] \in [1 .. Len(t) -> Nat]
  BY <1>2
<1>4. ASSUME NEW n \in Nat, NEW s \in [1 .. n -> Nat]
      PROVE  s \in Seq(Nat)
  BY SeqDef
<1> QED
  BY <1>2, <1>3, <1>4

\* The empty string of bytes is no free block.
LEMMA EmptyIsContent == <<>> \in Content /\ <<>> # Free /\ Free \in Content
<1>1. <<>> \in Seq(Nat)
  OBVIOUS
<1> QED
  BY <1>1 DEF Content

\* Blocks come and go, the heap keeps its type.
LEMMA HeapTypes ==
  ASSUME heap \in [Block -> Content]
  PROVE  /\ \A ps : Without(ps) \in [Block -> Content]
         /\ \A p, c : c \in Content => With(p, c) \in [Block -> Content]
<1>1. Free \in Content
  BY EmptyIsContent
<1>2. ASSUME NEW ps
      PROVE  Without(ps) \in [Block -> Content]
  BY <1>1 DEF Without
<1>3. ASSUME NEW p, NEW c \in Content
      PROVE  With(p, c) \in [Block -> Content]
  BY DEF With
<1> QED
  BY <1>2, <1>3

\* A string that has a pointer says something.
LEMMA SaysText ==
  ASSUME TypeOK, Texts, NEW f \in Field
  PROVE  /\ Config[f] # Null => Says(Config, f) \in Text
         /\ own[f] # Null => Says(own, f) \in Text
         /\ Config[f] = Null => Says(Config, f) = Null
BY DEF TypeOK, Texts, TextsIn, Says, StringPointer

\* The initial state satisfies it.
LEMMA InitIInv == Init => IInv
<1> SUFFICES ASSUME Init PROVE IInv
  OBVIOUS
<1> USE DEF Init
<1>1. TypeOK
  BY DEF TypeOK, Content, StringPointer, PC, NoLibrary
<1>2. Flat
  BY DEF Flat, AllLive, Live, StringsApart, PartsApart, Apart, NoLibrary
<1>3. Texts
  BY DEF Texts, TextsIn
<1>4. Phases
  BY DEF Phases
<1>5. AsAsked
  BY DEF AsAsked, Says
<1> QED
  BY <1>1, <1>2, <1>3, <1>4, <1>5 DEF IInv

-----------------------------------------------------------------------------
(* Type correctness.                                                       *)

\* Every step keeps the types.
LEMMA TypeStep == TypeOK /\ Texts /\ Phases /\ [Next]_vars => TypeOK'
<1> SUFFICES ASSUME TypeOK, Texts, Phases, [Next]_vars PROVE TypeOK'
  OBVIOUS
<1> USE DEF TypeOK
<1> USE HeapTypes, EmptyIsContent
<1>1. CASE UNCHANGED vars
  BY <1>1 DEF vars, strings, library, control, history
<1>2. ASSUME NEW next \in {"idle", "library"}, ldrLoadConfig(next)
      PROVE  TypeOK'
  BY <1>2 DEF ldrLoadConfig, Defaults, library, StringPointer, PC
<1>3. CASE ldrSetDefaultConfig
  BY <1>3 DEF ldrSetDefaultConfig, Defaults, library, control, StringPointer, PC
<1>4. CASE ParseFile
  <2>1. PICK p \in suAllocMem \ {Null} :
          heap' = [Without(Strings(Config)) EXCEPT ![p] = <<>>] /\ buf' = p
    BY <1>4 DEF ParseFile
  <2>2. p \in Block
    BY <2>1 DEF suAllocMem
  <2>3. heap' \in [Block -> Content] /\ buf' \in Block \cup {Null}
    BY <2>1, <2>2
  <2> QED
    BY <1>4, <2>3 DEF ParseFile, Emptied, library, history, StringPointer, PC
<1>5. CASE ParseFileFails
  <2>1. heap' \in [Block -> Content]
    BY <1>5 DEF ParseFileFails, Content
  <2> QED
    BY <1>5, <2>1 DEF ParseFileFails, library, StringPointer, PC
<1>6. ASSUME NEW f \in Field, NEW t \in Text, ParserConfigLine(f, t)
      PROVE  TypeOK'
  BY <1>6 DEF ParserConfigLine, suAllocMem, library, control, StringPointer, Content
<1>7. CASE EndOfFile
  BY <1>7 DEF EndOfFile, strings, library, history, PC
<1>8. CASE copyConfig
  BY <1>8 DEF copyConfig, strings, library, history, PC
<1>9. CASE setConfig
  BY <1>9 DEF setConfig, Emptied, library, history, StringPointer, PC
<1>10. CASE freeConfig
  BY <1>10 DEF freeConfig, Emptied, library, control, history
<1>11. ASSUME NEW f \in Field, CopyField(f)
       PROVE  TypeOK'
  <2>1. Says(Config, f) \in Content
    BY <1>11, SaysText DEF CopyField, Phases, Complete, Content
  <2> QED
    BY <1>11, <2>1 DEF CopyField, suAllocMem, library, history, PC
<1>12. ASSUME NEW f \in Field, SetField(f)
       PROVE  TypeOK'
  <2>1. Says(own, f) \in Text
    BY <1>12, SaysText DEF SetField, Phases, Complete
  <2>2. /\ heap' \in [Block -> Content]
        /\ Config' \in [Field -> StringPointer]
        /\ short' \subseteq Field
    BY <1>12, <2>1 DEF SetField, suAllocMem, StringPointer, Content
  <2> QED
    BY <1>12, <2>1, <2>2 DEF SetField, library, PC
<1>13. ASSUME NEW f \in Field, NEW t \in Text, Edit(f, t)
       PROVE  TypeOK'
  BY <1>13 DEF Edit, strings, library, control, history, Content
<1>14. CASE ldrLoadDefLibrary
  BY <1>14 DEF ldrLoadDefLibrary, strings, library, history, PC
<1>15. CASE loadDefaultLib
  BY <1>15 DEF loadDefaultLib, unloadDefaultLib, NoLibrary, strings, library, history, PC
<1>16. ASSUME NEW t \in Table, ReadFunctions(t)
       PROVE  TypeOK'
  <2>1. Len(t) \in Nat
    BY ListsNumbers
  <2> QED
    BY <1>16, <2>1 DEF ReadFunctions, suAllocMem, strings, history, PC
<1>17. CASE ReadIDs
  <2>1. table \in Table /\ lib.count = Len(table)
    BY <1>17 DEF ReadIDs, Phases
  <2>2. [i \in 1 .. lib.count |-> table[i].id] \in Content
    BY <2>1, ListsNumbers DEF Content
  <2>3. PICK p \in suAllocMem \ {Null} :
          /\ heap' = With(p, [i \in 1 .. lib.count |-> table[i].id])
          /\ lib' = [lib EXCEPT !.ID = p]
    BY <1>17 DEF ReadIDs
  <2>4. p \in Block
    BY <2>3 DEF suAllocMem
  <2>5. heap' \in [Block -> Content]
    BY <2>2, <2>3
  <2> QED
    BY <1>17, <2>3, <2>4, <2>5 DEF ReadIDs, strings, history, PC
<1>18. CASE ReadVals
  <2>1. table \in Table /\ lib.count = Len(table)
    BY <1>18 DEF ReadVals, Phases
  <2>2. [i \in 1 .. lib.count |-> table[i].val] \in Content
    BY <2>1, ListsNumbers DEF Content
  <2>3. PICK p \in suAllocMem \ {Null} :
          /\ heap' = With(p, [i \in 1 .. lib.count |-> table[i].val])
          /\ lib' = [lib EXCEPT !.Vals = p]
    BY <1>18 DEF ReadVals
  <2>4. p \in Block
    BY <2>3 DEF suAllocMem
  <2>5. heap' \in [Block -> Content]
    BY <2>2, <2>3
  <2> QED
    BY <1>18, <2>3, <2>4, <2>5 DEF ReadVals, strings, history, PC
<1>19. CASE LoadFails
  BY <1>19 DEF LoadFails, unloadDefaultLib, NoLibrary, strings, history, PC
<1> QED
  BY <1>1, <1>2, <1>3, <1>4, <1>5, <1>6, <1>7, <1>8, <1>9, <1>10, <1>11, <1>12, <1>13,
     <1>14, <1>15, <1>16, <1>17, <1>18, <1>19
  DEF Next, LoaderConfig, ProgramConfig, LibraryLoad

-----------------------------------------------------------------------------
(* Every block has one holder.                                             *)

\* What is allocated is held by nobody yet.
LEMMA Fresh ==
  ASSUME Flat, NEW p \in suAllocMem
  PROVE  /\ \A f \in Field : Apart(p, Config[f]) /\ Apart(p, own[f])
         /\ Apart(p, lib.fn) /\ Apart(p, lib.ID) /\ Apart(p, lib.Vals) /\ Apart(p, buf)
BY DEF Flat, AllLive, Live, Apart, suAllocMem

\* No text, and nothing read from a file, is a free block.
LEMMA NothingIsFree == Free \notin Text /\ Free \notin Seq(Nat) /\ <<>> # Free
BY EmptyIsContent

\* The steps on the configuration of the loader keep it.
LEMMA FlatLoaderConfig ==
  ASSUME TypeOK, Flat, LoaderConfig
  PROVE  Flat'
<1> USE NothingIsFree DEF Flat, AllLive, Live, StringsApart, PartsApart, Apart, library, control, history, TypeOK
<1>1. CASE Defaults /\ UNCHANGED <<library, buf>>
  BY <1>1 DEF Defaults, Without, Strings
<1>2. CASE ParseFile
  <2>1. PICK p \in suAllocMem \ {Null} :
          heap' = [Without(Strings(Config)) EXCEPT ![p] = <<>>] /\ buf' = p
    BY <1>2 DEF ParseFile
  <2>2. /\ p \in Block
        /\ \A f \in Field : Apart(p, Config[f]) /\ Apart(p, own[f])
        /\ Apart(p, lib.fn) /\ Apart(p, lib.ID) /\ Apart(p, lib.Vals)
    BY <2>1, Fresh DEF suAllocMem
  <2>3. \A f \in Field : Config'[f] \notin Block
    BY <1>2 DEF ParseFile, Emptied
  <2>4. \A b \in Block : b # p => heap'[b] = IF b \in Strings(Config) THEN Free ELSE heap[b]
    BY <2>1 DEF Without
  <2>5. heap'[p] # Free
    BY <2>1, <2>2 DEF Without
  <2>6. own' = own /\ lib' = lib
    BY <1>2 DEF ParseFile
  <2> QED
    BY <2>1, <2>2, <2>3, <2>4, <2>5, <2>6 DEF Strings
<1>3. CASE ParseFileFails
  <2>1. PICK p \in suAllocMem, read \in BOOLEAN :
          heap' = [b \in Block |->
                    IF b \in Strings(Config) THEN Free
                    ELSE IF read /\ b = p THEN <<>> ELSE heap[b]]
    BY <1>3 DEF ParseFileFails
  <2>2. \A b \in Block \ Strings(Config) : heap[b] # Free => heap'[b] # Free
    BY <2>1
  <2>3. Config' = [f \in Field |-> BuiltIn] /\ own' = own /\ lib' = lib /\ buf' = buf
    BY <1>3 DEF ParseFileFails
  <2> QED
    BY <2>2, <2>3 DEF Strings
<1>4. ASSUME NEW f \in Field, NEW t \in Text, ParserConfigLine(f, t)
      PROVE  Flat'
  <2>1. PICK p \in suAllocMem : heap' = With(p, t) /\ Config' = [Config EXCEPT ![f] = p]
    BY <1>4 DEF ParserConfigLine
  <2>2. /\ \A g \in Field : Apart(p, Config[g]) /\ Apart(p, own[g])
        /\ Apart(p, lib.fn) /\ Apart(p, lib.ID) /\ Apart(p, lib.Vals) /\ Apart(p, buf)
    BY <2>1, Fresh
  <2>3. own' = own /\ lib' = lib /\ buf' = buf
    BY <1>4 DEF ParserConfigLine
  <2>4. /\ \A b \in Block : heap[b] # Free => heap'[b] # Free
        /\ p \in Block => heap'[p] # Free
    BY <2>1 DEF With
  <2>5. \A g \in Field : Config'[g] = IF g = f THEN p ELSE Config[g]
    BY <2>1
  <2> QED
    BY <2>2, <2>3, <2>4, <2>5
<1>5. CASE EndOfFile
  BY <1>5 DEF EndOfFile, strings, Without
<1> QED
  BY <1>1, <1>2, <1>3, <1>4, <1>5 DEF LoaderConfig, ldrLoadConfig, ldrSetDefaultConfig

\* So do the steps of a program with the configuration.
LEMMA FlatProgramConfig ==
  ASSUME TypeOK, Texts, Phases, Flat, ProgramConfig
  PROVE  Flat'
<1> USE NothingIsFree DEF Flat, AllLive, Live, StringsApart, PartsApart, Apart, library, strings, control, history, TypeOK
<1>1. CASE copyConfig
  BY <1>1 DEF copyConfig
<1>2. CASE setConfig
  BY <1>2 DEF setConfig, Without, Strings, Emptied
<1>3. CASE freeConfig
  BY <1>3 DEF freeConfig, Without, Strings, Emptied
<1>4. ASSUME NEW f \in Field, CopyField(f)
      PROVE  Flat'
  <2>1. PICK p \in suAllocMem : heap' = With(p, Says(Config, f)) /\ own' = [own EXCEPT ![f] = p]
    BY <1>4 DEF CopyField
  <2>2. /\ \A g \in Field : Apart(p, Config[g]) /\ Apart(p, own[g])
        /\ Apart(p, lib.fn) /\ Apart(p, lib.ID) /\ Apart(p, lib.Vals) /\ Apart(p, buf)
    BY <2>1, Fresh
  <2>3. Config' = Config /\ lib' = lib /\ buf' = buf
    BY <1>4 DEF CopyField
  <2>4. Says(Config, f) # Free
    BY <1>4, SaysText DEF CopyField, Phases, Complete
  <2>5. /\ \A b \in Block : heap[b] # Free => heap'[b] # Free
        /\ p \in Block => heap'[p] # Free
    BY <2>1, <2>4 DEF With
  <2>6. \A g \in Field : own'[g] = IF g = f THEN p ELSE own[g]
    BY <2>1
  <2> QED
    BY <2>2, <2>3, <2>5, <2>6
<1>5. ASSUME NEW f \in Field, SetField(f)
      PROVE  Flat'
  <2>1. own' = own /\ lib' = lib /\ buf' = buf
    BY <1>5 DEF SetField
  <2>2. CASE UNCHANGED <<heap, Config>>
    BY <2>1, <2>2
  <2>3. CASE Says(Config, f) # Says(own, f) /\ ~UNCHANGED <<heap, Config>>
    <3> DEFINE old == IF Says(Config, f) = DefaultText[f] THEN {} ELSE {Config[f]}
    <3>1. PICK p \in suAllocMem :
            /\ heap' = [b \in Block |-> IF b = p THEN Says(own, f) ELSE Without(old)[b]]
            /\ Config' = [Config EXCEPT ![f] = p]
      BY <1>5, <2>3 DEF SetField
    <3>2. /\ \A g \in Field : Apart(p, Config[g]) /\ Apart(p, own[g])
          /\ Apart(p, lib.fn) /\ Apart(p, lib.ID) /\ Apart(p, lib.Vals) /\ Apart(p, buf)
      BY <3>1, Fresh
    <3>3. Says(own, f) # Free
      BY <1>5, SaysText DEF SetField, Phases, Complete
    <3>4. /\ \A b \in Block : heap[b] # Free /\ b # Config[f] => heap'[b] # Free
          /\ p \in Block => heap'[p] # Free
      BY <3>1, <3>3 DEF Without
    <3>5. \A g \in Field : Config'[g] = IF g = f THEN p ELSE Config[g]
      BY <3>1
    <3> QED
      BY <2>1, <3>2, <3>4, <3>5
  <2> QED
    BY <1>5, <2>2, <2>3 DEF SetField
<1>6. ASSUME NEW f \in Field, NEW t \in Text, Edit(f, t)
      PROVE  Flat'
  BY <1>6 DEF Edit
<1> QED
  BY <1>1, <1>2, <1>3, <1>4, <1>5, <1>6 DEF ProgramConfig

\* And those that load the library.
LEMMA FlatLibraryLoad ==
  ASSUME TypeOK, Phases, Flat, LibraryLoad
  PROVE  Flat'
<1> USE NothingIsFree DEF Flat, AllLive, Live, StringsApart, PartsApart, Apart, library, strings, control, history, TypeOK
<1>1. CASE ldrLoadDefLibrary
  BY <1>1 DEF ldrLoadDefLibrary
<1>2. CASE unloadDefaultLib /\ UNCHANGED <<strings, buf>>
  <2>1. \A b \in Block : heap'[b] = IF b \in Parts(lib) THEN Free ELSE heap[b]
    BY <1>2 DEF unloadDefaultLib, Without
  <2>2. lib'.fn \notin Block /\ lib'.ID \notin Block /\ lib'.Vals \notin Block
    BY <1>2 DEF unloadDefaultLib, NoLibrary
  <2>3. Config' = Config /\ own' = own /\ buf' = buf
    BY <1>2
  <2> QED
    BY <2>1, <2>2, <2>3 DEF Parts
<1>3. CASE UNCHANGED <<heap, library, strings, buf>>
  BY <1>3
<1>4. ASSUME NEW t \in Table, ReadFunctions(t)
      PROVE  Flat'
  <2>1. PICK p \in suAllocMem \ {Null} :
          /\ heap' = With(p, <<>>)
          /\ lib' = [fn |-> p, ID |-> Null, Vals |-> Null, count |-> Len(t)]
    BY <1>4 DEF ReadFunctions
  <2>2. /\ \A g \in Field : Apart(p, Config[g]) /\ Apart(p, own[g])
        /\ Apart(p, buf)
    BY <2>1, Fresh
  <2>3. Config' = Config /\ own' = own /\ buf' = buf
    BY <1>4 DEF ReadFunctions
  <2>4. /\ \A b \in Block : heap[b] # Free => heap'[b] # Free
        /\ p \in Block => heap'[p] # Free
    BY <2>1 DEF With
  <2>5. lib'.fn = p /\ lib'.ID = Null /\ lib'.Vals = Null
    BY <2>1
  <2> QED
    BY <2>2, <2>3, <2>4, <2>5
<1>5. CASE ReadIDs
  <2>1. PICK p \in suAllocMem \ {Null} :
          /\ heap' = With(p, [i \in 1 .. lib.count |-> table[i].id])
          /\ lib' = [lib EXCEPT !.ID = p]
    BY <1>5 DEF ReadIDs
  <2>2. /\ \A g \in Field : Apart(p, Config[g]) /\ Apart(p, own[g])
        /\ Apart(p, lib.fn) /\ Apart(p, lib.ID) /\ Apart(p, lib.Vals) /\ Apart(p, buf)
    BY <2>1, Fresh
  <2>3. Config' = Config /\ own' = own /\ buf' = buf
    BY <1>5 DEF ReadIDs
  <2>4. [i \in 1 .. lib.count |-> table[i].id] # Free
    <3>1. table \in Table /\ lib.count = Len(table)
      BY <1>5 DEF ReadIDs, Phases
    <3>2. [i \in 1 .. Len(table) |-> table[i].id] \in Seq(Nat)
      BY <3>1, ListsNumbers
    <3> QED
      BY <3>1, <3>2
  <2>5. /\ \A b \in Block : heap[b] # Free => heap'[b] # Free
        /\ p \in Block => heap'[p] # Free
    BY <2>1, <2>4 DEF With
  <2>6. lib'.ID = p /\ lib'.fn = lib.fn /\ lib'.Vals = lib.Vals
    BY <2>1
  <2> QED
    BY <2>2, <2>3, <2>5, <2>6
<1>6. CASE ReadVals
  <2>1. PICK p \in suAllocMem \ {Null} :
          /\ heap' = With(p, [i \in 1 .. lib.count |-> table[i].val])
          /\ lib' = [lib EXCEPT !.Vals = p]
    BY <1>6 DEF ReadVals
  <2>2. /\ \A g \in Field : Apart(p, Config[g]) /\ Apart(p, own[g])
        /\ Apart(p, lib.fn) /\ Apart(p, lib.ID) /\ Apart(p, lib.Vals) /\ Apart(p, buf)
    BY <2>1, Fresh
  <2>3. Config' = Config /\ own' = own /\ buf' = buf
    BY <1>6 DEF ReadVals
  <2>4. [i \in 1 .. lib.count |-> table[i].val] # Free
    <3>1. table \in Table /\ lib.count = Len(table)
      BY <1>6 DEF ReadVals, Phases
    <3>2. [i \in 1 .. Len(table) |-> table[i].val] \in Seq(Nat)
      BY <3>1, ListsNumbers
    <3> QED
      BY <3>1, <3>2
  <2>5. /\ \A b \in Block : heap[b] # Free => heap'[b] # Free
        /\ p \in Block => heap'[p] # Free
    BY <2>1, <2>4 DEF With
  <2>6. lib'.Vals = p /\ lib'.fn = lib.fn /\ lib'.ID = lib.ID
    BY <2>1
  <2> QED
    BY <2>2, <2>3, <2>5, <2>6
<1> QED
  BY <1>1, <1>2, <1>3, <1>4, <1>5, <1>6 DEF LibraryLoad, loadDefaultLib, LoadFails

\* Every step keeps every block with one holder.
LEMMA FlatStep == TypeOK /\ Texts /\ Phases /\ Flat /\ [Next]_vars => Flat'
<1>1. ASSUME Flat, UNCHANGED vars
      PROVE  Flat'
  BY <1>1 DEF vars, strings, library, control, history, Flat, AllLive, Live, StringsApart, PartsApart, Apart
<1> QED
  BY <1>1, FlatLoaderConfig, FlatProgramConfig, FlatLibraryLoad DEF Next

-----------------------------------------------------------------------------
(* What a step leaves alone.                                               *)

\* Nothing a string of either configuration is in is written or freed.
StringsKept ==
  /\ Config' = Config /\ own' = own
  /\ \A f \in Field :
       /\ Config[f] \in Block => heap'[Config[f]] = heap[Config[f]]
       /\ own[f] \in Block => heap'[own[f]] = heap[own[f]]

\* The steps that load the library, and the last one on a file, are such.
LEMMA LibraryKeepsStrings ==
  ASSUME TypeOK, Flat, LibraryLoad \/ EndOfFile
  PROVE  StringsKept
<1> USE DEF StringsKept, Flat, StringsApart, Apart, library, strings, TypeOK
<1>1. CASE EndOfFile
  BY <1>1 DEF EndOfFile, Without
<1>2. CASE ldrLoadDefLibrary
  BY <1>2 DEF ldrLoadDefLibrary
<1>3. CASE unloadDefaultLib /\ UNCHANGED strings
  BY <1>3 DEF unloadDefaultLib, Without, Parts
<1>4. CASE UNCHANGED <<heap, strings>>
  BY <1>4
<1>5. ASSUME NEW p \in suAllocMem, NEW c, heap' = With(p, c), UNCHANGED strings
      PROVE  StringsKept
  BY <1>5, Fresh DEF With
<1>6. ASSUME NEW t \in Table, ReadFunctions(t)
      PROVE  StringsKept
  BY <1>5, <1>6 DEF ReadFunctions
<1>7. CASE ReadIDs
  <2>1. PICK p \in suAllocMem \ {Null} :
          heap' = With(p, [i \in 1 .. lib.count |-> table[i].id])
    BY <1>7 DEF ReadIDs
  <2> QED
    BY <1>5, <1>7, <2>1 DEF ReadIDs
<1>8. CASE ReadVals
  <2>1. PICK p \in suAllocMem \ {Null} :
          heap' = With(p, [i \in 1 .. lib.count |-> table[i].val])
    BY <1>8 DEF ReadVals
  <2> QED
    BY <1>5, <1>8, <2>1 DEF ReadVals
<1> QED
  BY <1>1, <1>2, <1>3, <1>4, <1>6, <1>7, <1>8 DEF LibraryLoad, loadDefaultLib, LoadFails

-----------------------------------------------------------------------------
(* A string is in a block that holds a text.                               *)

\* Every step keeps the texts.
LEMMA TextsStep == TypeOK /\ Phases /\ Flat /\ Texts /\ [Next]_vars => Texts'
<1> SUFFICES ASSUME TypeOK, Phases, Flat, Texts, [Next]_vars PROVE Texts'
  OBVIOUS
<1> USE DEF Texts, TextsIn, TypeOK
<1>1. CASE UNCHANGED vars
  BY <1>1 DEF vars, strings, library, control, history
<1>2. CASE LibraryLoad \/ EndOfFile
  BY <1>2, LibraryKeepsStrings DEF StringsKept
<1>3. CASE Defaults
  BY <1>3 DEF Defaults, Without, Strings, Flat, StringsApart, Apart
<1>4. CASE ParseFile
  <2>1. PICK p \in suAllocMem \ {Null} : heap' = [Without(Strings(Config)) EXCEPT ![p] = <<>>]
    BY <1>4 DEF ParseFile
  <2>2. \A f \in Field : Apart(p, own[f]) /\ p \in Block
    BY <2>1, Fresh DEF suAllocMem
  <2>3. own' = own /\ \A f \in Field : Config'[f] \notin Block
    BY <1>4 DEF ParseFile, Emptied
  <2>4. \A f \in Field : own[f] \in Block => heap'[own[f]] = heap[own[f]]
    BY <2>1, <2>2 DEF Without, Strings, Flat, StringsApart, Apart
  <2> QED
    BY <2>3, <2>4
<1>5. CASE ParseFileFails
  <2>1. PICK p \in suAllocMem, read \in BOOLEAN :
          heap' = [b \in Block |->
                    IF b \in Strings(Config) THEN Free
                    ELSE IF read /\ b = p THEN <<>> ELSE heap[b]]
    BY <1>5 DEF ParseFileFails
  <2>2. own' = own /\ \A f \in Field : Config'[f] \notin Block
    BY <1>5 DEF ParseFileFails
  <2>3. \A f \in Field : own[f] \in Block => heap'[own[f]] = heap[own[f]]
    BY <2>1, Fresh DEF Strings, Flat, StringsApart, Apart
  <2> QED
    BY <2>2, <2>3
<1>6. ASSUME NEW f \in Field, NEW t \in Text, ParserConfigLine(f, t)
      PROVE  Texts'
  BY <1>6, Fresh DEF ParserConfigLine, With
<1>7. CASE copyConfig
  BY <1>7 DEF copyConfig, strings
<1>8. CASE setConfig
  BY <1>8 DEF setConfig, Without, Strings, Emptied, Flat, StringsApart, Apart
<1>9. CASE freeConfig
  BY <1>9 DEF freeConfig, Without, Strings, Emptied, Flat, StringsApart, Apart
<1>10. ASSUME NEW f \in Field, CopyField(f)
       PROVE  Texts'
  <2>1. Says(Config, f) \in Text
    BY <1>10, SaysText DEF CopyField, Phases, Complete
  <2> QED
    BY <1>10, <2>1, Fresh DEF CopyField, With
<1>11. ASSUME NEW f \in Field, SetField(f)
       PROVE  Texts'
  <2>1. Says(own, f) \in Text
    BY <1>11, SaysText DEF SetField, Phases, Complete
  <2>2. CASE UNCHANGED <<heap, Config>>
    BY <1>11, <2>2 DEF SetField
  <2>3. CASE ~UNCHANGED <<heap, Config>>
    <3> DEFINE old == IF Says(Config, f) = DefaultText[f] THEN {} ELSE {Config[f]}
    <3>1. PICK p \in suAllocMem :
            /\ heap' = [b \in Block |-> IF b = p THEN Says(own, f) ELSE Without(old)[b]]
            /\ Config' = [Config EXCEPT ![f] = p]
      BY <1>11, <2>3 DEF SetField
    <3>2. \A b \in Block : heap'[b] = heap[b] \/ heap'[b] \in Text \/ b = Config[f]
      BY <2>1, <3>1 DEF Without
    <3>3. p \in Block => heap'[p] \in Text
      BY <2>1, <3>1
    <3>4. own' = own
      BY <1>11 DEF SetField
    <3> QED
      BY <3>1, <3>2, <3>3, <3>4 DEF Flat, StringsApart, Apart
  <2> QED
    BY <2>2, <2>3
<1>12. ASSUME NEW f \in Field, NEW t \in Text, Edit(f, t)
       PROVE  Texts'
  BY <1>12 DEF Edit, strings
<1> QED
  BY <1>1, <1>2, <1>3, <1>4, <1>5, <1>6, <1>7, <1>8, <1>9, <1>10, <1>11, <1>12
  DEF Next, LoaderConfig, ProgramConfig, ldrLoadConfig, ldrSetDefaultConfig

-----------------------------------------------------------------------------
(* The phases.                                                             *)

\* Every step leaves what the next one relies on.
LEMMA PhasesStep == TypeOK /\ Phases /\ [Next]_vars => Phases'
<1> SUFFICES ASSUME TypeOK, Phases, [Next]_vars PROVE Phases'
  OBVIOUS
<1> USE DEF Phases, Complete, TypeOK
<1>1. CASE UNCHANGED vars
  BY <1>1 DEF vars, strings, library, control, history
<1>2. ASSUME NEW next \in {"idle", "library"}, ldrLoadConfig(next)
      PROVE  Phases'
  BY <1>2 DEF ldrLoadConfig, Defaults
<1>3. CASE ldrSetDefaultConfig
  BY <1>3 DEF ldrSetDefaultConfig, control
<1>4. CASE ParseFile
  BY <1>4 DEF ParseFile
<1>5. CASE ParseFileFails
  BY <1>5 DEF ParseFileFails
<1>6. ASSUME NEW f \in Field, NEW t \in Text, ParserConfigLine(f, t)
      PROVE  Phases'
  BY <1>6 DEF ParserConfigLine, control
<1>7. CASE EndOfFile
  BY <1>7 DEF EndOfFile
<1>8. CASE copyConfig
  BY <1>8 DEF copyConfig, strings
<1>9. CASE setConfig
  BY <1>9 DEF setConfig
<1>10. CASE freeConfig
  BY <1>10 DEF freeConfig, control
<1>11. ASSUME NEW f \in Field, CopyField(f)
       PROVE  Phases'
  BY <1>11 DEF CopyField
<1>12. ASSUME NEW f \in Field, SetField(f)
       PROVE  Phases'
  BY <1>12 DEF SetField
<1>13. ASSUME NEW f \in Field, NEW t \in Text, Edit(f, t)
       PROVE  Phases'
  BY <1>13 DEF Edit, control
<1>14. CASE ldrLoadDefLibrary \/ loadDefaultLib \/ LoadFails
  BY <1>14 DEF ldrLoadDefLibrary, loadDefaultLib, LoadFails
<1>15. ASSUME NEW t \in Table, ReadFunctions(t)
       PROVE  Phases'
  BY <1>15 DEF ReadFunctions
<1>16. CASE ReadIDs
  BY <1>16 DEF ReadIDs
<1>17. CASE ReadVals
  BY <1>17 DEF ReadVals
<1> QED
  BY <1>1, <1>2, <1>3, <1>4, <1>5, <1>6, <1>7, <1>8, <1>9, <1>10, <1>11, <1>12, <1>13,
     <1>14, <1>15, <1>16, <1>17
  DEF Next, LoaderConfig, ProgramConfig, LibraryLoad

-----------------------------------------------------------------------------
(* The configuration is as asked.                                          *)

\* The strings say what they did when nothing of them is written.
LEMMA SameStringsSaySame ==
  ASSUME TypeOK, StringsKept, NEW f \in Field
  PROVE  Says(Config, f)' = Says(Config, f)
BY DEF StringsKept, Says, TypeOK, StringPointer

\* Every step keeps the configuration as asked.
LEMMA AsAskedStep == TypeOK /\ Texts /\ Phases /\ Flat /\ AsAsked /\ [Next]_vars => AsAsked'
<1> SUFFICES ASSUME TypeOK, Texts, Phases, Flat, AsAsked, [Next]_vars PROVE AsAsked'
  OBVIOUS
<1> USE DEF AsAsked, TypeOK
<1>1. CASE UNCHANGED vars
  BY <1>1 DEF vars, strings, library, control, history, Says
<1>2. CASE Defaults /\ pc # "set"
  BY <1>2 DEF Defaults, Says
<1>3. CASE ParseFile
  <2>1. \A f \in Field : Config'[f] = BuiltIn
    BY <1>3 DEF ParseFile, Emptied, Phases
  <2>2. asked' = DefaultText
    BY <1>3 DEF ParseFile, Phases, history
  <2> QED
    BY <2>1, <2>2 DEF Says
<1>4. CASE ParseFileFails
  BY <1>4 DEF ParseFileFails, Says
<1>5. ASSUME NEW f \in Field, NEW t \in Text, ParserConfigLine(f, t)
      PROVE  AsAsked'
  <2>1. PICK p \in suAllocMem :
          /\ heap' = With(p, t)
          /\ Config' = [Config EXCEPT ![f] = p]
          /\ short' = IF p = Null THEN short \cup {f} ELSE short \ {f}
    BY <1>5 DEF ParserConfigLine
  <2>2. pc = "lines" /\ pc' = "lines" /\ asked' = [asked EXCEPT ![f] = t]
    BY <1>5 DEF ParserConfigLine, control
  <2>3. ASSUME NEW g \in Field, g # f
        PROVE  Says(Config, g)' = asked'[g] \/ (Config'[g] = Null /\ g \in short')
    <3>1. Config'[g] = Config[g] /\ asked'[g] = asked[g] /\ (g \in short => g \in short')
      BY <2>1, <2>2, <2>3
    <3>2. Config[g] \in Block => heap'[Config[g]] = heap[Config[g]]
      BY <2>1, Fresh DEF With, Apart
    <3>3. Says(Config, g)' = Says(Config, g)
      BY <3>1, <3>2 DEF Says, StringPointer
    <3> QED
      BY <2>2, <3>1, <3>3
  <2>4. p = Null => Config'[f] = Null /\ f \in short'
    BY <2>1
  <2>5. p # Null => Says(Config, f)' = asked'[f]
    BY <2>1, <2>2 DEF Says, With, suAllocMem
  <2> QED
    BY <2>3, <2>4, <2>5
<1>6. ASSUME pc # "set", StringsKept, UNCHANGED history
      PROVE  AsAsked'
  BY <1>6, SameStringsSaySame DEF history, StringsKept
<1>7. CASE LibraryLoad \/ EndOfFile
  <2>1. pc # "set" /\ UNCHANGED history
    BY <1>7 DEF LibraryLoad, EndOfFile, ldrLoadDefLibrary, loadDefaultLib, ReadFunctions,
                ReadIDs, ReadVals, LoadFails
  <2> QED
    BY <1>6, <1>7, <2>1, LibraryKeepsStrings
<1>8. CASE copyConfig
  BY <1>8 DEF copyConfig, strings, history, Says
<1>9. CASE setConfig
  BY <1>9 DEF setConfig
<1>10. ASSUME pc # "set", Config' = Config, UNCHANGED history,
              \A f \in Field : Config[f] \in Block => heap'[Config[f]] = heap[Config[f]]
       PROVE  AsAsked'
  <2>1. \A f \in Field : Says(Config, f)' = Says(Config, f)
    BY <1>10 DEF Says, StringPointer
  <2> QED
    BY <1>10, <2>1 DEF history
<1>11. CASE freeConfig
  BY <1>10, <1>11 DEF freeConfig, Without, Strings, Flat, StringsApart, Apart, control
<1>12. ASSUME NEW f \in Field, CopyField(f)
       PROVE  AsAsked'
  BY <1>10, <1>12, Fresh DEF CopyField, With, Apart
<1>13. ASSUME NEW f \in Field, NEW t \in Text, Edit(f, t)
       PROVE  AsAsked'
  BY <1>10, <1>13 DEF Edit, strings, Flat, StringsApart, Apart
<1>14. ASSUME NEW f \in Field, SetField(f)
       PROVE  AsAsked'
  <2> DEFINE new == Says(own, f)
             old == IF Says(Config, f) = DefaultText[f] THEN {} ELSE {Config[f]}
  <2>1. /\ pc = "set" /\ f \in todo /\ todo' = todo \ {f}
        /\ asked' = [asked EXCEPT ![f] = new]
        /\ pc' = IF todo = {f} THEN "idle" ELSE "set"
    BY <1>14 DEF SetField
  <2>2. CASE Says(Config, f) = new /\ short' = short \ {f} /\ UNCHANGED <<heap, Config>>
    <3>1. \A g \in Field : Says(Config, g)' = Says(Config, g)
      BY <2>2 DEF Says
    <3>2. new # Null
      BY <1>14, SaysText DEF SetField, Phases, Complete
    <3>3. Says(Config, f)' = asked'[f]
      BY <2>1, <2>2, <3>1
    <3>4. ASSUME NEW g \in Field, g # f
          PROVE  \/ pc' = "set" /\ g \in todo'
                 \/ Says(Config, g)' = asked'[g]
                 \/ Config'[g] = Null /\ g \in short'
      BY <2>1, <2>2, <3>1, <3>4
    <3> QED
      BY <3>3, <3>4
  <2>3. ASSUME NEW p \in suAllocMem,
               heap' = [b \in Block |-> IF b = p THEN new ELSE Without(old)[b]],
               Config' = [Config EXCEPT ![f] = p],
               short' = IF p = Null THEN short \cup {f} ELSE short \ {f}
        PROVE  AsAsked'
    <3>1. p = Null => Config'[f] = Null /\ f \in short'
      BY <2>3
    <3>2. p # Null => Says(Config, f)' = asked'[f]
      BY <2>1, <2>3 DEF Says, suAllocMem
    <3>3. ASSUME NEW g \in Field, g # f
          PROVE  \/ pc' = "set" /\ g \in todo'
                 \/ Says(Config, g)' = asked'[g]
                 \/ Config'[g] = Null /\ g \in short'
      <4>1. Config'[g] = Config[g] /\ asked'[g] = asked[g] /\ (g \in short => g \in short')
        BY <2>1, <2>3, <3>3
      <4>2. Config[g] \in Block => heap'[Config[g]] = heap[Config[g]]
        BY <2>3, <3>3, Fresh DEF Without, Flat, StringsApart, Apart
      <4>3. Says(Config, g)' = Says(Config, g)
        BY <4>1, <4>2 DEF Says, StringPointer
      <4> QED
        BY <2>1, <3>3, <4>1, <4>3
    <3> QED
      BY <3>1, <3>2, <3>3
  <2> QED
    BY <1>14, <2>2, <2>3 DEF SetField
<1> QED
  BY <1>1, <1>2, <1>3, <1>4, <1>5, <1>7, <1>8, <1>9, <1>11, <1>12, <1>13, <1>14
  DEF Next, LoaderConfig, ProgramConfig, ldrLoadConfig, ldrSetDefaultConfig

-----------------------------------------------------------------------------
(* The theorems.                                                           *)

\* Every reachable state satisfies the inductive invariant.
LEMMA SettingsInvariant == Spec => []IInv
<1>1. IInv /\ [Next]_vars => IInv'
  BY TypeStep, FlatStep, TextsStep, PhasesStep, AsAskedStep DEF IInv
<1> QED
  BY <1>1, InitIInv, PTL DEF Spec

\* The variables keep their types, whatever the heap, the fields, the files
\* and the library files are (config.c, parser.c, loadDefLib.c).
THEOREM SettingsTypes == Spec => []TypeOK
<1>1. IInv => TypeOK
  BY DEF IInv
<1> QED
  BY <1>1, SettingsInvariant, PTL

\* No block is held twice or read after it is freed, however many fields a
\* configuration has and wherever memory runs out (config.c, loadDefLib.c).
THEOREM NothingHeldTwice == Spec => []OwnedOnce
<1>1. IInv => OwnedOnce
  BY OwnedIsFlat DEF IInv
<1> QED
  BY <1>1, SettingsInvariant, PTL

\* The configuration in use is the one that was asked for (config.c, parser.c).
THEOREM ConfigurationAsAsked == Spec => []AsAsked
<1>1. IInv => AsAsked
  BY DEF IInv
<1> QED
  BY <1>1, SettingsInvariant, PTL

-----------------------------------------------------------------------------
(* No block is lost unnoticed.                                             *)

\* What is empty when it is written over.
Ready ==
  /\ pc # "lines" => buf = Null
  /\ pc = "set" => \A f \in todo : Config[f] \notin Block
  /\ lib.fn = Null => lib.ID = Null /\ lib.Vals = Null
  /\ pc = "functions" => lib.fn = Null
  /\ pc = "ids" => lib.ID = Null /\ lib.Vals = Null
  /\ pc = "vals" => lib.Vals = Null
  /\ pc \in {"ids", "vals"} => lib.fn # Null

\* The initial state is ready.
LEMMA InitReady == Init => Ready
BY DEF Init, Ready, NoLibrary

\* So is every state a step leads to.
LEMMA ReadyStep == TypeOK /\ Ready /\ [Next]_vars => Ready'
<1> SUFFICES ASSUME TypeOK, Ready, [Next]_vars PROVE Ready'
  OBVIOUS
<1> USE DEF Ready, TypeOK
<1>1. CASE UNCHANGED vars
  BY <1>1 DEF vars, strings, library, control, history
<1>2. ASSUME NEW next \in {"idle", "library"}, ldrLoadConfig(next)
      PROVE  Ready'
  BY <1>2 DEF ldrLoadConfig, Defaults, library
<1>3. CASE ldrSetDefaultConfig
  BY <1>3 DEF ldrSetDefaultConfig, Defaults, library, control
<1>4. CASE ParseFile
  BY <1>4 DEF ParseFile, library
<1>5. CASE ParseFileFails
  BY <1>5 DEF ParseFileFails, library
<1>6. ASSUME NEW f \in Field, NEW t \in Text, ParserConfigLine(f, t)
      PROVE  Ready'
  BY <1>6 DEF ParserConfigLine, control, library
<1>7. CASE EndOfFile
  BY <1>7 DEF EndOfFile, library
<1>8. CASE copyConfig
  BY <1>8 DEF copyConfig, strings, library
<1>9. CASE setConfig
  BY <1>9 DEF setConfig, Emptied, library
<1>10. CASE freeConfig
  BY <1>10 DEF freeConfig, control, library
<1>11. ASSUME NEW f \in Field, CopyField(f)
       PROVE  Ready'
  BY <1>11 DEF CopyField, library
<1>12. ASSUME NEW f \in Field, SetField(f)
       PROVE  Ready'
  BY <1>12 DEF SetField, library
<1>13. ASSUME NEW f \in Field, NEW t \in Text, Edit(f, t)
       PROVE  Ready'
  BY <1>13 DEF Edit, strings, control, library
<1>14. CASE ldrLoadDefLibrary
  BY <1>14 DEF ldrLoadDefLibrary, strings, library
<1>15. CASE loadDefaultLib \/ LoadFails
  BY <1>15 DEF loadDefaultLib, LoadFails, unloadDefaultLib, NoLibrary, strings, library
<1>16. ASSUME NEW t \in Table, ReadFunctions(t)
       PROVE  Ready'
  BY <1>16 DEF ReadFunctions, strings
<1>17. CASE ReadIDs
  <2>1. lib'.fn = lib.fn /\ lib'.Vals = lib.Vals
    BY <1>17 DEF ReadIDs
  <2> QED
    BY <1>17, <2>1 DEF ReadIDs, strings
<1>18. CASE ReadVals
  <2>1. lib'.fn = lib.fn /\ lib'.ID = lib.ID
    BY <1>18 DEF ReadVals
  <2> QED
    BY <1>18, <2>1 DEF ReadVals, strings
<1> QED
  BY <1>1, <1>2, <1>3, <1>4, <1>5, <1>6, <1>7, <1>8, <1>9, <1>10, <1>11, <1>12, <1>13,
     <1>14, <1>15, <1>16, <1>17, <1>18
  DEF Next, LoaderConfig, ProgramConfig, LibraryLoad

\* Who holds block b.
LEMMA OwnedMeans ==
  ASSUME NEW b
  PROVE  Owned(b) <=> \/ \E f \in Field : Config[f] = b \/ own[f] = b
                      \/ lib.fn = b \/ lib.ID = b \/ lib.Vals = b \/ buf = b
<1> USE DEF Owned
<1>1. ASSUME NEW f \in Field, Config[f] = b \/ own[f] = b
      PROVE  Owned(b)
  <2>1. InConfig(f) \in Holder /\ InOwn(f) \in Holder
    BY AreHolders
  <2>2. Pointer(InConfig(f)) = b \/ Pointer(InOwn(f)) = b
    BY <1>1, HoldersPoint
  <2> QED
    BY <2>1, <2>2
<1>2. ASSUME lib.fn = b \/ lib.ID = b \/ lib.Vals = b \/ buf = b
      PROVE  Owned(b)
  <2>1. InFn \in Holder /\ InID \in Holder /\ InVals \in Holder /\ InBuf \in Holder
    BY AreHolders
  <2>2. Pointer(InFn) = b \/ Pointer(InID) = b \/ Pointer(InVals) = b \/ Pointer(InBuf) = b
    BY <1>2, HoldersPoint
  <2> QED
    BY <2>1, <2>2
<1>3. ASSUME NEW h \in Holder, Pointer(h) = b
      PROVE  \/ \E f \in Field : Config[f] = b \/ own[f] = b
             \/ lib.fn = b \/ lib.ID = b \/ lib.Vals = b \/ buf = b
  BY <1>3, HoldersAre, HoldersPoint
<1> QED
  BY <1>1, <1>2, <1>3

\* And after a step.
LEMMA NotOwnedNext ==
  ASSUME NEW b, ~Owned(b)'
  PROVE  /\ \A f \in Field : Config'[f] # b /\ own'[f] # b
         /\ lib'.fn # b /\ lib'.ID # b /\ lib'.Vals # b /\ buf' # b
<1>1. \A h \in Holder : Pointer(h)' # b
  BY DEF Owned
<1>2. /\ \A f \in Field : Pointer(InConfig(f))' = Config'[f] /\ Pointer(InOwn(f))' = own'[f]
      /\ Pointer(InFn)' = lib'.fn /\ Pointer(InID)' = lib'.ID
      /\ Pointer(InVals)' = lib'.Vals /\ Pointer(InBuf)' = buf'
  BY DEF Pointer, InConfig, InOwn, InFn, InID, InVals, InBuf
<1>3. ASSUME NEW f \in Field
      PROVE  Config'[f] # b /\ own'[f] # b
  <2>1. Pointer(InConfig(f))' # b /\ Pointer(InOwn(f))' # b
    BY <1>1, AreHolders
  <2> QED
    BY <1>2, <2>1
<1>4. Pointer(InFn)' # b /\ Pointer(InID)' # b /\ Pointer(InVals)' # b /\ Pointer(InBuf)' # b
  BY <1>1, AreHolders
<1> QED
  BY <1>2, <1>3, <1>4

\* A block that a step loses was lost before, or the step is a known loss.
LEMMA LossStep ==
  ASSUME TypeOK, Flat, Ready, [Next]_vars, ~UNCHANGED vars
  PROVE  \/ Lost' \subseteq Lost
         \/ pc = "lines" /\ (\E f \in Field : Config[f] \in Block /\ Config'[f] # Config[f])
         \/ pc = "copy" /\ (\E f \in Field : own[f] \in Block /\ own'[f] # own[f])
         \/ pc \in {"file1", "file2"} /\ buf' = Null
<1> SUFFICES ASSUME NEW b \in Block, heap'[b] # Free, ~Owned(b)',
                    ~(pc = "lines" /\ (\E f \in Field : Config[f] \in Block /\ Config'[f] # Config[f])),
                    ~(pc = "copy" /\ (\E f \in Field : own[f] \in Block /\ own'[f] # own[f])),
                    ~(pc \in {"file1", "file2"} /\ buf' = Null)
             PROVE  heap[b] # Free /\ ~Owned(b)
  BY DEF Lost
<1> DEFINE Held == \/ \E f \in Field : Config[f] = b \/ own[f] = b
                   \/ lib.fn = b \/ lib.ID = b \/ lib.Vals = b \/ buf = b
<1>1. ~Held'
  BY NotOwnedNext
<1>2. Owned(b) <=> Held
  BY OwnedMeans
<1> SUFFICES heap[b] # Free /\ ~Held
  BY <1>2
<1> USE <1>1 DEF TypeOK, Ready
<1>3. CASE Defaults /\ UNCHANGED <<library, buf>>
  BY <1>3 DEF Defaults, Without, Strings, library
<1>4. CASE ParseFile
  BY <1>4 DEF ParseFile, Without, Strings, Emptied, library
<1>5. CASE ParseFileFails
  BY <1>5 DEF ParseFileFails
<1>6. ASSUME NEW f \in Field, NEW t \in Text, ParserConfigLine(f, t)
      PROVE  heap[b] # Free /\ ~Held
  BY <1>6 DEF ParserConfigLine, With, control, library
<1>7. CASE EndOfFile
  BY <1>7 DEF EndOfFile, Without, strings, library
<1>8. CASE copyConfig \/ ldrLoadDefLibrary
  BY <1>8 DEF copyConfig, ldrLoadDefLibrary, strings, library
<1>9. CASE setConfig
  BY <1>9 DEF setConfig, Without, Strings, Emptied, library
<1>10. CASE freeConfig
  BY <1>10 DEF freeConfig, Without, Strings, Emptied, library
<1>11. ASSUME NEW f \in Field, CopyField(f)
       PROVE  heap[b] # Free /\ ~Held
  BY <1>11 DEF CopyField, With, library
<1>12. ASSUME NEW f \in Field, SetField(f)
       PROVE  heap[b] # Free /\ ~Held
  BY <1>12 DEF SetField, Without, library
<1>13. ASSUME NEW f \in Field, NEW t \in Text, Edit(f, t)
       PROVE  heap[b] # Free /\ ~Held
  BY <1>13 DEF Edit, strings, library, Flat, AllLive, Live
<1>14. CASE unloadDefaultLib /\ UNCHANGED <<strings, buf>>
  BY <1>14 DEF unloadDefaultLib, Without, Parts, strings
<1>15. CASE UNCHANGED <<heap, library, strings, buf>>
  BY <1>15 DEF strings, library
<1>16. ASSUME NEW t \in Table, ReadFunctions(t)
       PROVE  heap[b] # Free /\ ~Held
  BY <1>16 DEF ReadFunctions, With, strings
<1>17. CASE ReadIDs
  BY <1>17 DEF ReadIDs, With, strings
<1>18. CASE ReadVals
  BY <1>18 DEF ReadVals, With, strings
<1> QED
  BY <1>3, <1>4, <1>5, <1>6, <1>7, <1>8, <1>9, <1>10, <1>11, <1>12, <1>13,
     <1>14, <1>15, <1>16, <1>17, <1>18
  DEF Next, LoaderConfig, ProgramConfig, LibraryLoad, ldrLoadConfig, ldrSetDefaultConfig,
      loadDefaultLib, LoadFails

\* Every reachable state is ready.
LEMMA SettingsReady == Spec => []Ready
<1>1. TypeOK /\ Ready /\ [Next]_vars => Ready'
  BY ReadyStep
<1> QED
  BY <1>1, InitReady, SettingsTypes, PTL DEF Spec

\* The three known ways to lose a block are all there are, however many
\* strings, blocks and files (config.c, parser.c, loadDefLib.c).
THEOREM NoOtherLosses == Spec => OnlyKnownLosses
<1>1. ASSUME TypeOK, Flat, Ready, [Next]_vars
      PROVE  [ \/ Lost' \subseteq Lost
               \/ pc = "lines" /\ (\E f \in Field : Config[f] \in Block /\ Config'[f] # Config[f])
               \/ pc = "copy" /\ (\E f \in Field : own[f] \in Block /\ own'[f] # own[f])
               \/ pc \in {"file1", "file2"} /\ buf' = Null
             ]_vars
  BY <1>1, LossStep
<1>2. IInv => TypeOK /\ Flat
  BY DEF IInv
<1> QED
  BY <1>1, <1>2, SettingsInvariant, SettingsReady, PTL DEF Spec, OnlyKnownLosses

-----------------------------------------------------------------------------
(* The constants.                                                          *)

Loading == {"functions", "ids", "vals"}

\* The library holds what the table lists: both halves of it when no load is under way,
\* and the ids between the two.
Holds ==
  /\ lib.count = Len(table)
  /\ lib.fn = Null => lib.count = 0
  /\ lib.ID \in Block => heap[lib.ID] = [i \in 1 .. lib.count |-> table[i].id]
  /\ lib.Vals \in Block => heap[lib.Vals] = [i \in 1 .. lib.count |-> table[i].val]
  /\ pc = "vals" => lib.ID \in Block
  /\ pc \notin Loading /\ lib.count # 0 => lib.ID \in Block /\ lib.Vals \in Block

\* The initial state holds them.
LEMMA InitHolds == Init => Holds
BY DEF Init, Holds, NoLibrary

\* Neither the configuration of the loader nor that of a program touches the library.
LEMMA OthersKeepLibrary ==
  ASSUME TypeOK, Flat, LoaderConfig \/ ProgramConfig
  PROVE  /\ UNCHANGED library
         /\ pc \notin Loading /\ pc' \notin Loading
         /\ lib.ID \in Block => heap'[lib.ID] = heap[lib.ID]
         /\ lib.Vals \in Block => heap'[lib.Vals] = heap[lib.Vals]
<1> DEFINE Kept == /\ UNCHANGED library
                   /\ pc \notin Loading /\ pc' \notin Loading
                   /\ lib.ID \in Block => heap'[lib.ID] = heap[lib.ID]
                   /\ lib.Vals \in Block => heap'[lib.Vals] = heap[lib.Vals]
<1> SUFFICES Kept
  OBVIOUS
<1> USE DEF Loading, TypeOK, Flat, StringsApart, PartsApart, Apart
<1>1. ASSUME NEW next \in {"idle", "library"}, ldrLoadConfig(next)
      PROVE  Kept
  BY <1>1 DEF ldrLoadConfig, Defaults, Without, Strings
<1>2. CASE ldrSetDefaultConfig
  BY <1>2 DEF ldrSetDefaultConfig, Defaults, Without, Strings, control
<1>3. CASE ParseFile
  BY <1>3, Fresh DEF ParseFile, Without, Strings, library
<1>4. CASE ParseFileFails
  BY <1>4, Fresh DEF ParseFileFails, Strings
<1>5. ASSUME NEW f \in Field, NEW t \in Text, ParserConfigLine(f, t)
      PROVE  Kept
  BY <1>5, Fresh DEF ParserConfigLine, With, control
<1>6. CASE EndOfFile
  BY <1>6 DEF EndOfFile, Without
<1>7. CASE copyConfig
  BY <1>7 DEF copyConfig
<1>8. CASE setConfig
  BY <1>8 DEF setConfig, Without, Strings
<1>9. CASE freeConfig
  BY <1>9 DEF freeConfig, Without, Strings, control
<1>10. ASSUME NEW f \in Field, CopyField(f)
       PROVE  Kept
  BY <1>10, Fresh DEF CopyField, With
<1>11. ASSUME NEW f \in Field, SetField(f)
       PROVE  Kept
  BY <1>11, Fresh DEF SetField, Without
<1>12. ASSUME NEW f \in Field, NEW t \in Text, Edit(f, t)
       PROVE  Kept
  BY <1>12 DEF Edit, control
<1> QED
  BY <1>1, <1>2, <1>3, <1>4, <1>5, <1>6, <1>7, <1>8, <1>9, <1>10, <1>11, <1>12
  DEF LoaderConfig, ProgramConfig

\* A library that is unloaded holds nothing, and nothing is listed.
LEMMA UnloadedHolds == unloadDefaultLib /\ pc' # "vals" => Holds'
BY DEF unloadDefaultLib, NoLibrary, Holds

\* Every step keeps what the library holds.
LEMMA HoldsStep == TypeOK /\ Flat /\ Ready /\ Holds /\ [Next]_vars => Holds'
<1> SUFFICES ASSUME TypeOK, Flat, Ready, Holds, [Next]_vars PROVE Holds'
  OBVIOUS
<1>1. CASE UNCHANGED vars
  BY <1>1 DEF vars, library, control, Holds
<1>2. CASE LoaderConfig \/ ProgramConfig
  BY <1>2, OthersKeepLibrary DEF library, Holds, Loading
<1>3. CASE ldrLoadDefLibrary
  BY <1>3 DEF ldrLoadDefLibrary, library, Holds, Loading
<1>4. CASE loadDefaultLib
  <2>1. CASE lib.fn # Null
    BY <1>4, <2>1, UnloadedHolds DEF loadDefaultLib
  <2>2. CASE lib.fn = Null
    BY <1>4, <2>2 DEF loadDefaultLib, library, Holds, Loading
  <2> QED
    BY <2>1, <2>2
<1>5. ASSUME NEW t \in Table, ReadFunctions(t)
      PROVE  Holds'
  <2>1. PICK p \in suAllocMem \ {Null} :
          lib' = [fn |-> p, ID |-> Null, Vals |-> Null, count |-> Len(t)]
    BY <1>5 DEF ReadFunctions
  <2>2. /\ lib'.count = Len(t) /\ lib'.fn # Null
        /\ lib'.ID = Null /\ lib'.Vals = Null /\ table' = t
    BY <1>5, <2>1 DEF ReadFunctions
  <2>3. pc' = IF t = <<>> THEN "idle" ELSE "ids"
    BY <1>5 DEF ReadFunctions
  <2>4. t = <<>> => Len(t) = 0
    OBVIOUS
  <2> QED
    BY <2>2, <2>3, <2>4 DEF Holds, Loading
<1>6. CASE ReadIDs
  <2>1. PICK p \in suAllocMem \ {Null} :
          /\ heap' = With(p, [i \in 1 .. lib.count |-> table[i].id])
          /\ lib' = [lib EXCEPT !.ID = p]
    BY <1>6 DEF ReadIDs
  <2>2. /\ lib'.count = lib.count /\ lib'.fn = lib.fn
        /\ lib'.ID = p /\ lib'.Vals = lib.Vals /\ table' = table
        /\ pc = "ids" /\ pc' = "vals"
    BY <1>6, <2>1 DEF ReadIDs, TypeOK
  <2>3. p \in Block /\ heap'[p] = [i \in 1 .. lib.count |-> table[i].id]
    BY <2>1 DEF suAllocMem, With
  <2>4. lib.Vals = Null
    BY <2>2 DEF Ready
  <2> QED
    BY <2>2, <2>3, <2>4 DEF Holds, Loading
<1>7. CASE ReadVals
  <2>1. PICK p \in suAllocMem \ {Null} :
          /\ heap' = With(p, [i \in 1 .. lib.count |-> table[i].val])
          /\ lib' = [lib EXCEPT !.Vals = p]
    BY <1>7 DEF ReadVals
  <2>2. /\ lib'.count = lib.count /\ lib'.fn = lib.fn
        /\ lib'.ID = lib.ID /\ lib'.Vals = p /\ table' = table
        /\ pc = "vals" /\ pc' = "idle"
    BY <1>7, <2>1 DEF ReadVals, TypeOK
  <2>3. p \in Block /\ heap'[p] = [i \in 1 .. lib.count |-> table[i].val]
    BY <2>1 DEF suAllocMem, With
  <2>4. lib.ID \in Block /\ heap'[lib.ID] = heap[lib.ID]
    BY <2>1, <2>2, Fresh DEF Holds, With, Flat, AllLive, Live, Apart, TypeOK
  <2> QED
    BY <2>2, <2>3, <2>4 DEF Holds, Loading
<1>8. CASE LoadFails
  BY <1>8, UnloadedHolds DEF LoadFails
<1> QED
  BY <1>1, <1>2, <1>3, <1>4, <1>5, <1>6, <1>7, <1>8 DEF Next, LibraryLoad

\* The library in use holds its constants, sorted, and the search finds them.
LEMMA HeldAreFound == TypeOK /\ Holds => ConstantsFound
<1> SUFFICES ASSUME TypeOK, Holds, pc = "idle", NEW id \in ConstID
             PROVE  LET listed == {i \in DOMAIN table : table[i].id = id}
                    IN  IF listed = {}
                        THEN ldrGetConstVal(id) = NoConst
                        ELSE \E i \in listed : ldrGetConstVal(id) = table[i].val
  BY DEF ConstantsFound
<1> DEFINE n == lib.count
           ids == heap[lib.ID]
           vals == heap[lib.Vals]
<1>1. table \in Seq([id : Nat, val : Nat])
  <2>1. <<>> \in Seq([id : Nat, val : Nat])
    OBVIOUS
  <2> QED
    BY <2>1 DEF TypeOK
<1>2. n = Len(table) /\ n \in Nat /\ DOMAIN table = 1 .. n
  BY <1>1 DEF Holds
<1>3. CASE n = 0
  BY <1>2, <1>3 DEF ldrGetConstVal
<1>4. CASE n # 0
  <2>1. ids = [i \in 1 .. n |-> table[i].id] /\ vals = [i \in 1 .. n |-> table[i].val]
    BY <1>4 DEF Holds, Loading
  <2>2. \A i \in 1 .. n : table[i].id \in Nat
    <3>1. table \in [1 .. Len(table) -> [id : Nat, val : Nat]]
      BY <1>1, LenProperties
    <3>2. \A i \in 1 .. Len(table) : table[i] \in [id : Nat, val : Nat]
      BY <3>1
    <3> HIDE DEF n
    <3> QED
      BY <1>2, <3>2
  <2>3. ids \in [1 .. n -> Nat]
    BY <2>1, <2>2
  <2>4. \A i, j \in 1 .. n : i <= j => ids[i] <= ids[j]
    <3>1. table \in Table
      BY <1>2, <1>4 DEF TypeOK
    <3>2. \A i, j \in 1 .. n : i <= j => table[i].id <= table[j].id
      BY <1>2, <3>1, ConstantsAssumption
    <3> QED
      BY <2>1, <3>2
  <2>5. id \in Nat /\ ldrGetConstVal(id) = Search(id, lib)
    BY <1>4, ConstantsAssumption DEF ldrGetConstVal
  <2>6. Right(Search(id, lib), id, ids, vals)
    BY <1>2, <2>3, <2>4, <2>5, SearchRight
  <2>7. Listed(id, ids) = {i \in DOMAIN table : table[i].id = id}
    BY <1>2, <2>1 DEF Listed
  <2>8. \A i \in Listed(id, ids) : vals[i] = table[i].val
    BY <1>2, <2>1 DEF Listed
  <2> HIDE DEF n, ids, vals
  <2> QED
    BY <2>5, <2>6, <2>7, <2>8 DEF Right
<1> QED
  BY <1>3, <1>4

\* Whatever the loads, their failures and the memory there is were, a program is answered
\* the value the library in use lists, for any number of constants (loadDefLib.c, API.c).
THEOREM ConstantsAreFound == Spec => []ConstantsFound
<1>1. IInv => TypeOK /\ Flat
  BY DEF IInv
<1>2. TypeOK /\ Flat /\ Ready /\ Holds /\ [Next]_vars => Holds'
  BY HoldsStep
<1>3. TypeOK /\ Holds => ConstantsFound
  BY HeldAreFound
<1> QED
  BY <1>1, <1>2, <1>3, InitHolds, SettingsInvariant, SettingsReady, PTL DEF Spec

=============================================================================
