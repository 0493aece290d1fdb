---------------------------- MODULE PpuProofs ----------------------------
(***************************************************************************)
(* Proofs about PixelPipeline and PpuModes, for every width of the screen,   *)
(* every contents of OAM and every registers.                               *)
(***************************************************************************)
EXTENDS PpuModes, PixelPipeline, FiniteSetTheorems, SequenceTheorems,
        WellFoundedInduction, TLAPS

-----------------------------------------------------------------------------
(* The list of objects                                                      *)

(* A nonempty set of naturals has a least element.                          *)
LEMMA LeastNumber ==
  ASSUME NEW T \in SUBSET Nat, T # {}
  PROVE  \E n \in T : \A m \in T : n <= m
<1> DEFINE R == OpToRel(<, Nat)
<1>1. IsWellFoundedOn(R, Nat)
  BY NatLessThanWellFounded
<1>2. \A a, b \in Nat : a < b => <<a, b>> \in R
  BY DEF OpToRel
<1> HIDE DEF R
<1>3. PICK n \in T : \A m \in T : ~(<<m, n>> \in R)
  BY <1>1, WFMin, Zenon
<1>4. \A m \in T : ~(m < n)
  BY <1>2, <1>3, Zenon
<1>5. \A m \in T : n <= m
  BY <1>4
<1> QED BY <1>5

Entry == [x : Int, index : Nat]

(* p sorts the first n entries of the list.                                 *)
Sorts(p, list, n) ==
  /\ p \in [1..n -> 1..n]
  /\ \A k \in 1..n : \E i \in 1..n : p[i] = k
  /\ \A i, j \in 1..n : i < j => ~Before(list[p[j]], list[p[i]])

(* An order of n entries and the place k of the next one give an order of   *)
(* n + 1.                                                                   *)
LEMMA Insertion ==
  ASSUME NEW list \in Seq(Entry), NEW n \in Nat, n + 1 <= Len(list), NEW p, Sorts(p, list, n),
         NEW k \in 1..n + 1,
         \A i \in 1..n : i < k => ~Before(list[n + 1], list[p[i]]),
         k <= n => Before(list[n + 1], list[p[k]])
  PROVE  \E q : Sorts(q, list, n + 1)
<1> DEFINE q == [i \in 1..n + 1 |-> IF i < k THEN p[i] ELSE IF i = k THEN n + 1 ELSE p[i - 1]]
<1>1. p \in [1..n -> 1..n]
  BY DEF Sorts
<1>2. q \in [1..n + 1 -> 1..n + 1]
  BY <1>1
<1>3. \A m \in 1..n + 1 : \E i \in 1..n + 1 : q[i] = m
  <2> TAKE m \in 1..n + 1
  <2>1. CASE m = n + 1
    BY <2>1
  <2>2. CASE m \in 1..n
    <3>1. PICK i \in 1..n : p[i] = m
      BY <2>2 DEF Sorts
    <3>2. i < k => q[i] = m
      BY <3>1
    <3>3. ~(i < k) => q[i + 1] = m
      BY <3>1
    <3>4. i \in 1..n + 1 /\ i + 1 \in 1..n + 1
      OBVIOUS
    <3> QED BY <3>2, <3>3, <3>4, Zenon
  <2> QED BY <2>1, <2>2
<1>4. ASSUME NEW i \in 1..n + 1, NEW j \in 1..n + 1, i < j
      PROVE  ~Before(list[q[j]], list[q[i]])
  <2>1. \A a, b \in 1..n : a < b => ~Before(list[p[b]], list[p[a]])
    BY DEF Sorts
  <2>2. \A a \in 1..Len(list) : list[a].x \in Int /\ list[a].index \in Nat
    <3>1. \A a \in 1..Len(list) : list[a] \in Entry
      BY ElementOfSeq
    <3> QED BY <3>1 DEF Entry
  <2>3. CASE j < k
    BY <1>4, <2>1, <2>3
  <2>4. CASE j = k
    BY <1>4, <2>4
  <2>5. CASE k < j /\ i = k
    <3>1. q[i] = n + 1 /\ q[j] = p[j - 1] /\ j - 1 \in 1..n /\ k \in 1..n /\ k <= j - 1
      BY <2>5
    <3>2. k = j - 1 \/ ~Before(list[p[j - 1]], list[p[k]])
      BY <2>1, <3>1
    <3>3. p[j - 1] \in 1..Len(list) /\ p[k] \in 1..Len(list) /\ n + 1 \in 1..Len(list)
      <4>1. p[j - 1] \in 1..n /\ p[k] \in 1..n
        BY <1>1, <3>1, Zenon
      <4>2. Len(list) \in Nat
        OBVIOUS
      <4> HIDE DEF q
      <4> QED BY <4>1, <4>2
    <3>4. Before(list[n + 1], list[p[k]])
      BY <3>1
    <3> DEFINE a == list[n + 1]
               b == list[p[k]]
               c == list[p[j - 1]]
    <3>5. /\ a.x \in Int /\ b.x \in Int /\ c.x \in Int
          /\ a.index \in Nat /\ b.index \in Nat /\ c.index \in Nat
      BY <2>2, <3>3
    <3>6. Before(a, b) /\ (b = c \/ ~Before(c, b))
      BY <3>2, <3>4
    <3> HIDE DEF a, b, c
    <3>7. ~Before(c, a)
      BY <3>5, <3>6 DEF Before
    <3> QED BY <3>1, <3>7 DEF a, c
  <2>6. CASE k < j /\ i < k
    BY <2>1, <2>6
  <2>7. CASE k < j /\ k < i
    <3>1. q[i] = p[i - 1] /\ q[j] = p[j - 1] /\ i - 1 \in 1..n /\ j - 1 \in 1..n
      BY <1>4, <2>7
    <3> QED BY <1>4, <2>1, <3>1
  <2> QED BY <2>3, <2>4, <2>5, <2>6, <2>7
<1>5. Sorts(q, list, n + 1)
  BY <1>2, <1>3, <1>4 DEF Sorts
<1> QED BY <1>5

(* Every list can be sorted, so that the code's list is the sorted one.     *)
LEMMA CanSort ==
  ASSUME NEW list \in Seq(Entry)
  PROVE  \E p \in [1..Len(list) -> 1..Len(list)] : IsSorting(p, list)
<1> DEFINE T == {n \in 0..Len(list) : ~\E p : Sorts(p, list, n)}
<1>1. SUFFICES T = {}
  <2>1. PICK p : Sorts(p, list, Len(list))
    <3>1. Len(list) \in 0..Len(list)
      OBVIOUS
    <3> QED BY <1>1, <3>1
  <2> QED BY <2>1 DEF Sorts, IsSorting
<1>2. SUFFICES ASSUME T # {} PROVE FALSE
  OBVIOUS
<1>3. PICK n \in T : \A m \in T : n <= m
  <2>1. T \in SUBSET Nat
    OBVIOUS
  <2> HIDE DEF T
  <2> QED BY <1>2, <2>1, LeastNumber
<1>4. n # 0
  <2>1. Sorts(<<>>, list, 0)
    BY DEF Sorts
  <2> QED BY <2>1
<1>5. PICK m \in 0..Len(list) : n = m + 1 /\ m \notin T
  <2>1. n \in 1..Len(list) /\ n - 1 \in 0..Len(list) /\ ~(n <= n - 1)
    BY <1>4
  <2> QED BY <1>3, <2>1
<1>6. PICK p : Sorts(p, list, m)
  BY <1>5
<1> DEFINE L == {k \in 1..m : Before(list[m + 1], list[p[k]])}
<1>7. CASE L = {}
  <2>1. \E q : Sorts(q, list, m + 1)
    <3>1. m + 1 \in 1..m + 1 /\ m + 1 <= Len(list) /\ m \in Nat
      BY <1>5
    <3>2. \A i \in 1..m : ~Before(list[m + 1], list[p[i]])
      BY <1>7
    <3> HIDE DEF L
    <3> QED BY <1>6, <3>1, <3>2, Insertion
  <2> QED BY <1>5, <2>1
<1>8. CASE L # {}
  <2>1. PICK k \in L : \A j \in L : k <= j
    <3>1. L \in SUBSET Nat
      OBVIOUS
    <3> HIDE DEF L
    <3> QED BY <1>8, <3>1, LeastNumber
  <2>2. k \in 1..m + 1 /\ \A i \in 1..m : i < k => ~Before(list[m + 1], list[p[i]])
    BY <2>1
  <2>3. \E q : Sorts(q, list, m + 1)
    BY <1>5, <1>6, <2>1, <2>2, Insertion
  <2> QED BY <1>5, <2>3
<1> QED BY <1>7, <1>8

(* What the search has found after the first n entries: one for each that   *)
(* is on the line, as long as there is room.                                *)
OnLine(t, n) == {e \in 0..n - 1 : t[e] # Off}
Listed(t, n) == {e \in OnLine(t, n) : Cardinality(OnLine(t, e + 1)) <= MaxObjects}
EntryOf(t, e) == [x |-> t[e], index |-> OamIndex(e)]

Scanned(t, n, list) ==
  /\ list \in Seq(Entry) /\ Len(list) <= MaxObjects
  /\ Len(list) < MaxObjects => Cardinality(OnLine(t, n)) = Len(list)
  /\ Len(list) = MaxObjects => Cardinality(OnLine(t, n)) >= MaxObjects
  /\ \A i \in 1..Len(list) : \E e \in Listed(t, n) : list[i] = EntryOf(t, e)
  /\ \A e \in Listed(t, n) : \E i \in 1..Len(list) : list[i] = EntryOf(t, e)

LEMMA PlaceTyped ==
  ASSUME NEW t \in Tables, NEW n \in 0..Entries - 1
  PROVE  t[n] \in Int /\ t[n] >= -8 /\ (t[n] <= 247 \/ t[n] = Off)
<1> DEFINE A == -8..247 \cup {Off}
<1>1. t \in [0..Entries - 1 -> A]
  BY PipelineAssumption
<1> HIDE DEF A
<1>2. t[n] \in A
  BY <1>1
<1> QED BY <1>2 DEF A, Off

LEMMA OnLineCounts ==
  ASSUME NEW t, NEW n \in Nat
  PROVE  /\ IsFiniteSet(OnLine(t, n)) /\ Cardinality(OnLine(t, n)) \in Nat
         /\ OnLine(t, 0) = {} /\ Cardinality(OnLine(t, 0)) = 0
         /\ t[n] = Off => OnLine(t, n + 1) = OnLine(t, n)
         /\ t[n] # Off => /\ OnLine(t, n + 1) = OnLine(t, n) \cup {n}
                          /\ Cardinality(OnLine(t, n + 1)) = Cardinality(OnLine(t, n)) + 1
<1>1. IsFiniteSet(OnLine(t, n))
  <2>1. OnLine(t, n) \subseteq 0..n - 1
    BY DEF OnLine
  <2>2. IsFiniteSet(0..n - 1)
    BY FS_Interval
  <2> QED BY <2>1, <2>2, FS_Subset
<1>2. OnLine(t, 0) = {}
  BY DEF OnLine
<1>3. t[n] = Off => OnLine(t, n + 1) = OnLine(t, n)
  BY DEF OnLine
<1>4. t[n] # Off => OnLine(t, n + 1) = OnLine(t, n) \cup {n}
  BY DEF OnLine
<1>5. n \notin OnLine(t, n)
  BY DEF OnLine
<1>6. Cardinality(OnLine(t, n) \cup {n}) = Cardinality(OnLine(t, n)) + 1
  BY <1>1, <1>5, FS_AddElement
<1> QED BY <1>1, <1>2, <1>3, <1>4, <1>6, FS_CardinalityType, FS_EmptySet

LEMMA OnLineGrows ==
  ASSUME NEW t, NEW n \in Nat, NEW e \in OnLine(t, n)
  PROVE  Cardinality(OnLine(t, e + 1)) <= Cardinality(OnLine(t, n))
<1>1. OnLine(t, e + 1) \subseteq OnLine(t, n)
  BY DEF OnLine
<1> QED BY <1>1, OnLineCounts, FS_Subset

(* One more entry                                                           *)
ScanStep(t, list, e) ==
  IF Len(list) < MaxObjects /\ t[e] # Off THEN Append(list, EntryOf(t, e)) ELSE list

LEMMA ScanSteps ==
  ASSUME NEW t \in Tables, NEW n \in Nat, n < Entries, NEW list, Scanned(t, n, list)
  PROVE  Scanned(t, n + 1, ScanStep(t, list, n))
<1> USE PipelineAssumption
<1>1. t[n] \in Int /\ EntryOf(t, n) \in Entry
  <2>1. t[n] \in Int
    BY PlaceTyped
  <2>2. OamIndex(n) \in Nat
    BY DEF OamIndex
  <2> QED BY <2>1, <2>2 DEF Entry, EntryOf
<1>2. /\ list \in Seq(Entry) /\ Len(list) \in Nat /\ Len(list) <= MaxObjects
      /\ Cardinality(OnLine(t, n)) \in Nat /\ MaxObjects \in Nat
  BY OnLineCounts DEF Scanned
<1>3. CASE t[n] = Off
  <2>1. OnLine(t, n + 1) = OnLine(t, n) /\ Listed(t, n + 1) = Listed(t, n)
    BY <1>3, OnLineCounts DEF Listed
  <2> QED BY <1>3, <2>1 DEF Scanned, ScanStep
<1>4. CASE t[n] # Off /\ Len(list) < MaxObjects
  <2> DEFINE next == Append(list, EntryOf(t, n))
  <2>1. /\ next \in Seq(Entry) /\ Len(next) = Len(list) + 1 /\ next[Len(list) + 1] = EntryOf(t, n)
        /\ \A i \in 1..Len(list) : next[i] = list[i]
    BY <1>1, <1>2
  <2>2. /\ OnLine(t, n + 1) = OnLine(t, n) \cup {n}
        /\ Cardinality(OnLine(t, n + 1)) = Len(list) + 1
    BY <1>4, OnLineCounts DEF Scanned
  <2> HIDE DEF next
  <2>3. \A i \in 1..Len(next) : \E e \in Listed(t, n + 1) : next[i] = EntryOf(t, e)
    <3> TAKE i \in 1..Len(next)
    <3>0. n \in Listed(t, n + 1) /\ Listed(t, n) \subseteq Listed(t, n + 1)
      BY <1>2, <1>4, <2>2 DEF Listed
    <3>1. CASE i = Len(list) + 1
      BY <2>1, <3>0, <3>1
    <3>2. CASE i \in 1..Len(list)
      <4>1. PICK e \in Listed(t, n) : list[i] = EntryOf(t, e)
        BY <3>2 DEF Scanned
      <4> QED BY <2>1, <3>0, <3>2, <4>1
    <3> QED BY <1>2, <2>1, <3>1, <3>2
  <2>4. \A e \in Listed(t, n + 1) : \E i \in 1..Len(next) : next[i] = EntryOf(t, e)
    <3> TAKE e \in Listed(t, n + 1)
    <3>1. CASE e = n
      BY <1>2, <2>1, <3>1
    <3>2. CASE e # n
      <4>1. e \in Listed(t, n)
        BY <2>2, <3>2 DEF Listed
      <4>2. PICK i \in 1..Len(list) : list[i] = EntryOf(t, e)
        BY <4>1 DEF Scanned
      <4> QED BY <1>2, <2>1, <4>2
    <3> QED BY <3>1, <3>2
  <2>5. ScanStep(t, list, n) = next
    BY <1>4 DEF ScanStep, next
  <2>6. /\ Len(next) <= MaxObjects /\ Cardinality(OnLine(t, n + 1)) = Len(next)
        /\ Len(next) = MaxObjects => Cardinality(OnLine(t, n + 1)) >= MaxObjects
    BY <1>2, <1>4, <2>1, <2>2
  <2> QED BY <2>1, <2>3, <2>4, <2>5, <2>6, Zenon DEF Scanned
<1>5. CASE t[n] # Off /\ Len(list) = MaxObjects
  <2>1. /\ OnLine(t, n + 1) = OnLine(t, n) \cup {n}
        /\ Cardinality(OnLine(t, n + 1)) = Cardinality(OnLine(t, n)) + 1
        /\ Cardinality(OnLine(t, n)) >= MaxObjects
    BY <1>5, OnLineCounts DEF Scanned
  <2>2. Listed(t, n + 1) = Listed(t, n)
    <3>1. n \notin Listed(t, n + 1)
      BY <1>2, <2>1 DEF Listed
    <3> QED BY <2>1, <3>1 DEF Listed
  <2> QED BY <1>2, <1>5, <2>1, <2>2 DEF Scanned, ScanStep
<1> QED BY <1>2, <1>3, <1>4, <1>5

(* The search of the code: its recursion exists and finds what it should.   *)
ScanTo(t, f, n) == f = [k \in 0..n |-> IF k = 0 THEN <<>> ELSE ScanStep(t, f[k - 1], k - 1)]

LEMMA ScanExists ==
  ASSUME NEW t, NEW n \in Nat
  PROVE  \E f : ScanTo(t, f, n)
<1> DEFINE T == {m \in Nat : ~\E f : ScanTo(t, f, m)}
<1>1. SUFFICES ASSUME T # {} PROVE FALSE
  OBVIOUS
<1>2. PICK m \in T : \A k \in T : m <= k
  <2>1. T \in SUBSET Nat
    OBVIOUS
  <2> HIDE DEF T
  <2> QED BY <1>1, <2>1, LeastNumber
<1>3. m # 0
  <2>1. ScanTo(t, [k \in 0..0 |-> <<>>], 0)
    BY DEF ScanTo
  <2> QED BY <2>1
<1>4. PICK f : ScanTo(t, f, m - 1)
  <2>1. m - 1 \in Nat /\ ~(m <= m - 1)
    BY <1>3
  <2> QED BY <1>2, <2>1
<1> DEFINE g == [k \in 0..m |-> IF k = m THEN ScanStep(t, f[m - 1], m - 1) ELSE f[k]]
<1>5. \A k \in 0..m : g[k] = IF k = 0 THEN <<>> ELSE ScanStep(t, g[k - 1], k - 1)
  <2> TAKE k \in 0..m
  <2>1. CASE k = m
    BY <1>3, <2>1
  <2>2. CASE k # m
    <3>1. k \in 0..m - 1
      BY <2>2
    <3>2. f[k] = IF k = 0 THEN <<>> ELSE ScanStep(t, f[k - 1], k - 1)
      BY <1>4, <3>1 DEF ScanTo
    <3>3. k # 0 => k - 1 # m /\ k - 1 \in 0..m
      OBVIOUS
    <3> QED BY <2>2, <3>2, <3>3
  <2> QED BY <2>1, <2>2
<1>6. ScanTo(t, g, m)
  <2>1. g = [k \in 0..m |-> g[k]]
    OBVIOUS
  <2> HIDE DEF g
  <2> QED BY <1>5, <2>1 DEF ScanTo
<1> QED BY <1>6

LEMMA FoundIsScanned ==
  ASSUME NEW t \in Tables
  PROVE  Scanned(t, Entries, Found(t))
<1>1. Entries \in Nat
  BY PipelineAssumption
<1> DEFINE f == CHOOSE f : ScanTo(t, f, Entries)
<1>2. ScanTo(t, f, Entries)
  BY <1>1, ScanExists
<1>3. Found(t) = f[Entries]
  BY DEF Found, ScanTo, ScanStep, EntryOf
<1> HIDE DEF f
<1> DEFINE T == {n \in 0..Entries : ~Scanned(t, n, f[n])}
<1>4. SUFFICES ASSUME T # {} PROVE FALSE
  BY <1>1, <1>3
<1>5. PICK n \in T : \A m \in T : n <= m
  <2>1. T \in SUBSET Nat
    OBVIOUS
  <2> HIDE DEF T
  <2> QED BY <1>4, <2>1, LeastNumber
<1>6. n # 0
  <2>1. f[0] = <<>>
    BY <1>1, <1>2 DEF ScanTo
  <2>2. Scanned(t, 0, <<>>)
    BY OnLineCounts, PipelineAssumption DEF Scanned, Listed
  <2> QED BY <2>1, <2>2
<1>7. n - 1 \in 0..Entries /\ n - 1 \in Nat /\ n - 1 < Entries /\ ~(n <= n - 1)
  BY <1>1, <1>6
<1>8. f[n] = ScanStep(t, f[n - 1], n - 1)
  BY <1>2, <1>6 DEF ScanTo
<1>9. Scanned(t, n - 1, f[n - 1])
  BY <1>5, <1>7
<1>10. Scanned(t, (n - 1) + 1, f[n])
  BY <1>7, <1>8, <1>9, ScanSteps
<1> QED BY <1>7, <1>10

SpritesOf(t, s) ==
  /\ s \in Seq(Entry) /\ Len(s) <= MaxObjects
  /\ \A i \in 1..Len(s) : \E e \in Listed(t, Entries) : s[i] = EntryOf(t, e)
  /\ \A e \in Listed(t, Entries) : \E i \in 1..Len(s) : s[i] = EntryOf(t, e)
  /\ \A i, j \in 1..Len(s) : i < j => ~Before(s[j], s[i])

LEMMA SpriteListIsSorted ==
  ASSUME NEW t \in Tables
  PROVE  SpritesOf(t, SpriteList(t))
<1> DEFINE list == Found(t)
           D == 1..Len(list)
           p == CHOOSE q \in [D -> D] : IsSorting(q, list)
           s == SpriteList(t)
<1>1. /\ list \in Seq(Entry) /\ Len(list) <= MaxObjects /\ Len(list) \in Nat
      /\ \A i \in D : \E e \in Listed(t, Entries) : list[i] = EntryOf(t, e)
      /\ \A e \in Listed(t, Entries) : \E i \in D : list[i] = EntryOf(t, e)
  BY FoundIsScanned DEF Scanned
<1>2. s = [i \in D |-> list[p[i]]]
  BY DEF SpriteList
<1> HIDE DEF list, s
<1>3. p \in [D -> D] /\ IsSorting(p, list)
  BY <1>1, CanSort
<1> HIDE DEF p
<1>4. /\ \A i \in D : p[i] \in D /\ s[i] = list[p[i]]
      /\ \A k \in D : \E i \in D : p[i] = k
      /\ \A i, j \in D : i < j => ~Before(list[p[j]], list[p[i]])
  BY <1>2, <1>3 DEF IsSorting
<1>5. s \in Seq(Entry) /\ Len(s) = Len(list)
  <2>1. \A i \in D : list[i] \in Entry
    BY <1>1, ElementOfSeq
  <2>2. \A i \in D : list[p[i]] \in Entry
    BY <1>4, <2>1
  <2> QED BY <1>1, <1>2, <2>2
<1>6. \A i, j \in D : i < j => ~Before(s[j], s[i])
  BY <1>4
<1>7. ASSUME NEW e \in Listed(t, Entries) PROVE \E i \in D : s[i] = EntryOf(t, e)
  <2>1. PICK k \in D : list[k] = EntryOf(t, e)
    BY <1>1
  <2>2. PICK i \in D : p[i] = k
    BY <1>4
  <2> QED BY <1>4, <2>1, <2>2
<1>8. ASSUME NEW i \in D PROVE \E e \in Listed(t, Entries) : s[i] = EntryOf(t, e)
  <2>1. p[i] \in D /\ s[i] = list[p[i]]
    BY <1>4
  <2> QED BY <1>1, <2>1
<1> QED BY <1>1, <1>5, <1>6, <1>7, <1>8 DEF SpritesOf, s

-----------------------------------------------------------------------------
(* Queues                                                                   *)

LEMMA Joining ==
  ASSUME NEW S, NEW s \in Seq(S), NEW t \in Seq(S)
  PROVE  /\ s \o t \in Seq(S) /\ Len(s \o t) = Len(s) + Len(t)
         /\ \A i \in 1..Len(s) : (s \o t)[i] = s[i]
         /\ \A i \in 1..Len(t) : (s \o t)[Len(s) + i] = t[i]
         /\ \A i \in Len(s) + 1..Len(s) + Len(t) : (s \o t)[i] = t[i - Len(s)]
OBVIOUS

LEMMA Cutting ==
  ASSUME NEW S, NEW s \in Seq(S), NEW n \in 0..Len(s)
  PROVE  /\ From(s, n) \in Seq(S) /\ Len(From(s, n)) = Len(s) - n
         /\ \A i \in 1..Len(s) - n : From(s, n)[i] = s[n + i]
         /\ SubSeq(s, 1, n) \in Seq(S) /\ Len(SubSeq(s, 1, n)) = n
         /\ \A i \in 1..n : SubSeq(s, 1, n)[i] = s[i]
<1>1. Len(s) \in Nat /\ n \in Int /\ n + 1 \in Int /\ 1 \in Int
  OBVIOUS
<1>2. \A i \in 1..Len(s) : s[i] \in S
  BY ElementOfSeq
<1>3. (\A i \in n + 1..Len(s) : s[i] \in S) /\ (\A i \in 1..n : s[i] \in S)
  BY <1>1, <1>2
<1>4. /\ From(s, n) \in Seq(S)
      /\ Len(From(s, n)) = IF n + 1 <= Len(s) THEN Len(s) - (n + 1) + 1 ELSE 0
      /\ \A i \in 1..Len(s) - (n + 1) + 1 : From(s, n)[i] = s[n + 1 + i - 1]
  BY <1>1, <1>3, SubSeqProperties DEF From
<1>5. /\ SubSeq(s, 1, n) \in Seq(S)
      /\ Len(SubSeq(s, 1, n)) = IF 1 <= n THEN n - 1 + 1 ELSE 0
      /\ \A i \in 1..n - 1 + 1 : SubSeq(s, 1, n)[i] = s[1 + i - 1]
  BY <1>1, <1>3, SubSeqProperties
<1>6. Len(From(s, n)) = Len(s) - n /\ Len(SubSeq(s, 1, n)) = n
  BY <1>1, <1>4, <1>5
<1>7. \A i \in 1..Len(s) - n : From(s, n)[i] = s[n + i]
  <2> TAKE i \in 1..Len(s) - n
  <2>1. i \in 1..Len(s) - (n + 1) + 1 /\ n + 1 + i - 1 = n + i
    BY <1>1
  <2> QED BY <1>4, <2>1
<1>8. \A i \in 1..n : SubSeq(s, 1, n)[i] = s[i]
  <2> TAKE i \in 1..n
  <2>1. i \in 1..n - 1 + 1 /\ 1 + i - 1 = i
    BY <1>1
  <2> QED BY <1>5, <2>1
<1> QED BY <1>4, <1>5, <1>6, <1>7, <1>8

Layers == {"background", "window"} \X Int
Pixels == Nat \X Nat

(* The pixels of column c - 1: in the frame, or else in the fifo.           *)
BgAt(fr, f, c) == IF c <= Len(fr) THEN fr[c][1] ELSE f[c - Len(fr)]
SprAt(fr, s, c) == IF c <= Len(fr) THEN fr[c][2] ELSE s[c - Len(fr)]

(* Showing pixels does not move them.                                       *)
LEMMA Showing ==
  ASSUME frame \in Seq(Layers \X Pixels), NEW f \in Seq(Layers), NEW s \in Seq(Pixels),
         NEW all \in BOOLEAN, Len(f) <= Len(s), Show(f, s, all)
  PROVE  /\ frame' \in Seq(Layers \X Pixels) /\ bgFifo' \in Seq(Layers)
         /\ spriteFifo' \in Seq(Pixels)
         /\ Len(frame') + Len(bgFifo') = Len(frame) + Len(f)
         /\ Len(frame') + Len(spriteFifo') = Len(frame) + Len(s)
         /\ Len(bgFifo') = IF all \/ Len(f) = 0 THEN 0 ELSE Len(f) - 1
         /\ \A c \in 1..Len(frame) + Len(f) : BgAt(frame', bgFifo', c) = BgAt(frame, f, c)
         /\ \A c \in 1..Len(frame) + Len(s) : SprAt(frame', spriteFifo', c) = SprAt(frame, s, c)
<1> DEFINE P == Layers \X Pixels
           n == IF all THEN Len(f) ELSE MinOf(1, Len(f))
           g == [k \in 1..n |-> <<f[k], s[k]>>]
<1>1. /\ n \in 0..Len(f) /\ n \in 0..Len(s) /\ Len(f) - n = IF all \/ Len(f) = 0 THEN 0 ELSE Len(f) - 1
      /\ Len(frame) \in Nat /\ Len(f) \in Nat /\ Len(s) \in Nat
  <2>1. Len(frame) \in Nat /\ Len(f) \in Nat /\ Len(s) \in Nat
    OBVIOUS
  <2> DEFINE m == IF all \/ Len(f) = 0 THEN 0 ELSE Len(f) - 1
  <2>2. CASE all
    <3>1. n = Len(f) /\ m = 0
      BY <2>2, Zenon
    <3> HIDE DEF n, m
    <3>2. n \in 0..Len(f) /\ n \in 0..Len(s) /\ Len(f) - n = m
      BY <2>1, <3>1
    <3> QED BY <2>1, <3>2 DEF m
  <2>3. CASE ~all
    <3>1. n = MinOf(1, Len(f)) /\ m = IF Len(f) = 0 THEN 0 ELSE Len(f) - 1
      BY <2>3, Zenon
    <3> HIDE DEF n, m
    <3>2. n \in 0..Len(f) /\ n \in 0..Len(s) /\ Len(f) - n = m
      <4>1. Len(f) = 0 => n = 0 /\ m = 0
        BY <3>1 DEF MinOf
      <4>2. Len(f) # 0 => n = 1 /\ m = Len(f) - 1
        BY <2>1, <3>1 DEF MinOf
      <4> QED BY <2>1, <4>1, <4>2
    <3> QED BY <2>1, <3>2 DEF m
  <2> QED BY <2>2, <2>3
<1>2. frame' = frame \o g /\ bgFifo' = From(f, n) /\ spriteFifo' = From(s, n)
  BY DEF Show
<1> HIDE DEF n
<1>3. g \in Seq(P) /\ Len(g) = n /\ \A k \in 1..n : g[k] = <<f[k], s[k]>>
  <2>1. \A k \in 1..n : f[k] \in Layers /\ s[k] \in Pixels
    <3>1. \A k \in 1..n : k \in 1..Len(f) /\ k \in 1..Len(s)
      BY <1>1
    <3> QED BY <3>1, ElementOfSeq
  <2>2. \A k \in 1..n : <<f[k], s[k]>> \in P
    BY <2>1
  <2> HIDE DEF P
  <2> QED BY <1>1, <2>2
<1> HIDE DEF g
<1>20. frame \in Seq(P)
  OBVIOUS
<1> HIDE DEF P
<1>4. /\ frame' \in Seq(P) /\ Len(frame') = Len(frame) + n
      /\ \A i \in 1..Len(frame) : frame'[i] = frame[i]
      /\ \A i \in 1..n : frame'[Len(frame) + i] = <<f[i], s[i]>>
  <2>1. /\ frame \o g \in Seq(P) /\ Len(frame \o g) = Len(frame) + Len(g)
        /\ \A i \in 1..Len(frame) : (frame \o g)[i] = frame[i]
        /\ \A i \in 1..Len(g) : (frame \o g)[Len(frame) + i] = g[i]
    BY <1>3, <1>20, Joining
  <2> QED BY <1>2, <1>3, <2>1
<1>5. /\ bgFifo' \in Seq(Layers) /\ Len(bgFifo') = Len(f) - n
      /\ \A i \in 1..Len(f) - n : bgFifo'[i] = f[n + i]
  <2>1. /\ From(f, n) \in Seq(Layers) /\ Len(From(f, n)) = Len(f) - n
        /\ \A i \in 1..Len(f) - n : From(f, n)[i] = f[n + i]
    BY <1>1, Cutting
  <2> QED BY <1>2, <2>1
<1>6. /\ spriteFifo' \in Seq(Pixels) /\ Len(spriteFifo') = Len(s) - n
      /\ \A i \in 1..Len(s) - n : spriteFifo'[i] = s[n + i]
  <2>1. /\ From(s, n) \in Seq(Pixels) /\ Len(From(s, n)) = Len(s) - n
        /\ \A i \in 1..Len(s) - n : From(s, n)[i] = s[n + i]
    BY <1>1, Cutting
  <2> QED BY <1>2, <2>1
<1>7. ASSUME NEW c \in 1..Len(frame) + Len(f)
      PROVE  BgAt(frame', bgFifo', c) = BgAt(frame, f, c)
  <2>1. CASE c <= Len(frame)
    <3>1. c \in 1..Len(frame) /\ c <= Len(frame')
      BY <1>1, <1>4, <2>1
    <3>2. frame'[c] = frame[c]
      BY <1>4, <3>1, Zenon
    <3> QED BY <2>1, <3>1, <3>2, Zenon DEF BgAt
  <2>2. CASE c > Len(frame) /\ c <= Len(frame) + n
    <3>1. c - Len(frame) \in 1..n /\ Len(frame) + (c - Len(frame)) = c
      BY <1>1, <2>2
    <3>2. frame'[c][1] = f[c - Len(frame)]
      BY <1>4, <3>1
    <3> QED BY <1>1, <1>4, <2>2, <3>2 DEF BgAt
  <2>3. CASE c > Len(frame) + n
    <3>1. c - Len(frame') \in 1..Len(f) - n /\ n + (c - Len(frame')) = c - Len(frame)
      BY <1>1, <1>4, <2>3
    <3>2. bgFifo'[c - Len(frame')] = f[n + (c - Len(frame'))]
      BY <1>5, <3>1
    <3>3. bgFifo'[c - Len(frame')] = f[c - Len(frame)] /\ ~(c <= Len(frame')) /\ ~(c <= Len(frame))
      BY <1>1, <1>4, <2>3, <3>1, <3>2
    <3> QED BY <3>3 DEF BgAt
  <2> QED BY <1>1, <2>1, <2>2, <2>3
<1>8. ASSUME NEW c \in 1..Len(frame) + Len(s)
      PROVE  SprAt(frame', spriteFifo', c) = SprAt(frame, s, c)
  <2>1. CASE c <= Len(frame)
    <3>1. c \in 1..Len(frame) /\ c <= Len(frame')
      BY <1>1, <1>4, <2>1
    <3>2. frame'[c] = frame[c]
      BY <1>4, <3>1, Zenon
    <3> QED BY <2>1, <3>1, <3>2, Zenon DEF SprAt
  <2>2. CASE c > Len(frame) /\ c <= Len(frame) + n
    <3>1. c - Len(frame) \in 1..n /\ Len(frame) + (c - Len(frame)) = c
      BY <1>1, <2>2
    <3>2. frame'[c][2] = s[c - Len(frame)]
      BY <1>4, <3>1
    <3> QED BY <1>1, <1>4, <2>2, <3>2 DEF SprAt
  <2>3. CASE c > Len(frame) + n
    <3>1. c - Len(frame') \in 1..Len(s) - n /\ n + (c - Len(frame')) = c - Len(frame)
      BY <1>1, <1>4, <2>3
    <3>2. spriteFifo'[c - Len(frame')] = s[n + (c - Len(frame'))]
      BY <1>6, <3>1
    <3>3. spriteFifo'[c - Len(frame')] = s[c - Len(frame)] /\ ~(c <= Len(frame')) /\ ~(c <= Len(frame))
      BY <1>1, <1>4, <2>3, <3>1, <3>2
    <3> QED BY <3>3 DEF SprAt
  <2> QED BY <1>1, <2>1, <2>2, <2>3
<1> QED BY <1>1, <1>4, <1>5, <1>6, <1>7, <1>8 DEF P

-----------------------------------------------------------------------------
(* Types                                                                    *)

PipeTyped ==
  /\ scx \in Nat /\ windowStart \in Int
  /\ windowEnable \in BOOLEAN /\ objEnable \in BOOLEAN
  /\ lineTrigger \in BOOLEAN /\ overWindow \in BOOLEAN
  /\ oam \in Tables /\ SpritesOf(oam, sprites)
  /\ fetchMode \in 0..4 /\ modeDots \in 0..1 /\ (fetchMode = 4 => modeDots = 0)
  /\ temp \in Seq(Layers) /\ tempLast \in Nat
  /\ x \in 0..Width /\ bgFifo \in Seq(Layers)
  /\ spritex \in Nat /\ spriteFifo \in Seq(Pixels)
  /\ fetchStatus \in {0, 1} /\ fetchDots \in 0..SpriteDots - 1
  /\ drawn \in 0..Len(sprites)
  /\ frame \in Seq(Layers \X Pixels)
  /\ taken \in Nat /\ writes \in Nat

LEMMA SpriteTyped ==
  ASSUME NEW t \in Tables, NEW s, SpritesOf(t, s)
  PROVE  /\ Len(s) \in Nat /\ Len(s) <= MaxObjects
         /\ \A i \in 1..Len(s) : s[i].x \in Int /\ s[i].x >= -8 /\ s[i].index \in Nat
<1>1. Len(s) \in Nat /\ Len(s) <= MaxObjects
  BY DEF SpritesOf
<1>2. ASSUME NEW i \in 1..Len(s) PROVE s[i].x \in Int /\ s[i].x >= -8 /\ s[i].index \in Nat
  <2>1. PICK n \in Listed(t, Entries) : s[i] = EntryOf(t, n)
    BY DEF SpritesOf
  <2>2. n \in 0..Entries - 1 /\ s[i].x = t[n] /\ s[i].index = OamIndex(n)
    BY <2>1 DEF Listed, OnLine, EntryOf
  <2>3. OamIndex(n) \in Nat
    BY <2>2, PipelineAssumption DEF OamIndex
  <2> QED BY <2>2, <2>3, PlaceTyped
<1> QED BY <1>1, <1>2

LEMMA ObjectTyped ==
  ASSUME PipeTyped
  PROVE  /\ Len(sprites) \in Nat /\ Len(sprites) <= MaxObjects
         /\ \A i \in 1..Len(sprites) : X(i) \in Int /\ X(i) >= -8
BY SpriteTyped DEF PipeTyped, X

-----------------------------------------------------------------------------
(* Where the loop of mode 4 stops                                           *)

Over == overWindow /\ ~(lineTrigger /\ ~windowEnable)
Limit(q) == MinOf(x + Len(q), Width)
Win == WindowAt(x, Over)
Stop(q, d) == MinOf(Limit(q), MinOf(Win, SpriteAt(d, x)))
AtWin(q, d) == Stop(q, d) < Limit(q) /\ Stop(q, d) = Win
AtSpr(q, d) == Stop(q, d) < Limit(q) /\ Stop(q, d) # Win

(* The window is open to the pixels still to come.                          *)
Opens == lineTrigger /\ windowEnable /\ ~Over

LEMMA Stopping ==
  ASSUME PipeTyped, x < Width, NEW q, Len(q) \in Nat, NEW d \in 0..Len(sprites)
  PROVE  LET stop == Stop(q, d) IN
         /\ stop \in x..Width /\ stop <= x + Len(q)
         /\ Opens => stop <= MaxOf(x, windowStart)
         /\ AtWin(q, d) => Opens /\ stop = MaxOf(x, windowStart) /\ stop < Limit(q)
         /\ AtSpr(q, d) => /\ d < Len(sprites) /\ stop < Limit(q)
                           /\ stop = MaxOf(x, X(d + 1)) /\ stop < X(d + 1) + Tile
         /\ objEnable /\ d < Len(sprites) /\ MaxOf(x, X(d + 1)) < X(d + 1) + Tile
              => stop <= MaxOf(x, X(d + 1))
         /\ ~AtWin(q, d) /\ ~AtSpr(q, d) => stop = Limit(q)
<1> DEFINE limit == Limit(q)
           win == Win
           spr == SpriteAt(d, x)
           stop == Stop(q, d)
           wait == MaxOf(x, windowStart)
           obj == MaxOf(x, X(d + 1))
<1>1. /\ x \in Nat /\ Width \in Nat /\ windowStart \in Int /\ Len(sprites) \in Nat
      /\ d < Len(sprites) => X(d + 1) \in Int
  BY ObjectTyped, PipelineAssumption DEF PipeTyped
<1>2. limit \in x..Width /\ limit <= x + Len(q)
  BY <1>1 DEF Limit, MinOf
<1>3. wait \in Int /\ wait >= x /\ (d < Len(sprites) => obj \in Int /\ obj >= x)
  BY <1>1 DEF MaxOf
<1>4. IF Opens THEN win = MinOf(wait, Width) ELSE win = Width
  BY Zenon DEF Win, WindowAt, Opens, Never
<1>5. IF objEnable /\ d < Len(sprites) /\ obj < X(d + 1) + Tile THEN spr = MinOf(obj, Width) ELSE spr = Width
  BY Zenon DEF SpriteAt, Never
<1>6. stop = MinOf(limit, MinOf(win, spr))
  BY DEF Stop
<1>7. /\ AtWin(q, d) <=> stop < limit /\ stop = win
      /\ AtSpr(q, d) <=> stop < limit /\ stop # win
  BY Zenon DEF AtWin, AtSpr
<1>8. stop \in x..Width /\ stop <= x + Len(q) /\ (Opens => stop <= wait)
      /\ (objEnable /\ d < Len(sprites) /\ obj < X(d + 1) + Tile => stop <= obj)
  BY <1>1, <1>2, <1>3, <1>4, <1>5, <1>6 DEF MinOf
<1> QED
  <2> HIDE DEF limit, win, spr, stop, wait, obj
  <2>1. AtWin(q, d) => Opens /\ stop = wait
    BY <1>1, <1>2, <1>3, <1>4, <1>7 DEF MinOf
  <2>2. AtSpr(q, d) => d < Len(sprites) /\ stop = obj /\ stop < X(d + 1) + Tile
    BY <1>1, <1>2, <1>3, <1>4, <1>5, <1>6, <1>7, <1>8 DEF MinOf
  <2>3. ~AtWin(q, d) /\ ~AtSpr(q, d) => stop = limit
    BY <1>1, <1>2, <1>3, <1>4, <1>5, <1>6, <1>7, <1>8 DEF MinOf
  <2> QED BY <1>7, <1>8, <2>1, <2>2, <2>3 DEF limit, win, spr, stop, wait, obj

(* What the loop leaves, with d sprites drawn, when it has the pixels q to    *)
(* push and the sprite fifo s, which ends at column e.                       *)
Pushed(q, s, e, d) ==
  /\ x' = Stop(q, d) /\ spritex' = MaxOf(e, x')
  /\ temp' \in Seq(Layers)
  /\ Len(temp') = IF AtWin(q, d) THEN 0 ELSE Len(q) - (x' - x)
  /\ \A i \in 1..Len(temp') : temp'[i] = q[x' - x + i]
  /\ overWindow' = (Over \/ AtWin(q, d))
  /\ fetchStatus' = (IF AtSpr(q, d) THEN 1 ELSE 0) /\ fetchDots' = 0
  /\ fetchMode' = (IF AtSpr(q, d) THEN 4 ELSE 0)
  /\ frame' \in Seq(Layers \X Pixels) /\ bgFifo' \in Seq(Layers)
  /\ spriteFifo' \in Seq(Pixels)
  /\ Len(frame') + Len(bgFifo') = x' /\ Len(frame') + Len(spriteFifo') = spritex'
  /\ Len(bgFifo') = IF x' = Width \/ Len(bgFifo) + (x' - x) = 0 THEN 0
                    ELSE Len(bgFifo) + (x' - x) - 1
  /\ \A c \in 1..x' : BgAt(frame', bgFifo', c) =
                        IF c <= x THEN BgAt(frame, bgFifo, c) ELSE q[c - x]
  /\ \A c \in 1..spritex' : SprAt(frame', spriteFifo', c) =
                              IF c <= e THEN SprAt(frame, s, c) ELSE Blank
  /\ dark' = (IF objEnable THEN dark ELSE dark \cup x..x' - 1)
  /\ UNCHANGED <<registers, windowEnable, objEnable, modeDots, writes>>

LEMMA Pushing ==
  ASSUME PipeTyped, x < Width, NEW q \in Seq(Layers), NEW s \in Seq(Pixels), NEW e \in Nat,
         NEW d \in 0..Len(sprites),
         Len(frame) + Len(bgFifo) = x, Len(frame) + Len(s) = e, x <= e, Push(q, s, e, d)
  PROVE  Pushed(q, s, e, d)
<1> DEFINE stop == Stop(q, d)
           n == stop - x
           blanks == MaxOf(stop - e, 0)
           g == [k \in 1..blanks |-> Blank]
           f == bgFifo \o SubSeq(q, 1, n)
           t == s \o g
           all == (stop = Width)
<1>1. /\ x' = stop /\ spritex' = e + blanks
      /\ temp' = IF AtWin(q, d) THEN <<>> ELSE From(q, n)
      /\ Show(f, t, all)
  BY DEF Push, Stop, Over, Limit, Win, AtWin
<1>2. /\ stop \in x..Width /\ stop <= x + Len(q) /\ Len(q) \in Nat /\ x \in Nat /\ Width \in Nat
      /\ Len(frame) \in Nat /\ Len(bgFifo) \in Nat /\ Len(s) \in Nat
  <2>1. Len(q) \in Nat /\ Len(frame) \in Nat /\ Len(bgFifo) \in Nat /\ Len(s) \in Nat
    BY DEF PipeTyped
  <2> QED BY <2>1, Stopping, PipelineAssumption DEF PipeTyped
<1> HIDE DEF stop
<1>3. n \in 0..Len(q) /\ blanks \in Nat /\ e + blanks = MaxOf(e, stop) /\ Len(s) + blanks >= Len(bgFifo) + n
      /\ n \in Nat /\ x + n = stop
  BY <1>2 DEF MaxOf
<1>4. g \in Seq(Pixels) /\ Len(g) = blanks /\ \A i \in 1..blanks : g[i] = Blank
  <2>1. Blank \in Pixels
    BY DEF Blank, Pixels
  <2> HIDE DEF blanks
  <2> QED BY <1>3, <2>1
<1> HIDE DEF blanks, g, n
<1>5. /\ SubSeq(q, 1, n) \in Seq(Layers) /\ Len(SubSeq(q, 1, n)) = n
      /\ \A i \in 1..n : SubSeq(q, 1, n)[i] = q[i]
  BY <1>3, Cutting
<1>6. /\ f \in Seq(Layers) /\ Len(f) = Len(bgFifo) + n
      /\ \A i \in 1..Len(bgFifo) : f[i] = bgFifo[i]
      /\ \A i \in Len(bgFifo) + 1..Len(bgFifo) + n : f[i] = q[i - Len(bgFifo)]
  <2>1. bgFifo \in Seq(Layers)
    BY DEF PipeTyped
  <2>2. /\ f \in Seq(Layers) /\ Len(f) = Len(bgFifo) + n
        /\ \A i \in 1..Len(bgFifo) : f[i] = bgFifo[i]
        /\ \A i \in Len(bgFifo) + 1..Len(bgFifo) + n : f[i] = SubSeq(q, 1, n)[i - Len(bgFifo)]
    BY <1>5, <2>1, Joining
  <2>3. ASSUME NEW i \in Len(bgFifo) + 1..Len(bgFifo) + n
        PROVE  f[i] = q[i - Len(bgFifo)]
    <3>1. i - Len(bgFifo) \in 1..n
      BY <1>2, <1>3
    <3> QED BY <1>5, <2>2, <3>1
  <2> QED BY <2>2, <2>3
<1>7. /\ t \in Seq(Pixels) /\ Len(t) = Len(s) + blanks
      /\ \A i \in 1..Len(s) : t[i] = s[i]
      /\ \A i \in Len(s) + 1..Len(s) + blanks : t[i] = Blank
  <2>1. /\ t \in Seq(Pixels) /\ Len(t) = Len(s) + blanks
        /\ \A i \in 1..Len(s) : t[i] = s[i]
        /\ \A i \in Len(s) + 1..Len(s) + blanks : t[i] = g[i - Len(s)]
    BY <1>4, Joining
  <2>2. ASSUME NEW i \in Len(s) + 1..Len(s) + blanks
        PROVE  t[i] = Blank
    <3>1. i - Len(s) \in 1..blanks
      BY <1>2, <1>3
    <3>2. g[i - Len(s)] = Blank
      BY <1>4, <3>1
    <3> QED BY <2>1, <3>2, Zenon
  <2> QED BY <2>1, <2>2
<1> HIDE DEF f, t
<1>8. /\ frame' \in Seq(Layers \X Pixels) /\ bgFifo' \in Seq(Layers)
      /\ spriteFifo' \in Seq(Pixels)
      /\ Len(frame') + Len(bgFifo') = Len(frame) + Len(f)
      /\ Len(frame') + Len(spriteFifo') = Len(frame) + Len(t)
      /\ Len(bgFifo') = IF all \/ Len(f) = 0 THEN 0 ELSE Len(f) - 1
      /\ \A c \in 1..Len(frame) + Len(f) : BgAt(frame', bgFifo', c) = BgAt(frame, f, c)
      /\ \A c \in 1..Len(frame) + Len(t) : SprAt(frame', spriteFifo', c) = SprAt(frame, t, c)
  <2>1. frame \in Seq(Layers \X Pixels) /\ Len(f) <= Len(t) /\ all \in BOOLEAN
    BY <1>3, <1>6, <1>7 DEF PipeTyped
  <2> HIDE DEF all
  <2> QED BY <1>1, <1>6, <1>7, <2>1, Showing
<1>9. Len(frame) + Len(f) = stop /\ Len(frame) + Len(t) = e + blanks
  <2>1. Len(f) = Len(bgFifo) + n /\ Len(t) = Len(s) + blanks
    BY <1>6, <1>7
  <2> DEFINE l == Len(frame)
             b == Len(bgFifo)
             m == Len(s)
  <2>2. l \in Nat /\ b \in Nat /\ m \in Nat /\ n \in Nat /\ blanks \in Nat /\ x \in Nat
    BY <1>2, <1>3
  <2>3. l + b = x /\ l + m = e /\ x + n = stop
    BY <1>3
  <2> HIDE DEF all, l, b, m
  <2>4. l + (b + n) = stop /\ l + (m + blanks) = e + blanks
    BY <2>2, <2>3
  <2> QED BY <2>1, <2>4 DEF l, b, m
<1>10. ASSUME NEW c \in 1..stop
       PROVE  BgAt(frame', bgFifo', c) = IF c <= x THEN BgAt(frame, bgFifo, c) ELSE q[c - x]
  <2>1. BgAt(frame', bgFifo', c) = BgAt(frame, f, c)
    BY <1>8, <1>9
  <2>2. CASE c <= Len(frame)
    <3>1. c <= x
      BY <1>2, <2>2
    <3> QED BY <2>1, <2>2, <3>1, Zenon DEF BgAt
  <2>3. CASE c > Len(frame) /\ c <= x
    <3>1. c - Len(frame) \in 1..Len(bgFifo)
      BY <1>2, <2>3
    <3>2. f[c - Len(frame)] = bgFifo[c - Len(frame)]
      BY <1>6, <3>1, Zenon
    <3>3. ~(c <= Len(frame))
      BY <1>2, <2>3
    <3> QED BY <2>1, <2>3, <3>2, <3>3, Zenon DEF BgAt
  <2>4. CASE c > x
    <3>1. /\ c - Len(frame) \in Len(bgFifo) + 1..Len(bgFifo) + n
          /\ (c - Len(frame)) - Len(bgFifo) = c - x
      <4> HIDE DEF all
      <4>1. c \in Nat /\ n \in Nat /\ c <= x + n /\ c > Len(frame) + Len(bgFifo)
        BY <1>2, <1>3, <2>4
      <4> QED BY <1>2, <4>1
    <3>2. f[c - Len(frame)] = q[(c - Len(frame)) - Len(bgFifo)]
      BY <1>6, <3>1, Zenon
    <3>3. f[c - Len(frame)] = q[c - x]
      BY <3>1, <3>2, Zenon
    <3>4. ~(c <= Len(frame)) /\ ~(c <= x)
      BY <1>2, <2>4
    <3> QED BY <2>1, <3>3, <3>4 DEF BgAt
  <2> QED BY <1>2, <2>2, <2>3, <2>4
<1>11. ASSUME NEW c \in 1..e + blanks
       PROVE  SprAt(frame', spriteFifo', c) = IF c <= e THEN SprAt(frame, s, c) ELSE Blank
  <2>1. SprAt(frame', spriteFifo', c) = SprAt(frame, t, c)
    BY <1>8, <1>9
  <2>2. CASE c <= Len(frame)
    <3>1. c <= e
      BY <1>2, <2>2
    <3> QED BY <2>1, <2>2, <3>1, Zenon DEF SprAt
  <2>3. CASE c > Len(frame) /\ c <= e
    <3>1. c - Len(frame) \in 1..Len(s)
      BY <1>2, <2>3
    <3>2. t[c - Len(frame)] = s[c - Len(frame)]
      BY <1>7, <3>1, Zenon
    <3>3. ~(c <= Len(frame))
      BY <1>2, <2>3
    <3> QED BY <2>1, <2>3, <3>2, <3>3, Zenon DEF SprAt
  <2>4. CASE c > e
    <3>1. c - Len(frame) \in Len(s) + 1..Len(s) + blanks /\ ~(c <= Len(frame)) /\ ~(c <= e)
      BY <1>2, <1>3, <2>4
    <3>2. t[c - Len(frame)] = Blank
      BY <1>7, <3>1, Zenon
    <3> QED BY <2>1, <3>1, <3>2, Zenon DEF SprAt
  <2> QED BY <1>2, <2>2, <2>3, <2>4
<1>12. /\ temp' \in Seq(Layers) /\ Len(temp') = IF AtWin(q, d) THEN 0 ELSE Len(q) - n
       /\ \A i \in 1..Len(temp') : temp'[i] = q[n + i]
  <2>1. CASE AtWin(q, d)
    <3>1. temp' = <<>>
      BY <1>1, <2>1
    <3> QED BY <2>1, <3>1
  <2>2. CASE ~AtWin(q, d)
    <3>1. temp' = From(q, n)
      BY <1>1, <2>2
    <3>2. /\ From(q, n) \in Seq(Layers) /\ Len(From(q, n)) = Len(q) - n
          /\ \A i \in 1..Len(q) - n : From(q, n)[i] = q[n + i]
      BY <1>3, Cutting
    <3> QED BY <2>2, <3>1, <3>2
  <2> QED BY <2>1, <2>2
<1>13. /\ x' = stop /\ spritex' = MaxOf(e, stop) /\ spritex' = e + blanks
       /\ Len(frame') + Len(bgFifo') = stop /\ Len(frame') + Len(spriteFifo') = spritex'
  BY <1>1, <1>3, <1>8, <1>9
<1>14. Len(bgFifo') = IF stop = Width \/ Len(bgFifo) + n = 0 THEN 0 ELSE Len(bgFifo) + n - 1
  <2>1. all <=> stop = Width
    OBVIOUS
  <2> HIDE DEF all
  <2>2. Len(f) = Len(bgFifo) + n
    BY <1>6
  <2>3. Len(bgFifo') = IF all \/ Len(f) = 0 THEN 0 ELSE Len(f) - 1
    BY <1>8
  <2>4. CASE all \/ Len(f) = 0
    <3>1. Len(bgFifo') = 0
      BY <2>3, <2>4, Zenon
    <3>2. stop = Width \/ Len(bgFifo) + n = 0
      BY <2>1, <2>2, <2>4, Zenon
    <3> QED BY <3>1, <3>2, Zenon
  <2>5. CASE ~(all \/ Len(f) = 0)
    <3>1. Len(bgFifo') = Len(f) - 1
      BY <2>3, <2>5, Zenon
    <3>2. ~(stop = Width \/ Len(bgFifo) + n = 0)
      BY <2>1, <2>2, <2>5, Zenon
    <3>3. Len(bgFifo') = Len(bgFifo) + n - 1
      BY <1>2, <1>3, <2>2, <3>1
    <3> QED BY <3>2, <3>3, Zenon
  <2> QED BY <2>4, <2>5
<1>15. /\ overWindow' = (Over \/ AtWin(q, d))
       /\ fetchStatus' = (IF AtSpr(q, d) THEN 1 ELSE 0) /\ fetchDots' = 0
       /\ fetchMode' = (IF AtSpr(q, d) THEN 4 ELSE 0)
       /\ UNCHANGED <<registers, windowEnable, objEnable, modeDots, writes>>
  BY Zenon DEF Push, Stop, Over, Limit, Win, AtWin, AtSpr
<1>16. dark' = (IF objEnable THEN dark ELSE dark \cup x..x' - 1)
  BY DEF Push
<1> QED
  BY <1>8, <1>10, <1>11, <1>12, <1>13, <1>14, <1>15, <1>16, Zenon DEF n, stop, Pushed

-----------------------------------------------------------------------------
(* What is pushed                                                           *)

(* The pixels of a tile                                                     *)
LEMMA TileRead ==
  ASSUME PipeTyped
  PROVE  /\ FetchedTile \in Seq(Layers) /\ Len(FetchedTile) \in Nat /\ Len(FetchedTile) >= 1
         /\ Len(FetchedTile) <= Tile
         /\ x > 0 \/ overWindow => Len(FetchedTile) = Tile
         /\ \A k \in 1..Len(FetchedTile) :
              FetchedTile[k][1] = IF overWindow THEN "window" ELSE "background"
         /\ ~overWindow /\ (x = 0 \/ (scx + x) % Tile = 0) =>
              /\ (scx + x + Len(FetchedTile)) % Tile = 0
              /\ \A k \in 1..Len(FetchedTile) : FetchedTile[k][2] = scx + x + k - 1
         /\ overWindow /\ (x - windowStart) % Tile = 0 =>
              \A k \in 1..Len(FetchedTile) : FetchedTile[k][2] = x - windowStart + k - 1
<1> DEFINE layer == IF overWindow THEN "window" ELSE "background"
           first == IF overWindow THEN (x - windowStart) \div Tile ELSE (scx + x) \div Tile
           shift == IF x = 0 /\ ~overWindow THEN scx % Tile ELSE 0
<1>1. FetchedTile = [k \in 1..Tile - shift |-> <<layer, first * Tile + shift + k - 1>>]
  BY DEF FetchedTile
<1>2. scx \in Nat /\ x \in Nat /\ windowStart \in Int /\ Tile = 8
  BY PipelineAssumption DEF PipeTyped, Tile
<1>3. layer \in {"background", "window"}
  OBVIOUS
<1>4. shift \in 0..7 /\ (x > 0 \/ overWindow => shift = 0)
  BY <1>2
<1>5. first \in Int
  BY <1>2
<1>6. ~overWindow /\ (x = 0 \/ (scx + x) % Tile = 0) => first * Tile + shift = scx + x
  <2>1. CASE ~overWindow /\ x = 0
    <3>1. first = scx \div 8 /\ shift = scx % 8
      BY <1>2, <2>1
    <3> HIDE DEF first, shift
    <3> QED BY <1>2, <2>1, <3>1
  <2>2. CASE ~overWindow /\ x # 0 /\ (scx + x) % Tile = 0
    <3>1. first = (scx + x) \div 8 /\ shift = 0
      BY <1>2, <2>2
    <3> HIDE DEF first, shift
    <3> QED BY <1>2, <2>2, <3>1
  <2> QED BY <2>1, <2>2
<1>7. overWindow /\ (x - windowStart) % Tile = 0 => first * Tile + shift = x - windowStart
  <2>1. CASE overWindow /\ (x - windowStart) % Tile = 0
    <3>1. first = (x - windowStart) \div 8 /\ shift = 0
      BY <1>2, <2>1
    <3> HIDE DEF first, shift
    <3> QED BY <1>2, <2>1, <3>1
  <2> QED BY <2>1
<1>8. ~overWindow /\ (x = 0 \/ (scx + x) % Tile = 0) => (scx + x + (Tile - shift)) % Tile = 0
  <2>1. CASE ~overWindow /\ (x = 0 \/ (scx + x) % Tile = 0)
    <3>1. first * 8 + shift = scx + x
      BY <1>2, <1>6, <2>1
    <3>2. scx + x + (8 - shift) = (first + 1) * 8
      BY <1>2, <1>4, <1>5, <3>1
    <3>3. ((first + 1) * 8) % 8 = 0
      BY <1>5
    <3> HIDE DEF first, shift
    <3> QED BY <1>2, <3>2, <3>3
  <2> QED BY <2>1
<1> HIDE DEF layer, first, shift
<1>9. /\ FetchedTile \in Seq(Layers) /\ Len(FetchedTile) = Tile - shift
      /\ \A k \in 1..Tile - shift : FetchedTile[k] = <<layer, first * Tile + shift + k - 1>>
  <2>1. \A k \in 1..Tile - shift : <<layer, first * Tile + shift + k - 1>> \in Layers
    BY <1>2, <1>3, <1>4, <1>5 DEF Layers
  <2>2. Tile - shift \in Nat
    BY <1>2, <1>4
  <2> HIDE DEF Layers
  <2> QED BY <1>1, <2>1, <2>2
<1>10. Len(FetchedTile) \in Nat /\ Len(FetchedTile) >= 1 /\ Len(FetchedTile) <= Tile
  BY <1>2, <1>4, <1>9
<1>11. x > 0 \/ overWindow => Len(FetchedTile) = Tile
  BY <1>2, <1>4, <1>9
<1>12. \A k \in 1..Len(FetchedTile) : FetchedTile[k][1] = layer
  BY <1>9
<1>13. \A k \in 1..Len(FetchedTile) : FetchedTile[k][2] = (first * Tile + shift) + k - 1
  BY <1>2, <1>4, <1>5, <1>9
<1> QED BY <1>6, <1>7, <1>8, <1>9, <1>10, <1>11, <1>12, <1>13, Zenon DEF layer

(* The pixels of a sprite over those that wait                              *)
Hidden(i) == IF X(i) < 0 THEN -X(i) ELSE 0

LEMMA Overlaying ==
  ASSUME PipeTyped, NEW i \in 1..Len(sprites), NEW s \in Seq(Pixels)
  PROVE  /\ Overlay(i, s) \in Seq(Pixels) /\ Hidden(i) \in 0..8
         /\ Len(Overlay(i, s)) = MaxOf(Tile - Hidden(i), Len(s))
         /\ \A k \in 1..Len(Overlay(i, s)) :
              Overlay(i, s)[k] = IF k > Tile - Hidden(i) \/ (k <= Len(s) /\ s[k] # Blank)
                                 THEN s[k] ELSE <<i, Hidden(i) + k - 1>>
<1>1. X(i) \in Int /\ X(i) >= -8 /\ Len(sprites) \in Nat /\ Len(s) \in Nat /\ Tile = 8
  BY ObjectTyped DEF Tile
<1> DEFINE h == Hidden(i)
           n == MaxOf(Tile - h, Len(s))
<1>2. h \in 0..8
  BY <1>1 DEF Hidden
<1>3. n \in Nat /\ n >= Len(s) /\ (n = Len(s) \/ n = Tile - h)
  BY <1>1, <1>2 DEF MaxOf
<1>4. Overlay(i, s) = [k \in 1..n |-> IF k > Tile - h \/ (k <= Len(s) /\ s[k] # Blank)
                                      THEN s[k] ELSE <<i, h + k - 1>>]
  BY DEF Overlay, Hidden
<1> HIDE DEF h, n
<1>5. ASSUME NEW k \in 1..n
      PROVE  (IF k > Tile - h \/ (k <= Len(s) /\ s[k] # Blank)
              THEN s[k] ELSE <<i, h + k - 1>>) \in Pixels
  <2>1. k <= Len(s) => s[k] \in Pixels
    BY <1>1, ElementOfSeq
  <2>2. <<i, h + k - 1>> \in Pixels
    BY <1>1, <1>2 DEF Pixels
  <2>3. k > Tile - h => k <= Len(s)
    BY <1>1, <1>2, <1>3
  <2> HIDE DEF Pixels
  <2> QED BY <2>1, <2>2, <2>3, Zenon
<1>6. /\ Overlay(i, s) \in Seq(Pixels) /\ Len(Overlay(i, s)) = n
      /\ \A k \in 1..n : Overlay(i, s)[k] = IF k > Tile - h \/ (k <= Len(s) /\ s[k] # Blank)
                                      THEN s[k] ELSE <<i, h + k - 1>>
  BY <1>3, <1>4, <1>5
<1> QED BY <1>2, <1>6, Zenon DEF h, n

-----------------------------------------------------------------------------
(* The queues                                                               *)

(* The queues end where the loop has arrived, and what it has left over is  *)
(* less than a tile at a sprite and nothing at the end of a round.          *)
QueuesInv ==
  /\ Len(frame) + Len(bgFifo) = x
  /\ Len(frame) + Len(spriteFifo) = spritex
  /\ x <= spritex /\ spritex <= Width + Tile - 1
  /\ tempLast <= x + Len(temp) /\ x + Len(temp) <= Width + Tile - 1 /\ Len(temp) <= Tile
  /\ fetchStatus = 1 => /\ drawn < Len(sprites) /\ x < Width
                        /\ temp # <<>> /\ fetchMode = 4
  /\ fetchStatus = 0 /\ x < Width => temp = <<>>
  /\ x = Width => fetchStatus = 0 /\ fetchMode = 0 /\ modeDots = 0

LEMMA NumbersTyped ==
  ASSUME PipeTyped
  PROVE  /\ Width \in Nat /\ Width > 0 /\ Width < Off /\ Tile = 8 /\ SpriteDots = 6
         /\ x \in 0..Width /\ scx \in Nat /\ windowStart \in Int
         /\ Len(sprites) \in Nat /\ drawn \in 0..Len(sprites) /\ Len(temp) \in Nat
         /\ Len(bgFifo) \in Nat /\ Len(spriteFifo) \in Nat /\ Len(frame) \in Nat
         /\ spritex \in Nat /\ tempLast \in Nat /\ taken \in Nat /\ writes \in Nat
         /\ fetchMode \in 0..4 /\ modeDots \in 0..1 /\ fetchStatus \in {0, 1}
         /\ fetchDots \in 0..5
  <1>1. Len(sprites) \in Nat
    BY ObjectTyped
  <1>2. /\ Len(temp) \in Nat /\ Len(bgFifo) \in Nat /\ Len(spriteFifo) \in Nat
        /\ Len(frame) \in Nat
    BY DEF PipeTyped
  <1>3. Width \in Nat /\ Width > 0 /\ Width < Off /\ Tile = 8 /\ SpriteDots = 6
    BY PipelineAssumption DEF Tile, SpriteDots, Off
  <1> QED BY <1>1, <1>2, <1>3 DEF PipeTyped

(* The two rounds of the loop: with a tile, and after a sprite              *)
LEMMA TilePushed ==
  ASSUME PipeTyped, QueuesInv, PushTile
  PROVE  /\ Pushed(FetchedTile, spriteFifo, spritex, drawn)
         /\ tempLast' = IF AtWin(FetchedTile, drawn) THEN 0 ELSE tempLast + Len(FetchedTile)
         /\ x < Width /\ taken' = taken + 1 /\ drawn' = drawn
         /\ fetchStatus = 0 /\ fetchMode = 4 /\ modeDots = 0 /\ temp = <<>>
<1>1. /\ x < Width /\ taken' = taken + 1 /\ drawn' = drawn
      /\ fetchStatus = 0 /\ fetchMode = 4
      /\ Push(temp \o FetchedTile, spriteFifo, spritex, drawn)
  BY DEF PushTile, AdvanceDot
<1>2. modeDots = 0 /\ temp = <<>>
  BY <1>1 DEF PipeTyped, QueuesInv
<1>3. FetchedTile \in Seq(Layers)
  BY TileRead
<1>4. temp \o FetchedTile = FetchedTile
  BY <1>2, <1>3
<1>5. Push(FetchedTile, spriteFifo, spritex, drawn)
  BY <1>1, <1>4
<1>6. Pushed(FetchedTile, spriteFifo, spritex, drawn)
  <2>1. /\ spriteFifo \in Seq(Pixels) /\ spritex \in Nat /\ drawn \in 0..Len(sprites)
        /\ Len(frame) + Len(bgFifo) = x /\ Len(frame) + Len(spriteFifo) = spritex /\ x <= spritex
    BY DEF PipeTyped, QueuesInv
  <2> QED BY <1>1, <1>3, <1>5, <2>1, Pushing
<1>7. tempLast' = IF AtWin(FetchedTile, drawn) THEN 0 ELSE tempLast + Len(FetchedTile)
  <2>1. tempLast' = IF AtWin(FetchedTile, drawn) THEN 0
                    ELSE tempLast + (IF fetchStatus = 1 THEN 0 ELSE Len(FetchedTile))
    BY <1>5, Zenon DEF Push, AtWin, Stop, Win, Limit, Over
  <2>2. fetchStatus # 1
    BY <1>1
  <2> QED BY <2>1, <2>2, Zenon
<1> QED BY <1>1, <1>2, <1>6, <1>7

LEMMA SpritePushed ==
  ASSUME PipeTyped, QueuesInv, PushSprite
  PROVE  LET s == Overlay(drawn + 1, spriteFifo) IN
         /\ Pushed(temp, s, spritex + (Len(s) - Len(spriteFifo)), drawn + 1)
         /\ spritex + (Len(s) - Len(spriteFifo)) = Len(frame) + Len(s)
         /\ Len(frame) + Len(s) \in spritex..Width + Tile - 1
         /\ tempLast' = IF AtWin(temp, drawn + 1) THEN 0 ELSE tempLast
         /\ x < Width /\ taken' = taken + 1 /\ drawn' = drawn + 1 /\ drawn + 1 \in 1..Len(sprites)
         /\ fetchStatus = 1 /\ fetchDots = 5 /\ fetchMode = 4 /\ modeDots = 0 /\ temp # <<>>
<1> DEFINE s == Overlay(drawn + 1, spriteFifo)
           e == spritex + (Len(s) - Len(spriteFifo))
<1>1. /\ x < Width /\ taken' = taken + 1 /\ drawn' = drawn + 1
      /\ fetchStatus = 1 /\ fetchDots + 1 = SpriteDots
  BY DEF PushSprite, AdvanceDot
<1>9. Push(temp, s, e, drawn + 1)
  BY DEF PushSprite
<1>2. fetchDots = 5 /\ fetchMode = 4 /\ modeDots = 0 /\ temp # <<>> /\ drawn + 1 \in 1..Len(sprites)
  <2>1. fetchMode = 4 /\ modeDots = 0 /\ temp # <<>> /\ drawn < Len(sprites)
    BY <1>1 DEF PipeTyped, QueuesInv
  <2>2. fetchDots = 5
    <3>1. fetchDots + 1 = SpriteDots
      BY <1>1
    <3>2. SpriteDots = 6 /\ fetchDots \in 0..5
      BY NumbersTyped
    <3> QED BY <3>1, <3>2
  <2>3. drawn + 1 \in 1..Len(sprites)
    BY <2>1, NumbersTyped
  <2> QED BY <2>1, <2>2, <2>3
<1>3. s \in Seq(Pixels) /\ Hidden(drawn + 1) \in 0..8 /\ Len(s) = MaxOf(Tile - Hidden(drawn + 1), Len(spriteFifo))
  <2> HIDE DEF e
  <2>1. spriteFifo \in Seq(Pixels)
    BY DEF PipeTyped
  <2> QED BY <1>2, <2>1, Overlaying
<1> HIDE DEF s
<1>4. Len(s) \in Nat /\ Len(s) >= Len(spriteFifo) /\ (Len(s) = Len(spriteFifo) \/ Len(s) <= 8)
  <2> DEFINE n == Len(s)
             m == Len(spriteFifo)
             h == Hidden(drawn + 1)
  <2>1. n = MaxOf(8 - h, m) /\ h \in 0..8 /\ m \in Nat
    BY <1>3, NumbersTyped
  <2> HIDE DEF n, m, h
  <2>2. n \in Nat /\ n >= m /\ (n = m \/ n <= 8)
    BY <2>1 DEF MaxOf
  <2> QED BY <2>2 DEF n, m
<1>5. /\ Len(frame) + Len(bgFifo) = x /\ Len(frame) + Len(spriteFifo) = spritex
      /\ x <= spritex /\ spritex <= Width + Tile - 1
  BY DEF QueuesInv
<1>6. e = Len(frame) + Len(s) /\ Len(frame) + Len(s) \in spritex..Width + Tile - 1
  <2> DEFINE n == Len(s)
             m == Len(spriteFifo)
             fr == Len(frame)
             b == Len(bgFifo)
  <2>1. m \in Nat /\ fr \in Nat /\ b \in Nat /\ Width \in Nat /\ x \in Nat /\ spritex \in Nat /\ Tile = 8
    <3>1. Width \in Nat /\ Width > 0 /\ x \in 0..Width /\ spritex \in Nat /\ Tile = 8
      BY NumbersTyped
    <3>2. m \in Nat /\ fr \in Nat /\ b \in Nat
      BY NumbersTyped
    <3> QED BY <3>1, <3>2
  <2>2. n \in Nat /\ n >= m /\ (n = m \/ n <= 8)
    BY <1>4
  <2>3. fr + b = x /\ fr + m = spritex /\ spritex <= Width + Tile - 1 /\ x < Width
    BY <1>1, <1>5
  <2>4. e = spritex + (n - m)
    OBVIOUS
  <2> HIDE DEF n, m, fr, b, e
  <2>5. e = fr + n /\ fr + n \in spritex..Width + Tile - 1
    BY <2>1, <2>2, <2>3, <2>4
  <2> QED BY <2>5 DEF n, fr
<1> HIDE DEF e
<1>7. Pushed(temp, s, e, drawn + 1)
  <2>1. temp \in Seq(Layers) /\ e \in Nat /\ drawn + 1 \in 0..Len(sprites) /\ x <= e
    <3>1. temp \in Seq(Layers)
      BY DEF PipeTyped
    <3>2. Len(frame) \in Nat /\ x \in 0..Width /\ spritex \in Nat
      BY NumbersTyped
    <3>3. e \in Nat /\ x <= e
      BY <1>4, <1>5, <1>6, <3>2
    <3> QED BY <1>2, <3>1, <3>3
  <2> QED BY <1>1, <1>3, <1>5, <1>6, <1>9, <2>1, Pushing
<1>8. tempLast' = IF AtWin(temp, drawn + 1) THEN 0 ELSE tempLast
  <2>1. tempLast' = IF AtWin(temp, drawn + 1) THEN 0
                    ELSE tempLast + (IF fetchStatus = 1 THEN 0 ELSE Len(FetchedTile))
    BY <1>9, Zenon DEF Push, AtWin, Stop, Win, Limit, Over
  <2>2. tempLast + 0 = tempLast
    BY NumbersTyped
  <2> QED BY <1>1, <2>1, <2>2, Zenon
<1> QED BY <1>1, <1>2, <1>6, <1>7, <1>8, Zenon DEF s, e

(* A dot of a fetcher moves a pixel at most from the queues to the frame.   *)
Moved ==
  /\ x < Width /\ taken' = taken + 1
  /\ frame' \in Seq(Layers \X Pixels) /\ bgFifo' \in Seq(Layers)
  /\ spriteFifo' \in Seq(Pixels)
  /\ Len(frame') + Len(bgFifo') = x /\ Len(frame') + Len(spriteFifo') = spritex
  /\ Len(bgFifo') = IF Len(bgFifo) = 0 THEN 0 ELSE Len(bgFifo) - 1
  /\ \A c \in 1..x : BgAt(frame', bgFifo', c) = BgAt(frame, bgFifo, c)
  /\ \A c \in 1..spritex : SprAt(frame', spriteFifo', c) = SprAt(frame, spriteFifo, c)
  /\ UNCHANGED <<registers, lcdc, temp, tempLast, x, spritex, overWindow,
                 fetchStatus, drawn>>

LEMMA Moving ==
  ASSUME PipeTyped, QueuesInv, FetchTile \/ FetchSprite
  PROVE  Moved
<1>1. /\ Show(bgFifo, spriteFifo, FALSE) /\ x < Width /\ taken' = taken + 1
      /\ UNCHANGED <<registers, lcdc, temp, tempLast, x, spritex, overWindow,
                     fetchStatus, drawn>>
  BY Zenon DEF FetchTile, FetchSprite, AdvanceDot
<1>2. /\ frame \in Seq(Layers \X Pixels) /\ bgFifo \in Seq(Layers) /\ spriteFifo \in Seq(Pixels)
      /\ FALSE \in BOOLEAN
  BY DEF PipeTyped
<1>3. /\ Len(frame) + Len(bgFifo) = x /\ Len(frame) + Len(spriteFifo) = spritex
      /\ x <= spritex
  BY DEF QueuesInv
<1>4. Len(bgFifo) <= Len(spriteFifo)
  BY <1>3, NumbersTyped
<1>5. /\ frame' \in Seq(Layers \X Pixels) /\ bgFifo' \in Seq(Layers)
      /\ spriteFifo' \in Seq(Pixels)
      /\ Len(frame') + Len(bgFifo') = Len(frame) + Len(bgFifo)
      /\ Len(frame') + Len(spriteFifo') = Len(frame) + Len(spriteFifo)
      /\ Len(bgFifo') = IF FALSE \/ Len(bgFifo) = 0 THEN 0 ELSE Len(bgFifo) - 1
      /\ \A c \in 1..Len(frame) + Len(bgFifo) : BgAt(frame', bgFifo', c) = BgAt(frame, bgFifo, c)
      /\ \A c \in 1..Len(frame) + Len(spriteFifo) : SprAt(frame', spriteFifo', c) = SprAt(frame, spriteFifo, c)
  BY <1>1, <1>2, <1>4, Showing
<1> QED BY <1>1, <1>3, <1>5, Zenon DEF Moved

LEMMA PipeStarts ==
  ASSUME PipelineInit
  PROVE  PipeTyped /\ QueuesInv
<1>1. oam \in Tables /\ SpritesOf(oam, sprites)
  BY SpriteListIsSorted DEF PipelineInit
<1>2. Len(sprites) \in Nat
  BY <1>1, SpriteTyped
<1>3. scx \in Nat /\ windowStart \in Int /\ Width \in Nat /\ Width > 0
  BY PipelineAssumption DEF PipelineInit, Off
<1>4. PipeTyped
  <2>1. /\ temp = <<>> /\ bgFifo = <<>> /\ spriteFifo = <<>> /\ frame = <<>>
        /\ fetchMode = 0 /\ modeDots = 0 /\ tempLast = 0 /\ x = 0 /\ spritex = 0
        /\ fetchStatus = 0 /\ fetchDots = 0 /\ drawn = 0 /\ taken = 0 /\ writes = 0
        /\ windowEnable \in BOOLEAN /\ lineTrigger \in BOOLEAN /\ overWindow = FALSE
        /\ objEnable \in BOOLEAN
    BY DEF PipelineInit
  <2>2. <<>> \in Seq(Layers) /\ <<>> \in Seq(Pixels) /\ <<>> \in Seq(Layers \X Pixels)
    OBVIOUS
  <2> HIDE DEF Layers, Pixels
  <2>3. /\ x \in 0..Width /\ fetchMode \in 0..4 /\ modeDots \in 0..1 /\ fetchStatus \in {0, 1}
        /\ fetchDots \in 0..SpriteDots - 1 /\ drawn \in 0..Len(sprites)
    BY <1>2, <1>3, <2>1 DEF SpriteDots
  <2> QED BY <1>1, <1>3, <2>1, <2>2, <2>3 DEF PipeTyped
<1>5. QueuesInv
  BY <1>3 DEF PipelineInit, QueuesInv, Tile
<1> QED BY <1>4, <1>5

LEMMA PushedKept ==
  ASSUME PipeTyped, x < Width, NEW q \in Seq(Layers), NEW s, NEW e \in x..Width + Tile - 1,
         NEW d \in 0..Len(sprites), Pushed(q, s, e, d),
         x + Len(q) <= Width + Tile - 1, Len(q) <= Tile, modeDots = 0,
         drawn' = d, taken' = taken + 1,
         NEW l \in 0..x + Len(q), AtWin(q, d) => tempLast' = 0, ~AtWin(q, d) => tempLast' = l
  PROVE  PipeTyped' /\ QueuesInv'
<1>0. /\ Width \in Nat /\ Width > 0 /\ Width < Off /\ Tile = 8 /\ SpriteDots = 6 /\ x \in 0..Width
      /\ Len(sprites) \in Nat /\ taken \in Nat
  BY NumbersTyped
<1>1. Len(q) \in Nat
  OBVIOUS
<1>2. /\ Stop(q, d) \in x..Width /\ Stop(q, d) <= x + Len(q)
      /\ AtWin(q, d) => Stop(q, d) < Limit(q)
      /\ AtSpr(q, d) => d < Len(sprites) /\ Stop(q, d) < Limit(q)
      /\ ~AtWin(q, d) /\ ~AtSpr(q, d) => Stop(q, d) = Limit(q)
  BY <1>1, Stopping
<1>3. Limit(q) <= Width /\ Limit(q) <= x + Len(q) /\ Limit(q) \in {Width, x + Len(q)}
  BY <1>0, <1>1 DEF Limit, MinOf
<1>4. ~(AtWin(q, d) /\ AtSpr(q, d))
  BY Zenon DEF AtWin, AtSpr
<1>5. /\ x' = Stop(q, d) /\ spritex' = MaxOf(e, x')
      /\ temp' \in Seq(Layers)
      /\ Len(temp') = IF AtWin(q, d) THEN 0 ELSE Len(q) - (x' - x)
      /\ overWindow' = (Over \/ AtWin(q, d))
      /\ fetchStatus' = (IF AtSpr(q, d) THEN 1 ELSE 0) /\ fetchDots' = 0
      /\ fetchMode' = (IF AtSpr(q, d) THEN 4 ELSE 0)
      /\ frame' \in Seq(Layers \X Pixels) /\ bgFifo' \in Seq(Layers)
      /\ spriteFifo' \in Seq(Pixels)
      /\ Len(frame') + Len(bgFifo') = x' /\ Len(frame') + Len(spriteFifo') = spritex'
      /\ UNCHANGED <<registers, windowEnable, objEnable, modeDots, writes>>
  BY Zenon DEF Pushed
<1>6. Len(temp') \in Nat /\ (Len(temp') = 0 => temp' = <<>>)
  BY <1>5
<1>14. x' \in x..Width /\ x' <= x + Len(q)
  BY <1>2, <1>5
<1>7. x' \in 0..Width /\ spritex' \in x'..Width + Tile - 1
  <2>1. spritex' = MaxOf(e, x')
    BY <1>5
  <2> QED BY <1>0, <1>14, <2>1 DEF MaxOf
<1>8. /\ tempLast' \in Nat /\ tempLast' <= x' + Len(temp')
      /\ x' + Len(temp') <= Width + Tile - 1 /\ Len(temp') <= Tile
  <2> DEFINE n == Len(q)
             m == Len(temp')
             y == x'
             t == tempLast'
             win == AtWin(q, d)
  <2>1. /\ n \in Nat /\ m \in Nat /\ y \in x..Width /\ y <= x + n
        /\ x + n <= Width + Tile - 1 /\ n <= Tile /\ l \in 0..x + n
    BY <1>1, <1>6, <1>14
  <2>2. (win => t = 0 /\ m = 0) /\ (~win => t = l /\ m = n - (y - x))
    BY <1>5
  <2> HIDE DEF n, m, y, t, win
  <2>3. t \in Nat /\ t <= y + m /\ y + m <= Width + Tile - 1 /\ m <= Tile
    BY <1>0, <2>1, <2>2
  <2> QED BY <2>3 DEF m, y, t
<1>9. /\ fetchStatus' = 1 => /\ d < Len(sprites) /\ x' < Width
                             /\ temp' # <<>> /\ fetchMode' = 4
      /\ fetchStatus' = 0 /\ x' < Width => temp' = <<>>
      /\ x' = Width => fetchStatus' = 0 /\ fetchMode' = 0
  <2>1. CASE AtSpr(q, d)
    <3>1. /\ fetchStatus' = 1 /\ fetchMode' = 4 /\ d < Len(sprites) /\ x' < Limit(q)
          /\ Len(temp') = Len(q) - (x' - x)
      BY <1>2, <1>4, <1>5, <2>1
    <3>2. x' < Width /\ Len(temp') # 0
      BY <1>0, <1>1, <1>3, <1>7, <3>1
    <3> QED BY <1>7, <3>1, <3>2
  <2>2. CASE AtWin(q, d)
    <3>1. fetchStatus' = 0 /\ fetchMode' = 0 /\ Len(temp') = 0
      BY <1>4, <1>5, <2>2
    <3> QED BY <1>6, <3>1
  <2>3. CASE ~AtSpr(q, d) /\ ~AtWin(q, d)
    <3>1. /\ fetchStatus' = 0 /\ fetchMode' = 0 /\ x' = Limit(q)
          /\ Len(temp') = Len(q) - (x' - x)
      BY <1>2, <1>5, <2>3
    <3>2. x' < Width => Len(temp') = 0
      BY <1>0, <1>1, <1>3, <3>1
    <3> QED BY <1>6, <3>1, <3>2
  <2> QED BY <2>1, <2>2, <2>3
<1>10. overWindow' \in BOOLEAN
  BY <1>5
<1>11. /\ fetchMode' \in 0..4 /\ fetchStatus' \in {0, 1} /\ modeDots' = 0
       /\ fetchDots' \in 0..SpriteDots - 1 /\ taken' \in Nat
  <2>1. modeDots' = 0
    BY <1>5
  <2>2. fetchMode' \in {0, 4} /\ fetchStatus' \in {0, 1}
    BY <1>5, Zenon
  <2> QED BY <1>0, <1>5, <2>1, <2>2
<1>12. PipeTyped'
  <2>1. /\ spritex' \in Nat /\ drawn' \in 0..Len(sprites') /\ Len(sprites') = Len(sprites)
        /\ modeDots' \in 0..1
    BY <1>0, <1>5, <1>7, <1>11 DEF registers
  <2> HIDE DEF Layers, Pixels
  <2> QED BY <1>5, <1>7, <1>8, <1>10, <1>11, <2>1 DEF PipeTyped, registers
<1>13. QueuesInv'
  <2>1. Len(sprites') = Len(sprites) /\ drawn' = d /\ modeDots' = 0
    BY <1>5, <1>11 DEF registers
  <2>2. x' <= spritex' /\ spritex' <= Width + Tile - 1
    BY <1>7, <1>0
  <2> QED BY <1>5, <1>8, <1>9, <2>1, <2>2, Zenon DEF QueuesInv
<1> QED BY <1>12, <1>13

(* The step invariant of types and queues                                   *)
LEMMA QueuesKept ==
  ASSUME PipeTyped, QueuesInv, [PipelineNext]_pipelineVars
  PROVE  PipeTyped' /\ QueuesInv'
<1>0. /\ Width \in Nat /\ Width > 0 /\ Width < Off /\ Tile = 8 /\ SpriteDots = 6 /\ x \in 0..Width
      /\ Len(sprites) \in Nat /\ Len(temp) \in Nat /\ Len(bgFifo) \in Nat
      /\ Len(spriteFifo) \in Nat /\ Len(frame) \in Nat
      /\ drawn \in 0..Len(sprites) /\ spritex \in Nat /\ tempLast \in Nat /\ taken \in Nat
      /\ fetchMode \in 0..4 /\ modeDots \in 0..1 /\ fetchStatus \in {0, 1} /\ fetchDots \in 0..5
  BY NumbersTyped
<1>1. CASE FetchTile \/ FetchSprite
  <2>1. Moved
    BY <1>1, Moving
  <2>2. /\ fetchMode' \in 0..4 /\ modeDots' \in 0..1 /\ (fetchMode' = 4 => modeDots' = 0)
        /\ fetchDots' \in 0..5 /\ (fetchStatus = 1 => fetchMode' = fetchMode)
    <3>1. CASE FetchTile
      <4>1. /\ fetchStatus = 0 /\ fetchMode < 4 /\ modeDots' = (modeDots + 1) % 2
            /\ fetchMode' = (IF modeDots = 1 THEN fetchMode + 1 ELSE fetchMode)
            /\ fetchDots' = fetchDots
        BY <3>1 DEF FetchTile
      <4>2. fetchMode' \in 0..4 /\ modeDots' \in 0..1
        BY <1>0, <4>1
      <4>3. fetchMode' = 4 => modeDots' = 0
        BY <1>0, <4>1
      <4> QED BY <1>0, <4>1, <4>2, <4>3
    <3>2. CASE FetchSprite
      <4>1. /\ fetchDots + 1 < SpriteDots /\ fetchDots' = fetchDots + 1
            /\ fetchMode' = fetchMode /\ modeDots' = modeDots
        BY <3>2 DEF FetchSprite
      <4>2. fetchMode = 4 => modeDots = 0
        BY DEF PipeTyped
      <4> QED BY <4>1, <4>2, <1>0
    <3> QED BY <1>1, <3>1, <3>2
  <2>3. taken' \in Nat
    BY <2>1, <1>0 DEF Moved
  <2>4. PipeTyped'
    BY <2>1, <2>2, <2>3 DEF PipeTyped, Moved, registers, lcdc, SpriteDots
  <2>5. QueuesInv'
    BY <2>1, <2>2, <1>0 DEF QueuesInv, Moved, registers
  <2> QED BY <2>4, <2>5
<1>2. CASE PushTile
  <2> DEFINE q == FetchedTile
             stop == Stop(q, drawn)
  <2>1. /\ Pushed(q, spriteFifo, spritex, drawn)
        /\ tempLast' = IF AtWin(q, drawn) THEN 0 ELSE tempLast + Len(q)
        /\ x < Width /\ taken' = taken + 1 /\ drawn' = drawn
        /\ fetchStatus = 0 /\ fetchMode = 4 /\ modeDots = 0 /\ temp = <<>>
    BY <1>2, TilePushed
  <2>2. q \in Seq(Layers) /\ Len(q) \in Nat /\ Len(q) >= 1 /\ Len(q) <= 8
    BY TileRead DEF Tile
  <2> HIDE DEF q
  <2>3. /\ spritex \in x..Width + Tile - 1 /\ drawn \in 0..Len(sprites)
        /\ x + Len(q) <= Width + Tile - 1 /\ Len(q) <= Tile
        /\ tempLast + Len(q) \in 0..x + Len(q)
    <3>1. x <= spritex /\ spritex <= Width + Tile - 1 /\ tempLast <= x + Len(temp) /\ Len(temp) = 0
      BY <2>1 DEF QueuesInv
    <3>2. x < Width
      BY <2>1
    <3> QED BY <1>0, <2>2, <3>1, <3>2
  <2> QED BY <2>1, <2>2, <2>3, PushedKept
<1>3. CASE PushSprite
  <2> DEFINE s == Overlay(drawn + 1, spriteFifo)
             e == spritex + (Len(s) - Len(spriteFifo))
  <2>1. /\ Pushed(temp, s, e, drawn + 1)
        /\ e = Len(frame) + Len(s) /\ Len(frame) + Len(s) \in spritex..Width + Tile - 1
        /\ tempLast' = IF AtWin(temp, drawn + 1) THEN 0 ELSE tempLast
        /\ x < Width /\ taken' = taken + 1 /\ drawn' = drawn + 1 /\ drawn + 1 \in 1..Len(sprites)
        /\ fetchStatus = 1 /\ fetchMode = 4 /\ modeDots = 0 /\ temp # <<>>
    BY <1>3, SpritePushed
  <2> HIDE DEF s, e
  <2>2. /\ temp \in Seq(Layers) /\ e \in x..Width + Tile - 1 /\ drawn + 1 \in 0..Len(sprites)
        /\ x + Len(temp) <= Width + Tile - 1 /\ Len(temp) <= Tile /\ tempLast \in 0..x + Len(temp)
    <3>1. /\ temp \in Seq(Layers) /\ x <= spritex /\ tempLast <= x + Len(temp)
          /\ x + Len(temp) <= Width + Tile - 1 /\ Len(temp) <= Tile
      BY DEF QueuesInv, PipeTyped
    <3>2. e \in x..Width + Tile - 1
      BY <1>0, <2>1, <3>1
    <3> QED BY <1>0, <2>1, <3>1, <3>2
  <2> QED BY <2>1, <2>2, PushedKept
<1>4. CASE WriteLcdc
  <2>1. PipeTyped'
    BY <1>4 DEF WriteLcdc, PipeTyped, registers, SpriteDots
  <2>2. QueuesInv'
    BY <1>4 DEF WriteLcdc, QueuesInv, registers
  <2> QED BY <2>1, <2>2
<1>5. CASE Reset
  <2>1. oam' \in Tables /\ SpritesOf(oam', sprites')
    BY <1>5, SpriteListIsSorted DEF Reset
  <2>2. Len(sprites') \in Nat
    BY <2>1, SpriteTyped
  <2>3. PipeTyped'
    <3>1. /\ temp' = <<>> /\ bgFifo' = <<>> /\ spriteFifo' = <<>> /\ frame' = <<>>
          /\ fetchMode' = 0 /\ modeDots' = 0 /\ tempLast' = 0 /\ x' = 0 /\ spritex' = 0
          /\ fetchStatus' = 0 /\ fetchDots' = 0 /\ drawn' = 0 /\ taken' = 0 /\ writes' = 0
          /\ lineTrigger' \in BOOLEAN /\ overWindow' = FALSE
          /\ UNCHANGED <<scx, windowStart, windowEnable, objEnable>>
      BY <1>5 DEF Reset
    <3>2. <<>> \in Seq(Layers) /\ <<>> \in Seq(Pixels) /\ <<>> \in Seq(Layers \X Pixels)
      OBVIOUS
    <3> HIDE DEF Layers, Pixels
    <3>3. /\ x' \in 0..Width /\ fetchMode' \in 0..4 /\ modeDots' \in 0..1 /\ fetchStatus' \in {0, 1}
          /\ fetchDots' \in 0..SpriteDots - 1 /\ drawn' \in 0..Len(sprites')
      BY <1>0, <2>2, <3>1
    <3> QED BY <2>1, <3>1, <3>2, <3>3 DEF PipeTyped
  <2>4. QueuesInv'
    BY <1>5, <2>2, <1>0 DEF Reset, QueuesInv, Tile
  <2> QED BY <2>3, <2>4
<1>6. CASE UNCHANGED pipelineVars
  <2>1. PipeTyped'
    BY <1>6 DEF pipelineVars, PipeTyped, registers, SpriteDots
  <2>2. QueuesInv'
    BY <1>6 DEF pipelineVars, QueuesInv
  <2> QED BY <2>1, <2>2
<1> QED BY <1>1, <1>2, <1>3, <1>4, <1>5, <1>6 DEF PipelineNext

-----------------------------------------------------------------------------
(* Time                                                                     *)

(* The dots of the line are those of t tiles, of the sprites drawn and of   *)
(* the fetch under way.  All but b of the tiles have moved the line on by    *)
(* eight columns, the first by one at least; the b tiles were lost to the   *)
(* window, each time with LCDC written twice since the last.                *)
Dots == IF fetchStatus = 1 THEN fetchDots ELSE 2 * fetchMode + modeDots
Turns == IF ~windowEnable THEN 1 ELSE IF overWindow THEN 2 ELSE 0

TimeAt(t, b) ==
  /\ taken = 9 * t + 6 * drawn + Dots
  /\ x + Len(temp) + 7 >= 8 * (t - b)
  /\ x = 0 /\ ~overWindow /\ temp = <<>> => t = 0
  /\ 2 * b <= writes + Turns

TimeInv == (overWindow => lineTrigger) /\ \E t, b \in Nat : TimeAt(t, b)

LEMMA PushedInTime ==
  ASSUME PipeTyped, x < Width, NEW q \in Seq(Layers), NEW s, NEW e, NEW d \in 0..Len(sprites),
         Pushed(q, s, e, d), Len(q) >= 1, Len(q) <= Tile, modeDots = 0, drawn' = d,
         overWindow => lineTrigger,
         NEW t \in Nat, NEW b \in Nat, taken' = 9 * t + 6 * d,
         x + Len(q) + 7 >= 8 * (t - b), 2 * b <= writes + Turns
  PROVE  TimeInv'
<1>0. x \in 0..Width /\ Width \in Nat /\ writes \in Nat /\ Len(q) \in Nat /\ Tile = 8
  BY NumbersTyped
<1>1. x' \in x..Width /\ x' <= x + Len(q) /\ (AtWin(q, d) => Opens)
  BY <1>0, Stopping DEF Pushed
<1>2. /\ Len(temp') = IF AtWin(q, d) THEN 0 ELSE Len(q) - (x' - x)
      /\ overWindow' = (Over \/ AtWin(q, d))
      /\ fetchStatus' = (IF AtSpr(q, d) THEN 1 ELSE 0) /\ fetchDots' = 0
      /\ fetchMode' = (IF AtSpr(q, d) THEN 4 ELSE 0)
      /\ lineTrigger' = lineTrigger /\ windowEnable' = windowEnable
      /\ modeDots' = 0 /\ writes' = writes
      /\ temp' \in Seq(Layers)
  BY Zenon DEF Pushed, registers
<1>3. overWindow' => lineTrigger'
  BY <1>1, <1>2 DEF Over, Opens
<1>4. Dots' = 0
  <2>1. IF fetchStatus' = 1 THEN Dots' = fetchDots' ELSE Dots' = 2 * fetchMode' + modeDots'
    BY Zenon DEF Dots
  <2>2. fetchStatus' # 1 => fetchMode' = 0
    BY <1>2, Zenon
  <2> QED BY <1>2, <2>1, <2>2
<1>5. CASE AtWin(q, d)
  <2>1. Turns = 0 /\ Turns' = 2
    BY <1>1, <1>2, <1>5, Zenon DEF Turns, Opens, Over
  <2>2. taken' = 9 * t + 6 * drawn' + Dots'
    BY <1>4
  <2>3. x' + Len(temp') + 7 >= 8 * (t - (b + 1)) /\ 2 * (b + 1) <= writes' + Turns'
    <3> DEFINE n == Len(q)
               m == Len(temp')
               y == x'
               w == writes'
               u == Turns'
    <3>1. /\ n \in Nat /\ y \in x..Width /\ n <= 8 /\ m = 0 /\ w = writes /\ u = 2
          /\ x + n + 7 >= 8 * (t - b) /\ 2 * b <= writes + 0
      BY <1>0, <1>1, <1>2, <1>5, <2>1
    <3> HIDE DEF n, m, y, w, u
    <3>2. y + m + 7 >= 8 * (t - (b + 1)) /\ 2 * (b + 1) <= w + u
      BY <1>0, <3>1
    <3> QED BY <3>2 DEF m, y, w, u
  <2>4. overWindow'
    BY <1>2, <1>5
  <2>5. b + 1 \in Nat /\ TimeAt(t, b + 1)'
    BY <2>2, <2>3, <2>4 DEF TimeAt
  <2> QED BY <1>3, <2>5 DEF TimeInv
<1>6. CASE ~AtWin(q, d)
  <2>1. taken' = 9 * t + 6 * drawn' + Dots'
    BY <1>4
  <2>2. x' + Len(temp') = x + Len(q)
    <3> DEFINE n == Len(q)
               m == Len(temp')
               y == x'
    <3>1. n \in Nat /\ y \in x..Width /\ m = n - (y - x)
      BY <1>0, <1>1, <1>2, <1>6
    <3> HIDE DEF n, m, y
    <3>2. y + m = x + n
      BY <1>0, <3>1
    <3> QED BY <3>2 DEF n, m, y
  <2>3. ~(x' = 0 /\ ~overWindow' /\ temp' = <<>>)
    <3>1. SUFFICES ASSUME x' = 0, temp' = <<>> PROVE FALSE
      OBVIOUS
    <3>2. Len(temp') = 0
      BY <3>1
    <3> DEFINE n == Len(q)
               m == Len(temp')
               y == x'
    <3>3. n \in Nat /\ n >= 1 /\ y = 0 /\ m = 0 /\ y + m = x + n
      BY <1>0, <2>2, <3>1, <3>2
    <3> HIDE DEF n, m, y
    <3> QED BY <1>0, <3>3
  <2>4. Turns' = Turns
    BY <1>2, <1>6, Zenon DEF Turns, Over
  <2>5. TimeAt(t, b)'
    BY <1>2, <2>1, <2>2, <2>3, <2>4 DEF TimeAt
  <2> QED BY <1>3, <2>5 DEF TimeInv
<1> QED BY <1>5, <1>6

LEMMA TimeKept ==
  ASSUME PipeTyped, QueuesInv, TimeInv, [PipelineNext]_pipelineVars
  PROVE  TimeInv'
<1> PICK t \in Nat, b \in Nat : TimeAt(t, b)
  BY DEF TimeInv
<1>1. /\ taken = 9 * t + 6 * drawn + Dots
      /\ x + Len(temp) + 7 >= 8 * (t - b)
      /\ x = 0 /\ ~overWindow /\ temp = <<>> => t = 0
      /\ 2 * b <= writes + Turns
      /\ overWindow => lineTrigger
  BY DEF TimeAt, TimeInv
<1>2. /\ Width \in Nat /\ Tile = 8 /\ SpriteDots = 6 /\ x \in 0..Width
      /\ Len(temp) \in Nat /\ drawn \in Nat /\ taken \in Nat /\ writes \in Nat
      /\ fetchMode \in 0..4 /\ modeDots \in 0..1 /\ fetchStatus \in {0, 1} /\ fetchDots \in 0..5
  BY NumbersTyped
<1>3. CASE FetchTile
  <2>1. /\ UNCHANGED <<lineTrigger, windowEnable, overWindow, x, temp, drawn, writes, fetchStatus>>
        /\ taken' = taken + 1 /\ fetchStatus = 0
        /\ modeDots' = (modeDots + 1) % 2
        /\ fetchMode' = IF modeDots = 1 THEN fetchMode + 1 ELSE fetchMode
    BY <1>3 DEF FetchTile, AdvanceDot, registers, lcdc
  <2>2. Dots' = Dots + 1
    <3>1. Dots = 2 * fetchMode + modeDots /\ Dots' = 2 * fetchMode' + modeDots'
      BY <2>1 DEF Dots
    <3> QED BY <1>2, <2>1, <3>1
  <2>3. TimeAt(t, b)'
    <3>1. taken' = 9 * t + 6 * drawn' + Dots'
      <4>1. Dots \in Nat
        BY <1>2, <2>1 DEF Dots
      <4> QED BY <1>1, <1>2, <2>1, <2>2, <4>1
    <3>2. Turns' = Turns
      BY <2>1 DEF Turns
    <3> QED BY <1>1, <2>1, <3>1, <3>2 DEF TimeAt
  <2> QED BY <1>1, <2>1, <2>3 DEF TimeInv
<1>4. CASE FetchSprite
  <2>1. /\ UNCHANGED <<lineTrigger, windowEnable, overWindow, x, temp, drawn, writes, fetchStatus>>
        /\ taken' = taken + 1 /\ fetchStatus = 1 /\ fetchDots' = fetchDots + 1
    BY <1>4 DEF FetchSprite, AdvanceDot, registers, lcdc
  <2>2. Dots = fetchDots /\ Dots' = fetchDots + 1
    BY <2>1 DEF Dots
  <2>3. TimeAt(t, b)'
    <3>1. taken' = 9 * t + 6 * drawn' + Dots'
      BY <1>1, <1>2, <2>1, <2>2
    <3>2. Turns' = Turns
      BY <2>1 DEF Turns
    <3> QED BY <1>1, <2>1, <3>1, <3>2 DEF TimeAt
  <2> QED BY <1>1, <2>1, <2>3 DEF TimeInv
<1>5. CASE PushTile
  <2> DEFINE q == FetchedTile
  <2>1. /\ Pushed(q, spriteFifo, spritex, drawn) /\ x < Width
        /\ taken' = taken + 1 /\ drawn' = drawn
        /\ fetchStatus = 0 /\ fetchMode = 4 /\ modeDots = 0 /\ temp = <<>>
    BY <1>5, TilePushed
  <2>2. /\ q \in Seq(Layers) /\ Len(q) \in Nat /\ Len(q) >= 1 /\ Len(q) <= Tile
        /\ x > 0 \/ overWindow => Len(q) = Tile
    BY TileRead
  <2> HIDE DEF q
  <2>3. Dots = 8
    BY <2>1 DEF Dots
  <2>4. taken' = 9 * (t + 1) + 6 * drawn
    BY <1>1, <1>2, <2>1, <2>3
  <2>5. x + Len(q) + 7 >= 8 * ((t + 1) - b)
    <3> DEFINE n == Len(q)
    <3>1. Len(temp) = 0
      BY <2>1
    <3>2. /\ n \in Nat /\ n >= 1 /\ (x > 0 \/ overWindow => n = 8)
          /\ x + 7 >= 8 * (t - b) /\ (x = 0 /\ ~overWindow => t = 0)
      BY <1>1, <1>2, <2>1, <2>2, <3>1
    <3> HIDE DEF n
    <3>3. x + n + 7 >= 8 * ((t + 1) - b)
      BY <1>2, <3>2
    <3> QED BY <3>3 DEF n
  <2>6. drawn \in 0..Len(sprites) /\ t + 1 \in Nat
    BY NumbersTyped
  <2> QED BY <1>1, <2>1, <2>2, <2>4, <2>5, <2>6, PushedInTime
<1>6. CASE PushSprite
  <2> DEFINE s == Overlay(drawn + 1, spriteFifo)
             e == spritex + (Len(s) - Len(spriteFifo))
  <2>1. /\ Pushed(temp, s, e, drawn + 1) /\ x < Width
        /\ taken' = taken + 1 /\ drawn' = drawn + 1 /\ drawn + 1 \in 1..Len(sprites)
        /\ fetchStatus = 1 /\ fetchDots = 5 /\ modeDots = 0 /\ temp # <<>>
    BY <1>6, SpritePushed
  <2> HIDE DEF s, e
  <2>2. Dots = 5
    BY <2>1 DEF Dots
  <2>3. taken' = 9 * t + 6 * (drawn + 1)
    BY <1>1, <1>2, <2>1, <2>2
  <2>4. temp \in Seq(Layers) /\ Len(temp) >= 1 /\ Len(temp) <= Tile
    <3>1. temp \in Seq(Layers) /\ Len(temp) <= Tile
      BY DEF PipeTyped, QueuesInv
    <3>2. Len(temp) # 0
      BY <2>1, <3>1
    <3> QED BY <1>2, <3>1, <3>2
  <2>5. drawn + 1 \in 0..Len(sprites)
    BY <2>1
  <2> QED BY <1>1, <2>1, <2>3, <2>4, <2>5, PushedInTime
<1>7. CASE WriteLcdc
  <2>1. /\ UNCHANGED <<lineTrigger, overWindow, x, temp, drawn, fetchStatus, fetchDots, fetchMode,
                       modeDots, taken>>
        /\ windowEnable' \in BOOLEAN /\ writes' = writes + 1
    BY <1>7 DEF WriteLcdc, registers
  <2>2. Turns <= Turns' + 1 /\ Turns \in Nat /\ Turns' \in Nat
    BY <2>1 DEF Turns
  <2>3. Dots' = Dots
    BY <2>1 DEF Dots
  <2>4. 2 * b <= writes' + Turns'
    <3> DEFINE u == Turns
               v == Turns'
    <3>1. 2 * b <= writes + u /\ u <= v + 1 /\ u \in Nat /\ v \in Nat
      BY <1>1, <2>2
    <3> HIDE DEF u, v
    <3>2. 2 * b <= (writes + 1) + v
      BY <1>2, <3>1
    <3> QED BY <2>1, <3>2 DEF v
  <2>5. TimeAt(t, b)'
    BY <1>1, <2>1, <2>3, <2>4 DEF TimeAt
  <2> QED BY <1>1, <2>1, <2>5 DEF TimeInv
<1>8. CASE Reset
  <2>1. /\ overWindow' = FALSE /\ taken' = 0 /\ drawn' = 0 /\ x' = 0 /\ temp' = <<>> /\ writes' = 0
        /\ fetchStatus' = 0 /\ fetchMode' = 0 /\ modeDots' = 0
    BY <1>8 DEF Reset
  <2>2. Dots' = 0 /\ Turns' \in Nat
    BY <2>1 DEF Dots, Turns
  <2>3. TimeAt(0, 0)'
    <3>1. taken' = 9 * 0 + 6 * drawn' + Dots'
      BY <2>1, <2>2
    <3>2. x' + Len(temp') + 7 >= 8 * (0 - 0)
      BY <2>1
    <3>3. 2 * 0 <= writes' + Turns'
      <4> DEFINE v == Turns'
      <4>1. v \in Nat
        BY <2>2
      <4> HIDE DEF v
      <4>2. 2 * 0 <= 0 + v
        BY <4>1
      <4> QED BY <2>1, <4>2 DEF v
    <3> QED BY <3>1, <3>2, <3>3 DEF TimeAt
  <2> QED BY <2>1, <2>3 DEF TimeInv
<1>9. CASE UNCHANGED pipelineVars
  <2>1. TimeAt(t, b)'
    BY <1>1, <1>9 DEF pipelineVars, registers, TimeAt, Dots, Turns
  <2> QED BY <1>1, <1>9, <2>1 DEF TimeInv, pipelineVars, registers
<1> QED BY <1>3, <1>4, <1>5, <1>6, <1>7, <1>8, <1>9 DEF PipelineNext

LEMMA TimeStarts == PipelineInit => TimeInv
<1>1. SUFFICES ASSUME PipelineInit PROVE TimeInv
  OBVIOUS
<1>2. /\ overWindow = FALSE /\ taken = 0 /\ drawn = 0 /\ x = 0 /\ temp = <<>> /\ writes = 0
      /\ fetchStatus = 0 /\ fetchMode = 0 /\ modeDots = 0
  BY <1>1 DEF PipelineInit
<1>3. Dots = 0 /\ Turns \in Nat
  BY <1>2 DEF Dots, Turns
<1>4. TimeAt(0, 0)
  BY <1>2, <1>3 DEF TimeAt
<1> QED BY <1>2, <1>4 DEF TimeInv

LEMMA TimeSuffices ==
  ASSUME PipeTyped, QueuesInv, TimeInv
  PROVE  LineInTime
<1> PICK t \in Nat, b \in Nat : TimeAt(t, b)
  BY DEF TimeInv
<1> DEFINE k == (Width + 7) \div 8
           h == writes \div 2
           n == Len(sprites)
           m == Len(temp)
           r == Dots
           u == Turns
<1>1. /\ Width \in Nat /\ Tile = 8 /\ SpriteDots = 6 /\ x \in 0..Width /\ n \in Nat
      /\ m \in Nat /\ drawn \in 0..n /\ taken \in Nat /\ writes \in Nat
      /\ fetchMode \in 0..4 /\ modeDots \in 0..1 /\ fetchStatus \in {0, 1} /\ fetchDots \in 0..5
  BY NumbersTyped
<1>2. k \in Nat /\ 8 * k <= Width + 7 /\ Width + 7 < 8 * k + 8
  BY <1>1
<1>3. h \in Nat /\ 2 * h <= writes /\ writes < 2 * h + 2
  BY <1>1
<1>4. taken = 9 * t + 6 * drawn + r /\ x + m + 7 >= 8 * (t - b) /\ 2 * b <= writes + u
  BY DEF TimeAt
<1>5. u \in Nat /\ u <= 2
  BY DEF Turns
<1>6. /\ x + m <= Width + 7
      /\ fetchStatus = 1 => drawn < n
      /\ fetchStatus = 0 /\ x < Width => m = 0
      /\ fetchStatus = 0 /\ ~(x < Width) => r = 0
      /\ fetchStatus = 1 => r \in 0..5
      /\ fetchStatus = 0 => r \in Nat /\ r <= 9
  <2>1. x + m <= Width + 7 /\ (fetchStatus = 1 => drawn < n)
    BY <1>1 DEF QueuesInv
  <2>2. fetchStatus = 0 /\ x < Width => m = 0
    <3>1. fetchStatus = 0 /\ x < Width => temp = <<>>
      BY DEF QueuesInv
    <3> QED BY <3>1
  <2>3. fetchStatus = 0 /\ ~(x < Width) => r = 0
    <3>1. ~(x < Width) => x = Width
      BY <1>1
    <3>2. fetchStatus = 0 /\ ~(x < Width) => r = 2 * fetchMode + modeDots /\ fetchMode = 0 /\ modeDots = 0
      BY <3>1 DEF QueuesInv, Dots
    <3> QED BY <3>2
  <2>4. fetchStatus = 1 => r \in 0..5
    BY <1>1 DEF Dots
  <2>5. fetchStatus = 0 => r \in Nat /\ r <= 9
    BY <1>1 DEF Dots
  <2> QED BY <2>1, <2>2, <2>3, <2>4, <2>5
<1> HIDE DEF k, h, n, m, r, u
<1>7. b <= h + 1
  BY <1>1, <1>3, <1>4, <1>5
<1>8. taken <= 9 * (2 + k + h) + 6 * n
  <2>1. CASE fetchStatus = 1
    <3>1. t - b <= k + 1
      BY <1>1, <1>2, <1>4, <1>6
    <3>2. 6 * drawn + r <= 6 * n
      BY <1>1, <1>6, <2>1
    <3> QED BY <1>1, <1>2, <1>3, <1>4, <1>6, <1>7, <2>1, <3>1, <3>2
  <2>2. CASE fetchStatus = 0 /\ x < Width
    <3>1. t - b <= k
      BY <1>1, <1>2, <1>4, <1>6, <2>2
    <3>2. 6 * drawn + r <= 6 * n + 9
      BY <1>1, <1>6, <2>2
    <3> QED BY <1>1, <1>2, <1>3, <1>4, <1>6, <1>7, <2>2, <3>1, <3>2
  <2>3. CASE fetchStatus = 0 /\ ~(x < Width)
    <3>1. t - b <= k + 1
      BY <1>1, <1>2, <1>4, <1>6
    <3>2. 6 * drawn + r <= 6 * n
      BY <1>1, <1>6, <2>3
    <3> QED BY <1>1, <1>2, <1>3, <1>4, <1>6, <1>7, <2>3, <3>1, <3>2
  <2> QED BY <1>1, <2>1, <2>2, <2>3
<1>9. Width + Tile - 1 = Width + 7
  BY <1>1
<1> QED BY <1>1, <1>8, <1>9 DEF LineInTime, k, h, n

-----------------------------------------------------------------------------
(* Columns                                                                  *)

(* The background pixels of the line so far: shown, waiting, left over      *)
Line(c) == IF c <= x THEN BgAt(frame, bgFifo, c) ELSE temp[c - x]
End == x + Len(temp)

ColumnInv ==
  /\ \A c \in 1..End : (\A b \in 1..c : Line(b)[1] = "background") => Line(c)[2] = scx + c - 1
  /\ (\A b \in 1..End : Line(b)[1] = "background")
       => (overWindow /\ temp = <<>>) \/ End = 0 \/ (scx + End) % Tile = 0

WindowInv ==
  windowStart >= 0 /\ writes = 0 =>
    /\ overWindow => /\ lineTrigger /\ windowEnable
                     /\ End >= windowStart /\ (End - windowStart) % Tile = 0
    /\ ~overWindow /\ lineTrigger /\ windowEnable => x <= windowStart
    /\ \A c \in 1..End : Line(c)[1] = "window" => Line(c)[2] = c - 1 - windowStart

LEMMA LinePushed ==
  ASSUME PipeTyped, x < Width, NEW q \in Seq(Layers), NEW s, NEW e, NEW d \in 0..Len(sprites),
         Pushed(q, s, e, d)
  PROVE  /\ x' \in x..Width /\ Len(temp') \in Nat
         /\ AtWin(q, d) => End' = x' /\ temp' = <<>> /\ End' <= x + Len(q)
         /\ ~AtWin(q, d) => End' = x + Len(q)
         /\ \A c \in 1..End' : Line(c)' = IF c <= x THEN Line(c) ELSE q[c - x]
<1> DEFINE y == x'
           n == Len(q)
           m == Len(temp')
           win == AtWin(q, d)
<1>1. x \in Nat /\ n \in Nat /\ Width \in Nat
  BY NumbersTyped
<1>2. y \in x..Width /\ y <= x + n
  BY <1>1, Stopping DEF Pushed
<1>3. m \in Nat /\ m = (IF win THEN 0 ELSE n - (y - x)) /\ (m = 0 => temp' = <<>>)
  <2>1. temp' \in Seq(Layers) /\ m = (IF win THEN 0 ELSE n - (y - x))
    BY Zenon DEF Pushed
  <2>2. m \in Nat /\ (m = 0 => temp' = <<>>)
    <3>1. temp' \in Seq(Layers)
      BY <2>1, Zenon
    <3> QED BY <3>1
  <2> QED BY <2>1, <2>2, Zenon
<1>4. /\ \A i \in 1..m : temp'[i] = q[y - x + i]
      /\ \A c \in 1..y : BgAt(frame', bgFifo', c) = IF c <= x THEN BgAt(frame, bgFifo, c) ELSE q[c - x]
  BY Zenon DEF Pushed
<1>5. End' = y + m
  BY DEF End
<1>6. (win => y + m = y /\ m = 0 /\ y + m <= x + n) /\ (~win => y + m = x + n)
  <2> HIDE DEF y, n, m, win
  <2> QED BY <1>1, <1>2, <1>3
<1>7. ASSUME NEW c \in 1..y + m
      PROVE  Line(c)' = IF c <= x THEN Line(c) ELSE q[c - x]
  <2>1. Line(c)' = IF c <= y THEN BgAt(frame', bgFifo', c) ELSE temp'[c - y]
    BY Zenon DEF Line
  <2>2. c <= x => Line(c) = BgAt(frame, bgFifo, c)
    BY Zenon DEF Line
  <2> HIDE DEF y, n, m, win
  <2>3. CASE c <= y
    <3>1. c \in 1..y
      BY <1>1, <1>2, <1>3, <2>3
    <3> QED BY <1>4, <2>1, <2>2, <2>3, <3>1, Zenon
  <2>4. CASE ~(c <= y)
    <3>1. c - y \in 1..m /\ y - x + (c - y) = c - x /\ ~(c <= x)
      BY <1>1, <1>2, <1>3, <2>4
    <3>2. temp'[c - y] = q[c - x]
      BY <1>4, <3>1, Zenon
    <3> QED BY <2>1, <2>4, <3>1, <3>2, Zenon
  <2> QED BY <2>3, <2>4
<1> QED BY <1>2, <1>3, <1>5, <1>6, <1>7

(* Nothing but the loop changes the line.                                   *)
LEMMA LineStands ==
  ASSUME PipeTyped, QueuesInv, FetchTile \/ FetchSprite \/ WriteLcdc \/ UNCHANGED pipelineVars
  PROVE  /\ End' = End /\ \A c \in 1..End : Line(c)' = Line(c)
         /\ UNCHANGED <<x, temp, scx, windowStart, lineTrigger, overWindow>>
         /\ WriteLcdc \/ UNCHANGED <<windowEnable, writes>>
<1>1. CASE FetchTile \/ FetchSprite
  <2>1. /\ UNCHANGED <<x, temp, scx, windowStart, lineTrigger, overWindow, windowEnable, writes>>
        /\ \A c \in 1..x : BgAt(frame', bgFifo', c) = BgAt(frame, bgFifo, c)
    BY <1>1, Moving DEF Moved, registers, lcdc
  <2>2. End' = End
    BY <2>1 DEF End
  <2>3. \A c \in 1..End : Line(c)' = Line(c)
    <3> TAKE c \in 1..End
    <3>1. c <= x => c \in 1..x
      BY NumbersTyped DEF End
    <3> QED BY <2>1, <3>1, Zenon DEF Line
  <2> QED BY <2>1, <2>2, <2>3
<1>2. CASE WriteLcdc
  <2>1. /\ UNCHANGED <<x, temp, scx, windowStart, lineTrigger, overWindow, frame, bgFifo>>
    BY <1>2 DEF WriteLcdc, registers
  <2> QED BY <1>2, <2>1 DEF Line, End
<1>3. CASE UNCHANGED pipelineVars
  BY <1>3 DEF pipelineVars, registers, Line, End
<1> QED BY <1>1, <1>2, <1>3

LEMMA ColumnsPushed ==
  ASSUME PipeTyped, x < Width, NEW q \in Seq(Layers), NEW s, NEW e, NEW d \in 0..Len(sprites),
         Pushed(q, s, e, d), ColumnInv, Len(q) >= 1,
         \/ q = temp
         \/ q = FetchedTile /\ temp = <<>>
  PROVE  ColumnInv'
<1>0. x \in Nat /\ Len(q) \in Nat /\ scx \in Nat /\ Tile = 8 /\ scx' = scx
  BY NumbersTyped DEF Pushed, registers
<1>1. /\ x' \in x..Width /\ Len(temp') \in Nat
      /\ AtWin(q, d) => End' = x' /\ temp' = <<>> /\ End' <= x + Len(q)
      /\ ~AtWin(q, d) => End' = x + Len(q)
      /\ \A c \in 1..End' : Line(c)' = IF c <= x THEN Line(c) ELSE q[c - x]
  BY LinePushed
<1>2. overWindow' = (Over \/ AtWin(q, d))
  BY DEF Pushed
<1>3. CASE q = temp
  <2>1. End = x + Len(q) /\ End' \in Nat /\ End' <= End
    BY <1>0, <1>1, <1>3 DEF End
  <2>2. \A c \in 1..End' : Line(c)' = Line(c)
    <3> TAKE c \in 1..End'
    <3>1. ~(c <= x) => Line(c) = q[c - x]
      BY <1>3 DEF Line
    <3> QED BY <1>1, <3>1
  <2>3. ASSUME NEW c \in 1..End', \A b \in 1..c : Line(b)'[1] = "background"
        PROVE  Line(c)'[2] = scx' + c - 1
    <3>1. c \in 1..End /\ \A b \in 1..c : b \in 1..End'
      BY <2>1
    <3>2. \A b \in 1..c : Line(b)[1] = "background"
      BY <2>2, <2>3, <3>1
    <3>3. Line(c)[2] = scx + c - 1
      BY <3>1, <3>2 DEF ColumnInv
    <3> QED BY <1>0, <2>2, <3>3
  <2>4. ASSUME \A b \in 1..End' : Line(b)'[1] = "background"
        PROVE  (overWindow' /\ temp' = <<>>) \/ End' = 0 \/ (scx' + End') % Tile = 0
    <3>1. CASE AtWin(q, d)
      BY <1>1, <1>2, <3>1
    <3>2. CASE ~AtWin(q, d)
      <4>1. End' = End
        BY <1>1, <2>1, <3>2
      <4>2. \A b \in 1..End : Line(b)[1] = "background"
        BY <2>2, <2>4, <4>1
      <4>3. temp # <<>>
        BY <1>3
      <4>4. End = 0 \/ (scx + End) % Tile = 0
        BY <4>2, <4>3 DEF ColumnInv
      <4> QED BY <1>0, <4>1, <4>4
    <3> QED BY <3>1, <3>2
  <2> QED BY <2>3, <2>4 DEF ColumnInv
<1>4. CASE q = FetchedTile /\ temp = <<>>
  <2>1. End = x /\ End' \in Nat /\ End' <= x + Len(q) /\ x <= End'
    <3>1. Len(temp) = 0
      BY <1>4
    <3>2. End = x
      BY <1>0, <3>1 DEF End
    <3> QED BY <1>0, <1>1, <3>2
  <2>2. \A c \in 1..x : Line(c)' = Line(c)
    BY <1>0, <1>1, <2>1
  <2>3. \A c \in x + 1..End' : Line(c)' = q[c - x] /\ c - x \in 1..Len(q)
    <3> TAKE c \in x + 1..End'
    <3>1. c \in 1..End' /\ ~(c <= x) /\ c - x \in 1..Len(q)
      BY <1>0, <2>1
    <3> QED BY <1>1, <3>1
  <2>4. CASE overWindow
    <3>1. \A c \in x + 1..End' : Line(c)'[1] = "window"
      BY <1>4, <2>3, <2>4, TileRead
    <3>2. ASSUME NEW c \in 1..End', \A b \in 1..c : Line(b)'[1] = "background"
          PROVE  c \in 1..x
      <4>1. CASE c \in x + 1..End'
        BY <3>1, <3>2, <4>1
      <4> QED BY <1>0, <2>1, <4>1
    <3>3. ASSUME NEW c \in 1..End', \A b \in 1..c : Line(b)'[1] = "background"
          PROVE  Line(c)'[2] = scx' + c - 1
      <4>1. c \in 1..End /\ \A b \in 1..c : Line(b)[1] = "background"
        <5>1. c \in 1..x
          BY <3>2, <3>3
        <5>2. c \in 1..End /\ \A b \in 1..c : b \in 1..x
          BY <1>0, <2>1, <5>1
        <5>3. \A b \in 1..c : Line(b)' = Line(b)
          BY <2>2, <5>2, Zenon
        <5> QED BY <3>3, <5>2, <5>3, Zenon
      <4>2. Line(c)[2] = scx + c - 1
        BY <4>1 DEF ColumnInv
      <4> QED BY <1>0, <2>2, <3>2, <3>3, <4>2
    <3>4. ASSUME \A b \in 1..End' : Line(b)'[1] = "background"
          PROVE  overWindow' /\ temp' = <<>>
      <4>1. CASE AtWin(q, d)
        BY <1>1, <1>2, <4>1
      <4>2. CASE ~AtWin(q, d)
        <5>1. End' = x + Len(q) /\ End' \in x + 1..End' /\ End' \in 1..End'
          BY <1>0, <1>1, <2>1, <4>2
        <5> QED BY <3>1, <3>4, <5>1
      <4> QED BY <4>1, <4>2
    <3> QED BY <3>3, <3>4 DEF ColumnInv
  <2>5. CASE ~overWindow
    <3>1. \A c \in x + 1..End' : Line(c)'[1] = "background"
      BY <1>4, <2>3, <2>5, TileRead
    <3>2. ASSUME \A b \in 1..x : Line(b)'[1] = "background"
          PROVE  /\ (scx + x + Len(q)) % Tile = 0
                 /\ \A k \in 1..Len(q) : q[k][2] = scx + x + k - 1
      <4>1. \A b \in 1..End : Line(b)[1] = "background"
        BY <2>1, <2>2, <3>2
      <4>2. x = 0 \/ (scx + x) % Tile = 0
        BY <2>1, <2>5, <4>1 DEF ColumnInv
      <4> QED BY <1>4, <2>5, <4>2, TileRead
    <3>3. ASSUME NEW c \in 1..End', \A b \in 1..c : Line(b)'[1] = "background"
          PROVE  Line(c)'[2] = scx' + c - 1
      <4>1. CASE c <= x
        <5>1. c \in 1..End /\ c \in 1..x /\ \A b \in 1..c : Line(b)[1] = "background"
          BY <1>0, <2>1, <2>2, <3>3, <4>1
        <5>2. Line(c)[2] = scx + c - 1
          BY <5>1 DEF ColumnInv
        <5> QED BY <1>0, <2>2, <5>1, <5>2
      <4>2. CASE ~(c <= x)
        <5>1. \A b \in 1..x : Line(b)'[1] = "background"
          BY <1>0, <3>3, <4>2
        <5>2. c \in x + 1..End'
          BY <1>0, <2>1, <4>2
        <5>3. Line(c)' = q[c - x] /\ c - x \in 1..Len(q)
          BY <2>3, <5>2
        <5>4. q[c - x][2] = scx + x + (c - x) - 1
          BY <3>2, <5>1, <5>3
        <5>5. scx + x + (c - x) - 1 = scx + c - 1
          BY <1>0
        <5> QED BY <1>0, <5>3, <5>4, <5>5
      <4> QED BY <4>1, <4>2
    <3>4. ASSUME \A b \in 1..End' : Line(b)'[1] = "background"
          PROVE  (overWindow' /\ temp' = <<>>) \/ End' = 0 \/ (scx' + End') % Tile = 0
      <4>1. CASE AtWin(q, d)
        BY <1>1, <1>2, <4>1
      <4>2. CASE ~AtWin(q, d)
        <5>1. \A b \in 1..x : Line(b)'[1] = "background"
          BY <1>0, <2>1, <3>4
        <5>2. (scx + x + Len(q)) % Tile = 0
          BY <3>2, <5>1
        <5>3. scx' + End' = scx + x + Len(q)
          BY <1>0, <1>1, <4>2
        <5> QED BY <5>2, <5>3
      <4> QED BY <4>1, <4>2
    <3> QED BY <3>3, <3>4 DEF ColumnInv
  <2> QED BY <2>4, <2>5
<1> QED BY <1>3, <1>4

LEMMA ColumnsKept ==
  ASSUME PipeTyped, QueuesInv, ColumnInv, [PipelineNext]_pipelineVars
  PROVE  ColumnInv'
<1>1. CASE FetchTile \/ FetchSprite \/ WriteLcdc \/ UNCHANGED pipelineVars
  <2>1. /\ End' = End /\ \A c \in 1..End : Line(c)' = Line(c)
        /\ scx' = scx /\ overWindow' = overWindow /\ temp' = temp
    BY <1>1, LineStands
  <2>2. ASSUME NEW c \in 1..End', \A b \in 1..c : Line(b)'[1] = "background"
        PROVE  Line(c)'[2] = scx' + c - 1
    <3>1. End \in Nat
      BY NumbersTyped DEF End
    <3>2. c \in 1..End /\ \A b \in 1..c : b \in 1..End
      BY <2>1, <3>1
    <3>3. \A b \in 1..c : Line(b)[1] = "background"
      BY <2>1, <2>2, <3>2
    <3> QED BY <2>1, <3>2, <3>3 DEF ColumnInv
  <2>3. ASSUME \A b \in 1..End' : Line(b)'[1] = "background"
        PROVE  (overWindow' /\ temp' = <<>>) \/ End' = 0 \/ (scx' + End') % Tile = 0
    <3>1. \A b \in 1..End : Line(b)[1] = "background"
      BY <2>1, <2>3
    <3> QED BY <2>1, <3>1 DEF ColumnInv
  <2> QED BY <2>2, <2>3 DEF ColumnInv
<1>2. CASE PushTile
  <2> DEFINE q == FetchedTile
  <2>1. /\ Pushed(q, spriteFifo, spritex, drawn) /\ x < Width /\ temp = <<>>
        /\ drawn \in 0..Len(sprites) /\ q \in Seq(Layers) /\ Len(q) >= 1
    BY <1>2, TilePushed, TileRead, NumbersTyped
  <2> HIDE DEF q
  <2>2. q = FetchedTile /\ temp = <<>>
    BY <2>1 DEF q
  <2> QED BY <2>1, <2>2, ColumnsPushed
<1>3. CASE PushSprite
  <2> DEFINE s == Overlay(drawn + 1, spriteFifo)
             e == spritex + (Len(s) - Len(spriteFifo))
  <2>1. /\ Pushed(temp, s, e, drawn + 1) /\ x < Width /\ temp # <<>> /\ drawn + 1 \in 1..Len(sprites)
    BY <1>3, SpritePushed
  <2> HIDE DEF s, e
  <2>2. drawn + 1 \in 0..Len(sprites)
    BY <2>1
  <2>3. temp \in Seq(Layers) /\ Len(temp) >= 1
    <3>1. temp \in Seq(Layers)
      BY DEF PipeTyped
    <3> QED BY <2>1, <3>1
  <2> QED BY <2>1, <2>2, <2>3, ColumnsPushed
<1>4. CASE Reset
  <2>1. x' = 0 /\ temp' = <<>>
    BY <1>4 DEF Reset
  <2>2. End' = 0
    BY <2>1 DEF End
  <2> QED BY <2>2 DEF ColumnInv
<1> QED BY <1>1, <1>2, <1>3, <1>4 DEF PipelineNext

LEMMA WindowPushed ==
  ASSUME PipeTyped, x < Width, NEW q \in Seq(Layers), NEW s, NEW e, NEW d \in 0..Len(sprites),
         Pushed(q, s, e, d), WindowInv,
         \/ q = temp
         \/ q = FetchedTile /\ temp = <<>>
  PROVE  WindowInv'
<1>0. x \in Nat /\ Len(q) \in Nat /\ windowStart \in Int /\ Tile = 8
  BY NumbersTyped
<1>1. /\ x' \in x..Width /\ Len(temp') \in Nat
      /\ AtWin(q, d) => End' = x' /\ temp' = <<>> /\ End' <= x + Len(q)
      /\ ~AtWin(q, d) => End' = x + Len(q)
      /\ \A c \in 1..End' : Line(c)' = IF c <= x THEN Line(c) ELSE q[c - x]
  BY LinePushed
<1>2. /\ overWindow' = (Over \/ AtWin(q, d)) /\ x' = Stop(q, d)
      /\ UNCHANGED <<windowStart, lineTrigger, windowEnable, writes>>
  BY Zenon DEF Pushed, registers
<1>3. /\ Opens => x' <= MaxOf(x, windowStart)
      /\ AtWin(q, d) => Opens /\ x' = MaxOf(x, windowStart)
  BY <1>0, <1>2, Stopping
<1>4. SUFFICES ASSUME windowStart >= 0, writes = 0
      PROVE  /\ overWindow' => /\ lineTrigger /\ windowEnable
                               /\ End' >= windowStart /\ (End' - windowStart) % Tile = 0
             /\ ~overWindow' /\ lineTrigger /\ windowEnable => x' <= windowStart
             /\ \A c \in 1..End' : Line(c)'[1] = "window" => Line(c)'[2] = c - 1 - windowStart
  BY <1>2 DEF WindowInv
<1>5. /\ overWindow => /\ lineTrigger /\ windowEnable
                       /\ End >= windowStart /\ (End - windowStart) % Tile = 0
      /\ ~overWindow /\ lineTrigger /\ windowEnable => x <= windowStart
      /\ \A c \in 1..End : Line(c)[1] = "window" => Line(c)[2] = c - 1 - windowStart
  BY <1>4 DEF WindowInv
<1>6. (Over <=> overWindow) /\ (Opens <=> lineTrigger /\ windowEnable /\ ~overWindow)
  BY <1>5, Zenon DEF Over, Opens
<1>7. AtWin(q, d) => x' = windowStart
  BY <1>0, <1>3, <1>5, <1>6 DEF MaxOf
<1>8. End' \in Nat /\ x <= End' /\ End' <= x + Len(q)
  BY <1>0, <1>1
<1>9. ASSUME overWindow'
      PROVE  /\ lineTrigger /\ windowEnable
             /\ End' >= windowStart /\ (End' - windowStart) % Tile = 0
  <2>1. CASE AtWin(q, d)
    <3>1. lineTrigger /\ windowEnable
      BY <1>3, <2>1 DEF Opens
    <3>2. End' = windowStart
      BY <1>1, <1>7, <2>1
    <3>3. End' >= windowStart /\ (End' - windowStart) % Tile = 0
      BY <1>0, <3>2
    <3> QED BY <3>1, <3>3
  <2>2. CASE ~AtWin(q, d)
    <3>1. overWindow /\ lineTrigger /\ windowEnable /\ End >= windowStart /\ (End - windowStart) % Tile = 0
      BY <1>2, <1>5, <1>6, <1>9, <2>2, Zenon
    <3>2. CASE q = temp
      <4>1. End' = End
        BY <1>1, <2>2, <3>2 DEF End
      <4> QED BY <3>1, <4>1
    <3>3. CASE q = FetchedTile /\ temp = <<>>
      <4>1. Len(temp) = 0
        BY <3>3
      <4>2. End = x
        BY <1>0, <4>1 DEF End
      <4>3. Len(q) = 8
        BY <1>0, <3>1, <3>3, TileRead
      <4>4. End' = End + 8
        BY <1>1, <2>2, <4>2, <4>3
      <4>5. End' >= windowStart /\ (End' - windowStart) % Tile = 0
        <5>1. End \in Nat
          BY <1>0, <4>2
        <5> HIDE DEF End
        <5>2. End + 8 >= windowStart /\ (End + 8 - windowStart) % 8 = 0
          BY <1>0, <3>1, <5>1
        <5>3. (End + 8) - windowStart = End + 8 - windowStart
          BY <1>0, <5>1
        <5> QED BY <1>0, <4>4, <5>2, <5>3
      <4> QED BY <3>1, <4>5
    <3> QED BY <3>2, <3>3
  <2> QED BY <2>1, <2>2
<1>10. ASSUME ~overWindow', lineTrigger, windowEnable
       PROVE  x' <= windowStart
  <2>1. Opens /\ ~overWindow
    BY <1>2, <1>6, <1>10, Zenon
  <2>2. x <= windowStart
    BY <1>5, <1>10, <2>1
  <2> QED BY <1>0, <1>1, <1>3, <2>1, <2>2 DEF MaxOf
<1>11. ASSUME NEW c \in 1..End', Line(c)'[1] = "window"
       PROVE  Line(c)'[2] = c - 1 - windowStart
  <2>1. CASE c <= x
    <3>1. c \in 1..End
      BY <1>0, <2>1, NumbersTyped DEF End
    <3>2. Line(c)' = Line(c)
      BY <1>1, <2>1
    <3> QED BY <1>5, <1>11, <3>1, <3>2
  <2>2. CASE ~(c <= x) /\ q = temp
    <3>1. Line(c)' = Line(c)
      BY <1>1, <2>2, Zenon DEF Line
    <3>2. c \in 1..End
      BY <1>0, <1>8, <2>2 DEF End
    <3> QED BY <1>5, <1>11, <3>1, <3>2
  <2>3. CASE ~(c <= x) /\ q = FetchedTile /\ temp = <<>>
    <3>1. Line(c)' = q[c - x] /\ c - x \in 1..Len(q)
      BY <1>0, <1>1, <1>8, <2>3
    <3>2. overWindow
      BY <1>11, <2>3, <3>1, TileRead
    <3>3. (x - windowStart) % Tile = 0
      <4>1. Len(temp) = 0
        BY <2>3
      <4>2. End = x
        BY <1>0, <4>1 DEF End
      <4> QED BY <1>5, <3>2, <4>2
    <3>4. q[c - x][2] = x - windowStart + (c - x) - 1
      BY <2>3, <3>1, <3>2, <3>3, TileRead
    <3>5. x - windowStart + (c - x) - 1 = c - 1 - windowStart
      BY <1>0
    <3> QED BY <3>1, <3>4, <3>5
  <2> QED BY <2>1, <2>2, <2>3
<1> QED BY <1>9, <1>10, <1>11

LEMMA WindowKept ==
  ASSUME PipeTyped, QueuesInv, WindowInv, [PipelineNext]_pipelineVars
  PROVE  WindowInv'
<1>1. CASE FetchTile \/ FetchSprite \/ UNCHANGED pipelineVars
  <2>1. ~WriteLcdc \/ UNCHANGED <<windowEnable, writes>>
    BY <1>1 DEF FetchTile, FetchSprite, pipelineVars, registers, lcdc
  <2>2. /\ End' = End /\ \A c \in 1..End : Line(c)' = Line(c)
        /\ UNCHANGED <<x, windowStart, lineTrigger, overWindow, windowEnable, writes>>
    BY <1>1, <2>1, LineStands
  <2> QED BY <2>2 DEF WindowInv
<1>2. CASE WriteLcdc
  <2>1. writes' # 0
    BY <1>2, NumbersTyped DEF WriteLcdc
  <2> QED BY <2>1 DEF WindowInv
<1>3. CASE PushTile
  <2> DEFINE q == FetchedTile
  <2>1. /\ Pushed(q, spriteFifo, spritex, drawn) /\ x < Width /\ temp = <<>>
        /\ drawn \in 0..Len(sprites) /\ q \in Seq(Layers)
    BY <1>3, TilePushed, TileRead, NumbersTyped
  <2> HIDE DEF q
  <2>2. q = FetchedTile /\ temp = <<>>
    BY <2>1 DEF q
  <2> QED BY <2>1, <2>2, WindowPushed
<1>4. CASE PushSprite
  <2> DEFINE s == Overlay(drawn + 1, spriteFifo)
             e == spritex + (Len(s) - Len(spriteFifo))
  <2>1. /\ Pushed(temp, s, e, drawn + 1) /\ x < Width /\ drawn + 1 \in 1..Len(sprites)
    BY <1>4, SpritePushed
  <2> HIDE DEF s, e
  <2>2. drawn + 1 \in 0..Len(sprites) /\ temp \in Seq(Layers)
    BY <2>1 DEF PipeTyped
  <2> QED BY <2>1, <2>2, WindowPushed
<1>5. CASE Reset
  <2>1. x' = 0 /\ temp' = <<>> /\ overWindow' = FALSE /\ windowStart' = windowStart
    BY <1>5 DEF Reset
  <2>2. End' = 0
    BY <2>1 DEF End
  <2> QED BY <2>1, <2>2, NumbersTyped DEF WindowInv
<1> QED BY <1>1, <1>2, <1>3, <1>4, <1>5 DEF PipelineNext

LEMMA ColumnsStart == PipelineInit => ColumnInv /\ WindowInv
<1>1. SUFFICES ASSUME PipelineInit PROVE ColumnInv /\ WindowInv
  OBVIOUS
<1>2. x = 0 /\ temp = <<>> /\ overWindow = FALSE
  BY <1>1 DEF PipelineInit
<1>3. End = 0
  BY <1>2 DEF End
<1> QED BY <1>2, <1>3 DEF ColumnInv, WindowInv

LEMMA ColumnsSuffice ==
  ASSUME PipeTyped, QueuesInv, ColumnInv, WindowInv
  PROVE  ColumnsFollowRegisters
<1>1. \A c \in DOMAIN frame : c \in 1..End /\ Line(c) = frame[c][1] /\ \A b \in 1..c : b \in DOMAIN frame
  <2> TAKE c \in DOMAIN frame
  <2>1. DOMAIN frame = 1..Len(frame)
    BY DEF PipeTyped
  <2>2. Len(frame) <= x /\ Len(temp) \in Nat /\ Len(frame) \in Nat /\ x \in Nat
    <3>1. Len(frame) + Len(bgFifo) = x
      BY DEF QueuesInv
    <3> DEFINE f == Len(frame)
               b == Len(bgFifo)
    <3>2. f \in Nat /\ b \in Nat /\ x \in Nat /\ Len(temp) \in Nat /\ f + b = x
      BY <3>1, NumbersTyped
    <3> HIDE DEF f, b
    <3>3. f <= x
      BY <3>2
    <3> QED BY <3>2, <3>3 DEF f
  <2>3. c \in 1..End /\ c <= x /\ c <= Len(frame) /\ \A b \in 1..c : b \in DOMAIN frame
    BY <2>1, <2>2 DEF End
  <2> QED BY <2>3, Zenon DEF Line, BgAt
<1>2. ASSUME NEW c \in DOMAIN frame, frame[c][1][1] = "background",
             \A b \in 1..c : frame[b][1][1] = "background"
      PROVE  frame[c][1][2] = scx + c - 1
  <2>1. c \in 1..End /\ \A b \in 1..c : Line(b)[1] = "background"
    BY <1>1, <1>2
  <2>2. Line(c)[2] = scx + c - 1
    BY <2>1 DEF ColumnInv
  <2> QED BY <1>1, <2>2
<1>3. ASSUME NEW c \in DOMAIN frame, frame[c][1][1] = "window", windowStart >= 0, writes = 0
      PROVE  frame[c][1][2] = c - 1 - windowStart
  BY <1>1, <1>3 DEF WindowInv
<1> QED BY <1>2, <1>3 DEF ColumnsFollowRegisters

-----------------------------------------------------------------------------
(* Where sprites are met                                                    *)

(* The loop passed columns of the sprite only while objects were disabled.   *)
Unmet(i) == \A c \in 0..x - 1 : X(i) <= c /\ c < X(i) + 8 => c \in dark

(* The next sprite is one of these; at a sprite the loop stands at one of its *)
(* columns, and no more than one pixel will be waiting when the sprite is   *)
(* read.                                                                    *)
PlaceInv ==
  /\ fetchStatus = 1 => /\ X(drawn + 1) <= x /\ x < X(drawn + 1) + 8
                        /\ Len(bgFifo) + fetchDots <= 6
                        /\ Len(bgFifo) + Len(temp) <= 8
  /\ fetchStatus = 0 /\ x < Width =>
       Len(bgFifo) = 0 \/ Len(bgFifo) + 2 * fetchMode + modeDots <= 7
  /\ x = Width => Len(bgFifo) = 0
  /\ drawn < Len(sprites) => Unmet(drawn + 1)

LEMMA LeftToRight ==
  ASSUME PipeTyped, NEW i \in 1..Len(sprites), NEW j \in 1..Len(sprites), i <= j
  PROVE  X(i) <= X(j)
<1>1. X(i) \in Int /\ X(j) \in Int
  BY ObjectTyped
<1>2. CASE i = j
  BY <1>1, <1>2
<1>3. CASE i # j
  <2>1. i < j
    BY <1>3, ObjectTyped
  <2>2. ~Before(sprites[j], sprites[i])
    BY <2>1 DEF PipeTyped, SpritesOf
  <2> QED BY <1>1, <2>2 DEF Before, X
<1> QED BY <1>2, <1>3

LEMMA PlacePushed ==
  ASSUME PipeTyped, x < Width, NEW q \in Seq(Layers), NEW s, NEW e, NEW d \in 0..Len(sprites),
         Pushed(q, s, e, d), drawn' = d, modeDots = 0,
         Len(bgFifo) + Len(q) <= 8,
         d < Len(sprites) => Unmet(d + 1)
  PROVE  PlaceInv'
<1> DEFINE y == x'
           n == Len(q)
           b == Len(bgFifo)
           b1 == Len(bgFifo')
           m1 == Len(temp')
           pos == X(d + 1)
           more == d < Len(sprites)
           win == AtWin(q, d)
           spr == AtSpr(q, d)
           lim == Limit(q)
<1>1. /\ x \in Nat /\ Width \in Nat /\ Width > 0 /\ n \in Nat /\ b \in Nat /\ b + n <= 8
      /\ b1 \in Nat /\ m1 \in Nat
  <2>1. bgFifo' \in Seq(Layers) /\ temp' \in Seq(Layers)
    BY Zenon DEF Pushed
  <2>2. b1 \in Nat /\ m1 \in Nat
    BY <2>1
  <2>3. n \in Nat
    OBVIOUS
  <2>4. x \in 0..Width /\ Width \in Nat /\ Width > 0 /\ b \in Nat
    BY NumbersTyped
  <2> QED BY <2>2, <2>3, <2>4
<1>2. more => pos \in Int
  <2>1. more => d + 1 \in 1..Len(sprites)
    BY ObjectTyped
  <2> QED BY <2>1, ObjectTyped
<1>3. /\ y \in x..Width /\ y <= x + n
      /\ win => y < lim
      /\ spr => /\ more /\ y < lim /\ y = MaxOf(x, pos) /\ y < pos + 8
      /\ objEnable /\ more /\ MaxOf(x, pos) < pos + 8 => y <= MaxOf(x, pos)
      /\ ~(win /\ spr)
  <2>1. y = Stop(q, d) /\ Tile = 8
    BY Zenon DEF Pushed, Tile
  <2>2. ~(win /\ spr)
    BY Zenon DEF AtWin, AtSpr
  <2> HIDE DEF y, win, spr, lim, pos
  <2> QED BY <1>1, <2>1, <2>2, Stopping DEF y, win, spr, lim, pos
<1>4. lim <= Width /\ lim <= x + n /\ lim \in Int
  BY <1>1 DEF Limit, MinOf
<1>5. /\ m1 = (IF win THEN 0 ELSE n - (y - x))
      /\ b1 = (IF y = Width \/ b + (y - x) = 0 THEN 0 ELSE b + (y - x) - 1)
      /\ fetchStatus' = (IF spr THEN 1 ELSE 0) /\ fetchDots' = 0
      /\ fetchMode' = (IF spr THEN 4 ELSE 0) /\ modeDots' = modeDots
      /\ sprites' = sprites
  BY Zenon DEF Pushed, registers
<1>6. ASSUME more, NEW c \in 0..y - 1, pos <= c, c < pos + 8
      PROVE  c \in dark'
  <2>1. c \in Int /\ x \in Int /\ y \in Int /\ 0 <= c /\ c < y
    <3>1. y \in x..Width
      BY <1>3
    <3>2. c \in 0..y - 1
      OBVIOUS
    <3> HIDE DEF y
    <3> QED BY <1>1, <3>1, <3>2
  <2>2. dark' = (IF objEnable THEN dark ELSE dark \cup x..y - 1)
    BY Zenon DEF Pushed
  <2>3. CASE c < x
    <3>1. c \in 0..x - 1
      BY <2>1, <2>3
    <3>2. c \in dark
      BY <1>6, <3>1 DEF Unmet
    <3> QED BY <2>2, <3>2, Zenon
  <2>4. CASE ~(c < x) /\ ~objEnable
    <3>1. c \in x..y - 1
      <4> HIDE DEF y
      <4> QED BY <2>1, <2>4
    <3> QED BY <2>2, <2>4, <3>1, Zenon
  <2>5. CASE ~(c < x) /\ objEnable
    <3>1. objEnable /\ more /\ MaxOf(x, pos) < pos + 8 => y <= MaxOf(x, pos)
      BY <1>3
    <3>2. MaxOf(x, pos) < pos + 8 /\ ~(y <= MaxOf(x, pos))
      <4> HIDE DEF y, pos, more
      <4> QED BY <1>2, <1>6, <2>1, <2>5 DEF MaxOf
    <3> QED BY <1>6, <2>5, <3>1, <3>2, Zenon
  <2> QED BY <2>3, <2>4, <2>5
<1>7. spr => pos <= y /\ y < pos + 8 /\ y < Width
  <2> HIDE DEF y, n, b, b1, m1, pos, more, win, spr, lim
  <2> QED BY <1>1, <1>2, <1>3, <1>4 DEF MaxOf
<1>8. spr => b1 <= 6 /\ b1 + m1 <= 8
  <2>1. spr => ~win /\ y < x + n
    BY <1>1, <1>3, <1>4
  <2>2. ~win => m1 = n - (y - x)
    BY <1>5
  <2>3. b1 = 0 \/ b1 = b + (y - x) - 1
    BY <1>5
  <2>4. y \in x..Width
    BY <1>3
  <2> HIDE DEF y, n, b, b1, m1, pos, more, win, spr, lim
  <2> QED BY <1>1, <2>1, <2>2, <2>3, <2>4
<1>9. b1 <= 7 /\ (y = Width => b1 = 0)
  <2> HIDE DEF y, n, b, b1, m1, pos, more, win, spr, lim
  <2> QED BY <1>1, <1>3, <1>5
<1>10. (fetchStatus' = 1 <=> spr) /\ (fetchStatus' = 0 => fetchMode' = 0) /\ modeDots' = 0
  BY <1>5
<1>14. X(drawn + 1)' = pos
  BY <1>5 DEF X
<1>11. ASSUME fetchStatus' = 1
       PROVE  /\ X(drawn + 1)' <= x' /\ x' < X(drawn + 1)' + 8
              /\ Len(bgFifo') + fetchDots' <= 6 /\ Len(bgFifo') + Len(temp') <= 8
  <2>2. spr
    BY <1>10, <1>11
  <2>3. b1 + fetchDots' <= 6
    <3> HIDE DEF b1, spr
    <3>1. b1 + 0 <= 6
      BY <1>1, <1>8, <2>2
    <3> QED BY <1>5, <3>1
  <2> QED BY <1>7, <1>8, <1>14, <2>2, <2>3
<1>12. ASSUME fetchStatus' = 0
       PROVE  Len(bgFifo') + 2 * fetchMode' + modeDots' <= 7
  <2>1. b1 + 2 * 0 + 0 <= 7
    <3> HIDE DEF b1
    <3> QED BY <1>1, <1>9
  <2> QED BY <1>10, <1>12, <2>1
<1>13. drawn' < Len(sprites') => Unmet(drawn + 1)'
  <2>1. Len(sprites') = Len(sprites) /\ drawn' = d
    BY <1>5
  <2> QED BY <1>6, <1>14, <2>1 DEF Unmet
<1> QED BY <1>9, <1>11, <1>12, <1>13, Zenon DEF PlaceInv

LEMMA PlaceKept ==
  ASSUME PipeTyped, QueuesInv, PlaceInv, [PipelineNext]_pipelineVars
  PROVE  PlaceInv'
<1>0. /\ Width \in Nat /\ Width > 0 /\ Tile = 8 /\ SpriteDots = 6 /\ x \in 0..Width
      /\ Len(sprites) \in Nat /\ drawn \in 0..Len(sprites)
      /\ fetchMode \in 0..4 /\ modeDots \in 0..1 /\ fetchStatus \in {0, 1} /\ fetchDots \in 0..5
  BY NumbersTyped
<1>1. CASE FetchTile \/ FetchSprite
  <2>1. /\ UNCHANGED <<x, temp, fetchStatus, drawn, sprites, dark>> /\ x < Width
        /\ Len(bgFifo') = IF Len(bgFifo) = 0 THEN 0 ELSE Len(bgFifo) - 1
    BY <1>1, Moving DEF Moved, registers, lcdc
  <2> DEFINE b == Len(bgFifo)
             c == Len(bgFifo')
             m == Len(temp)
  <2>2. b \in Nat /\ m \in Nat /\ (b = 0 => c = 0) /\ (b # 0 => c = b - 1)
    BY <2>1, NumbersTyped
  <2>3. /\ fetchStatus = 1 => /\ X(drawn + 1) <= x /\ x < X(drawn + 1) + 8
                              /\ b + fetchDots <= 6 /\ b + m <= 8
        /\ fetchStatus = 0 => b = 0 \/ b + 2 * fetchMode + modeDots <= 7
        /\ drawn < Len(sprites) => Unmet(drawn + 1)
    BY <2>1 DEF PlaceInv
  <2>4. X(drawn + 1)' = X(drawn + 1) /\ (Unmet(drawn + 1) => Unmet(drawn + 1)')
    BY <2>1 DEF X, Unmet
  <2>5. ASSUME fetchStatus = 1
        PROVE  Len(bgFifo') + fetchDots' <= 6 /\ Len(bgFifo') + Len(temp') <= 8
    <3> DEFINE g == fetchDots'
    <3>1. g = fetchDots + 1 /\ fetchDots + 1 < 6
      BY <1>0, <1>1, <2>5 DEF FetchTile, FetchSprite
    <3> HIDE DEF b, c, m, g
    <3>2. c + g <= 6 /\ c + m <= 8
      BY <1>0, <2>2, <2>3, <2>5, <3>1
    <3> QED BY <2>1, <3>2 DEF c, m, g
  <2>6. ASSUME fetchStatus = 0
        PROVE  Len(bgFifo') = 0 \/ Len(bgFifo') + 2 * fetchMode' + modeDots' <= 7
    <3> DEFINE f == fetchMode'
               g == modeDots'
    <3>1. g = (modeDots + 1) % 2 /\ f = (IF modeDots = 1 THEN fetchMode + 1 ELSE fetchMode)
      BY <1>1, <2>6 DEF FetchTile, FetchSprite
    <3>2. f \in Nat /\ g \in Nat /\ 2 * f + g = 2 * fetchMode + modeDots + 1
      <4> HIDE DEF f, g
      <4> QED BY <1>0, <3>1
    <3> HIDE DEF b, c, m, f, g
    <3>3. c = 0 \/ c + 2 * f + g <= 7
      BY <1>0, <2>2, <2>3, <2>6, <3>2
    <3> QED BY <3>3 DEF c, f, g
  <2>7. x' < Width
    BY <2>1
  <2> HIDE DEF b, c, m
  <2> QED BY <1>0, <2>1, <2>3, <2>4, <2>5, <2>6, <2>7 DEF PlaceInv
<1>2. CASE PushTile
  <2> DEFINE q == FetchedTile
  <2>1. /\ Pushed(q, spriteFifo, spritex, drawn) /\ x < Width /\ modeDots = 0
        /\ fetchStatus = 0 /\ fetchMode = 4 /\ drawn' = drawn
    BY <1>2, TilePushed
  <2>2. q \in Seq(Layers) /\ Len(q) \in Nat /\ Len(q) <= 8
    BY <1>0, TileRead
  <2> HIDE DEF q
  <2>3. Len(bgFifo) + Len(q) <= 8
    <3> DEFINE b == Len(bgFifo)
               n == Len(q)
    <3>1. b \in Nat /\ n \in Nat /\ n <= 8
      BY <2>2, NumbersTyped
    <3>2. b = 0 \/ b + 2 * fetchMode + modeDots <= 7
      BY <2>1 DEF PlaceInv
    <3> HIDE DEF b, n
    <3>3. b + n <= 8
      BY <2>1, <3>1, <3>2
    <3> QED BY <3>3 DEF b, n
  <2>4. drawn < Len(sprites) => Unmet(drawn + 1)
    BY DEF PlaceInv
  <2> QED BY <1>0, <2>1, <2>2, <2>3, <2>4, PlacePushed
<1>3. CASE PushSprite
  <2> DEFINE s == Overlay(drawn + 1, spriteFifo)
             e == spritex + (Len(s) - Len(spriteFifo))
  <2>1. /\ Pushed(temp, s, e, drawn + 1) /\ x < Width /\ drawn + 1 \in 1..Len(sprites)
        /\ drawn' = drawn + 1 /\ modeDots = 0 /\ fetchStatus = 1
    BY <1>3, SpritePushed
  <2> HIDE DEF s, e
  <2>2. drawn + 1 \in 0..Len(sprites) /\ temp \in Seq(Layers) /\ Len(bgFifo) + Len(temp) <= 8
    BY <2>1 DEF PipeTyped, PlaceInv
  <2>3. drawn + 1 < Len(sprites) => Unmet(drawn + 1 + 1)
    <3>1. SUFFICES ASSUME drawn + 1 < Len(sprites),
                          NEW c \in 0..x - 1, X(drawn + 1 + 1) <= c
                   PROVE  c \in dark
      BY DEF Unmet
    <3>2. drawn + 1 \in 1..Len(sprites) /\ drawn + 1 + 1 \in 1..Len(sprites) /\ drawn + 1 <= drawn + 1 + 1
      BY <1>0, <3>1
    <3>3. X(drawn + 1) <= X(drawn + 1 + 1) /\ X(drawn + 1) \in Int /\ X(drawn + 1 + 1) \in Int
      BY <3>2, LeftToRight, ObjectTyped
    <3>4. x < X(drawn + 1) + 8 /\ Unmet(drawn + 1)
      BY <1>0, <2>1, <3>1 DEF PlaceInv
    <3>5. X(drawn + 1) <= c /\ c < X(drawn + 1) + 8
      <4> DEFINE a == X(drawn + 1)
                 b == X(drawn + 1 + 1)
      <4> HIDE DEF a, b
      <4>1. a \in Int /\ b \in Int /\ a <= b /\ b <= c /\ c \in Int /\ c < x /\ x < a + 8
        BY <1>0, <3>1, <3>3, <3>4 DEF a, b
      <4>2. a <= c /\ c < a + 8
        BY <1>0, <4>1
      <4> QED BY <4>2 DEF a
    <3> QED BY <3>4, <3>5 DEF Unmet
  <2> QED BY <2>1, <2>2, <2>3, PlacePushed
<1>4. CASE WriteLcdc
  BY <1>4 DEF WriteLcdc, registers, PlaceInv, Unmet, X
<1>5. CASE Reset
  <2>1. x' = 0 /\ fetchStatus' = 0 /\ bgFifo' = <<>> /\ drawn' = 0 /\ Len(bgFifo') = 0
    BY <1>5 DEF Reset
  <2>3. Unmet(drawn + 1)'
    BY <2>1 DEF Unmet
  <2>4. x' # Width
    BY <1>0, <2>1
  <2> QED BY <2>1, <2>3, <2>4 DEF PlaceInv
<1>6. CASE UNCHANGED pipelineVars
  BY <1>6 DEF pipelineVars, registers, PlaceInv, Unmet, X
<1> QED BY <1>1, <1>2, <1>3, <1>4, <1>5, <1>6 DEF PipelineNext

LEMMA PlaceStarts == PipelineInit => PlaceInv
<1>1. SUFFICES ASSUME PipelineInit PROVE PlaceInv
  OBVIOUS
<1>2. x = 0 /\ fetchStatus = 0 /\ bgFifo = <<>> /\ drawn = 0 /\ Len(bgFifo) = 0
  BY <1>1 DEF PipelineInit
<1>3. PipeTyped
  BY <1>1, PipeStarts
<1>4. Unmet(drawn + 1)
  BY <1>2 DEF Unmet
<1>5. x # Width
  BY <1>2, <1>3, NumbersTyped
<1> QED BY <1>2, <1>4, <1>5 DEF PlaceInv

-----------------------------------------------------------------------------
(* What sprites show                                                        *)

(* The sprite pixels of the line so far: shown and waiting                  *)
S(c) == SprAt(frame, spriteFifo, c)

(* Pixel p of sprite i is near its column in column c, or late by no more    *)
(* columns than were passed with objects disabled.                          *)
Near(i, p, c) ==
  p \in Nat /\ \E late \in 0..7 : /\ Left(i)..Left(i) + late - 1 \subseteq dark
                                 /\ (c - 1) - (X(i) + p) \in {late - 1, late}

(* A sprite pixel is near its column, and every column of a drawn sprite but *)
(* the last shows it or one drawn before it, unless its left end was passed *)
(* with objects disabled.                                                   *)
NearInv ==
  \A c \in 1..spritex : S(c) # Blank => S(c)[1] \in 1..drawn /\ Near(S(c)[1], S(c)[2], c)

CoverInv ==
  \A i \in 1..drawn : Left(i) \notin dark =>
    \A c \in Left(i) + 1..X(i) + 7 : c <= spritex /\ S(c) # Blank /\ S(c)[1] <= i

(* What the loop does to a sprite's columns does not move the others.        *)
LEMMA NearStays ==
  ASSUME sprites' = sprites, dark \subseteq dark', NEW i, NEW p, NEW c, Near(i, p, c)
  PROVE  Near(i, p, c)'
<1>1. X(i)' = X(i) /\ Left(i)' = Left(i)
  BY DEF X, Left
<1>2. PICK late \in 0..7 : /\ Left(i)..Left(i) + late - 1 \subseteq dark
                           /\ (c - 1) - (X(i) + p) \in {late - 1, late}
  BY DEF Near
<1>3. Left(i)..Left(i) + late - 1 \subseteq dark'
  BY <1>2
<1> QED BY <1>1, <1>2, <1>3, Zenon DEF Near

(* The columns a sprite is written to                                       *)
LEMMA SpritePlaced ==
  ASSUME PipeTyped, QueuesInv, PlaceInv, PushSprite
  PROVE  LET i == drawn + 1 IN
         /\ i \in 1..Len(sprites) /\ drawn' = i /\ sprites' = sprites /\ spritex' >= spritex
         /\ X(i) \in Int /\ Left(i) \in Nat /\ Left(i) >= X(i) /\ dark \subseteq dark'
         /\ \A c \in 1..spritex' : \/ c <= spritex /\ S(c)' = S(c)
                                   \/ S(c)' = Blank /\ c > spritex
                                   \/ /\ c <= spritex => S(c) = Blank
                                      /\ S(c)'[1] = i /\ Near(i, S(c)'[2], c)
         /\ Left(i) \notin dark => \A c \in Left(i) + 1..X(i) + 7 :
              c <= spritex' /\ S(c)' # Blank /\ (S(c)'[1] = i \/ (c <= spritex /\ S(c)' = S(c)))
<1> DEFINE i == drawn + 1
           s == Overlay(i, spriteFifo)
           e == spritex + (Len(s) - Len(spriteFifo))
           h == Hidden(i)
           l == Len(frame)
           m == Len(spriteFifo)
           n == Len(s)
           late == x - Left(i)
<1>1. /\ Pushed(temp, s, e, i) /\ e = l + n /\ e >= spritex
      /\ x < Width /\ drawn' = i /\ i \in 1..Len(sprites)
      /\ fetchStatus = 1 /\ fetchDots = 5
  BY SpritePushed, NumbersTyped
<1>2. /\ spritex' = MaxOf(e, x')
      /\ \A c \in 1..spritex' : S(c)' = IF c <= e THEN SprAt(frame, s, c) ELSE Blank
      /\ sprites' = sprites
      /\ dark' = (IF objEnable THEN dark ELSE dark \cup x..x' - 1)
  BY <1>1, Zenon DEF Pushed, S, registers
<1>17. dark \subseteq dark'
  BY <1>2
<1>3. /\ Hidden(i) \in 0..8 /\ Len(s) = MaxOf(8 - h, m)
      /\ \A k \in 1..Len(s) : s[k] = IF k > 8 - h \/ (k <= m /\ spriteFifo[k] # Blank)
                                  THEN spriteFifo[k] ELSE <<i, h + k - 1>>
  <2>1. spriteFifo \in Seq(Pixels) /\ Tile = 8
    BY NumbersTyped DEF PipeTyped
  <2> HIDE DEF i
  <2> QED BY <1>1, <2>1, Overlaying
<1>4. X(i) \in Int /\ X(i) <= x /\ x < X(i) + 8 /\ Unmet(i) /\ x \in Nat
  <2>1. i <= Len(sprites) /\ drawn < Len(sprites) /\ drawn \in Nat
    <3> DEFINE len == Len(sprites)
    <3>1. i \in 1..len /\ i = drawn + 1 /\ drawn \in 0..len /\ len \in Nat
      BY <1>1, NumbersTyped
    <3> HIDE DEF len, i
    <3>2. i <= len /\ drawn < len /\ drawn \in Nat
      BY <3>1
    <3> QED BY <3>2 DEF len
  <2>2. Unmet(i) /\ X(i) <= x /\ x < X(i) + 8
    BY <1>1, <2>1 DEF PlaceInv
  <2>3. x \in Nat
    BY NumbersTyped
  <2>4. X(i) \in Int
    <3> HIDE DEF i
    <3> QED BY <1>1, ObjectTyped
  <2> QED BY <2>2, <2>3, <2>4
<1>5. /\ Left(i) = X(i) + h /\ h \in 0..7 /\ Left(i) >= X(i) /\ Left(i) \in Nat
      /\ x = X(i) + h + late /\ late \in 0..7
  <2> HIDE DEF i
  <2> QED BY <1>4 DEF Left, MaxOf, Hidden
<1>18. Left(i)..Left(i) + late - 1 \subseteq dark
  <2> DEFINE left == Left(i)
  <2>1. left \in Nat /\ left >= X(i) /\ left + late = x
    BY <1>4, <1>5
  <2>2. ASSUME NEW c \in left..left + late - 1
        PROVE  c \in dark
    <3>1. c \in 0..x - 1 /\ X(i) <= c /\ c < X(i) + 8
      <4> DEFINE pos == X(i)
      <4> HIDE DEF left, late, pos
      <4> QED BY <1>4, <1>5, <2>1, <2>2 DEF pos
    <3> QED BY <1>4, <3>1 DEF Unmet
  <2> QED BY <2>2
<1>6. l \in Nat /\ m \in Nat /\ n \in Nat /\ l + m = spritex /\ n >= m /\ n >= 8 - h /\ (n = m \/ n = 8 - h)
  <2>1. l \in Nat /\ m \in Nat /\ l + m = spritex
    BY NumbersTyped DEF QueuesInv
  <2>2. n = MaxOf(8 - h, m) /\ h \in 0..7
    BY <1>3, <1>5
  <2> HIDE DEF l, m, n, h
  <2> QED BY <2>1, <2>2 DEF MaxOf
<1>7. l \in {x - 1, x}
  <2> DEFINE b == Len(bgFifo)
  <2>1. b + fetchDots <= 6
    BY <1>1 DEF PlaceInv
  <2>2. l + b = x /\ b \in Nat /\ x \in Nat
    BY NumbersTyped DEF QueuesInv
  <2> HIDE DEF l, b
  <2> QED BY <1>1, <1>6, <2>1, <2>2
<1>8. x \in Nat /\ spritex \in Nat /\ x' \in Int
  <2>1. x' \in x..Width
    BY <1>1, LinePushed, NumbersTyped DEF PipeTyped
  <2> QED BY <2>1, NumbersTyped
<1>9. spritex' >= e /\ spritex' >= spritex /\ e \in Nat
  <2> HIDE DEF e, l, n
  <2> QED BY <1>1, <1>2, <1>6, <1>8 DEF MaxOf
<1>10. ASSUME NEW c \in 1..e
       PROVE  IF c <= l THEN S(c)' = S(c) /\ c <= spritex
              ELSE LET k == c - l IN
                   /\ k \in 1..n
                   /\ IF k > 8 - h \/ (k <= m /\ spriteFifo[k] # Blank)
                      THEN S(c)' = S(c) /\ c <= spritex
                      ELSE S(c)' = <<i, h + k - 1>> /\ (c <= spritex => S(c) = Blank)
  <2>1. c \in 1..spritex' /\ c <= e
    <3> HIDE DEF e
    <3> QED BY <1>2, <1>8, <1>9 DEF MaxOf
  <2>2. S(c)' = SprAt(frame, s, c)
    BY <1>2, <2>1, Zenon
  <2>3. CASE c <= l
    <3>1. S(c)' = S(c)
      BY <2>2, <2>3, Zenon DEF S, SprAt
    <3>2. c <= spritex
      <4> HIDE DEF l, m
      <4> QED BY <1>6, <2>3
    <3> QED BY <2>3, <3>1, <3>2, Zenon
  <2>4. CASE ~(c <= l)
    <3> DEFINE k == c - l
    <3>1. k \in 1..n /\ (k <= m <=> c <= spritex) /\ (k > 8 - h => k <= m)
      <4> HIDE DEF l, m, n, h, e
      <4> QED BY <1>1, <1>5, <1>6, <2>4
    <3>2. S(c)' = s[k] /\ S(c) = spriteFifo[k]
      BY <2>2, <2>4, Zenon DEF S, SprAt
    <3>3. s[k] = IF k > 8 - h \/ (k <= m /\ spriteFifo[k] # Blank)
                 THEN spriteFifo[k] ELSE <<i, h + k - 1>>
      BY <1>3, <3>1, Zenon
    <3> HIDE DEF k, h, m
    <3> QED BY <2>4, <3>1, <3>2, <3>3, Zenon DEF k
  <2> QED BY <2>3, <2>4
<1>11. ASSUME NEW c \in Int, NEW k \in 1..n, k = c - l
       PROVE  Near(i, h + k - 1, c)
  <2>1. X(i) \in Int
    BY <1>4
  <2> DEFINE pos == X(i)
  <2>2. h + k - 1 \in Nat /\ (c - 1) - (pos + (h + k - 1)) \in {late - 1, late}
    <3>1. x = pos + h + late /\ h \in 0..7 /\ late \in 0..7 /\ pos \in Int
      BY <1>5, <2>1
    <3>2. l \in {x - 1, x} /\ x \in Nat /\ n \in Nat
      BY <1>6, <1>7, <1>8
    <3> HIDE DEF l, n, h, pos, late
    <3>3. k \in Nat /\ k >= 1 /\ c = k + l
      BY <1>11, <3>2
    <3>4. h + k - 1 \in Nat
      BY <3>1, <3>3
    <3>5. CASE l = x
      BY <3>1, <3>2, <3>3, <3>4, <3>5
    <3>6. CASE l = x - 1
      BY <3>1, <3>2, <3>3, <3>4, <3>6
    <3> QED BY <3>2, <3>5, <3>6
  <2> QED BY <1>5, <1>18, <2>2, Zenon DEF Near
<1>12. i # 0
  <2>1. i \in 1..Len(sprites)
    BY <1>1
  <2> HIDE DEF i
  <2> QED BY <2>1
<1>13. ASSUME NEW c \in 1..spritex'
       PROVE  \/ c <= spritex /\ S(c)' = S(c)
              \/ S(c)' = Blank /\ c > spritex
              \/ /\ c <= spritex => S(c) = Blank
                 /\ S(c)'[1] = i /\ Near(i, S(c)'[2], c)
  <2>1. CASE c <= e
    <3>1. c \in 1..e
      BY <1>9, <2>1
    <3>2. CASE c <= l
      BY <1>10, <3>1, <3>2
    <3>3. CASE ~(c <= l)
      <4> DEFINE k == c - l
      <4>1. /\ k \in 1..n
            /\ IF k > 8 - h \/ (k <= m /\ spriteFifo[k] # Blank)
               THEN S(c)' = S(c) /\ c <= spritex
               ELSE S(c)' = <<i, h + k - 1>> /\ (c <= spritex => S(c) = Blank)
        BY <1>10, <3>1, <3>3, Zenon
      <4>2. Near(i, h + k - 1, c)
        BY <1>11, <4>1
      <4> HIDE DEF k, h, i
      <4>3. S(c)' = <<i, h + k - 1>> => S(c)'[1] = i /\ S(c)'[2] = h + k - 1
        OBVIOUS
      <4> QED BY <4>1, <4>2, <4>3, Zenon
    <3> QED BY <3>2, <3>3
  <2>2. CASE ~(c <= e)
    <3>1. S(c)' = Blank
      BY <1>2, <2>2
    <3>2. c > spritex
      <4> HIDE DEF e
      <4> QED BY <1>1, <1>8, <1>9, <2>2
    <3> QED BY <3>1, <3>2
  <2> QED BY <2>1, <2>2
<1>14. ASSUME Left(i) \notin dark, NEW c \in Left(i) + 1..X(i) + 7
       PROVE  c <= spritex' /\ S(c)' # Blank /\ (S(c)'[1] = i \/ (c <= spritex /\ S(c)' = S(c)))
  <2> DEFINE k == c - l
             pos == X(i)
  <2>6. x = pos + h /\ Left(i) = x
    <3>1. late = 0
      <4>1. ~(late >= 1)
        <5>1. late >= 1 => Left(i) \in Left(i)..Left(i) + late - 1
          <6> DEFINE left == Left(i)
          <6>1. left \in Nat /\ late \in 0..7
            BY <1>5
          <6> HIDE DEF left, late
          <6> QED BY <6>1 DEF left
        <5> QED BY <1>14, <1>18, <5>1
      <4>2. late \in 0..7
        BY <1>5
      <4> HIDE DEF late
      <4> QED BY <4>1, <4>2
    <3> HIDE DEF late
    <3> QED BY <1>4, <1>5, <3>1
  <2>1. c \in Int /\ c >= x + 1 /\ c <= pos + 7
    BY <1>4, <1>8, <2>6
  <2>2. /\ c \in 1..e /\ c <= spritex' /\ ~(c <= l) /\ k \in 1..n /\ ~(k > 8 - h)
    <3>1. spritex' \in Int
      BY <1>2, <1>8, <1>9 DEF MaxOf
    <3>2. pos \in Int /\ x = pos + h
      BY <1>4, <2>6
    <3>3. /\ e = l + n /\ n \in Nat /\ l \in Nat /\ n >= 8 - h /\ h \in 0..7
          /\ l \in {x - 1, x} /\ x \in Nat /\ spritex' >= e
      BY <1>1, <1>5, <1>6, <1>7, <1>8, <1>9
    <3> HIDE DEF e, l, n, h, pos, i
    <3>4. c > l /\ c - l <= 8 - h /\ c - l >= 1 /\ c - l <= n
      BY <2>1, <3>2, <3>3
    <3>5. c >= 1 /\ c <= e /\ c <= spritex'
      BY <2>1, <3>1, <3>3, <3>4
    <3> QED BY <2>1, <3>3, <3>4, <3>5
  <2>3. IF k <= m /\ spriteFifo[k] # Blank
        THEN S(c)' = S(c) /\ c <= spritex
        ELSE S(c)' = <<i, h + k - 1>> /\ (c <= spritex => S(c) = Blank)
    BY <1>10, <2>2, Zenon
  <2>4. CASE k <= m /\ spriteFifo[k] # Blank
    <3>1. S(c)' = S(c) /\ c <= spritex
      BY <2>3, <2>4, Zenon
    <3>2. S(c) = spriteFifo[k]
      BY <2>2, Zenon DEF S, SprAt
    <3> QED BY <2>2, <2>4, <3>1, <3>2, Zenon
  <2>5. CASE ~(k <= m /\ spriteFifo[k] # Blank)
    <3>1. S(c)' = <<i, h + k - 1>>
      BY <2>3, <2>5, Zenon
    <3> DEFINE r == h + k - 1
    <3>2. S(c)' = <<i, r>>
      BY <3>1
    <3> HIDE DEF r, i
    <3>3. S(c)'[1] = i /\ S(c)' # Blank
      BY <1>12, <3>2 DEF Blank
    <3> QED BY <2>2, <3>3
  <2> QED BY <2>4, <2>5
<1>15. Left(i) \in Nat /\ Left(i) >= X(i)
  BY <1>5
<1> HIDE DEF s, e, h, l, m, n, late
<1> QED BY <1>1, <1>2, <1>4, <1>9, <1>13, <1>14, <1>15, <1>17, Zenon

(* The sprite pixels that were there stay, and new ones are blank.           *)
LEMMA SpritesStand ==
  ASSUME PipeTyped, QueuesInv, NearInv, CoverInv, UNCHANGED <<sprites, drawn>>,
         dark \subseteq dark',
         spritex' >= spritex, spritex' \in Nat,
         \A c \in 1..spritex' : S(c)' = IF c <= spritex THEN S(c) ELSE Blank
  PROVE  NearInv' /\ CoverInv'
<1>0. spritex \in Nat /\ drawn \in 0..Len(sprites) /\ Len(sprites) \in Nat
  BY NumbersTyped
<1>1. \A i, p, c : Near(i, p, c) => Near(i, p, c)'
  BY NearStays
<1>2. \A i : X(i)' = X(i) /\ Left(i)' = Left(i)
  BY DEF X, Left
<1>3. NearInv'
  <2>1. ASSUME NEW c \in 1..spritex', S(c)' # Blank
        PROVE  S(c)'[1] \in 1..drawn /\ Near(S(c)'[1], S(c)'[2], c)
    <3>1. c <= spritex /\ S(c)' = S(c)
      BY <2>1, Zenon
    <3>2. c \in 1..spritex
      BY <1>0, <3>1
    <3> QED BY <2>1, <3>1, <3>2, Zenon DEF NearInv
  <2> QED BY <1>1, <2>1, Zenon DEF NearInv
<1>4. CoverInv'
  <2>1. ASSUME NEW i \in 1..drawn, Left(i) \notin dark', NEW c \in Left(i) + 1..X(i) + 7
        PROVE  c <= spritex' /\ S(c)' # Blank /\ S(c)'[1] <= i
    <3>1. c <= spritex /\ S(c) # Blank /\ S(c)[1] <= i
      <4>1. Left(i) \notin dark
        BY <2>1
      <4> QED BY <4>1, Zenon DEF CoverInv
    <3>2. i \in 1..Len(sprites)
      BY <1>0
    <3>3. X(i) \in Int
      BY <3>2, ObjectTyped
    <3>4. c \in Int /\ c >= 1
      BY <3>3 DEF Left, MaxOf
    <3>5. c \in 1..spritex' /\ c <= spritex'
      BY <1>0, <3>1, <3>4
    <3>6. S(c)' = S(c)
      BY <3>1, <3>5, Zenon
    <3> QED BY <3>1, <3>5, <3>6, Zenon
  <2> QED BY <1>2, <2>1, Zenon DEF CoverInv
<1> QED BY <1>3, <1>4

LEMMA SpritesKept ==
  ASSUME PipeTyped, QueuesInv, PlaceInv, NearInv, CoverInv, [PipelineNext]_pipelineVars
  PROVE  NearInv' /\ CoverInv'
<1>0. /\ spritex \in Nat /\ drawn \in 0..Len(sprites) /\ Len(sprites) \in Nat
      /\ x \in Nat /\ Len(frame) \in Nat
  BY NumbersTyped
<1>1. CASE FetchTile \/ FetchSprite
  <2>1. /\ UNCHANGED <<sprites, drawn, spritex, dark>>
        /\ \A c \in 1..spritex : SprAt(frame', spriteFifo', c) = SprAt(frame, spriteFifo, c)
    BY <1>1, Moving DEF Moved, registers, lcdc
  <2>2. spritex' \in Nat /\ spritex' >= spritex
    BY <1>0, <2>1
  <2>3. \A c \in 1..spritex' : S(c)' = IF c <= spritex THEN S(c) ELSE Blank
    BY <1>0, <2>1 DEF S
  <2> QED BY <2>1, <2>2, <2>3, SpritesStand
<1>2. CASE PushTile
  <2>1. Pushed(FetchedTile, spriteFifo, spritex, drawn) /\ drawn' = drawn
    BY <1>2, TilePushed
  <2>2. /\ spritex' = MaxOf(spritex, x') /\ sprites' = sprites
        /\ \A c \in 1..spritex' : S(c)' = IF c <= spritex THEN S(c) ELSE Blank
    BY <2>1, Zenon DEF Pushed, S, registers
  <2>6. dark \subseteq dark'
    <3>1. dark' = (IF objEnable THEN dark ELSE dark \cup x..x' - 1)
      BY <2>1, Zenon DEF Pushed
    <3> QED BY <3>1
  <2>3. spritex' \in Nat
    BY <1>2, QueuesKept DEF PipelineNext, PipeTyped
  <2>4. x' \in Int
    BY <1>2, QueuesKept DEF PipelineNext, PipeTyped
  <2>5. spritex' >= spritex
    BY <1>0, <2>2, <2>4 DEF MaxOf
  <2> QED BY <2>1, <2>2, <2>3, <2>5, <2>6, SpritesStand
<1>3. CASE PushSprite
  <2> DEFINE i == drawn + 1
  <2>1. /\ i \in 1..Len(sprites) /\ drawn' = i /\ sprites' = sprites /\ spritex' >= spritex
        /\ X(i) \in Int /\ Left(i) \in Nat /\ Left(i) >= X(i) /\ dark \subseteq dark'
        /\ \A c \in 1..spritex' : \/ c <= spritex /\ S(c)' = S(c)
                                  \/ S(c)' = Blank /\ c > spritex
                                  \/ /\ c <= spritex => S(c) = Blank
                                     /\ S(c)'[1] = i /\ Near(i, S(c)'[2], c)
        /\ Left(i) \notin dark => \A c \in Left(i) + 1..X(i) + 7 :
             c <= spritex' /\ S(c)' # Blank /\ (S(c)'[1] = i \/ (c <= spritex /\ S(c)' = S(c)))
    BY <1>3, SpritePlaced
  <2>2. spritex' \in Nat
    BY <1>3, QueuesKept DEF PipelineNext, PipeTyped
  <2>3. \A j, p, c : Near(j, p, c) => Near(j, p, c)'
    BY <2>1, NearStays
  <2>4. \A j : X(j)' = X(j) /\ Left(j)' = Left(j)
    BY <2>1 DEF X, Left
  <2>5. i \in 1..i /\ 1..drawn \subseteq 1..i /\ (\A j \in 1..i : j = i \/ j \in 1..drawn)
    BY <1>0
  <2> HIDE DEF i
  <2>6. ASSUME NEW c \in 1..spritex', S(c)' # Blank
        PROVE  S(c)'[1] \in 1..i /\ Near(S(c)'[1], S(c)'[2], c)
    <3>1. CASE c <= spritex /\ S(c)' = S(c)
      <4>1. c \in 1..spritex
        BY <1>0, <3>1
      <4> QED BY <2>5, <2>6, <3>1, <4>1, Zenon DEF NearInv
    <3>2. CASE S(c)'[1] = i /\ Near(i, S(c)'[2], c)
      BY <2>5, <3>2, Zenon
    <3> QED BY <2>1, <2>6, <3>1, <3>2, Zenon
  <2>7. ASSUME NEW j \in 1..i, Left(j) \notin dark', NEW c \in Left(j) + 1..X(j) + 7
        PROVE  c <= spritex' /\ S(c)' # Blank /\ S(c)'[1] <= j
    <3>0. j \in 1..Len(sprites) /\ j \in Int /\ Left(j) \notin dark
      BY <1>0, <2>1, <2>5, <2>7
    <3>1. X(j) \in Int
      BY <3>0, ObjectTyped
    <3>2. c \in Int /\ c >= 1
      BY <3>1 DEF Left, MaxOf
    <3>3. CASE j = i
      <4>1. c <= spritex' /\ S(c)' # Blank /\ (S(c)'[1] = i \/ (c <= spritex /\ S(c)' = S(c)))
        BY <2>1, <3>0, <3>3
      <4>2. CASE S(c)'[1] = i
        BY <3>0, <3>3, <4>1, <4>2
      <4>3. CASE c <= spritex /\ S(c)' = S(c)
        <5>1. c \in 1..spritex
          BY <1>0, <3>2, <4>3
        <5>2. S(c)[1] \in 1..drawn
          BY <4>1, <4>3, <5>1, Zenon DEF NearInv
        <5>3. \A p \in 1..drawn : p <= j
          BY <1>0, <2>5, <3>3 DEF i
        <5>4. S(c)[1] <= j
          BY <5>2, <5>3, Zenon
        <5> QED BY <4>1, <4>3, <5>4, Zenon
      <4> QED BY <4>1, <4>2, <4>3, Zenon
    <3>4. CASE j \in 1..drawn
      <4>1. c <= spritex /\ S(c) # Blank /\ S(c)[1] <= j
        BY <3>0, <3>4 DEF CoverInv
      <4>2. c \in 1..spritex' /\ c <= spritex'
        BY <1>0, <2>1, <2>2, <3>2, <4>1
      <4>3. S(c)' = S(c)
        <5>1. ~(c > spritex)
          BY <1>0, <3>2, <4>1
        <5> QED BY <2>1, <4>1, <4>2, <5>1, Zenon
      <4> QED BY <4>1, <4>2, <4>3, Zenon
    <3> QED BY <2>5, <3>3, <3>4, Zenon
  <2>8. NearInv'
    BY <2>1, <2>3, <2>6, Zenon DEF NearInv
  <2>9. CoverInv'
    BY <2>1, <2>4, <2>7, Zenon DEF CoverInv
  <2> QED BY <2>8, <2>9
<1>4. CASE WriteLcdc \/ UNCHANGED pipelineVars
  <2>1. UNCHANGED <<sprites, drawn, spritex, frame, spriteFifo, dark>>
    BY <1>4 DEF WriteLcdc, registers, pipelineVars
  <2>2. spritex' \in Nat /\ spritex' >= spritex
    BY <1>0, <2>1
  <2>3. \A c \in 1..spritex' : S(c)' = IF c <= spritex THEN S(c) ELSE Blank
    BY <1>0, <2>1 DEF S
  <2> QED BY <2>1, <2>2, <2>3, SpritesStand
<1>5. CASE Reset
  <2>1. spritex' = 0 /\ drawn' = 0
    BY <1>5 DEF Reset
  <2> QED BY <2>1 DEF NearInv, CoverInv
<1> QED BY <1>1, <1>2, <1>3, <1>4, <1>5 DEF PipelineNext

LEMMA SpritesStart == PipelineInit => NearInv /\ CoverInv
BY DEF PipelineInit, NearInv, CoverInv

LEMMA SpriteInvariant ==
  PipelineSpec => [](PipeTyped /\ QueuesInv /\ PlaceInv /\ NearInv /\ CoverInv)
<1>1. PipelineInit => PipeTyped /\ QueuesInv /\ PlaceInv /\ NearInv /\ CoverInv
  BY PipeStarts, PlaceStarts, SpritesStart
<1>2. PipeTyped /\ QueuesInv /\ PlaceInv /\ NearInv /\ CoverInv /\ [PipelineNext]_pipelineVars
        => (PipeTyped /\ QueuesInv /\ PlaceInv /\ NearInv /\ CoverInv)'
  BY QueuesKept, PlaceKept, SpritesKept
<1> QED BY <1>1, <1>2, PTL DEF PipelineSpec

LEMMA NearSuffices ==
  ASSUME PipeTyped, QueuesInv, NearInv
  PROVE  SpritesNearColumn
<1>1. SUFFICES ASSUME NEW c \in DOMAIN frame, frame[c][2] # Blank
               PROVE  Near(frame[c][2][1], frame[c][2][2], c)
  <2>1. 0..Tile - 1 = 0..7
    BY DEF Tile
  <2> QED BY <2>1, Zenon DEF SpritesNearColumn, Near
<1>2. c \in 1..Len(frame) /\ Len(frame) \in Nat /\ spritex \in Nat
  BY NumbersTyped DEF PipeTyped
<1>3. c <= Len(frame) /\ c \in 1..spritex
  <2>1. Len(frame) + Len(spriteFifo) = spritex /\ Len(spriteFifo) \in Nat
    BY NumbersTyped DEF QueuesInv
  <2> QED BY <1>2, <2>1
<1>4. S(c) = frame[c][2]
  BY <1>3, Zenon DEF S, SprAt
<1> QED BY <1>1, <1>3, <1>4, Zenon DEF NearInv


(* The order of OAM, entry 0 coming last                                     *)
Rank(e) == IF e = 0 THEN Entries ELSE e

LEMMA IndexOrder ==
  ASSUME NEW f \in 0..Entries - 1, NEW e \in 0..Entries - 1
  PROVE  /\ OamIndex(f) = OamIndex(e) => f = e
         /\ OamIndex(f) <= OamIndex(e) => Rank(f) <= Rank(e)
<1>1. Entries \in Nat /\ Entries <= 40 /\ f \in Nat /\ e \in Nat /\ f < Entries /\ e < Entries
  BY PipelineAssumption
<1>2. \A n \in Nat : n < Entries => OamIndex(n) = IF n = 0 THEN 254 ELSE 4 * n - 2
  <2> TAKE n \in Nat
  <2>1. CASE n = 0
    <3> DEFINE v == 4 * n + 2 - 4
    <3>1. v \in Int /\ v < 0 /\ v >= -256 /\ v + 256 = 254
      BY <2>1
    <3>2. \A w \in Int : w < 0 /\ w >= -256 => w % 256 = w + 256
      OBVIOUS
    <3> HIDE DEF v
    <3>3. v % 256 = 254
      BY <3>1, <3>2, Zenon
    <3> QED BY <2>1, <3>3 DEF OamIndex, v
  <2>2. CASE n # 0 /\ n < Entries
    <3> DEFINE v == 4 * n + 2 - 4
    <3>1. v = 4 * n - 2 /\ v \in Nat /\ v < 256
      BY <1>1, <2>2
    <3> HIDE DEF v
    <3>2. v % 256 = v
      BY <3>1
    <3> QED BY <2>2, <3>1, <3>2 DEF OamIndex, v
  <2> QED BY <2>1, <2>2
<1> DEFINE a == OamIndex(f)
           b == OamIndex(e)
<1>3. a = (IF f = 0 THEN 254 ELSE 4 * f - 2) /\ b = (IF e = 0 THEN 254 ELSE 4 * e - 2)
  BY <1>1, <1>2
<1> HIDE DEF a, b
<1>4. (a = b => f = e) /\ (a <= b => Rank(f) <= Rank(e))
  BY <1>1, <1>3 DEF Rank
<1> QED BY <1>4 DEF a, b

LEMMA FirstSuffices ==
  ASSUME PipeTyped, QueuesInv, PlaceInv, NearInv, CoverInv
  PROVE  FirstSpriteShown
<1>0. /\ Width \in Nat /\ Width > 0 /\ Width < Off /\ x \in Nat /\ spritex \in Nat
      /\ Len(sprites) \in Nat /\ drawn \in 0..Len(sprites) /\ Len(frame) \in Nat
  BY NumbersTyped
<1> SUFFICES ASSUME x = Width, NEW e \in Within, NEW c \in oam[e]..oam[e] + Tile - 2,
                    c \in 0..Width - 1, MaxOf(oam[e], 0) \notin dark, Reached(e)
             PROVE  LET p     == frame[c + 1][2]
                        shown == CHOOSE n \in DOMAIN oam : OamIndex(n) = sprites[p[1]].index
                    IN /\ p # Blank
                       /\ \/ Priority(shown)[1] < Priority(e)[1]
                          \/ /\ Priority(shown)[1] = Priority(e)[1]
                             /\ Priority(shown)[2] <= Priority(e)[2]
  BY DEF FirstSpriteShown
<1> DEFINE p == frame[c + 1][2]
           j == p[1]
           shown == CHOOSE n \in DOMAIN oam : OamIndex(n) = sprites[j].index
<1>1. oam \in Tables /\ SpritesOf(oam, sprites) /\ DOMAIN oam = 0..Entries - 1
  BY PipelineAssumption DEF PipeTyped
<1>2. e \in 0..Entries - 1 /\ Cardinality({m \in 0..e : oam[m] # Off}) <= MaxObjects
  BY <1>1 DEF Within
<1>3. \A n \in 0..Entries - 1 : oam[n] \in Int
  BY <1>1, PlaceTyped
<1>4. /\ c \in Nat /\ c < Width /\ oam[e] \in Int /\ oam[e] <= c /\ c <= oam[e] + 6
      /\ oam[e] # Off
  <2> DEFINE pos == oam[e]
  <2>1. pos \in Int /\ c \in pos..pos + Tile - 2 /\ Tile = 8
    BY <1>2, <1>3 DEF Tile
  <2> HIDE DEF pos
  <2>2. c \in Nat /\ c < Width /\ pos <= c /\ c <= pos + 6
    BY <1>0, <2>1
  <2>3. pos # Off
    BY <1>0, <2>1, <2>2 DEF Off
  <2> QED BY <2>1, <2>2, <2>3 DEF pos
<1>5. Len(frame) = Width
  <2> DEFINE b == Len(bgFifo)
             l == Len(frame)
  <2>1. b = 0 /\ l + b = x
    BY DEF PlaceInv, QueuesInv
  <2>2. l \in Nat
    BY <1>0
  <2> HIDE DEF b, l
  <2>3. l = x
    BY <2>1, <2>2
  <2> QED BY <2>3 DEF l
<1>6. e \in Listed(oam, Entries)
  <2>1. OnLine(oam, e + 1) = {m \in 0..e : oam[m] # Off}
    <3>1. 0..(e + 1) - 1 = 0..e
      BY <1>2, PipelineAssumption
    <3> QED BY <3>1 DEF OnLine
  <2> QED BY <1>2, <1>4, <2>1 DEF Listed, OnLine
<1>7. PICK i \in 1..Len(sprites) : sprites[i] = EntryOf(oam, e)
  BY <1>1, <1>6 DEF SpritesOf
<1>8. X(i) = oam[e] /\ sprites[i].x = oam[e] /\ sprites[i].index = OamIndex(e)
  BY <1>7 DEF X, EntryOf
<1>9. \A k \in 1..Len(sprites) : \E n \in Within :
        n \in 0..Entries - 1 /\ sprites[k] = EntryOf(oam, n)
  <2> TAKE k \in 1..Len(sprites)
  <2>1. PICK n \in Listed(oam, Entries) : sprites[k] = EntryOf(oam, n)
    BY <1>1 DEF SpritesOf
  <2>2. n \in 0..Entries - 1 /\ Cardinality(OnLine(oam, n + 1)) <= MaxObjects
    BY <2>1 DEF Listed, OnLine
  <2>3. OnLine(oam, n + 1) = {m \in 0..n : oam[m] # Off}
    <3>1. 0..(n + 1) - 1 = 0..n
      BY <2>2, PipelineAssumption
    <3> QED BY <3>1 DEF OnLine
  <2> QED BY <1>1, <2>1, <2>2, <2>3 DEF Within
<1>10. i \in 1..drawn
  <2>1. SUFFICES ASSUME ~(i <= drawn) PROVE FALSE
    BY <1>0
  <2>2. drawn < Len(sprites) /\ drawn + 1 \in 1..Len(sprites) /\ drawn + 1 <= i
    BY <1>0, <2>1
  <2>3. Unmet(drawn + 1)
    BY <2>2 DEF PlaceInv
  <2>4. PICK f \in Within : f \in 0..Entries - 1 /\ sprites[drawn + 1] = EntryOf(oam, f)
    BY <1>9, <2>2
  <2>5. X(drawn + 1) = oam[f] /\ oam[f] \in Int
    BY <1>3, <2>4 DEF X, EntryOf
  <2>6. oam[f] <= oam[e]
    BY <1>8, <2>2, <2>5, LeftToRight
  <2>7. ASSUME NEW k \in Columns(f) PROVE k \in dark
    <3> DEFINE pos == oam[f]
    <3>1. k \in 0..Width - 1 /\ k \in pos..pos + 7 /\ pos \in Int
      BY <2>5, <2>7 DEF Columns, Tile
    <3> HIDE DEF pos
    <3>2. k \in 0..x - 1 /\ pos <= k /\ k < pos + 8
      BY <1>0, <3>1
    <3> QED BY <2>3, <2>5, <3>2 DEF Unmet, pos
  <2>8. ~(Columns(f) \subseteq dark)
    BY <2>4, <2>6 DEF Reached
  <2> QED BY <2>7, <2>8
<1>11. c + 1 \in Left(i) + 1..X(i) + 7
  <2> DEFINE pos == X(i)
  <2>1. pos \in Int /\ pos <= c /\ c <= pos + 6
    BY <1>4, <1>8
  <2>2. Left(i) = IF pos >= 0 THEN pos ELSE 0
    BY Zenon DEF Left, MaxOf
  <2> DEFINE left == Left(i)
  <2> HIDE DEF pos, left
  <2>3. left \in Int /\ c + 1 \in left + 1..pos + 7
    BY <1>4, <2>1, <2>2 DEF left
  <2> QED BY <2>3 DEF left, pos
<1>12. c + 1 <= spritex /\ S(c + 1) # Blank /\ S(c + 1)[1] <= i
  <2>1. Left(i) \notin dark
    BY <1>8 DEF Left
  <2> QED BY <1>10, <1>11, <2>1 DEF CoverInv
<1>13. S(c + 1) = p
  <2>1. c + 1 <= Len(frame)
    BY <1>0, <1>4, <1>5
  <2> QED BY <2>1, Zenon DEF S, SprAt
<1>14. p # Blank /\ j \in 1..drawn /\ j <= i
  <2>1. c + 1 \in 1..spritex
    BY <1>0, <1>4, <1>12
  <2>2. S(c + 1)[1] \in 1..drawn
    BY <1>12, <2>1 DEF NearInv
  <2> QED BY <1>12, <1>13, <2>2
<1>15. j \in 1..Len(sprites)
  <2> HIDE DEF j
  <2> QED BY <1>0, <1>14
<1> HIDE DEF p, j
<1>16. PICK f \in 0..Entries - 1 : sprites[j] = EntryOf(oam, f)
  BY <1>9, <1>15
<1>17. X(j) = oam[f] /\ sprites[j].x = oam[f] /\ sprites[j].index = OamIndex(f) /\ oam[f] \in Int
  BY <1>3, <1>16 DEF X, EntryOf
<1>18. shown = f
  <2>1. \A n \in DOMAIN oam : OamIndex(n) = sprites[j].index => n = f
    BY <1>1, <1>17, IndexOrder
  <2>2. f \in DOMAIN oam /\ OamIndex(f) = sprites[j].index
    BY <1>1, <1>17
  <2> QED BY <2>1, <2>2, Zenon
<1>19. oam[f] <= oam[e]
  BY <1>8, <1>14, <1>15, <1>17, LeftToRight
<1>20. ASSUME oam[f] = oam[e] PROVE Rank(f) <= Rank(e)
  <2>1. CASE j = i
    <3>1. OamIndex(f) = OamIndex(e)
      BY <1>8, <1>17, <2>1
    <3>2. f = e
      BY <1>2, <3>1, IndexOrder
    <3> QED BY <1>2, <3>2, PipelineAssumption DEF Rank
  <2>2. CASE j # i
    <3>1. j < i
      BY <1>0, <1>14, <1>15, <2>2
    <3>2. ~Before(sprites[i], sprites[j])
      BY <1>1, <1>15, <3>1 DEF SpritesOf
    <3>3. ~(OamIndex(e) < OamIndex(f))
      BY <1>8, <1>17, <1>20, <3>2 DEF Before
    <3>4. OamIndex(e) \in Int /\ OamIndex(f) \in Int
      BY <1>2, PipelineAssumption DEF OamIndex
    <3>5. OamIndex(f) <= OamIndex(e)
      BY <3>3, <3>4
    <3> QED BY <1>2, <3>5, IndexOrder
  <2> QED BY <2>1, <2>2
<1>21. \A n : Priority(n) = <<oam[n], Rank(n)>>
  BY DEF Priority, Rank
<1> HIDE DEF shown
<1>22. \/ Priority(f)[1] < Priority(e)[1]
       \/ Priority(f)[1] = Priority(e)[1] /\ Priority(f)[2] <= Priority(e)[2]
  <2>1. oam[f] < oam[e] \/ oam[f] = oam[e]
    BY <1>4, <1>17, <1>19
  <2> QED BY <1>20, <1>21, <2>1
<1>23. /\ p # Blank
       /\ \/ Priority(shown)[1] < Priority(e)[1]
          \/ Priority(shown)[1] = Priority(e)[1] /\ Priority(shown)[2] <= Priority(e)[2]
  BY <1>14, <1>18, <1>22
<1> QED BY <1>23, Zenon DEF shown, p, j

-----------------------------------------------------------------------------
(* The theorems on the queues and the time                                  *)

LEMMA LineInvariant == PipelineSpec => [](PipeTyped /\ QueuesInv /\ TimeInv)
<1>1. PipelineInit => PipeTyped /\ QueuesInv /\ TimeInv
  BY PipeStarts, TimeStarts
<1>2. PipeTyped /\ QueuesInv /\ TimeInv /\ [PipelineNext]_pipelineVars
        => (PipeTyped /\ QueuesInv /\ TimeInv)'
  BY QueuesKept, TimeKept
<1> QED BY <1>1, <1>2, PTL DEF PipelineSpec

(* The queues keep within their capacity, end at the same columns, and the  *)
(* sprite fifo never runs out first (AdvanceFifo, Popfifo).                 *)
THEOREM FifosAlwaysInStep == PipelineSpec => []FifosInStep
<1>1. ASSUME PipeTyped, QueuesInv
      PROVE  FifosInStep
  <2>1. Len(sprites) <= MaxObjects
    BY <1>1, ObjectTyped
  <2>2. tempLast <= FifoSize /\ spritex <= FifoSize
    <3> DEFINE m == Len(temp)
    <3>1. /\ tempLast <= x + m /\ x + m <= Width + Tile - 1 /\ spritex <= Width + Tile - 1
          /\ Width + Tile - 1 <= FifoSize
      BY <1>1, PipelineAssumption DEF QueuesInv
    <3>2. Width \in Nat /\ Tile = 8 /\ x \in 0..Width /\ m \in Nat /\ tempLast \in Nat /\ spritex \in Nat
      BY <1>1, NumbersTyped
    <3>3. FifoSize \in Nat
      BY PipelineAssumption
    <3> HIDE DEF m
    <3> QED BY <3>1, <3>2, <3>3
  <2> QED BY <1>1, <2>1, <2>2 DEF FifosInStep, QueuesInv
<1> QED BY <1>1, LineInvariant, PTL

(* The line is complete in time for mode 0, whatever the registers, objects *)
(* and writes (PPU::mode_transfer, PixelPipeline::Advance).                 *)
THEOREM LinesInTime == PipelineSpec => []LineInTime
<1>1. PipeTyped /\ QueuesInv /\ TimeInv => LineInTime
  BY TimeSuffices
<1> QED BY <1>1, LineInvariant, PTL

(* Pixels come from the columns the registers say.                          *)
THEOREM ColumnsAlwaysFollow == PipelineSpec => []ColumnsFollowRegisters
<1>1. PipelineInit => PipeTyped /\ QueuesInv /\ ColumnInv /\ WindowInv
  BY PipeStarts, ColumnsStart
<1>2. PipeTyped /\ QueuesInv /\ ColumnInv /\ WindowInv /\ [PipelineNext]_pipelineVars
        => (PipeTyped /\ QueuesInv /\ ColumnInv /\ WindowInv)'
  BY QueuesKept, ColumnsKept, WindowKept
<1>3. PipeTyped /\ QueuesInv /\ ColumnInv /\ WindowInv => ColumnsFollowRegisters
  BY ColumnsSuffice
<1> QED BY <1>1, <1>2, <1>3, PTL DEF PipelineSpec

(* Sprites show at their column or one to the left, and later only by what   *)
(* was passed of them with objects disabled (AdvanceFifo, sprite_fetch).    *)
THEOREM SpritesAlwaysNear == PipelineSpec => []SpritesNearColumn
<1>1. PipeTyped /\ QueuesInv /\ NearInv => SpritesNearColumn
  BY NearSuffices
<1> QED BY <1>1, SpriteInvariant, PTL

(* Of the objects that cover a column the leftmost is shown, at equal places *)
(* the first in OAM, if its left end was not passed with objects disabled,  *)
(* nor all of one before it (PPU::mode_oam, the sorting of Reset, Advance,  *)
(* sprite_fetch).                                                           *)
THEOREM FirstSpritesShown == PipelineSpec => []FirstSpriteShown
<1>1. PipeTyped /\ QueuesInv /\ PlaceInv /\ NearInv /\ CoverInv => FirstSpriteShown
  BY FirstSuffices
<1> QED BY <1>1, SpriteInvariant, PTL

-----------------------------------------------------------------------------
(* The pipeline as PpuModes has it                                          *)

(* Before a line is complete, there is a dot left for what is missing.       *)
LEMMA TimeLeft ==
  PipeTyped /\ QueuesInv /\ TimeInv /\ writes <= MaxWrites /\ x < Width
    => /\ LongestLine \in Nat /\ taken < LongestLine
       /\ Width - x <= 8 * (LongestLine - taken)
<1> SUFFICES ASSUME PipeTyped, QueuesInv, TimeInv, writes <= MaxWrites, x < Width
             PROVE  /\ LongestLine \in Nat /\ taken < LongestLine
                    /\ Width - x <= 8 * (LongestLine - taken)
  OBVIOUS
<1> PICK t \in Nat, b \in Nat : TimeAt(t, b)
  BY DEF TimeInv
<1> DEFINE k == (Width + 7) \div 8
           j == (x + 7) \div 8
           h == MaxWrites \div 2
           n == Len(sprites)
           m == Len(temp)
           r == Dots
           u == Turns
           long == LongestLine
<1>1. /\ Width \in Nat /\ Tile = 8 /\ SpriteDots = 6 /\ x \in 0..Width /\ n \in Nat
      /\ m \in Nat /\ drawn \in 0..n /\ taken \in Nat /\ writes \in Nat
      /\ fetchMode \in 0..4 /\ modeDots \in 0..1 /\ fetchStatus \in {0, 1} /\ fetchDots \in 0..5
  BY NumbersTyped
<1>2. MaxWrites \in Nat /\ MaxObjects \in Nat /\ n <= MaxObjects
  BY PipelineAssumption, ObjectTyped
<1>3. k \in Nat /\ 8 * k <= Width + 7 /\ Width + 7 < 8 * k + 8
  BY <1>1
<1>4. j \in Nat /\ 8 * j <= x + 7 /\ x + 7 < 8 * j + 8
  BY <1>1
<1>5. h \in Nat /\ 2 * h <= MaxWrites /\ MaxWrites < 2 * h + 2
  BY <1>2
<1>6. taken = 9 * t + 6 * drawn + r /\ x + m + 7 >= 8 * (t - b) /\ 2 * b <= writes + u
  BY DEF TimeAt
<1>7. u \in Nat /\ u <= 2
  BY DEF Turns
<1>8. long = 9 * (2 + k + h) + 6 * MaxObjects
  <2>1. Width + Tile - 1 = Width + 7
    BY <1>1
  <2> QED BY <1>1, <2>1 DEF LongestLine
<1>9. /\ fetchStatus = 1 => drawn < n /\ m <= 8 /\ r \in Nat /\ r <= 5
      /\ fetchStatus = 0 => m = 0 /\ r \in Nat /\ r <= 8
  <2>1. (fetchStatus = 1 => drawn < n) /\ m <= 8
    BY <1>1 DEF QueuesInv
  <2>2. fetchStatus = 0 => m = 0
    <3>1. fetchStatus = 0 => temp = <<>>
      BY DEF QueuesInv
    <3> QED BY <3>1
  <2>3. fetchStatus = 1 => r \in Nat /\ r <= 5
    BY <1>1 DEF Dots
  <2>4. fetchStatus = 0 => r \in Nat /\ r <= 8
    <3>1. fetchMode = 4 => modeDots = 0
      BY DEF PipeTyped
    <3> QED BY <1>1, <3>1 DEF Dots
  <2> QED BY <2>1, <2>2, <2>3, <2>4
<1> HIDE DEF k, j, h, n, m, r, u, long
<1>10. b <= h + 1
  BY <1>1, <1>2, <1>5, <1>6, <1>7
<1>11. taken <= 9 * (2 + j + h) + 6 * MaxObjects - 1
  <2>1. CASE fetchStatus = 1
    <3>1. t - b <= j + 1
      BY <1>1, <1>4, <1>6, <1>9, <2>1
    <3>2. 6 * drawn + r <= 6 * MaxObjects - 1
      BY <1>1, <1>2, <1>9, <2>1
    <3> QED BY <1>1, <1>2, <1>4, <1>5, <1>6, <1>9, <1>10, <2>1, <3>1, <3>2
  <2>2. CASE fetchStatus = 0
    <3>1. t - b <= j
      BY <1>1, <1>4, <1>6, <1>9, <2>2
    <3>2. 6 * drawn + r <= 6 * MaxObjects + 8
      BY <1>1, <1>2, <1>9, <2>2
    <3> QED BY <1>1, <1>2, <1>4, <1>5, <1>6, <1>9, <1>10, <2>2, <3>1, <3>2
  <2> QED BY <1>1, <2>1, <2>2
<1>12. j <= k /\ Width - x <= 8 * (k - j) + 7
  BY <1>1, <1>3, <1>4
<1>13. long \in Nat /\ long - taken >= 9 * (k - j) + 1
  BY <1>1, <1>2, <1>3, <1>4, <1>5, <1>8, <1>11
<1>14. taken < long /\ Width - x <= 8 * (long - taken)
  BY <1>1, <1>3, <1>4, <1>12, <1>13
<1> QED BY <1>13, <1>14 DEF long

(* What a dot does to the column, the queue and the frame                    *)
LEMMA DotTaken ==
  ASSUME PipeTyped, QueuesInv, FetchTile \/ FetchSprite \/ PushTile \/ PushSprite
  PROVE  /\ x < Width /\ x' \in x..Width /\ x' - x <= 8
         /\ Len(frame) \in Nat /\ Len(bgFifo) \in Nat /\ Len(frame) + Len(bgFifo) = x
         /\ Len(frame') \in Nat /\ Len(bgFifo') \in Nat /\ Len(frame') + Len(bgFifo') = x'
         /\ x' = Width \/ Len(bgFifo) + (x' - x) = 0 => Len(bgFifo') = 0
         /\ ~(x' = Width \/ Len(bgFifo) + (x' - x) = 0)
              => Len(bgFifo') = Len(bgFifo) + (x' - x) - 1
         /\ taken' = taken + 1 /\ UNCHANGED <<windowEnable, lineTrigger, writes>>
<1>0. /\ Len(frame) \in Nat /\ Len(bgFifo) \in Nat /\ Len(temp) \in Nat
      /\ x \in 0..Width /\ Width \in Nat /\ Len(temp) <= 8
      /\ Len(frame) + Len(bgFifo) = x
  BY NumbersTyped DEF QueuesInv
<1>1. CASE FetchTile \/ FetchSprite
  <2>1. /\ x < Width /\ taken' = taken + 1 /\ x' = x /\ UNCHANGED <<windowEnable, lineTrigger, writes>>
        /\ frame' \in Seq(Layers \X Pixels) /\ bgFifo' \in Seq(Layers)
        /\ Len(frame') + Len(bgFifo') = x
        /\ Len(bgFifo') = IF Len(bgFifo) = 0 THEN 0 ELSE Len(bgFifo) - 1
    BY <1>1, Moving, Zenon DEF Moved, registers, lcdc
  <2> DEFINE b == Len(bgFifo)
             c == Len(bgFifo')
             y == x'
  <2>2. Len(frame') \in Nat /\ c \in Nat
    BY <2>1
  <2>3. (b = 0 => c = 0) /\ (b # 0 => c = b - 1) /\ b \in Nat /\ y = x
    BY <1>0, <2>1
  <2> HIDE DEF b, c, y
  <2>4. /\ y \in x..Width /\ y - x <= 8
        /\ y = Width \/ b + (y - x) = 0 => c = 0
        /\ ~(y = Width \/ b + (y - x) = 0) => c = b + (y - x) - 1
    BY <1>0, <2>1, <2>3
  <2> QED BY <1>0, <2>1, <2>2, <2>4 DEF b, c, y
<1>2. CASE PushTile \/ PushSprite
  <2>1. \E q \in Seq(Layers), d \in 0..Len(sprites) : \E s, e :
          Pushed(q, s, e, d) /\ Len(q) <= 8 /\ x < Width /\ taken' = taken + 1
    <3>1. CASE PushTile
      <4>1. Pushed(FetchedTile, spriteFifo, spritex, drawn) /\ x < Width /\ taken' = taken + 1
        BY <3>1, TilePushed
      <4>2. FetchedTile \in Seq(Layers) /\ Len(FetchedTile) <= 8 /\ drawn \in 0..Len(sprites)
        BY TileRead, NumbersTyped
      <4> QED BY <4>1, <4>2, Zenon
    <3>2. CASE PushSprite
      <4> DEFINE s == Overlay(drawn + 1, spriteFifo)
                 e == spritex + (Len(s) - Len(spriteFifo))
      <4>1. Pushed(temp, s, e, drawn + 1) /\ x < Width /\ taken' = taken + 1 /\ drawn + 1 \in 1..Len(sprites)
        BY <3>2, SpritePushed
      <4>2. temp \in Seq(Layers) /\ Len(temp) <= 8 /\ drawn + 1 \in 0..Len(sprites)
        BY <1>0, <4>1 DEF PipeTyped
      <4> HIDE DEF s, e
      <4> QED BY <4>1, <4>2, Zenon
    <3> QED BY <1>2, <3>1, <3>2
  <2>2. PICK q \in Seq(Layers), d \in 0..Len(sprites) : \E s, e :
          Pushed(q, s, e, d) /\ Len(q) <= 8 /\ x < Width /\ taken' = taken + 1
    BY <2>1, Zenon
  <2>3. PICK s, e : Pushed(q, s, e, d) /\ Len(q) <= 8 /\ x < Width /\ taken' = taken + 1
    BY <2>2, Zenon
  <2>4. /\ x' = Stop(q, d) /\ UNCHANGED <<windowEnable, lineTrigger, writes>>
        /\ frame' \in Seq(Layers \X Pixels) /\ bgFifo' \in Seq(Layers)
        /\ Len(frame') + Len(bgFifo') = x'
        /\ Len(bgFifo') = IF x' = Width \/ Len(bgFifo) + (x' - x) = 0 THEN 0
                          ELSE Len(bgFifo) + (x' - x) - 1
    BY <2>3, Zenon DEF Pushed, registers
  <2>5. x' \in x..Width /\ x' <= x + Len(q) /\ Len(q) \in Nat
    BY <2>3, <2>4, Stopping
  <2>6. x' - x <= 8
    <3> DEFINE n == Len(q)
               y == x'
    <3>1. y \in x..Width /\ y <= x + n /\ n \in Nat /\ n <= 8 /\ x \in Nat /\ Width \in Nat
      BY <1>0, <2>3, <2>5
    <3> HIDE DEF n, y
    <3>2. y - x <= 8
      BY <3>1
    <3> QED BY <3>2 DEF y
  <2>7. Len(frame') \in Nat /\ Len(bgFifo') \in Nat
    BY <2>4
  <2> QED BY <1>0, <2>3, <2>4, <2>5, <2>6, <2>7, Zenon
<1> QED BY <1>1, <1>2

LEMMA DotPromised ==
  ASSUME PipeTyped, QueuesInv, FetchTile \/ FetchSprite \/ PushTile \/ PushSprite,
         LongestLine \in Nat,
         x' < Width => taken' < LongestLine /\ Width - x' <= 8 * (LongestLine - taken')
  PROVE  \E k \in 0..Tile : Modes!TransferDot(k) \/ Modes!EndTransfer(k)
<1> DEFINE y == x'
           k == y - x
           l == Len(frame)
           b == Len(bgFifo)
           l1 == Len(frame')
           b1 == Len(bgFifo')
           sh == IF b + k > 0 THEN 1 ELSE 0
           t1 == taken'
           long == LongestLine
<1>1. /\ x < Width /\ y \in x..Width /\ k <= 8
      /\ l \in Nat /\ b \in Nat /\ l + b = x /\ l1 \in Nat /\ b1 \in Nat /\ l1 + b1 = y
      /\ y = Width \/ b + k = 0 => b1 = 0
      /\ ~(y = Width \/ b + k = 0) => b1 = b + k - 1
      /\ t1 = taken + 1 /\ UNCHANGED <<windowEnable, lineTrigger, writes>>
  BY DotTaken
<1>2. Width \in Nat /\ x \in Nat /\ taken \in Nat /\ Tile = 8 /\ long \in Nat
  BY NumbersTyped
<1>3. y < Width => t1 < long /\ Width - y <= 8 * (long - t1)
  OBVIOUS
<1> DEFINE column == IF x < Width THEN l ELSE 0
           line == IF x < Width THEN 0 ELSE 1
           phase == IF x < Width THEN 3 ELSE 0
<1>4. Modes!Shown(k) = sh
  BY DEF Modes!Shown
<1>5. column = l /\ line = 0 /\ phase = 3
  BY <1>1, Zenon
<1>6. /\ y < Width => column' = l1 /\ line' = 0 /\ phase' = 3
      /\ y = Width => column' = 0 /\ line' = 1 /\ phase' = 0
  BY <1>2
<1>7. k \in 0..8 /\ sh \in {0, 1} /\ y = x + k /\ (sh = 0 <=> b + k = 0)
  <2> HIDE DEF y, l, b, l1, b1
  <2> QED BY <1>1, <1>2
<1>8. CASE y < Width
  <2>1. Modes!InTime(x + k, 1 + long - (1 + taken + 1))
    <3> HIDE DEF y, k, long, t1
    <3>1. 1 + long - (1 + taken + 1) > 0 /\ Width - (x + k) <= Tile * (1 + long - (1 + taken + 1))
      BY <1>1, <1>2, <1>3, <1>7, <1>8
    <3> QED BY <3>1 DEF Modes!InTime
  <2>2. Modes!Write(sh)
    <3>1. l + sh # Width /\ l1 = l + sh
      <4> HIDE DEF y, k, l, b, l1, b1, sh
      <4> QED BY <1>1, <1>2, <1>7, <1>8
    <3>2. column' = column + sh /\ line' = line /\ column + sh # Width
      BY <1>5, <1>6, <1>8, <3>1
    <3> QED BY <3>2 DEF Modes!Write
  <2>3. b1 = b + k - sh
    <3> HIDE DEF y, k, l, b, l1, b1, sh
    <3> QED BY <1>1, <1>2, <1>7, <1>8
  <2>4. Modes!NextDot
    BY <1>1, <1>2 DEF Modes!NextDot
  <2>5. x + k < Width
    BY <1>7, <1>8
  <2>6. phase' = phase
    BY <1>5, <1>6, <1>8
  <2> HIDE DEF sh
  <2>7. Modes!TransferDot(k)
    BY <1>1, <1>4, <1>5, <1>7, <2>1, <2>2, <2>3, <2>4, <2>5, <2>6
    DEF Modes!TransferDot, Modes!Transfer, Modes!compare, Modes!window
  <2> QED BY <1>2, <1>7, <2>7
<1>9. CASE y = Width
  <2> DEFINE f == b + k - sh
             n == Modes!Flushed(l + sh, f)
  <2>1. n = f /\ l + sh + f = Width
    <3>1. f \in Nat /\ l + sh + f = Width /\ (l + sh = 0 => f = 0) /\ l + sh \in Nat
      <4> HIDE DEF y, k, l, b, l1, b1, sh
      <4> QED BY <1>1, <1>2, <1>7, <1>9
    <3> DEFINE c == l + sh
    <3> HIDE DEF f, c
    <3>2. Modes!Flushed(c, f) = f
      BY <1>2, <3>1 DEF Modes!Flushed, c
    <3> QED BY <3>1, <3>2 DEF c
  <2>2. Modes!Write(sh + n)
    <3>1. l + (sh + f) = Width
      <4> HIDE DEF y, k, l, b, l1, b1, sh
      <4> QED BY <1>1, <1>2, <1>7, <2>1
    <3>2. column + (sh + f) = Width /\ line' = line + 1 /\ column' = 0
      BY <1>5, <1>6, <1>9, <3>1
    <3> QED BY <2>1, <3>2 DEF Modes!Write
  <2>3. b1 = f - n
    <3>1. b1 = 0 /\ f - f = 0
      <4> HIDE DEF y, k, l, b, l1, b1, sh
      <4> QED BY <1>1, <1>2, <1>7, <1>9
    <3> QED BY <2>1, <3>1
  <2>4. Modes!NextDot
    BY <1>1, <1>2 DEF Modes!NextDot
  <2>5. x + k = Width
    BY <1>7, <1>9
  <2>6. phase' = 0
    BY <1>6, <1>9
  <2> HIDE DEF sh
  <2>7. Modes!EndTransfer(k)
    BY <1>1, <1>4, <1>5, <1>7, <1>9, <2>1, <2>2, <2>3, <2>4, <2>5, <2>6
    DEF Modes!EndTransfer, Modes!Transfer, Modes!HBlank, Modes!compare, Modes!window
  <2> QED BY <1>2, <1>7, <2>7
<1> QED BY <1>1, <1>2, <1>8, <1>9

(* The transfer of PpuModes is what the code's pipeline does                 *)
(* (PixelPipeline::Advance, GetX and Popfifo as mode_transfer calls them).  *)
THEOREM PipelineKeepsPromise == PipelineSpec => KeepsPromise
<1> DEFINE Inv == PipeTyped /\ QueuesInv /\ TimeInv
           Few == writes <= MaxWrites
           Promised == x < Width =>
                         \/ Modes!SetControl
                         \/ \E k \in 0..Tile : Modes!TransferDot(k) \/ Modes!EndTransfer(k)
<1>1. PipelineInit => Few
  BY PipelineAssumption DEF PipelineInit
<1>2. Inv /\ Few /\ [PipelineNext]_pipelineVars => Few'
  <2> SUFFICES ASSUME Inv, Few, [PipelineNext]_pipelineVars PROVE Few'
    OBVIOUS
  <2>1. writes \in Nat /\ MaxWrites \in Nat
    BY NumbersTyped, PipelineAssumption
  <2>2. \/ writes' = writes \/ writes' = 0
        \/ writes < MaxWrites /\ writes' = writes + 1
    BY DEF PipelineNext, FetchTile, FetchSprite, PushTile, PushSprite, Push, WriteLcdc, Reset,
           pipelineVars, lcdc
  <2> QED BY <2>1, <2>2
<1>3. Inv /\ Few /\ (Inv /\ Few)' /\ [PipelineNext]_pipelineVars => [Promised]_pipelineVars
  <2> SUFFICES ASSUME Inv, Few, Inv', Few', PipelineNext PROVE Promised
    OBVIOUS
  <2>1. CASE FetchTile \/ FetchSprite \/ PushTile \/ PushSprite
    <3>1. LongestLine \in Nat /\ x < Width
      <4>1. x < Width
        BY <2>1, DotTaken
      <4> QED BY <4>1, TimeLeft
    <3>2. x' < Width => taken' < LongestLine /\ Width - x' <= 8 * (LongestLine - taken')
      <4>1. (PipeTyped /\ QueuesInv /\ TimeInv /\ Few /\ x < Width)'
              => (taken < LongestLine /\ Width - x <= 8 * (LongestLine - taken))'
        BY TimeLeft, PTL
      <4> QED BY <4>1 DEF LongestLine
    <3> QED BY <2>1, <3>1, <3>2, DotPromised
  <2>2. CASE WriteLcdc
    <3>1. /\ windowEnable' \in BOOLEAN
          /\ UNCHANGED <<x, taken, frame, bgFifo, lineTrigger>>
      BY <2>2 DEF WriteLcdc, registers
    <3>2. writes' # 0
      <4>1. writes \in Nat /\ writes' = writes + 1
        BY <2>2, NumbersTyped DEF WriteLcdc
      <4> QED BY <4>1
    <3>3. Modes!FromNextLine
      BY <3>2 DEF Modes!FromNextLine
    <3>4. Modes!SetControl
      BY <3>1, <3>3 DEF Modes!SetControl, Modes!screen, Modes!compare
    <3> QED BY <3>4
  <2>3. CASE Reset
    <3>1. x = Width /\ Width \in Nat
      BY <2>3, NumbersTyped DEF Reset
    <3> QED BY <3>1
  <2> QED BY <2>1, <2>2, <2>3 DEF PipelineNext
<1>4. PipelineSpec => [](Inv /\ Few)
  BY <1>1, <1>2, LineInvariant, PTL DEF PipelineSpec
<1> QED BY <1>3, <1>4, PTL DEF PipelineSpec, KeepsPromise

-----------------------------------------------------------------------------
(* The scanline machine                                                     *)

USE DEF HBlank, VBlank, OamScan, Transfer

(* Every variable of PpuModes keeps its type.                               *)
THEOREM TypeCorrect == Spec => []TypeOK
<1>1. Init => TypeOK
  <2> SUFFICES ASSUME Init PROVE TypeOK
    OBVIOUS
  <2>1. /\ enable \in BOOLEAN /\ windowEnable \in BOOLEAN /\ wxVisible \in BOOLEAN
        /\ wyTrigger \in BOOLEAN /\ lycFlag \in BOOLEAN
    BY Zenon DEF Init
  <2> QED BY <2>1 DEF Init, TypeOK, Unknown, FrameStart
<1>2. TypeOK /\ [Next]_vars => TypeOK'
  <2> SUFFICES ASSUME TypeOK, [Next]_vars PROVE TypeOK'
    OBVIOUS
  <2> USE PpuAssumption DEF TypeOK, screen, compare, window
  <2>1. CASE HBlankDot
    BY <2>1 DEF HBlankDot, NextDot
  <2>2. CASE HBlankToScan
    <3>1. wyTrigger' \in BOOLEAN
      BY <2>2, Zenon DEF HBlankToScan, CheckWyTrigger, WindowReached
    <3>2. lycFlag' \in BOOLEAN
      BY <2>2, Zenon DEF HBlankToScan, CompareLyc
    <3> QED BY <2>2, <3>1, <3>2 DEF HBlankToScan, CheckWyTrigger, CompareLyc, LycRequest, StartScan
  <2>3. CASE EnterVBlank
    <3>1. lycFlag' \in BOOLEAN
      BY <2>3, Zenon DEF EnterVBlank, CompareLyc
    <3> QED BY <2>3, <3>1 DEF EnterVBlank, CompareLyc, LycRequest, ResetPixelIndex
  <2>4. CASE VBlankDot
    BY <2>4 DEF VBlankDot, NextDot
  <2>5. CASE VBlankLine
    <3>1. lycFlag' \in BOOLEAN
      BY <2>5, Zenon DEF VBlankLine, CompareLyc
    <3> QED BY <2>5, <3>1 DEF VBlankLine, CompareLyc, LycRequest, FrameStart
  <2>6. CASE VBlankToScan
    <3>1. wyTrigger' \in BOOLEAN
      BY <2>6, Zenon DEF VBlankToScan, WindowReached
    <3>2. lycFlag' \in BOOLEAN
      BY <2>6, Zenon DEF VBlankToScan, CompareLyc
    <3> QED BY <2>6, <3>1, <3>2 DEF VBlankToScan, CompareLyc, LycRequest, StartScan, FrameStart
  <2>7. CASE OamDot
    BY <2>7 DEF OamDot, NextDot
  <2>8. ASSUME NEW k \in 0..Burst, TransferDot(k) PROVE TypeOK'
    BY <2>8 DEF TransferDot, Shown, Write, NextDot
  <2>9. ASSUME NEW k \in 0..Burst, EndTransfer(k) PROVE TypeOK'
    BY <2>9 DEF EndTransfer, Shown, Flushed, Write, NextDot
  <2>10. CASE SwitchLcd
    <3>1. enable' \in BOOLEAN /\ lycFlag' \in BOOLEAN /\ wyTrigger' \in BOOLEAN
      BY <2>10, Zenon DEF SwitchLcd, Restart
    <3> QED BY <2>10, <3>1 DEF SwitchLcd, Restart, ResetPixelIndex, Unknown, FrameStart
  <2>11. CASE SetControl
    BY <2>11 DEF SetControl, FromNextLine
  <2>12. CASE SetWX
    BY <2>12 DEF SetWX, FromNextLine
  <2>13. ASSUME NEW v \in LycValues, SetLYC(v) PROVE TypeOK'
    BY <2>13 DEF SetLYC
  <2>14. ASSUME NEW v \in WyValues, SetWY(v) PROVE TypeOK'
    BY <2>14 DEF SetWY, FromNextLine
  <2>15. CASE UNCHANGED vars
    BY <2>15 DEF vars
  <2> QED
    BY <2>1, <2>2, <2>3, <2>4, <2>5, <2>6, <2>7, <2>8, <2>9, <2>10, <2>11, <2>12,
       <2>13, <2>14, <2>15 DEF Next, Dot, Game
<1> QED BY <1>1, <1>2, PTL DEF Spec

-----------------------------------------------------------------------------
(* The frame buffer is never overrun, every line is complete before its     *)
(* last dot, and the frame shown at VBLANK is complete.                     *)
THEOREM LinesAreComplete == Spec => []LineInv
<1>1. Init => LineInv
  BY DEF Init, LineInv
<1>2. TypeOK /\ LineInv /\ [Next]_vars => LineInv'
  <2> SUFFICES ASSUME TypeOK, LineInv, [Next]_vars PROVE LineInv'
    OBVIOUS
  <2> USE PpuAssumption DEF TypeOK, LineInv, screen, compare, window
  <2>1. CASE HBlankDot
    BY <2>1 DEF HBlankDot, NextDot, EndOfLine
  <2>2. CASE HBlankToScan
    BY <2>2 DEF HBlankToScan, StartScan
  <2>3. CASE EnterVBlank
    BY <2>3 DEF EnterVBlank, ResetPixelIndex
  <2>4. CASE VBlankDot
    BY <2>4 DEF VBlankDot, NextDot, EndOfLine
  <2>5. CASE VBlankLine
    BY <2>5 DEF VBlankLine
  <2>6. CASE VBlankToScan
    BY <2>6 DEF VBlankToScan, StartScan
  <2>7. CASE OamDot
    BY <2>7 DEF OamDot, NextDot
  <2>8. ASSUME NEW k \in 0..Burst, TransferDot(k) PROVE LineInv'
    <3>1. dots + 1 < OamDots + MaxTransfer
      BY <2>8 DEF TransferDot, InTime
    <3>2. col + Shown(k) < Width
      BY <2>8 DEF TransferDot, Shown
    <3> QED BY <2>8, <3>1, <3>2 DEF TransferDot, Shown, Write, NextDot
  <2>9. ASSUME NEW k \in 0..Burst, EndTransfer(k) PROVE LineInv'
    <3>1. Shown(k) = 1 /\ col + 1 <= Width /\ waiting + k - 1 = Width - (col + 1)
      BY <2>9 DEF EndTransfer, Shown
    <3>2. Flushed(col + 1, waiting + k - 1) = Width - (col + 1)
      BY <2>9, <3>1 DEF Flushed
    <3> QED BY <2>9, <3>1, <3>2 DEF EndTransfer, Write, NextDot
  <2>10. CASE SwitchLcd
    <3>1. enable' => ~enable
      BY <2>10, Zenon DEF SwitchLcd
    <3>2. ~enable => mode' = OamScan
      BY <2>10 DEF SwitchLcd, Restart
    <3>3. ly' = 0 /\ dots' = 0 /\ row' = 0 /\ col' = 0
      BY <2>10 DEF SwitchLcd, Restart, ResetPixelIndex
    <3> QED BY <3>1, <3>2, <3>3
  <2>11. CASE SetControl
    BY <2>11 DEF SetControl, FromNextLine
  <2>12. CASE SetWX
    BY <2>12 DEF SetWX, FromNextLine
  <2>13. ASSUME NEW v \in LycValues, SetLYC(v) PROVE LineInv'
    BY <2>13 DEF SetLYC
  <2>14. ASSUME NEW v \in WyValues, SetWY(v) PROVE LineInv'
    BY <2>14 DEF SetWY, FromNextLine
  <2>15. CASE UNCHANGED vars
    BY <2>15 DEF vars
  <2> QED
    BY <2>1, <2>2, <2>3, <2>4, <2>5, <2>6, <2>7, <2>8, <2>9, <2>10, <2>11, <2>12,
       <2>13, <2>14, <2>15 DEF Next, Dot, Game
<1> QED BY <1>1, <1>2, TypeCorrect, PTL DEF Spec

-----------------------------------------------------------------------------
(* The coincidence flag is about the line in LY, whatever the game writes   *)
(* to LYC and whenever it switches the LCD: only LY matters, which the code *)
(* never changes without comparing, except in EnableLcd and DisableLcd,     *)
(* which clear the flag.                                                    *)
THEOREM LycFlagIsCurrent == Spec => []LycFlagCurrent
<1>1. Init => LycFlagCurrent
  <2> SUFFICES ASSUME Init PROVE LycFlagCurrent
    OBVIOUS
  <2>1. ly # lycKnown
    BY DEF Init, Unknown
  <2>2. lycFlag = FALSE
    BY Zenon DEF Init
  <2> QED BY <2>1, <2>2, Zenon DEF LycFlagCurrent
<1>2. TypeOK /\ LineInv /\ LycFlagCurrent /\ [Next]_vars => LycFlagCurrent'
  <2> SUFFICES ASSUME TypeOK, LineInv, LycFlagCurrent, [Next]_vars PROVE LycFlagCurrent'
    OBVIOUS
  <2> USE PpuAssumption DEF LycFlagCurrent, screen, compare, window
  <2>1. CASE UNCHANGED <<ly, lycFlag, lycKnown>>
    BY <2>1
  <2>2. CASE HBlankToScan \/ EnterVBlank \/ VBlankLine \/ VBlankToScan
    <3>1. ly' \in Nat /\ lycKnown' = lyc /\ lycFlag' = (ly' = lyc)
      BY <2>2 DEF HBlankToScan, EnterVBlank, VBlankLine, VBlankToScan, CompareLyc, TypeOK
    <3> QED BY <3>1, Zenon
  <2>3. CASE SwitchLcd
    <3>1. ly' = 0 /\ lycKnown' = 256
      BY <2>3 DEF SwitchLcd, Restart, Unknown
    <3>2. lycFlag' = FALSE
      BY <2>3, Zenon DEF SwitchLcd, Restart
    <3>3. ly' # lycKnown'
      BY <3>1
    <3> QED BY <3>2, <3>3, Zenon
  <2>4. CASE HBlankDot \/ VBlankDot \/ OamDot
    BY <2>1, <2>4, Zenon DEF HBlankDot, VBlankDot, OamDot
  <2>5. ASSUME NEW k \in 0..Burst, TransferDot(k) \/ EndTransfer(k) PROVE LycFlagCurrent'
    BY <2>1, <2>5, Zenon DEF TransferDot, EndTransfer
  <2>6. CASE SetControl \/ SetWX
    BY <2>1, <2>6, Zenon DEF SetControl, SetWX
  <2>7. ASSUME NEW v \in LycValues, SetLYC(v) PROVE LycFlagCurrent'
    BY <2>1, <2>7, Zenon DEF SetLYC
  <2>8. ASSUME NEW v \in WyValues, SetWY(v) PROVE LycFlagCurrent'
    BY <2>1, <2>8, Zenon DEF SetWY
  <2>9. CASE UNCHANGED vars
    BY <2>1, <2>9, Zenon DEF vars
  <2> QED
    BY <2>2, <2>3, <2>4, <2>5, <2>6, <2>7, <2>8, <2>9 DEF Next, Dot, Game
<1> QED BY <1>1, <1>2, TypeCorrect, LinesAreComplete, PTL DEF Spec

-----------------------------------------------------------------------------
(* The window                                                               *)

LEMMA FirstLineIs ==
  ASSUME TypeOK
  PROVE  /\ FirstLine \in Nat /\ FirstLine \in {1, wy, since.line}
         /\ 1 <= FirstLine /\ wy <= FirstLine /\ since.line <= FirstLine
<1> DEFINE F == {1, wy, since.line}
<1>1. wy \in Nat /\ since.line \in Nat
  BY DEF TypeOK
<1>2. \E l \in F : \A n \in F : n <= l
  BY <1>1
<1>3. FirstLine \in F /\ \A n \in F : n <= FirstLine
  <2>1. FirstLine = CHOOSE l \in F : \A n \in F : n <= l
    BY DEF FirstLine
  <2> HIDE DEF F
  <2> QED BY <1>2, <2>1
<1> QED BY <1>1, <1>3

(* The line from which rows are counted is not after the next line.         *)
SinceInv == enable /\ mode # VBlank => since.line <= ly + 1

LEMMA CountKept ==
  ASSUME TypeOK, TypeOK', SinceInv, WindowRowFollowsLines, HBlankToScan
  PROVE  SinceInv' /\ WindowRowFollowsLines'
<1> USE PpuAssumption DEF TypeOK
<1>1. /\ ly' = ly + 1 /\ since' = since /\ wy' = wy /\ wxVisible' = wxVisible
      /\ windowEnable' = windowEnable
      /\ windowLine' = IF WindowReached(ly + 1) /\ WindowVisible(ly + 1)
                       THEN (windowLine + 1) % 256 ELSE windowLine
  BY Zenon DEF HBlankToScan, CheckWyTrigger
<1>2. since.line <= ly + 1 /\ windowLine = (since.row + Counted) % 256
  BY DEF HBlankToScan, SinceInv, WindowRowFollowsLines
<1> DEFINE on == windowEnable /\ wxVisible /\ wy < Height - 1
           f == FirstLine
           row0 == since.row
           n == Counted
<1>3. f \in Nat /\ 1 <= f /\ wy <= f /\ (f <= ly + 1 <=> wy <= ly + 1)
  BY <1>2, FirstLineIs
<1>4. WindowReached(ly + 1) /\ WindowVisible(ly + 1) <=> on /\ f <= ly + 1
  BY <1>3 DEF WindowReached, WindowVisible
<1>5. FirstLine' = f
  BY <1>1 DEF FirstLine
<1>6. n = (IF on /\ f <= ly THEN ly - f + 1 ELSE 0)
  BY DEF Counted
<1>7. Counted' = IF on /\ f <= ly + 1 THEN (ly + 1) - f + 1 ELSE 0
  BY <1>1, <1>5, Zenon DEF Counted
<1>8. row0 \in Nat /\ ly \in Nat /\ since'.row = row0
  BY <1>1
<1> HIDE DEF on, f, row0, n
<1>9. n \in Nat /\ Counted' = IF on /\ f <= ly + 1 THEN n + 1 ELSE n
  BY <1>3, <1>6, <1>7, <1>8
<1>10. \A m \in Nat : ((m % 256) + 1) % 256 = (m + 1) % 256
  OBVIOUS
<1>11. windowLine = (row0 + n) % 256
  BY <1>2 DEF row0, n
<1>12. windowLine' = (row0 + Counted') % 256
  <2>1. CASE on /\ f <= ly + 1
    <3>1. windowLine' = (windowLine + 1) % 256 /\ Counted' = n + 1
      BY <1>1, <1>4, <1>9, <2>1
    <3>2. row0 + n \in Nat /\ row0 + (n + 1) = (row0 + n) + 1
      BY <1>8, <1>9
    <3> QED BY <1>10, <1>11, <3>1, <3>2
  <2>2. CASE ~(on /\ f <= ly + 1)
    BY <1>1, <1>4, <1>9, <1>11, <2>2
  <2> QED BY <2>1, <2>2
<1>13. since'.line <= ly' + 1
  BY <1>1, <1>2
<1> QED BY <1>8, <1>12, <1>13 DEF SinceInv, WindowRowFollowsLines

(* The row of the window a line shows follows from LY, WY and the game's    *)
(* last write of WY, WX or LCDC (PPU::checkWyTrigger and the places that    *)
(* reset m_window_line).                                                    *)
THEOREM WindowRowsFollow == Spec => []WindowRowFollowsLines
<1> DEFINE Inv == SinceInv /\ WindowRowFollowsLines
<1>1. Init => Inv
  BY DEF Init, SinceInv, WindowRowFollowsLines
<1>2. TypeOK /\ TypeOK' /\ LineInv /\ Inv /\ [Next]_vars => Inv'
  <2> SUFFICES ASSUME TypeOK, TypeOK', LineInv, Inv, [Next]_vars PROVE Inv'
    OBVIOUS
  <2> USE DEF SinceInv, WindowRowFollowsLines, screen, compare, window
  <2>1. CASE /\ UNCHANGED <<ly, windowEnable, window>>
             /\ enable' /\ mode' # VBlank => enable /\ mode # VBlank
    BY <2>1 DEF Counted, FirstLine
  <2>2. CASE ly' = 0 /\ windowLine' = 255 /\ since' = FrameStart
    <3>1. since'.line = 0 /\ since'.row = 255
      BY <2>2 DEF FrameStart
    <3>2. 1 <= FirstLine' /\ FirstLine' \in Nat
      <4>1. TypeOK' => (1 <= FirstLine /\ FirstLine \in Nat)'
        BY FirstLineIs, PTL
      <4> QED BY <4>1
    <3>3. Counted' = 0
      <4>1. ~(FirstLine' <= ly')
        BY <2>2, <3>2
      <4> QED BY <4>1, Zenon DEF Counted
    <3>4. since'.line <= ly' + 1 /\ windowLine' = (since'.row + Counted') % 256
      BY <2>2, <3>1, <3>3
    <3> QED BY <3>4, Zenon
  <2>3. CASE FromNextLine /\ UNCHANGED <<ly, windowLine>>
    <3>1. since'.line = ly' + 1 /\ since'.row = windowLine' /\ ly' \in Nat /\ windowLine' \in 0..255
      BY <2>3 DEF FromNextLine, TypeOK
    <3>2. since'.line <= FirstLine' /\ FirstLine' \in Nat
      <4>1. TypeOK' => (since.line <= FirstLine /\ FirstLine \in Nat)'
        BY FirstLineIs, PTL
      <4> QED BY <4>1
    <3>3. Counted' = 0
      <4> DEFINE m == ly'
                 f == FirstLine'
      <4>1. m + 1 <= f /\ m \in Nat /\ f \in Nat
        BY <3>1, <3>2, Zenon
      <4> HIDE DEF m, f
      <4>2. ~(f <= m)
        BY <4>1
      <4> QED BY <4>2, Zenon DEF Counted, m, f
    <3>4. since'.line <= ly' + 1 /\ windowLine' = (since'.row + Counted') % 256
      <4> DEFINE m == ly'
                 w == windowLine'
      <4>1. since'.line = m + 1 /\ since'.row = w /\ m \in Nat /\ w \in 0..255 /\ Counted' = 0
        BY <3>1, <3>3, Zenon
      <4> HIDE DEF m, w
      <4>2. m + 1 <= m + 1 /\ w = (w + 0) % 256
        BY <4>1
      <4> QED BY <4>1, <4>2, Zenon DEF m, w
    <3> QED BY <3>4, Zenon
  <2>4. CASE HBlankToScan
    BY <2>4, CountKept
  <2>5. CASE EnterVBlank \/ VBlankLine
    <3>1. mode' = VBlank
      BY <2>5 DEF EnterVBlank, VBlankLine
    <3> QED BY <3>1
  <2>6. CASE VBlankToScan \/ SwitchLcd
    BY <2>2, <2>6, Zenon DEF VBlankToScan, SwitchLcd, Restart
  <2>7. CASE HBlankDot \/ VBlankDot
    BY <2>1, <2>7, Zenon DEF HBlankDot, VBlankDot
  <2>8. CASE OamDot
    <3>1. mode # VBlank
      BY <2>8 DEF OamDot
    <3> QED BY <2>1, <2>8, <3>1, Zenon DEF OamDot
  <2>9. ASSUME NEW k \in 0..Burst, TransferDot(k) \/ EndTransfer(k) PROVE Inv'
    <3>1. mode # VBlank
      BY <2>9 DEF TransferDot, EndTransfer
    <3> QED BY <2>1, <2>9, <3>1, Zenon DEF TransferDot, EndTransfer
  <2>10. CASE SetControl \/ SetWX
    BY <2>3, <2>10, Zenon DEF SetControl, SetWX
  <2>11. ASSUME NEW v \in LycValues, SetLYC(v) PROVE Inv'
    BY <2>1, <2>11, Zenon DEF SetLYC
  <2>12. ASSUME NEW v \in WyValues, SetWY(v) PROVE Inv'
    BY <2>3, <2>12, Zenon DEF SetWY
  <2>13. CASE UNCHANGED vars
    BY <2>1, <2>13, Zenon DEF vars
  <2> QED
    BY <2>4, <2>5, <2>6, <2>7, <2>8, <2>9, <2>10, <2>11, <2>12, <2>13 DEF Next, Dot, Game
<1> QED BY <1>1, <1>2, TypeCorrect, LinesAreComplete, PTL DEF Spec
=============================================================================
