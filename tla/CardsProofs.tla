------------------------------ MODULE CardsProofs ------------------------------
(***************************************************************************)
(* The cartridges, for every Step, every set of sizes, every ROM file and   *)
(* every set of cheats: the banks an MBC1 maps, and what inserting and      *)
(* removing cheats leaves in the ROM of any class.                          *)
(***************************************************************************)
EXTENDS Cards, SequenceTheorems, WellFoundedInduction, TLAPS

(* Every set of numbers has a least one.                                    *)
LEMMA LeastNumber ==
  ASSUME NEW T \in SUBSET Nat, T # {}
  PROVE  \E x \in T : \A y \in T : x <= y
<1> DEFINE R == OpToRel(<, Nat)
<1>1. IsWellFoundedOn(R, Nat)
  BY NatLessThanWellFounded
<1>2. \A a, b \in Nat : a < b => <<a, b>> \in R
  BY DEF OpToRel
<1> HIDE DEF R
<1>3. PICK x \in T : \A y \in T : ~(<<y, x>> \in R)
  BY <1>1, WFMin, Zenon
<1>4. \A y \in T : ~(y < x)
  BY <1>2, <1>3, Zenon
<1>5. \A y \in T : x <= y
  BY <1>4
<1> QED BY <1>5

-----------------------------------------------------------------------------
(* Cheats laid over a ROM: cheat c may patch the cells T[c], and replaces   *)
(* those that hold its compare value, if it has one.                        *)

Patched(T, c, x, v) ==
  IF x \in T[c] /\ c.compare \in {NoCompare, v} THEN c.replace ELSE v

(* f[n] is base with the first n cheats of g laid over it.                  *)
IsLaid(T, X, V, base, g, f) ==
  /\ f \in [0..Len(g) -> [X -> V]]
  /\ f[0] = base
  /\ \A n \in 1..Len(g), x \in X : f[n][x] = Patched(T, g[n], x, f[n - 1][x])

(* The layers of the cheats of g, each made from the one below it in v.     *)
Layers(T, X, base, g, v) ==
  [n \in 0..Len(g) |-> IF n = 0 THEN base
                       ELSE [x \in X |-> Patched(T, g[n], x, v[n - 1][x])]]

LEMMA LaidLayers ==
  ASSUME NEW T, NEW X, NEW V, NEW base, NEW C, NEW g \in Seq(C), NEW f,
         IsLaid(T, X, V, base, g, f)
  PROVE  f = Layers(T, X, base, g, f)
<1>1. f \in [0..Len(g) -> [X -> V]] /\ f[0] = base /\ Len(g) \in Nat
  BY DEF IsLaid
<1>2. ASSUME NEW n \in 1..Len(g)
      PROVE  f[n] = [x \in X |-> Patched(T, g[n], x, f[n - 1][x])]
  <2>1. f[n] \in [X -> V]
    BY <1>1
  <2>2. \A x \in X : f[n][x] = Patched(T, g[n], x, f[n - 1][x])
    BY DEF IsLaid
  <2> QED BY <2>1, <2>2
<1>3. \A n \in 0..Len(g) :
        f[n] = IF n = 0 THEN base ELSE [x \in X |-> Patched(T, g[n], x, f[n - 1][x])]
  <2> TAKE n \in 0..Len(g)
  <2>1. CASE n = 0
    BY <1>1, <2>1
  <2>2. CASE n \in 1..Len(g)
    <3>1. n # 0
      BY <2>2
    <3> QED BY <1>2, <2>2, <3>1
  <2> QED BY <1>1, <2>1, <2>2
<1>4. f = [n \in 0..Len(g) |-> f[n]]
  BY <1>1
<1> QED BY <1>3, <1>4 DEF Layers

LEMMA LaidOnce ==
  ASSUME NEW T, NEW X, NEW V, NEW base, NEW C, NEW g \in Seq(C), NEW f, NEW h,
         IsLaid(T, X, V, base, g, f), h = Layers(T, X, base, g, h)
  PROVE  f = h
<1>1. f = Layers(T, X, base, g, f)
  BY LaidLayers
<1> DEFINE D == {n \in 0..Len(g) : f[n] # h[n]}
<1>2. SUFFICES D = {}
  <2>1. DOMAIN f = 0..Len(g) /\ DOMAIN h = 0..Len(g)
    BY <1>1 DEF Layers
  <2>2. f = [n \in 0..Len(g) |-> f[n]] /\ h = [n \in 0..Len(g) |-> h[n]]
    BY <1>1, <2>1 DEF Layers
  <2> QED BY <2>2
<1>3. SUFFICES ASSUME D # {} PROVE FALSE
  OBVIOUS
<1>4. PICK n \in D : \A m \in D : n <= m
  <2>1. D \in SUBSET Nat
    OBVIOUS
  <2> HIDE DEF D
  <2> QED BY <1>3, <2>1, LeastNumber
<1>5. \A m \in 0..Len(g) : h[m] = IF m = 0 THEN base
                                  ELSE [x \in X |-> Patched(T, g[m], x, h[m - 1][x])]
  BY DEF Layers
<1>6. \A m \in 0..Len(g) : f[m] = IF m = 0 THEN base
                                  ELSE [x \in X |-> Patched(T, g[m], x, f[m - 1][x])]
  BY <1>1 DEF Layers
<1>7. n # 0 /\ n \in 0..Len(g) /\ n - 1 \in 0..Len(g)
  <2>1. 0 \in 0..Len(g) /\ Len(g) \in Nat
    OBVIOUS
  <2>2. f[0] = base /\ h[0] = base
    BY <1>5, <1>6, <2>1
  <2>3. n # 0 /\ n \in 0..Len(g)
    BY <2>2
  <2> QED BY <2>1, <2>3
<1>8. f[n - 1] = h[n - 1]
  BY <1>4, <1>7
<1>9. f[n] = h[n]
  BY <1>5, <1>6, <1>7, <1>8
<1> QED BY <1>9

(* A cell keeps what a cheat wrote if no later one may patch it.            *)
LEMMA LaidStays ==
  ASSUME NEW T, NEW X, NEW V, NEW base, NEW C, NEW g \in Seq(C), NEW f, NEW i \in 0..Len(g),
         NEW x \in X, IsLaid(T, X, V, base, g, f),
         \A j \in i + 1..Len(g) : x \notin T[g[j]]
  PROVE  f[Len(g)][x] = f[i][x]
<1> DEFINE D == {n \in i..Len(g) : f[n][x] # f[i][x]}
<1>1. SUFFICES ASSUME D # {} PROVE FALSE
  OBVIOUS
<1>2. PICK n \in D : \A m \in D : n <= m
  <2>1. D \in SUBSET Nat
    OBVIOUS
  <2> HIDE DEF D
  <2> QED BY <1>1, <2>1, LeastNumber
<1>3. n \in i + 1..Len(g) /\ n \in 1..Len(g) /\ n - 1 \in i..Len(g)
  OBVIOUS
<1>4. f[n - 1][x] = f[i][x]
  BY <1>2, <1>3
<1>5. f[n][x] = f[n - 1][x]
  BY <1>3 DEF IsLaid, Patched
<1> QED BY <1>4, <1>5

(* h is f with the layer of c on top.                                       *)
OnTop(T, X, g, c, f, h) ==
  /\ \A n \in 0..Len(g) : h[n] = f[n]
  /\ \A x \in X : h[Len(g) + 1][x] = Patched(T, c, x, f[Len(g)][x])

LEMMA LaidAdd ==
  ASSUME NEW T, NEW X, NEW V, NEW base, NEW C, NEW g \in Seq(C), NEW f, NEW c \in C,
         c.replace \in V, IsLaid(T, X, V, base, g, f)
  PROVE  \E h : IsLaid(T, X, V, base, Append(g, c), h) /\ OnTop(T, X, g, c, f, h)
<1> DEFINE top == [x \in X |-> Patched(T, c, x, f[Len(g)][x])]
           h == [n \in 0..Len(g) + 1 |-> IF n <= Len(g) THEN f[n] ELSE top]
           r == Append(g, c)
<1>1. Len(g) \in Nat /\ Len(r) = Len(g) + 1 /\ r[Len(g) + 1] = c /\ \A n \in 1..Len(g) : r[n] = g[n]
  OBVIOUS
<1>2. top \in [X -> V]
  BY DEF IsLaid, Patched
<1>3. h \in [0..Len(r) -> [X -> V]] /\ h[0] = base
  BY <1>1, <1>2 DEF IsLaid
<1>4. \A n \in 0..Len(g) : h[n] = f[n]
  BY <1>1
<1>5. h[Len(g) + 1] = top
  BY <1>1
<1>6. ASSUME NEW n \in 1..Len(r), NEW x \in X PROVE h[n][x] = Patched(T, r[n], x, h[n - 1][x])
  <2>1. CASE n \in 1..Len(g)
    <3>1. h[n] = f[n] /\ h[n - 1] = f[n - 1] /\ r[n] = g[n]
      BY <1>1, <1>4, <2>1
    <3> QED BY <2>1, <3>1 DEF IsLaid
  <2>2. CASE n = Len(g) + 1
    <3>1. h[n - 1] = f[Len(g)] /\ h[n] = top /\ r[n] = c
      BY <1>1, <1>4, <1>5, <2>2
    <3> QED BY <3>1
  <2> QED BY <1>1, <2>1, <2>2
<1>7. IsLaid(T, X, V, base, r, h)
  BY <1>3, <1>6 DEF IsLaid
<1>8. \A x \in X : h[Len(g) + 1][x] = Patched(T, c, x, f[Len(g)][x])
  BY <1>5
<1> QED BY <1>4, <1>7, <1>8 DEF OnTop

LEMMA Removed ==
  ASSUME NEW C, NEW g \in Seq(C), NEW i \in 1..Len(g)
  PROVE  /\ RemoveAt(g, i) \in Seq(C) /\ Len(RemoveAt(g, i)) = Len(g) - 1
         /\ \A n \in 1..i - 1 : RemoveAt(g, i)[n] = g[n]
         /\ \A n \in i..Len(g) - 1 : RemoveAt(g, i)[n] = g[n + 1]
<1> DEFINE a == SubSeq(g, 1, i - 1)
           b == SubSeq(g, i + 1, Len(g))
<1>1. Len(g) \in Nat /\ i \in Nat \ {0} /\ i <= Len(g) /\ \A n \in 1..Len(g) : g[n] \in C
  OBVIOUS
<1>2. a \in Seq(C) /\ Len(a) = i - 1 /\ \A n \in 1..i - 1 : a[n] = g[n]
  <2>1. 1 \in Int /\ i - 1 \in Int /\ \A k \in 1..i - 1 : k \in 1..Len(g)
    BY <1>1
  <2>2. /\ a \in Seq(C) /\ Len(a) = IF 1 <= i - 1 THEN (i - 1) - 1 + 1 ELSE 0
        /\ \A n \in 1..(i - 1) - 1 + 1 : a[n] = g[1 + n - 1]
    BY <1>1, SubSeqProperties
  <2>3. Len(a) = i - 1
    BY <1>1, <2>2
  <2>4. ASSUME NEW n \in 1..i - 1 PROVE a[n] = g[n]
    <3>1. n \in 1..(i - 1) - 1 + 1 /\ 1 + n - 1 = n
      BY <1>1
    <3> QED BY <2>2, <3>1
  <2> QED BY <2>2, <2>3, <2>4
<1>3. b \in Seq(C) /\ Len(b) = Len(g) - i /\ \A n \in 1..Len(g) - i : b[n] = g[i + n]
  <2>1. /\ b \in Seq(C) /\ Len(b) = IF i + 1 <= Len(g) THEN Len(g) - (i + 1) + 1 ELSE 0
        /\ \A n \in 1..Len(g) - (i + 1) + 1 : b[n] = g[(i + 1) + n - 1]
    BY <1>1, SubSeqProperties
  <2>2. Len(b) = Len(g) - i
    BY <1>1, <2>1
  <2>3. ASSUME NEW n \in 1..Len(g) - i PROVE b[n] = g[i + n]
    <3>1. n \in 1..Len(g) - (i + 1) + 1 /\ (i + 1) + n - 1 = i + n
      BY <1>1
    <3> QED BY <2>1, <3>1
  <2> QED BY <2>1, <2>2, <2>3
<1>4. RemoveAt(g, i) = a \o b
  BY DEF RemoveAt
<1> HIDE DEF a, b
<1>5. /\ a \o b \in Seq(C) /\ Len(a \o b) = Len(a) + Len(b)
      /\ \A n \in 1..Len(a) + Len(b) : (a \o b)[n] = IF n <= Len(a) THEN a[n] ELSE b[n - Len(a)]
  BY <1>2, <1>3, ConcatProperties
<1>6. Len(a \o b) = Len(g) - 1
  BY <1>1, <1>2, <1>3, <1>5
<1>7. ASSUME NEW n \in 1..i - 1 PROVE (a \o b)[n] = g[n]
  BY <1>1, <1>2, <1>3, <1>5
<1>8. ASSUME NEW n \in i..Len(g) - 1 PROVE (a \o b)[n] = g[n + 1]
  <2>1. n - (i - 1) \in 1..Len(g) - i /\ n \in 1..(i - 1) + (Len(g) - i) /\ ~(n <= i - 1)
    BY <1>1
  <2>2. (a \o b)[n] = b[n - (i - 1)]
    BY <1>2, <1>3, <1>5, <2>1
  <2>3. b[n - (i - 1)] = g[i + (n - (i - 1))] /\ i + (n - (i - 1)) = n + 1
    BY <1>1, <1>3, <2>1
  <2> QED BY <2>2, <2>3
<1> QED BY <1>4, <1>5, <1>6, <1>7, <1>8

(* h is f without the layer of the cheat at i: below it nothing has changed, *)
(* above it the cells the other cheats may patch, and on top its own cells  *)
(* hold what they held before it.                                           *)
TakenOff(T, X, g, i, f, h) ==
  /\ \A x \in X : h[Len(g) - 1][x] = IF x \in T[g[i]] THEN f[i - 1][x] ELSE f[Len(g)][x]
  /\ \A j \in 1..i - 1 : h[j - 1] = f[j - 1]
  /\ \A j \in i..Len(g) - 1, x \in X : x \in T[g[j + 1]] => h[j - 1][x] = f[j][x]

(* A cheat no later one overlaps can be taken off.                          *)
LEMMA LaidRemove ==
  ASSUME NEW T, NEW X, NEW V, NEW base, NEW C, NEW g \in Seq(C), NEW f, NEW i \in 1..Len(g),
         IsLaid(T, X, V, base, g, f),
         \A j \in i + 1..Len(g) : T[g[i]] \cap T[g[j]] = {}
  PROVE  /\ \A x \in X : x \in T[g[i]] => f[Len(g)][x] = Patched(T, g[i], x, f[i - 1][x])
         /\ \E h : IsLaid(T, X, V, base, RemoveAt(g, i), h) /\ TakenOff(T, X, g, i, f, h)
<1> DEFINE r == RemoveAt(g, i)
           h == [n \in 0..Len(g) - 1 |->
                   IF n < i THEN f[n]
                   ELSE [x \in X |-> IF x \in T[g[i]] THEN f[i - 1][x] ELSE f[n + 1][x]]]
<1>1. Len(g) \in Nat \ {0} /\ i \in Nat \ {0} /\ i <= Len(g)
  OBVIOUS
<1>2. /\ Len(r) = Len(g) - 1
      /\ \A n \in 1..i - 1 : r[n] = g[n]
      /\ \A n \in i..Len(g) - 1 : r[n] = g[n + 1]
  BY Removed
<1> HIDE DEF r
<1>3. f \in [0..Len(g) -> [X -> V]] /\ f[0] = base
  BY DEF IsLaid
<1>4. ASSUME NEW n \in 1..Len(g), NEW x \in X PROVE f[n][x] = Patched(T, g[n], x, f[n - 1][x])
  BY DEF IsLaid
<1>5. \A n \in 0..i - 1 : h[n] = f[n]
  BY <1>1
<1>6. ASSUME NEW n \in i - 1..Len(g) - 1, NEW x \in X
      PROVE  h[n][x] = IF x \in T[g[i]] THEN f[i - 1][x] ELSE f[n + 1][x]
  <2>1. CASE n = i - 1
    <3>1. h[n] = f[i - 1] /\ n + 1 = i
      BY <1>1, <1>5, <2>1
    <3>2. x \notin T[g[i]] => f[i][x] = f[i - 1][x]
      BY <1>1, <1>4 DEF Patched
    <3> QED BY <3>1, <3>2
  <2>2. CASE n # i - 1
    <3>1. n \in 0..Len(g) - 1 /\ ~(n < i)
      BY <1>1, <2>2
    <3>2. h[n] = [y \in X |-> IF y \in T[g[i]] THEN f[i - 1][y] ELSE f[n + 1][y]]
      BY <3>1
    <3> QED BY <3>2
  <2> QED BY <2>1, <2>2
<1>7. h \in [0..Len(r) -> [X -> V]]
  <2>1. ASSUME NEW n \in i..Len(g) - 1
        PROVE  [x \in X |-> IF x \in T[g[i]] THEN f[i - 1][x] ELSE f[n + 1][x]] \in [X -> V]
    <3>1. f[i - 1] \in [X -> V] /\ f[n + 1] \in [X -> V]
      BY <1>1, <1>3
    <3> QED BY <3>1
  <2> QED BY <1>1, <1>2, <1>3, <2>1
<1> HIDE DEF h
<1>8. ASSUME NEW n \in 1..Len(r), NEW x \in X
      PROVE  h[n][x] = Patched(T, r[n], x, h[n - 1][x])
  <2>1. CASE n < i
    <3>1. h[n] = f[n] /\ h[n - 1] = f[n - 1] /\ r[n] = g[n] /\ n \in 1..Len(g)
      BY <1>1, <1>2, <1>5, <2>1
    <3> QED BY <1>4, <3>1
  <2>2. CASE n >= i
    <3>1. /\ n \in i - 1..Len(g) - 1 /\ n - 1 \in i - 1..Len(g) - 1 /\ r[n] = g[n + 1]
          /\ n + 1 \in i + 1..Len(g) /\ n + 1 \in 1..Len(g) /\ (n + 1) - 1 = n /\ (n - 1) + 1 = n
      BY <1>1, <1>2, <2>2
    <3>2. /\ h[n][x] = IF x \in T[g[i]] THEN f[i - 1][x] ELSE f[n + 1][x]
          /\ h[n - 1][x] = IF x \in T[g[i]] THEN f[i - 1][x] ELSE f[n][x]
      BY <1>6, <3>1
    <3>3. x \in T[g[i]] => x \notin T[r[n]]
      BY <3>1
    <3>4. f[n + 1][x] = Patched(T, g[n + 1], x, f[n][x])
      BY <1>4, <3>1
    <3> QED BY <3>1, <3>2, <3>3, <3>4 DEF Patched
  <2> QED BY <1>1, <1>2, <2>1, <2>2
<1>9. IsLaid(T, X, V, base, r, h)
  BY <1>1, <1>3, <1>5, <1>7, <1>8 DEF IsLaid
<1>10. ASSUME NEW x \in X, x \in T[g[i]]
       PROVE  f[Len(g)][x] = Patched(T, g[i], x, f[i - 1][x])
  <2>1. \A j \in i + 1..Len(g) : x \notin T[g[j]]
    BY <1>10
  <2>2. f[Len(g)][x] = f[i][x]
    BY <1>1, <2>1, LaidStays
  <2> QED BY <1>4, <2>2
<1>11. ASSUME NEW x \in X
       PROVE  h[Len(g) - 1][x] = IF x \in T[g[i]] THEN f[i - 1][x] ELSE f[Len(g)][x]
  <2>1. Len(g) - 1 \in i - 1..Len(g) - 1 /\ (Len(g) - 1) + 1 = Len(g)
    BY <1>1
  <2> QED BY <1>6, <2>1
<1>12. \A j \in 1..i - 1 : h[j - 1] = f[j - 1]
  BY <1>1, <1>5
<1>13. ASSUME NEW j \in i..Len(g) - 1, NEW x \in X, x \in T[g[j + 1]]
       PROVE  h[j - 1][x] = f[j][x]
  <2>1. j - 1 \in i - 1..Len(g) - 1 /\ (j - 1) + 1 = j /\ j + 1 \in i + 1..Len(g)
    BY <1>1
  <2>2. x \notin T[g[i]]
    BY <1>13, <2>1
  <2> QED BY <1>6, <2>1, <2>2
<1> QED BY <1>9, <1>10, <1>11, <1>12, <1>13 DEF r, TakenOff

-----------------------------------------------------------------------------
(* What masking gives: the value itself below the size, and a value in range *)
LEMMA MaskRange ==
  ASSUME NEW v \in Nat, NEW m \in Nat \ {0}
  PROVE  v % m \in 0..m - 1
OBVIOUS

LEMMA MaskBelow ==
  ASSUME NEW v \in Nat, NEW m \in Nat \ {0}, v < m
  PROVE  v % m = v
OBVIOUS

LEMMA MaskOnce ==
  ASSUME NEW v \in Nat, NEW m \in Nat \ {0}, m <= v, v < m + m
  PROVE  v % m = v - m
OBVIOUS

(* A value between two multiples of m is not a multiple of m.               *)
LEMMA Between ==
  ASSUME NEW m \in Nat \ {0}, NEW r \in 1..m - 1, NEW k \in 0..3
  PROVE  (k * m + r) % m = r
<1>1. CASE k = 0
  BY <1>1, MaskBelow
<1>2. CASE k = 1
  BY <1>2
<1>3. CASE k = 2
  BY <1>3
<1>4. CASE k = 3
  BY <1>4
<1> QED BY <1>1, <1>2, <1>3, <1>4

(* The registers keep their types, the low one is never zero on a cartridge *)
(* that has all the banks it can select.                                    *)
LowNotZero == numBanks >= Step => low # 0

Registers ==
  /\ numBanks \in RomSizes /\ numRamBanks \in RamSizes
  /\ low \in 0..Step - 1 /\ hi \in 0..3
  /\ enableRam \in BOOLEAN /\ mode \in 0..1
  /\ mode = 1 => numRamBanks >= 4
  /\ enableRam => numRamBanks # 0

Inv == Registers /\ LowNotZero

LEMMA Sizes ==
  ASSUME Registers
  PROVE  /\ numBanks \in Nat \ {0} /\ numRamBanks \in Nat
         /\ Step \in Nat \ {0, 1}
         /\ \/ numBanks \in 2..Step /\ Step % numBanks = 0
            \/ numBanks = 2 * Step
            \/ numBanks = 4 * Step
<1>1. numBanks \in RomSizes /\ numRamBanks \in Nat /\ Step \in Nat \ {0, 1}
  BY Mbc1Assumption DEF Registers
<1>2. /\ numBanks \in 2..4 * Step
      /\ Step % numBanks = 0 \/ numBanks = 2 * Step \/ numBanks = 4 * Step
  BY <1>1, Mbc1Assumption DEF MaxBanks
<1>3. ASSUME Step % numBanks = 0 PROVE numBanks <= Step
  <2> SUFFICES ASSUME Step < numBanks PROVE FALSE
    BY <1>1, <1>2
  <2>1. numBanks \in Nat \ {0} /\ Step \in Nat
    BY <1>1, <1>2
  <2>2. Step % numBanks = Step
    BY <2>1, MaskBelow
  <2> QED BY <1>1, <1>3, <2>2
<1> QED BY <1>1, <1>2, <1>3

LEMMA InvHolds == Spec => []Inv
<1>1. Init => Inv
  <2> SUFFICES ASSUME Init PROVE Inv
    OBVIOUS
  <2>1. enableRam \in BOOLEAN /\ ~enableRam
    BY Zenon DEF Init
  <2> QED BY <2>1, Mbc1Assumption DEF Init, Inv, Registers, LowNotZero
<1>2. Inv /\ [Next]_vars => Inv'
  <2> SUFFICES ASSUME Inv, [Next]_vars PROVE Inv'
    OBVIOUS
  <2> USE DEF Inv, Registers, LowNotZero, size, registers, patches
  <2>1. ASSUME NEW v \in BOOLEAN, WriteEnable(v) PROVE Inv'
    <3>1. enableRam' \in BOOLEAN
      BY <2>1, Zenon DEF WriteEnable
    <3> QED BY <2>1, <3>1 DEF WriteEnable
  <2>2. ASSUME NEW v \in 0..Step - 1, WriteBank(v) PROVE Inv'
    <3> DEFINE w == IF v = 0 THEN 1 ELSE v
    <3>1. numBanks \in Nat \ {0} /\ Step \in Nat \ {0, 1}
          /\ (numBanks <= Step \/ numBanks > Step)
      BY Sizes
    <3>2. w \in 1..Step - 1 /\ w \in Nat
      BY <3>1
    <3>3. CASE numBanks >= Step
      <4>1. low' = w
        BY <2>2, <3>1, <3>2, <3>3, MaskBelow DEF WriteBank
      <4> QED BY <2>2, <3>2, <3>3, <4>1 DEF WriteBank
    <3>4. CASE numBanks < Step
      <4>1. low' \in 0..numBanks - 1
        BY <2>2, <3>1, <3>2, MaskRange DEF WriteBank
      <4> QED BY <2>2, <3>1, <3>4, <4>1 DEF WriteBank
    <3> QED BY <3>1, <3>3, <3>4
  <2>3. ASSUME NEW v \in 0..3, WriteHi(v) PROVE Inv'
    BY <2>3 DEF WriteHi
  <2>4. ASSUME NEW v \in 0..1, WriteMode(v) PROVE Inv'
    BY <2>4 DEF WriteMode
  <2>5. ASSUME NEW v \in Values, WriteRam(v) PROVE Inv'
    BY <2>5 DEF WriteRam
  <2>6. ASSUME NEW c \in Cheats, AddGenie(c) PROVE Inv'
    BY <2>6 DEF AddGenie
  <2>7. ASSUME NEW c \in Cheats, RemoveGenie(c) PROVE Inv'
    BY <2>7 DEF RemoveGenie
  <2>8. CASE UNCHANGED vars
    BY <2>8 DEF vars
  <2> QED BY <2>1, <2>2, <2>3, <2>4, <2>5, <2>6, <2>7, <2>8 DEF Next, Game, User
<1> QED BY <1>1, <1>2, PTL DEF Spec

-----------------------------------------------------------------------------
(* Every area is mapped to a bank the cartridge has, whatever the game       *)
(* writes to the registers (Mbc1::Read indexes m_therom and m_sram with it).*)
THEOREM TypeCorrect == Spec => []TypeOK
<1>1. Inv => TypeOK
  <2> SUFFICES ASSUME Inv PROVE TypeOK
    OBVIOUS
  <2>1. numBanks \in Nat \ {0} /\ numRamBanks \in Nat /\ Step \in Nat \ {0}
    BY Sizes DEF Inv
  <2>2. low \in Nat /\ hi * Step \in Nat /\ hi * Step + low \in Nat
    BY <2>1 DEF Inv, Registers
  <2>3. LowBank \in 0..numBanks - 1
    <3>1. (hi * Step) % numBanks \in 0..numBanks - 1
      BY <2>1, <2>2, MaskRange
    <3>2. 0 \in 0..numBanks - 1
      BY <2>1
    <3> QED BY <3>1, <3>2, Zenon DEF LowBank
  <2>4. HighBank \in 0..numBanks - 1
    BY <2>1, <2>2, MaskRange DEF HighBank
  <2>5. enableRam => RamBank \in 0..numRamBanks - 1
    <3> SUFFICES ASSUME enableRam PROVE RamBank \in 0..numRamBanks - 1
      OBVIOUS
    <3>1. numRamBanks \in Nat \ {0}
      BY <2>1 DEF Inv, Registers
    <3> QED BY <2>2, <3>1, MaskRange DEF RamBank
  <2> QED BY <2>3, <2>4, <2>5 DEF TypeOK, Inv, Registers
<1> QED BY <1>1, InvHolds, PTL

(* On a cartridge of at least Step banks the high area never shows a bank   *)
(* that is a multiple of Step: the zero test of Mbc1::Write is enough.      *)
THEOREM HighBankIsNotX0 == Spec => []HighBankNotX0
<1>1. Inv => HighBankNotX0
  <2> SUFFICES ASSUME Inv, numBanks >= Step PROVE HighBank % Step # 0
    BY DEF HighBankNotX0
  <2>1. /\ Step \in Nat \ {0} /\ hi \in 0..3 /\ low \in 1..Step - 1
        /\ numBanks = Step \/ numBanks = 2 * Step \/ numBanks = 4 * Step
    BY Sizes DEF Inv, Registers, LowNotZero
  <2>2. \E k \in 0..3 : HighBank = k * Step + low
    <3>1. CASE numBanks = Step
      <4>1. HighBank = 0 * Step + low
        BY <2>1, <3>1, Between DEF HighBank
      <4> QED BY <4>1
    <3>2. CASE numBanks = 2 * Step
      <4>1. CASE hi < 2
        <5>1. HighBank = hi * Step + low
          <6>1. CASE hi = 0
            BY <2>1, <3>2, <6>1, MaskBelow DEF HighBank
          <6>2. CASE hi = 1
            BY <2>1, <3>2, <6>2, MaskBelow DEF HighBank
          <6> QED BY <2>1, <4>1, <6>1, <6>2
        <5> QED BY <2>1, <5>1
      <4>2. CASE hi >= 2
        <5>1. HighBank = (hi - 2) * Step + low
          <6>1. CASE hi = 2
            <7>1. /\ HighBank = (2 * Step + low) % (2 * Step)
                  /\ 2 * Step \in Nat \ {0} /\ 2 * Step + low \in Nat
                  /\ 2 * Step <= 2 * Step + low /\ 2 * Step + low < 2 * Step + 2 * Step
              BY <2>1, <3>2, <6>1 DEF HighBank
            <7>2. HighBank = (2 * Step + low) - 2 * Step
              BY <7>1, MaskOnce
            <7> QED BY <2>1, <6>1, <7>2
          <6>2. CASE hi = 3
            <7>1. /\ HighBank = (3 * Step + low) % (2 * Step)
                  /\ 2 * Step \in Nat \ {0} /\ 3 * Step + low \in Nat
                  /\ 2 * Step <= 3 * Step + low /\ 3 * Step + low < 2 * Step + 2 * Step
              BY <2>1, <3>2, <6>2 DEF HighBank
            <7>2. HighBank = (3 * Step + low) - 2 * Step
              BY <7>1, MaskOnce
            <7> QED BY <2>1, <6>2, <7>2
          <6> QED BY <2>1, <4>2, <6>1, <6>2
        <5> QED BY <2>1, <4>2, <5>1
      <4> QED BY <2>1, <4>1, <4>2
    <3>3. CASE numBanks = 4 * Step
      <4>1. HighBank = hi * Step + low
        <5>1. CASE hi = 0
          BY <2>1, <3>3, <5>1, MaskBelow DEF HighBank
        <5>2. CASE hi = 1
          BY <2>1, <3>3, <5>2, MaskBelow DEF HighBank
        <5>3. CASE hi = 2
          BY <2>1, <3>3, <5>3, MaskBelow DEF HighBank
        <5>4. CASE hi = 3
          BY <2>1, <3>3, <5>4, MaskBelow DEF HighBank
        <5> QED BY <2>1, <5>1, <5>2, <5>3, <5>4
      <4> QED BY <2>1, <4>1
    <3> QED BY <2>1, <3>1, <3>2, <3>3
  <2>3. PICK k \in 0..3 : HighBank = k * Step + low
    BY <2>2
  <2>4. HighBank % Step = low
    BY <2>1, <2>3, Between
  <2> QED BY <2>1, <2>4
<1> QED BY <1>1, InvHolds, PTL

-----------------------------------------------------------------------------
(* MBC1: the ROM is the top of the layers, and each inserted cheat keeps the *)
(* bytes of the layer below it, as long as cheats are removed in order.     *)

Reach == [c \in Cheats |-> PatchedBanks(c.area) \X {c.offset}]

Cells == (0..numBanks) \X Offsets

FileBytes == [cell \in Cells |-> Rom0[cell]]

Banks == [area \in {"low", "high"} |-> PatchedBanks(area)]

(* What c keeps of a layer v: the bytes of the cells it replaces.           *)
Kept(B, c, v) ==
  [b \in {b \in B[c.area] : c.compare \in {NoCompare, v[<<b, c.offset>>]}} |-> v[<<b, c.offset>>]]

IsStack(f) ==
  /\ IsLaid(Reach, Cells, Values, FileBytes, genies, f)
  /\ rom = f[Len(genies)]
  /\ \A i \in 1..Len(genies) : replaced[genies[i]] = Kept(Banks, genies[i], f[i - 1])

CheatInv ==
  ~disorder =>
    /\ genies \in Seq(Cheats)
    /\ \A i, j \in 1..Len(genies) : genies[i] = genies[j] => i = j
    /\ replaced = [c \in Cheats |-> replaced[c]]
    /\ \E f : IsStack(f)

LEMMA ReachIsCells ==
  ASSUME numBanks \in RomSizes, NEW c \in Cheats
  PROVE  /\ c.offset \in Offsets /\ c.replace \in Values /\ c.area \in {"low", "high"}
         /\ PatchedBanks(c.area) \subseteq 0..numBanks
         /\ \A x \in Cells : x \in Reach[c] <=> x[1] \in PatchedBanks(c.area) /\ x[2] = c.offset
         /\ \A b \in PatchedBanks(c.area) :
              <<b, c.offset>> \in Cells /\ <<b, c.offset>> \in Reach[c]
<1>1. numBanks \in Nat /\ Step \in Nat
  BY Mbc1Assumption
<1>2. c \in [area : {"low", "high"}, offset : Offsets, replace : Values,
             compare : Values \cup {NoCompare}]
  BY Mbc1Assumption, Zenon
<1>3. c.offset \in Offsets /\ c.replace \in Values /\ c.area \in {"low", "high"}
  BY <1>2
<1>4. PatchedBanks(c.area) \subseteq 0..numBanks
  BY <1>1 DEF PatchedBanks
<1>5. ASSUME NEW x \in Cells
      PROVE  x \in Reach[c] <=> x[1] \in PatchedBanks(c.area) /\ x[2] = c.offset
  BY DEF Cells, Reach
<1>6. ASSUME NEW b \in PatchedBanks(c.area)
      PROVE  <<b, c.offset>> \in Cells /\ <<b, c.offset>> \in Reach[c]
  BY <1>3, <1>4 DEF Cells, Reach
<1> QED BY <1>3, <1>4, <1>5, <1>6

LEMMA FileIsTyped ==
  ASSUME numBanks \in RomSizes
  PROVE  FileBytes \in [Cells -> Values]
<1>1. numBanks \in 2..MaxBanks /\ MaxBanks \in Nat
  BY Mbc1Assumption DEF MaxBanks
<1>2. Cells \subseteq (0..MaxBanks) \X Offsets
  BY <1>1 DEF Cells
<1>3. Rom0 \in [(0..MaxBanks) \X Offsets -> Values]
  BY Mbc1Assumption
<1> QED BY <1>2, <1>3 DEF FileBytes

(* Without cheats the stack is the file.                                    *)
LEMMA CheatInit == Init => CheatInv
<1> SUFFICES ASSUME Init PROVE CheatInv
  OBVIOUS
<1> DEFINE f == [n \in {0} |-> FileBytes]
<1>1. numBanks \in RomSizes /\ genies = <<>> /\ replaced = [c \in Cheats |-> <<>>]
  BY DEF Init
<1>2. Len(genies) = 0 /\ genies \in Seq(Cheats) /\ 0..Len(genies) = {0} /\ 1..Len(genies) = {}
  BY <1>1
<1>3. rom = FileBytes
  BY DEF Init, FileBytes, Cells
<1>4. f \in [{0} -> [Cells -> Values]] /\ f[0] = FileBytes
  BY <1>1, FileIsTyped
<1> HIDE DEF f
<1>5. IsStack(f)
  BY <1>2, <1>3, <1>4 DEF IsStack, IsLaid
<1> QED BY <1>1, <1>2, <1>5 DEF CheatInv

LEMMA CheatAdd ==
  ASSUME numBanks \in RomSizes, CheatInv, NEW c \in Cheats, AddGenie(c)
  PROVE  CheatInv'
<1> SUFFICES ASSUME ~disorder' PROVE CheatInv'
  BY DEF CheatInv
<1> DEFINE r == Append(genies, c)
<1>1. /\ ~disorder /\ c \notin Active /\ genies' = r
      /\ rom' = [cell \in DOMAIN rom |->
                   IF cell[1] \in Matches(c) /\ cell[2] = c.offset THEN c.replace ELSE rom[cell]]
      /\ replaced' = [replaced EXCEPT ![c] = [b \in Matches(c) |-> rom[<<b, c.offset>>]]]
  BY DEF AddGenie
<1>2. Reach' = Reach /\ Banks' = Banks /\ Cells' = Cells /\ FileBytes' = FileBytes
  BY DEF AddGenie, size, Reach, Banks, Cells, FileBytes, PatchedBanks
<1>3. /\ genies \in Seq(Cheats)
      /\ \A i, j \in 1..Len(genies) : genies[i] = genies[j] => i = j
      /\ replaced = [d \in Cheats |-> replaced[d]]
      /\ \E f : IsStack(f)
  BY <1>1 DEF CheatInv
<1>4. /\ r \in Seq(Cheats) /\ Len(r) = Len(genies) + 1 /\ Len(genies) \in Nat
      /\ r[Len(genies) + 1] = c /\ \A n \in 1..Len(genies) : r[n] = genies[n]
  BY <1>3
<1>5. \A i \in 1..Len(genies) : genies[i] # c
  BY <1>1, <1>3 DEF Active
<1>6. PICK f : IsStack(f)
  BY <1>3
<1>7. c.replace \in Values
  BY ReachIsCells
<1> HIDE DEF r
<1>8. PICK h : IsLaid(Reach, Cells, Values, FileBytes, r, h) /\ OnTop(Reach, Cells, genies, c, f, h)
  BY <1>3, <1>6, <1>7, LaidAdd DEF IsStack, r
<1>9. rom \in [Cells -> Values] /\ rom = f[Len(genies)]
  BY <1>4, <1>6 DEF IsStack, IsLaid
<1>10. h[Len(r)] = rom'
  <2>1. h[Len(r)] \in [Cells -> Values]
    BY <1>4, <1>8 DEF IsLaid
  <2>2. ASSUME NEW x \in Cells PROVE h[Len(r)][x] = rom'[x]
    <3>1. x = <<x[1], x[2]>>
      BY DEF Cells
    <3>2. x \in Reach[c] <=> x[1] \in PatchedBanks(c.area) /\ x[2] = c.offset
      BY ReachIsCells
    <3>3. x[2] = c.offset =>
            (x[1] \in Matches(c) <=> /\ x[1] \in PatchedBanks(c.area)
                                     /\ c.compare = NoCompare \/ rom[x] = c.compare)
      BY <3>1, Zenon DEF Matches
    <3>4. rom'[x] = IF x[1] \in Matches(c) /\ x[2] = c.offset THEN c.replace ELSE rom[x]
      BY <1>1, <1>9
    <3>5. h[Len(r)][x] = Patched(Reach, c, x, rom[x])
      BY <1>4, <1>8, <1>9 DEF OnTop
    <3> QED BY <3>2, <3>3, <3>4, <3>5 DEF Patched
  <2>3. rom' = [x \in Cells |-> rom'[x]]
    BY <1>1, <1>9
  <2> QED BY <2>1, <2>2, <2>3
<1>11. ASSUME NEW i \in 1..Len(r) PROVE replaced'[r[i]] = Kept(Banks, r[i], h[i - 1])
  <2>1. CASE i = Len(genies) + 1
    <3>1. r[i] = c /\ h[i - 1] = rom
      BY <1>4, <1>8, <1>9, <2>1 DEF OnTop
    <3>2. replaced'[c] = [b \in Matches(c) |-> rom[<<b, c.offset>>]]
      BY <1>1, <1>3
    <3>3. Banks[c.area] = PatchedBanks(c.area)
      BY ReachIsCells DEF Banks
    <3>4. Matches(c) =
            {b \in Banks[c.area] : c.compare \in {NoCompare, rom[<<b, c.offset>>]}}
      BY <3>3 DEF Matches
    <3> QED BY <3>1, <3>2, <3>4 DEF Kept
  <2>2. CASE i \in 1..Len(genies)
    <3>1. r[i] = genies[i] /\ h[i - 1] = f[i - 1] /\ genies[i] # c /\ genies[i] \in Cheats
      BY <1>3, <1>4, <1>5, <1>8, <2>2 DEF OnTop
    <3>2. replaced'[genies[i]] = replaced[genies[i]]
      BY <1>1, <1>3, <3>1
    <3> QED BY <1>6, <2>2, <3>1, <3>2 DEF IsStack
  <2> QED BY <1>4, <2>1, <2>2
<1>12. IsStack(h)'
  BY <1>1, <1>2, <1>8, <1>10, <1>11 DEF IsStack
<1>13. \A i, j \in 1..Len(r) : r[i] = r[j] => i = j
  BY <1>3, <1>4, <1>5
<1>14. replaced' = [d \in Cheats |-> replaced'[d]]
  BY <1>1, <1>3
<1> QED BY <1>1, <1>4, <1>12, <1>13, <1>14 DEF CheatInv

(* Cheats of different addresses patch different cells.                     *)
LEMMA ReachApart ==
  ASSUME numBanks \in RomSizes, NEW c \in Cheats, NEW d \in Cheats, ~SameAddress(c, d)
  PROVE  Reach[c] \cap Reach[d] = {}
<1>1. c.area \in {"low", "high"} /\ d.area \in {"low", "high"}
  BY ReachIsCells
<1>2. CASE c.offset # d.offset
  BY <1>2 DEF Reach
<1>3. CASE c.area # d.area
  <2>1. PatchedBanks("low") \cap PatchedBanks("high") = {}
    BY DEF PatchedBanks
  <2>2. PatchedBanks(c.area) \cap PatchedBanks(d.area) = {}
    BY <1>1, <1>3, <2>1
  <2> QED BY <2>2 DEF Reach
<1> QED BY <1>2, <1>3 DEF SameAddress

LEMMA CheatRemove ==
  ASSUME numBanks \in RomSizes, CheatInv, NEW c \in Cheats, RemoveGenie(c)
  PROVE  CheatInv'
<1> SUFFICES ASSUME ~disorder' PROVE CheatInv'
  BY DEF CheatInv
<1>1. PICK i \in DOMAIN genies :
        /\ genies[i] = c
        /\ rom' = [cell \in DOMAIN rom |->
                     IF cell[1] \in DOMAIN replaced[c] /\ cell[2] = c.offset
                     THEN replaced[c][cell[1]] ELSE rom[cell]]
        /\ genies' = RemoveAt(genies, i)
        /\ replaced' = [replaced EXCEPT ![c] = <<>>]
        /\ ~disorder /\ \A j \in i + 1..Len(genies) : ~SameAddress(c, genies[j])
  BY DEF RemoveGenie
<1> DEFINE r == RemoveAt(genies, i)
<1>2. Reach' = Reach /\ Banks' = Banks /\ Cells' = Cells /\ FileBytes' = FileBytes
  BY DEF RemoveGenie, size, Reach, Banks, Cells, FileBytes, PatchedBanks
<1>3. /\ genies \in Seq(Cheats)
      /\ \A j, k \in 1..Len(genies) : genies[j] = genies[k] => j = k
      /\ replaced = [d \in Cheats |-> replaced[d]]
      /\ \E f : IsStack(f)
  BY <1>1 DEF CheatInv
<1>4. i \in 1..Len(genies) /\ Len(genies) \in Nat \ {0} /\ \A j \in 1..Len(genies) : genies[j] \in Cheats
  BY <1>1, <1>3
<1>5. /\ r \in Seq(Cheats) /\ Len(r) = Len(genies) - 1
      /\ \A n \in 1..i - 1 : r[n] = genies[n]
      /\ \A n \in i..Len(genies) - 1 : r[n] = genies[n + 1]
  BY <1>3, <1>4, Removed
<1>6. PICK f : IsStack(f)
  BY <1>3
<1>7. \A j \in i + 1..Len(genies) : Reach[c] \cap Reach[genies[j]] = {}
  <2> SUFFICES ASSUME NEW j \in i + 1..Len(genies) PROVE Reach[c] \cap Reach[genies[j]] = {}
    OBVIOUS
  <2>1. j \in 1..Len(genies)
    BY <1>4
  <2> QED BY <1>1, <1>4, <2>1, ReachApart
<1> HIDE DEF r
<1>8. /\ \A x \in Cells : x \in Reach[c] =>
           f[Len(genies)][x] = Patched(Reach, c, x, f[i - 1][x])
      /\ \E h : IsLaid(Reach, Cells, Values, FileBytes, r, h) /\ TakenOff(Reach, Cells, genies, i, f, h)
  <2>1. \A j \in i + 1..Len(genies) : Reach[genies[i]] \cap Reach[genies[j]] = {}
    BY <1>1, <1>7
  <2>2. IsLaid(Reach, Cells, Values, FileBytes, genies, f)
    BY <1>6 DEF IsStack
  <2>3. /\ \A x \in Cells : x \in Reach[genies[i]] =>
             f[Len(genies)][x] = Patched(Reach, genies[i], x, f[i - 1][x])
        /\ \E h : /\ IsLaid(Reach, Cells, Values, FileBytes, RemoveAt(genies, i), h)
                  /\ TakenOff(Reach, Cells, genies, i, f, h)
    BY <1>3, <1>4, <2>1, <2>2, LaidRemove
  <2> QED BY <1>1, <2>3 DEF r
<1>9. PICK h : IsLaid(Reach, Cells, Values, FileBytes, r, h) /\ TakenOff(Reach, Cells, genies, i, f, h)
  BY <1>8
<1>10. /\ rom \in [Cells -> Values] /\ rom = f[Len(genies)] /\ f[i - 1] \in [Cells -> Values]
       /\ replaced[c] = Kept(Banks, c, f[i - 1])
  <2>1. i - 1 \in 0..Len(genies) /\ Len(genies) \in 0..Len(genies)
    BY <1>4
  <2>2. f \in [0..Len(genies) -> [Cells -> Values]] /\ rom = f[Len(genies)]
    BY <1>6 DEF IsStack, IsLaid
  <2> QED BY <1>1, <1>4, <1>6, <2>1, <2>2 DEF IsStack
<1>11. /\ Banks[c.area] = PatchedBanks(c.area)
       /\ DOMAIN replaced[c] =
            {b \in Banks[c.area] : c.compare \in {NoCompare, f[i - 1][<<b, c.offset>>]}}
       /\ \A b \in DOMAIN replaced[c] : replaced[c][b] = f[i - 1][<<b, c.offset>>]
  BY <1>10, ReachIsCells DEF Banks, Kept
<1>12. h[Len(r)] = rom'
  <2>1. h[Len(r)] \in [Cells -> Values] /\ Len(r) = Len(genies) - 1
    <3>1. Len(r) \in 0..Len(r)
      BY <1>4, <1>5
    <3> QED BY <1>5, <1>9, <3>1 DEF IsLaid
  <2>2. ASSUME NEW x \in Cells PROVE h[Len(r)][x] = rom'[x]
    <3>1. x = <<x[1], x[2]>>
      BY DEF Cells
    <3>2. x \in Reach[c] <=> x[1] \in PatchedBanks(c.area) /\ x[2] = c.offset
      BY ReachIsCells
    <3>3. x[2] = c.offset =>
            (x[1] \in DOMAIN replaced[c] <=> /\ x[1] \in PatchedBanks(c.area)
                                             /\ c.compare \in {NoCompare, f[i - 1][x]})
      BY <1>11, <3>1
    <3>4. rom'[x] = IF x[1] \in DOMAIN replaced[c] /\ x[2] = c.offset
                    THEN replaced[c][x[1]] ELSE rom[x]
      BY <1>1, <1>10
    <3>5. h[Len(r)][x] = IF x \in Reach[c] THEN f[i - 1][x] ELSE rom[x]
      BY <1>1, <1>9, <1>10, <2>1 DEF TakenOff
    <3>6. x[1] \in DOMAIN replaced[c] /\ x[2] = c.offset => replaced[c][x[1]] = f[i - 1][x]
      BY <1>11, <3>1
    <3>7. x \in Reach[c] /\ ~(c.compare \in {NoCompare, f[i - 1][x]}) => rom[x] = f[i - 1][x]
      BY <1>8, <1>10 DEF Patched
    <3> QED BY <3>2, <3>3, <3>4, <3>5, <3>6, <3>7
  <2>3. rom' = [x \in Cells |-> rom'[x]]
    BY <1>1, <1>10
  <2> QED BY <2>1, <2>2, <2>3
<1>13. ASSUME NEW j \in 1..Len(r) PROVE replaced'[r[j]] = Kept(Banks, r[j], h[j - 1])
  <2>1. CASE j < i
    <3>1. /\ r[j] = genies[j] /\ h[j - 1] = f[j - 1] /\ j \in 1..Len(genies)
          /\ genies[j] # c /\ genies[j] \in Cheats
      BY <1>1, <1>3, <1>4, <1>5, <1>9, <2>1 DEF TakenOff
    <3>2. replaced'[genies[j]] = replaced[genies[j]]
      BY <1>1, <1>3, <3>1
    <3> QED BY <1>6, <3>1, <3>2 DEF IsStack
  <2>2. CASE j >= i
    <3> DEFINE d == genies[j + 1]
    <3>1. /\ r[j] = d /\ j + 1 \in 1..Len(genies) /\ d # c /\ d \in Cheats
          /\ j \in i..Len(genies) - 1 /\ (j + 1) - 1 = j
      BY <1>1, <1>3, <1>4, <1>5, <2>2
    <3>2. replaced'[d] = replaced[d]
      BY <1>1, <1>3, <3>1
    <3>3. replaced[d] = Kept(Banks, d, f[j])
      BY <1>6, <3>1 DEF IsStack
    <3>4. \A x \in Cells : x \in Reach[d] => h[j - 1][x] = f[j][x]
      BY <1>9, <3>1 DEF TakenOff
    <3> HIDE DEF d
    <3>5. Banks[d.area] = PatchedBanks(d.area)
      BY <3>1, ReachIsCells DEF Banks
    <3>6. \A b \in Banks[d.area] : h[j - 1][<<b, d.offset>>] = f[j][<<b, d.offset>>]
      BY <3>1, <3>4, <3>5, ReachIsCells
    <3>7. Kept(Banks, d, f[j]) = Kept(Banks, d, h[j - 1])
      BY <3>6 DEF Kept
    <3> QED BY <3>1, <3>2, <3>3, <3>7
  <2> QED BY <1>4, <1>5, <2>1, <2>2
<1>14. IsStack(h)'
  BY <1>1, <1>2, <1>9, <1>12, <1>13 DEF IsStack, r
<1>15. \A j, k \in 1..Len(r) : r[j] = r[k] => j = k
  <2> SUFFICES ASSUME NEW j \in 1..Len(r), NEW k \in 1..Len(r), r[j] = r[k] PROVE j = k
    OBVIOUS
  <2>1. \A n \in 1..Len(r) : n \in 1..i - 1 \/ n \in i..Len(genies) - 1
    BY <1>4, <1>5
  <2>2. \A n \in 1..Len(r) : r[n] = IF n < i THEN genies[n] ELSE genies[n + 1]
    BY <1>4, <1>5, <2>1
  <2> QED BY <1>3, <1>4, <1>5, <2>2
<1>16. replaced' = [d \in Cheats |-> replaced'[d]]
  BY <1>1, <1>3
<1> QED BY <1>1, <1>5, <1>14, <1>15, <1>16 DEF CheatInv, r

LEMMA CheatInvHolds == Spec => []CheatInv
<1>1. Inv /\ CheatInv /\ [Next]_vars => CheatInv'
  <2> SUFFICES ASSUME Inv, CheatInv, [Next]_vars PROVE CheatInv'
    OBVIOUS
  <2>1. numBanks \in RomSizes
    BY DEF Inv, Registers
  <2>2. ASSUME UNCHANGED numBanks, UNCHANGED patches PROVE CheatInv'
    <3>1. Reach' = Reach /\ Banks' = Banks /\ Cells' = Cells /\ FileBytes' = FileBytes
      BY <2>2 DEF Reach, Banks, Cells, FileBytes, PatchedBanks
    <3>2. rom' = rom /\ genies' = genies /\ replaced' = replaced /\ disorder' = disorder
      BY <2>2 DEF patches
    <3>3. \A f : IsStack(f) => IsStack(f)'
      BY <3>1, <3>2 DEF IsStack
    <3> QED BY <3>2, <3>3 DEF CheatInv
  <2>3. CASE Game
    <3>1. UNCHANGED numBanks /\ UNCHANGED patches
      BY <2>3 DEF Game, WriteEnable, WriteBank, WriteHi, WriteMode, WriteRam, size
    <3> QED BY <2>2, <3>1
  <2>4. ASSUME NEW c \in Cheats, AddGenie(c) PROVE CheatInv'
    BY <2>1, <2>4, CheatAdd
  <2>5. ASSUME NEW c \in Cheats, RemoveGenie(c) PROVE CheatInv'
    BY <2>1, <2>5, CheatRemove
  <2>6. CASE UNCHANGED vars
    <3>1. UNCHANGED numBanks /\ UNCHANGED patches
      BY <2>6 DEF vars, patches
    <3> QED BY <2>2, <3>1
  <2> QED BY <2>3, <2>4, <2>5, <2>6 DEF Next, User
<1> QED BY <1>1, CheatInit, InvHolds, PTL DEF Spec

(* The ROM, with the memory behind it, is the file with the inserted cheats *)
(* laid over it: as long as cheats are removed before the later ones at      *)
(* their address, removing them restores every byte.                        *)
THEOREM RomIsTheFile == Spec => []RomIsFileAndCheats
<1>1. Inv /\ CheatInv => RomIsFileAndCheats
  <2> SUFFICES ASSUME Inv, CheatInv, ~disorder PROVE rom = Laid
    BY DEF RomIsFileAndCheats
  <2>1. genies \in Seq(Cheats) /\ numBanks \in RomSizes
    BY DEF Inv, Registers, CheatInv
  <2>2. PICK f : IsStack(f)
    BY DEF CheatInv
  <2> DEFINE over[n \in 0..Len(genies)] ==
        IF n = 0 THEN [cell \in DOMAIN rom |-> Rom0[cell]]
        ELSE LET c == genies[n]
             IN [cell \in DOMAIN rom |->
                   IF /\ cell[1] \in PatchedBanks(c.area) /\ cell[2] = c.offset
                      /\ c.compare \in {NoCompare, over[n - 1][cell]}
                   THEN c.replace ELSE over[n - 1][cell]]
             Body(v) ==
        [n \in 0..Len(genies) |->
           IF n = 0 THEN [cell \in DOMAIN rom |-> Rom0[cell]]
           ELSE LET c == genies[n]
                IN [cell \in DOMAIN rom |->
                      IF /\ cell[1] \in PatchedBanks(c.area) /\ cell[2] = c.offset
                         /\ c.compare \in {NoCompare, v[n - 1][cell]}
                      THEN c.replace ELSE v[n - 1][cell]]]
  <2>3. DOMAIN rom = Cells /\ Len(genies) \in Nat
    <3>1. Len(genies) \in 0..Len(genies)
      BY <2>1
    <3> QED BY <2>1, <2>2, <3>1 DEF IsStack, IsLaid
  <2>4. \A v : Body(v) = Layers(Reach, Cells, FileBytes, genies, v)
    <3> TAKE v
    <3>1. ASSUME NEW n \in 1..Len(genies), NEW cell \in Cells
          PROVE  cell \in Reach[genies[n]] <=>
                   cell[1] \in PatchedBanks(genies[n].area) /\ cell[2] = genies[n].offset
      <4>1. genies[n] \in Cheats
        BY <2>1
      <4> QED BY <2>1, <4>1, ReachIsCells
    <3> QED BY <2>3, <3>1 DEF Layers, Patched, FileBytes
  <2>5. f = Body(f)
    BY <2>1, <2>2, <2>4, LaidLayers DEF IsStack
  <2>6. over = Body(over)
    BY <2>5 DEF over
  <2>7. Laid = over[Len(genies)]
    BY DEF Laid
  <2> HIDE DEF over, Body
  <2>8. over = f
    BY <2>1, <2>2, <2>4, <2>6, LaidOnce DEF IsStack
  <2> QED BY <2>2, <2>7, <2>8 DEF IsStack
<1> QED BY <1>1, InvHolds, CheatInvHolds, PTL

(* A bank mapped to an area is one of those a cheat of that area patches.   *)
LEMMA MultipleOf ==
  ASSUME NEW m \in Nat \ {0}, NEW s \in Nat, NEW k \in Nat, s % m = 0
  PROVE  (k * s) % m = 0
<1>1. PICK q \in Nat : s = q * m
  <2>1. s \div m \in Nat /\ s = (s \div m) * m + (s % m)
    OBVIOUS
  <2>2. s = (s \div m) * m
    BY <2>1
  <2> HIDE <2>1
  <2>3. s \div m \in Nat
    OBVIOUS
  <2> QED BY <2>2, <2>3, Zenon
<1>2. k * s = (k * q) * m
  BY <1>1
<1>3. k * q \in Nat
  BY <1>1
<1> HIDE <1>1
<1>4. \A p \in Nat : (p * m) % m = 0
  OBVIOUS
<1> QED BY <1>2, <1>3, <1>4

LEMMA MultiplesOfStep ==
  ASSUME Registers
  PROVE  /\ LowBank \in {0, Step, 2 * Step, 3 * Step}
         /\ Step % Step = 0 /\ (2 * Step) % Step = 0 /\ (3 * Step) % Step = 0
<1>1. /\ numBanks \in Nat \ {0} /\ Step \in Nat \ {0, 1} /\ hi \in 0..3 /\ mode \in 0..1
      /\ \/ numBanks \in 2..Step /\ Step % numBanks = 0
         \/ numBanks = 2 * Step
         \/ numBanks = 4 * Step
  BY Sizes DEF Registers
<1>2. Step % Step = 0
  BY <1>1
<1>3. (2 * Step) % Step = 0 /\ (3 * Step) % Step = 0
  BY <1>1, <1>2, MultipleOf
<1> SUFFICES LowBank \in {0, Step, 2 * Step, 3 * Step}
  BY <1>2, <1>3
<1>4. CASE mode = 0
  BY <1>4 DEF LowBank
<1>5. CASE mode = 1 /\ Step % numBanks = 0
  <2>1. hi \in Nat /\ Step \in Nat /\ numBanks \in Nat \ {0} /\ Step % numBanks = 0
    BY <1>1, <1>5
  <2>2. (hi * Step) % numBanks = 0
    BY <2>1, MultipleOf
  <2> QED BY <1>5, <2>2 DEF LowBank
<1>6. CASE mode = 1 /\ numBanks = 2 * Step
  <2>1. hi = 0 \/ hi = 1 \/ hi = 2 \/ hi = 3
    BY <1>1
  <2>2. numBanks \in Nat /\ Step < numBanks /\ 3 * Step = numBanks + Step /\ 0 < numBanks
    BY <1>1, <1>6
  <2>3. 0 % numBanks = 0 /\ Step % numBanks = Step
    BY <1>1, <2>2, MaskBelow
  <2>4. (2 * Step) % numBanks = 0
    BY <1>1, <1>6
  <2>5. (3 * Step) % numBanks = 3 * Step - numBanks
    BY <1>1, <2>2, MaskOnce
  <2> QED BY <1>1, <1>6, <2>1, <2>2, <2>3, <2>4, <2>5 DEF LowBank
<1>7. CASE mode = 1 /\ numBanks = 4 * Step
  <2>1. hi * Step \in {0, Step, 2 * Step, 3 * Step}
    BY <1>1
  <2>2. hi * Step \in Nat /\ hi * Step < numBanks
    BY <1>1, <1>7
  <2>3. LowBank = hi * Step
    BY <1>1, <1>7, <2>2, MaskBelow DEF LowBank
  <2> QED BY <2>1, <2>3
<1>8. mode = 0 \/ (mode = 1 /\ Step % numBanks = 0) \/ (mode = 1 /\ numBanks = 2 * Step)
        \/ (mode = 1 /\ numBanks = 4 * Step)
  BY <1>1
<1> QED BY <1>4, <1>5, <1>6, <1>7, <1>8

LEMMA MappedIsPatched ==
  ASSUME Inv, HighBankNotX0, TypeOK
  PROVE  /\ LowBank \in PatchedBanks("low")
         /\ HighBank # 0 => HighBank \in PatchedBanks("high")
<1>1. LowBank \in 0..numBanks - 1 /\ HighBank \in 0..numBanks - 1 /\ numBanks \in Nat \ {0}
      /\ Step \in Nat \ {0, 1}
  BY Sizes DEF Inv, TypeOK
<1>2. LowBank \in {0, Step, 2 * Step, 3 * Step}
  BY MultiplesOfStep DEF Inv
<1>3. LowBank \in PatchedBanks("low")
  BY <1>1, <1>2 DEF PatchedBanks
<1>4. ASSUME HighBank # 0 PROVE HighBank \notin {Step, 2 * Step, 3 * Step}
  <2>1. CASE numBanks >= Step
    BY <2>1, MultiplesOfStep DEF Inv, HighBankNotX0
  <2>2. CASE numBanks < Step
    BY <1>1, <2>2
  <2> QED BY <1>1, <2>1, <2>2
<1>5. HighBank # 0 => HighBank \in PatchedBanks("high")
  BY <1>1, <1>4 DEF PatchedBanks
<1> QED BY <1>3, <1>5

(* The game reads an inserted cheat in whatever bank it maps.               *)
THEOREM GameSeesCheats == Spec => []CheatsAreSeen
<1>1. Inv /\ CheatInv /\ HighBankNotX0 /\ TypeOK => CheatsAreSeen
  <2> SUFFICES ASSUME Inv, CheatInv, HighBankNotX0, TypeOK, NEW i \in 1..Len(genies),
                      genies[i].compare = NoCompare, ~disorder,
                      \A j \in 1..Len(genies) : i < j => ~SameAddress(genies[i], genies[j]),
                      genies[i].area = "low" \/ HighBank # 0
               PROVE  ReadRom(genies[i].area, genies[i].offset) = genies[i].replace
    BY DEF CheatsAreSeen, CheatInv
  <2> DEFINE c == genies[i]
             x == <<MappedBank(c.area), c.offset>>
  <2>1. /\ genies \in Seq(Cheats) /\ numBanks \in RomSizes
        /\ i \in 1..Len(genies) /\ Len(genies) \in Nat /\ c \in Cheats
    BY DEF Inv, Registers, CheatInv
  <2>2. PICK f : IsStack(f)
    BY DEF CheatInv
  <2>3. MappedBank(c.area) \in PatchedBanks(c.area)
    BY <2>1, MappedIsPatched, ReachIsCells DEF MappedBank
  <2>4. x \in Cells /\ x \in Reach[c]
    BY <2>1, <2>3, ReachIsCells
  <2> HIDE DEF x
  <2>5. f[i][x] = c.replace
    BY <2>1, <2>2, <2>4 DEF IsStack, IsLaid, Patched
  <2>6. \A j \in i + 1..Len(genies) : x \notin Reach[genies[j]]
    <3> SUFFICES ASSUME NEW j \in i + 1..Len(genies) PROVE x \notin Reach[genies[j]]
      OBVIOUS
    <3>1. j \in DOMAIN genies /\ i < j /\ genies[j] \in Cheats
      BY <2>1
    <3>2. Reach[c] \cap Reach[genies[j]] = {}
      BY <2>1, <3>1, ReachApart
    <3> QED BY <2>4, <3>2
  <2>7. f[Len(genies)][x] = f[i][x]
    <3>1. i \in 0..Len(genies) /\ IsLaid(Reach, Cells, Values, FileBytes, genies, f)
      BY <2>1, <2>2 DEF IsStack
    <3>2. PICK base : base = FileBytes
      OBVIOUS
    <3>3. IsLaid(Reach, Cells, Values, base, genies, f)
      BY <3>1, <3>2
    <3>4. \A y \in Cells : (\A j \in i + 1..Len(genies) : y \notin Reach[genies[j]])
                            => f[Len(genies)][y] = f[i][y]
      <4> SUFFICES ASSUME NEW y \in Cells,
                          \A j \in i + 1..Len(genies) : y \notin Reach[genies[j]]
                   PROVE  f[Len(genies)][y] = f[i][y]
        OBVIOUS
      <4>1. genies \in Seq(Cheats) /\ i \in 0..Len(genies)
        BY <2>1
      <4> QED BY <3>3, <4>1, LaidStays
    <3> QED BY <2>4, <2>6, <3>4
  <2> QED BY <2>2, <2>5, <2>7 DEF IsStack, ReadRom, x
<1> QED BY <1>1, InvHolds, CheatInvHolds, TypeCorrect, HighBankIsNotX0, PTL

-----------------------------------------------------------------------------
(* MBC3 and ROM only: the same layers, of one cell each, for what is in the *)
(* first two banks; the others keep the file until a removal writes to them. *)

Test(c) == <<IF c.area = "low" THEN 0 ELSE 1, c.offset>>

Tests == [c \in OtherCheats |-> {Test(c)}]

OtherCells == (0..total - 1) \X Offsets

OtherFile == [cell \in OtherCells |-> Rom0[cell]]

OtherValues == Values \cup {Rom0[cell] : cell \in OtherCells}

(* What an n-bank cartridge of class k keeps for c if c finds w.            *)
Saved(k, n, c, w) ==
  LET more == IF c.area = "high" /\ c.compare \in {NoCompare, c.replace} THEN 2..n - 1 ELSE {}
  IN IF c.compare \notin {NoCompare, w} THEN <<>>
     ELSE IF k = "ROM" THEN <<w>>
     ELSE [b \in {Test(c)[1]} \cup more |-> IF b = Test(c)[1] THEN w ELSE c.replace]

IsOtherStack(f) ==
  /\ IsLaid(Tests, OtherCells, OtherValues, OtherFile, inserted, f)
  /\ \A x \in OtherCells : x[1] \in {0, 1} => file[x] = f[Len(inserted)][x]
  /\ \A i \in 1..Len(inserted) :
       kept[inserted[i]] = Saved(chip, total, inserted[i], f[i - 1][Test(inserted[i])])

OtherCheatInv ==
  ~mixed =>
    /\ inserted \in Seq(OtherCheats)
    /\ \A i, j \in 1..Len(inserted) : inserted[i] = inserted[j] => i = j
    /\ kept = [c \in OtherCheats |-> kept[c]]
    /\ \E f : IsOtherStack(f)

OtherBanks ==
  /\ chip \in {"MBC3", "ROM"} /\ total \in Nat \ {0, 1} /\ bank \in Nat
  /\ file = [cell \in OtherCells |-> file[cell]]
  /\ \A x \in OtherCells : x[1] \notin {0, 1} => x[2] \in spoilt \/ file[x] = Rom0[x]
  /\ chip = "ROM" => total = 2

OtherInv == chip # "MBC1" => OtherBanks /\ OtherCheatInv

LEMMA TestIsCell ==
  ASSUME total \in Nat \ {0, 1}, NEW c \in OtherCheats
  PROVE  /\ Test(c) \in OtherCells /\ Test(c)[1] \in {0, 1} /\ Test(c)[2] = c.offset
         /\ Tests[c] = {Test(c)} /\ c.replace \in OtherValues
<1>1. c \in [area : {"low", "high"}, offset : Offsets, replace : Values,
             compare : Values \cup {NoCompare}]
  BY CardsAssumption, Zenon
<1> QED BY <1>1 DEF Test, Tests, OtherCells, OtherValues

LEMMA OtherInit == CreateCartridge => OtherInv
<1> SUFFICES ASSUME CreateCartridge, chip # "MBC1" PROVE OtherBanks /\ OtherCheatInv
  BY DEF OtherInv
<1> DEFINE f == [n \in {0} |-> OtherFile]
<1>1. /\ chip \in {"MBC3", "ROM"} /\ total \in Nat \ {0, 1} /\ bank = 1
      /\ file = OtherFile /\ inserted = <<>> /\ kept = [c \in OtherCheats |-> <<>>]
      /\ chip = "ROM" => total = 2
  <2>1. CASE chip = "MBC3" /\ Mbc3Card!Init
    BY <2>1, CardsAssumption DEF Mbc3Card!Init, OtherFile, OtherCells
  <2>2. CASE chip = "ROM" /\ RomCard!Init /\ NoCard
    <3>1. total = 2 /\ 0..total - 1 = 0..1
      BY <2>2 DEF NoCard
    <3> QED BY <2>2, <3>1 DEF RomCard!Init, NoCard, OtherFile, OtherCells
  <2> QED BY <2>1, <2>2 DEF CreateCartridge
<1>2. Len(inserted) = 0 /\ inserted \in Seq(OtherCheats)
      /\ 0..Len(inserted) = {0} /\ 1..Len(inserted) = {}
  BY <1>1
<1>3. f \in [{0} -> [OtherCells -> OtherValues]] /\ f[0] = OtherFile
  BY DEF OtherFile, OtherValues
<1> HIDE DEF f
<1>4. IsOtherStack(f)
  BY <1>1, <1>2, <1>3 DEF IsOtherStack, IsLaid
<1>5. OtherBanks
  BY <1>1 DEF OtherBanks, OtherFile
<1> QED BY <1>1, <1>2, <1>4, <1>5 DEF OtherCheatInv

(* What the AddGenie of both classes does keeps the stack.                  *)
LEMMA OtherAdd ==
  ASSUME OtherBanks, OtherCheatInv, NEW c \in OtherCheats,
         \A i \in 1..Len(inserted) : inserted[i] # c,
         inserted' = Append(inserted, c), mixed' = mixed, chip' = chip, total' = total,
         kept' = [kept EXCEPT ![c] = Saved(chip, total, c, file[Test(c)])],
         file' = [file EXCEPT ![Test(c)] =
                    IF c.compare \in {NoCompare, file[Test(c)]} THEN c.replace ELSE file[Test(c)]]
  PROVE  OtherCheatInv'
<1> SUFFICES ASSUME ~mixed' PROVE OtherCheatInv'
  BY DEF OtherCheatInv
<1> DEFINE r == Append(inserted, c)
<1>1. Tests' = Tests /\ OtherCells' = OtherCells /\ OtherFile' = OtherFile /\ OtherValues' = OtherValues
  BY DEF Tests, OtherCells, OtherFile, OtherValues
<1>2. /\ inserted \in Seq(OtherCheats)
      /\ \A i, j \in 1..Len(inserted) : inserted[i] = inserted[j] => i = j
      /\ kept = [d \in OtherCheats |-> kept[d]]
      /\ \E f : IsOtherStack(f)
  BY DEF OtherCheatInv
<1>3. /\ r \in Seq(OtherCheats) /\ Len(r) = Len(inserted) + 1 /\ Len(inserted) \in Nat
      /\ r[Len(inserted) + 1] = c /\ \A n \in 1..Len(inserted) : r[n] = inserted[n]
  BY <1>2
<1>4. /\ total \in Nat \ {0, 1} /\ file = [x \in OtherCells |-> file[x]]
  BY DEF OtherBanks
<1>5. PICK f : IsOtherStack(f)
  BY <1>2
<1>6. /\ Test(c) \in OtherCells /\ Test(c)[1] \in {0, 1} /\ Tests[c] = {Test(c)}
      /\ c.replace \in OtherValues
  BY <1>4, TestIsCell
<1> HIDE DEF r
<1>7. PICK h : /\ IsLaid(Tests, OtherCells, OtherValues, OtherFile, r, h)
               /\ OnTop(Tests, OtherCells, inserted, c, f, h)
  BY <1>2, <1>5, <1>6, LaidAdd DEF IsOtherStack, r
<1>8. ASSUME NEW x \in OtherCells, x[1] \in {0, 1} PROVE file'[x] = h[Len(r)][x]
  <2>1. file[x] = f[Len(inserted)][x]
    BY <1>5, <1>8 DEF IsOtherStack
  <2>2. h[Len(r)][x] = Patched(Tests, c, x, file[x])
    BY <1>3, <1>7, <2>1 DEF OnTop
  <2>3. file'[x] = IF x = Test(c) /\ c.compare \in {NoCompare, file[x]} THEN c.replace ELSE file[x]
    BY <1>4
  <2> QED BY <1>6, <2>2, <2>3 DEF Patched
<1>9. ASSUME NEW i \in 1..Len(r)
      PROVE  kept'[r[i]] = Saved(chip, total, r[i], h[i - 1][Test(r[i])])
  <2>1. CASE i = Len(inserted) + 1
    <3>1. r[i] = c /\ h[i - 1] = f[Len(inserted)]
      BY <1>3, <1>7, <2>1 DEF OnTop
    <3>2. file[Test(c)] = f[Len(inserted)][Test(c)]
      BY <1>5, <1>6 DEF IsOtherStack
    <3>3. kept'[c] = Saved(chip, total, c, file[Test(c)])
      BY <1>2
    <3> QED BY <3>1, <3>2, <3>3
  <2>2. CASE i \in 1..Len(inserted)
    <3>1. r[i] = inserted[i] /\ h[i - 1] = f[i - 1] /\ inserted[i] # c
          /\ inserted[i] \in OtherCheats
      BY <1>2, <1>3, <1>7, <2>2 DEF OnTop
    <3>2. kept'[inserted[i]] = kept[inserted[i]]
      BY <1>2, <3>1
    <3> QED BY <1>5, <2>2, <3>1, <3>2 DEF IsOtherStack
  <2> QED BY <1>3, <2>1, <2>2
<1>10. IsOtherStack(h)'
  BY <1>1, <1>7, <1>8, <1>9 DEF IsOtherStack, r
<1>11. \A i, j \in 1..Len(r) : r[i] = r[j] => i = j
  <2> SUFFICES ASSUME NEW i \in 1..Len(r), NEW j \in 1..Len(r), r[i] = r[j] PROVE i = j
    OBVIOUS
  <2>1. \A n \in 1..Len(r) : n \in 1..Len(inserted) \/ n = Len(inserted) + 1
    BY <1>3
  <2> QED BY <1>2, <1>3, <2>1
<1>12. kept' = [d \in OtherCheats |-> kept'[d]]
  BY <1>2
<1> QED BY <1>3, <1>10, <1>11, <1>12 DEF OtherCheatInv, r

(* So does what their RemoveGenie does to the cells of the first two banks.  *)
LEMMA OtherRemove ==
  ASSUME OtherBanks, OtherCheatInv, NEW c \in OtherCheats, NEW i \in 1..Len(inserted),
         inserted[i] = c, inserted' = RemoveAt(inserted, i), chip' = chip, total' = total,
         ~mixed' => ~mixed /\ \A j \in i + 1..Len(inserted) : Test(inserted[j]) # Test(c),
         kept' = [kept EXCEPT ![c] = <<>>],
         \A w : \A x \in OtherCells :
           kept[c] = Saved(chip, total, c, w) /\ x[1] \in {0, 1}
           => file'[x] = IF x = Test(c) /\ c.compare \in {NoCompare, w} THEN w ELSE file[x]
  PROVE  OtherCheatInv'
<1> SUFFICES ASSUME ~mixed' PROVE OtherCheatInv'
  BY DEF OtherCheatInv
<1> DEFINE r == RemoveAt(inserted, i)
<1>1. Tests' = Tests /\ OtherCells' = OtherCells /\ OtherFile' = OtherFile /\ OtherValues' = OtherValues
  BY DEF Tests, OtherCells, OtherFile, OtherValues
<1>2. /\ inserted \in Seq(OtherCheats)
      /\ \A j, k \in 1..Len(inserted) : inserted[j] = inserted[k] => j = k
      /\ kept = [d \in OtherCheats |-> kept[d]]
      /\ \E f : IsOtherStack(f)
  BY DEF OtherCheatInv
<1>3. Len(inserted) \in Nat \ {0} /\ \A j \in 1..Len(inserted) : inserted[j] \in OtherCheats
  BY <1>2
<1>4. /\ r \in Seq(OtherCheats) /\ Len(r) = Len(inserted) - 1
      /\ \A n \in 1..i - 1 : r[n] = inserted[n]
      /\ \A n \in i..Len(inserted) - 1 : r[n] = inserted[n + 1]
  BY <1>2, Removed
<1>5. PICK f : IsOtherStack(f)
  BY <1>2
<1>6. total \in Nat \ {0, 1}
  BY DEF OtherBanks
<1>7. \A d \in OtherCheats : Test(d) \in OtherCells /\ Test(d)[1] \in {0, 1} /\ Tests[d] = {Test(d)}
  BY <1>6, TestIsCell
<1>8. \A j \in i + 1..Len(inserted) : Tests[inserted[i]] \cap Tests[inserted[j]] = {}
  <2> SUFFICES ASSUME NEW j \in i + 1..Len(inserted)
               PROVE  Tests[inserted[i]] \cap Tests[inserted[j]] = {}
    OBVIOUS
  <2>1. j \in 1..Len(inserted) /\ Test(inserted[j]) # Test(c)
    BY <1>3
  <2> QED BY <1>3, <1>7, <2>1
<1> HIDE DEF r
<1>9. /\ \A x \in OtherCells : x \in Tests[inserted[i]] =>
           f[Len(inserted)][x] = Patched(Tests, inserted[i], x, f[i - 1][x])
      /\ \E h : /\ IsLaid(Tests, OtherCells, OtherValues, OtherFile, r, h)
                /\ TakenOff(Tests, OtherCells, inserted, i, f, h)
  BY <1>2, <1>5, <1>8, LaidRemove DEF IsOtherStack, r
<1>10. PICK h : /\ IsLaid(Tests, OtherCells, OtherValues, OtherFile, r, h)
                /\ TakenOff(Tests, OtherCells, inserted, i, f, h)
  BY <1>9
<1> DEFINE w == f[i - 1][Test(c)]
<1>11. kept[c] = Saved(chip, total, c, w)
  BY <1>5 DEF IsOtherStack
<1>12. ASSUME NEW x \in OtherCells, x[1] \in {0, 1} PROVE file'[x] = h[Len(r)][x]
  <2>1. file[x] = f[Len(inserted)][x]
    BY <1>5, <1>12 DEF IsOtherStack
  <2>2. file'[x] = IF x = Test(c) /\ c.compare \in {NoCompare, w} THEN w ELSE file[x]
    BY <1>11, <1>12
  <2>3. h[Len(r)][x] = IF x = Test(c) THEN f[i - 1][x] ELSE file[x]
    BY <1>4, <1>7, <1>10, <2>1 DEF TakenOff
  <2>4. x = Test(c) => file[x] = Patched(Tests, c, x, w)
    BY <1>7, <1>9, <2>1
  <2> QED BY <1>7, <2>2, <2>3, <2>4 DEF Patched
<1>13. ASSUME NEW j \in 1..Len(r)
       PROVE  kept'[r[j]] = Saved(chip, total, r[j], h[j - 1][Test(r[j])])
  <2>1. CASE j < i
    <3>1. /\ r[j] = inserted[j] /\ h[j - 1] = f[j - 1] /\ j \in 1..Len(inserted)
          /\ inserted[j] # c /\ inserted[j] \in OtherCheats
      BY <1>2, <1>3, <1>4, <1>10, <2>1 DEF TakenOff
    <3>2. kept'[inserted[j]] = kept[inserted[j]]
      BY <1>2, <3>1
    <3> QED BY <1>5, <3>1, <3>2 DEF IsOtherStack
  <2>2. CASE j >= i
    <3> DEFINE d == inserted[j + 1]
    <3>1. /\ r[j] = d /\ j + 1 \in 1..Len(inserted) /\ d # c /\ d \in OtherCheats
          /\ j \in i..Len(inserted) - 1 /\ (j + 1) - 1 = j
      BY <1>2, <1>3, <1>4, <2>2
    <3>2. kept'[d] = kept[d]
      BY <1>2, <3>1
    <3>3. kept[d] = Saved(chip, total, d, f[j][Test(d)])
      BY <1>5, <3>1 DEF IsOtherStack
    <3>4. h[j - 1][Test(d)] = f[j][Test(d)]
      BY <1>7, <1>10, <3>1 DEF TakenOff
    <3> QED BY <3>1, <3>2, <3>3, <3>4
  <2> QED BY <1>3, <1>4, <2>1, <2>2
<1>14. IsOtherStack(h)'
  BY <1>1, <1>10, <1>12, <1>13 DEF IsOtherStack, r
<1>15. \A j, k \in 1..Len(r) : r[j] = r[k] => j = k
  <2> SUFFICES ASSUME NEW j \in 1..Len(r), NEW k \in 1..Len(r), r[j] = r[k] PROVE j = k
    OBVIOUS
  <2>1. \A n \in 1..Len(r) : n \in 1..i - 1 \/ n \in i..Len(inserted) - 1
    BY <1>3, <1>4
  <2>2. \A n \in 1..Len(r) : r[n] = IF n < i THEN inserted[n] ELSE inserted[n + 1]
    BY <1>3, <1>4, <2>1
  <2>3. \A n \in 1..Len(r) : n \in 1..Len(inserted) /\ (n >= i => n + 1 \in 1..Len(inserted))
    BY <1>3, <1>4
  <2>4. j < i \/ j >= i
    OBVIOUS
  <2> HIDE <1>4
  <2>5. j \in Nat /\ k \in Nat /\ i \in Nat
    BY <1>4
  <2>6. CASE j < i /\ k < i
    BY <1>2, <2>2, <2>3, <2>6
  <2>7. CASE j >= i /\ k >= i
    BY <1>2, <2>2, <2>3, <2>5, <2>7
  <2>8. CASE j < i /\ k >= i
    BY <1>2, <2>2, <2>3, <2>5, <2>8
  <2>9. CASE j >= i /\ k < i
    BY <1>2, <2>2, <2>3, <2>5, <2>9
  <2> QED BY <2>5, <2>6, <2>7, <2>8, <2>9
<1>16. kept' = [d \in OtherCheats |-> kept'[d]]
  BY <1>2
<1> QED BY <1>4, <1>14, <1>15, <1>16 DEF OtherCheatInv, r

LEMMA OtherStep == OtherInv /\ CardNext => OtherInv'
<1> SUFFICES ASSUME OtherInv, CardNext, chip # "MBC1" PROVE OtherBanks' /\ OtherCheatInv'
  BY DEF OtherInv, CardNext
<1>1. OtherBanks /\ OtherCheatInv /\ chip' = chip
  BY DEF OtherInv, CardNext
<1>2. /\ total \in Nat \ {0, 1} /\ bank \in Nat /\ file = [x \in OtherCells |-> file[x]]
      /\ \A x \in OtherCells : x[1] \notin {0, 1} => x[2] \in spoilt \/ file[x] = Rom0[x]
      /\ chip = "ROM" => total = 2
  BY <1>1 DEF OtherBanks
<1>3. \A c \in OtherCheats :
        /\ Test(c) \in OtherCells /\ Test(c)[1] \in {0, 1} /\ Test(c)[2] = c.offset
        /\ c.area \in {"low", "high"}
  <2> SUFFICES ASSUME NEW c \in OtherCheats
               PROVE  /\ Test(c) \in OtherCells /\ Test(c)[1] \in {0, 1}
                      /\ Test(c)[2] = c.offset /\ c.area \in {"low", "high"}
    OBVIOUS
  <2>1. c.area \in {"low", "high"}
    BY CardsAssumption
  <2> QED BY <1>2, <2>1, TestIsCell
<1>4. CASE chip = "MBC3"
  <2>1. total' = total /\ OtherCells' = OtherCells
    BY <1>4 DEF CardNext, Mbc3Card!Next, Mbc3Card!WriteBank, Mbc3Card!AddGenie,
                Mbc3Card!RemoveGenie, OtherCells
  <2>2. ASSUME NEW v \in 0..4 * total - 1, Mbc3Card!WriteBank(v)
        PROVE  OtherBanks' /\ OtherCheatInv'
    <3>1. /\ file' = file /\ inserted' = inserted /\ kept' = kept /\ mixed' = mixed
          /\ spoilt' = spoilt
      BY <2>2 DEF Mbc3Card!WriteBank
    <3>2. bank' \in Nat
      <4> DEFINE n == IF v = 0 THEN 1 ELSE v
      <4>1. n \in Nat /\ bank' = IF (n \div total) % 2 = 1 THEN n - total ELSE n
        BY <1>2, <2>2 DEF Mbc3Card!WriteBank
      <4> HIDE DEF n
      <4>2. n < total => n \div total = 0
        BY <1>2, <4>1
      <4>3. (n \div total) % 2 = 1 => n >= total
        BY <1>2, <4>1, <4>2
      <4> QED BY <1>2, <4>1, <4>3
    <3>3. OtherCheatInv'
      BY <1>1, <2>1, <3>1 DEF OtherCheatInv, IsOtherStack, Tests, OtherFile, OtherValues
    <3> QED BY <1>1, <1>2, <2>1, <3>1, <3>2, <3>3 DEF OtherBanks
  <2>3. ASSUME NEW c \in OtherCheats, Mbc3Card!AddGenie(c)
        PROVE  OtherBanks' /\ OtherCheatInv'
    <3>1. /\ \A i \in 1..Len(inserted) : inserted[i] # c
          /\ inserted' = Append(inserted, c) /\ mixed' = mixed /\ bank' = bank
          /\ spoilt' = spoilt
      BY <2>3, <1>1 DEF Mbc3Card!AddGenie, Mbc3Card!Active
    <3>2. Test(c) = Mbc3Card!Tested(c)
      BY DEF Test, Mbc3Card!Tested
    <3>3. kept' = [kept EXCEPT ![c] = Saved(chip, total, c, file[Test(c)])]
      <4>1. Mbc3Card!Replaces(c) = Saved(chip, total, c, file[Test(c)])
        BY <1>4, <3>2 DEF Mbc3Card!Replaces, Mbc3Card!Matches, Saved
      <4> QED BY <2>3, <4>1 DEF Mbc3Card!AddGenie
    <3>4. file' = [file EXCEPT ![Test(c)] =
                     IF c.compare \in {NoCompare, file[Test(c)]} THEN c.replace ELSE file[Test(c)]]
      BY <1>2, <2>3, <3>2 DEF Mbc3Card!AddGenie, Mbc3Card!Matches
    <3>5. OtherCheatInv'
      BY <1>1, <2>1, <3>1, <3>3, <3>4, OtherAdd
    <3>6. OtherBanks'
      BY <1>1, <1>2, <1>3, <2>1, <3>1, <3>4 DEF OtherBanks
    <3> QED BY <3>5, <3>6
  <2>4. ASSUME NEW c \in OtherCheats, Mbc3Card!RemoveGenie(c)
        PROVE  OtherBanks' /\ OtherCheatInv'
    <3>1. PICK i \in DOMAIN inserted :
            /\ inserted[i] = c
            /\ file' = [x \in DOMAIN file |->
                          IF x[2] = c.offset /\ x[1] \in DOMAIN kept[c]
                          THEN kept[c][x[1]] ELSE file[x]]
            /\ inserted' = RemoveAt(inserted, i)
            /\ kept' = [kept EXCEPT ![c] = <<>>]
            /\ ~mixed' => ~mixed /\ \A j \in i + 1..Len(inserted) :
                                    Mbc3Card!Tested(inserted[j]) # Mbc3Card!Tested(c)
            /\ spoilt' = IF DOMAIN kept[c] \subseteq {0, 1} THEN spoilt ELSE spoilt \cup {c.offset}
            /\ UNCHANGED <<total, bank>>
      BY <2>4 DEF Mbc3Card!RemoveGenie, Mbc3Card!RemoveAt, RemoveAt
    <3>2. ASSUME NEW w, NEW x \in OtherCells, kept[c] = Saved(chip, total, c, w), x[1] \in {0, 1}
          PROVE  file'[x] = IF x = Test(c) /\ c.compare \in {NoCompare, w} THEN w ELSE file[x]
      <4>1. file'[x] = IF x[2] = c.offset /\ x[1] \in DOMAIN kept[c]
                       THEN kept[c][x[1]] ELSE file[x]
        BY <1>2, <3>1
      <4>2. x = Test(c) <=> x[1] = Test(c)[1] /\ x[2] = c.offset
        BY DEF OtherCells, Test
      <4>3. CASE c.compare \notin {NoCompare, w}
        <5>1. kept[c] = <<>>
          BY <3>2, <4>3 DEF Saved
        <5>2. x[1] \notin DOMAIN kept[c]
          BY <5>1
        <5> QED BY <4>1, <4>3, <5>2
      <4>4. CASE c.compare \in {NoCompare, w}
        <5>1. /\ x[1] \in DOMAIN kept[c] <=> x[1] = Test(c)[1]
              /\ kept[c][Test(c)[1]] = w
          BY <1>2, <1>3, <1>4, <3>2, <4>4 DEF Saved
        <5> QED BY <4>1, <4>2, <4>4, <5>1
      <4> QED BY <4>3, <4>4
    <3>3. OtherBanks'
      <4>1. ASSUME NEW x \in OtherCells, x[1] \notin {0, 1}
            PROVE  x[2] \in spoilt' \/ file'[x] = Rom0[x]
        <5>1. file'[x] = IF x[2] = c.offset /\ x[1] \in DOMAIN kept[c]
                         THEN kept[c][x[1]] ELSE file[x]
          BY <1>2, <3>1
        <5> QED BY <1>2, <3>1, <4>1, <5>1
      <4>2. file' = [x \in OtherCells |-> file'[x]]
        BY <1>2, <3>1
      <4> QED BY <1>1, <1>2, <2>1, <3>1, <4>1, <4>2 DEF OtherBanks
    <3>4. ~mixed' => ~mixed /\ \A j \in i + 1..Len(inserted) : Test(inserted[j]) # Test(c)
      BY <3>1 DEF Mbc3Card!Tested, Test
    <3>5. CASE ~mixed'
      <4>1. i \in 1..Len(inserted)
        BY <1>1, <3>1, <3>4, <3>5 DEF OtherCheatInv
      <4>2. \A w : \A x \in OtherCells :
              kept[c] = Saved(chip, total, c, w) /\ x[1] \in {0, 1}
              => file'[x] = IF x = Test(c) /\ c.compare \in {NoCompare, w} THEN w ELSE file[x]
        BY <3>2
      <4>3. /\ inserted[i] = c /\ inserted' = RemoveAt(inserted, i)
            /\ kept' = [kept EXCEPT ![c] = <<>>] /\ total' = total /\ chip' = chip
        BY <1>1, <2>1, <3>1
      <4>4. OtherCheatInv'
        BY <1>1, <3>4, <4>1, <4>2, <4>3, OtherRemove
      <4> QED BY <3>3, <4>4
    <3>6. CASE mixed'
      BY <3>3, <3>6 DEF OtherCheatInv
    <3> QED BY <3>5, <3>6
  <2> QED BY <1>4, <2>2, <2>3, <2>4 DEF CardNext, Mbc3Card!Next
<1>5. CASE chip = "ROM"
  <2>1. total' = total /\ bank' = bank /\ spoilt' = spoilt /\ OtherCells' = OtherCells
    BY <1>5 DEF CardNext, OtherCells
  <2>2. \A c : Test(c) = RomCard!Patched(c)
    BY DEF Test, RomCard!Patched
  <2>3. ASSUME NEW c \in OtherCheats, RomCard!AddGenie(c)
        PROVE  OtherBanks' /\ OtherCheatInv'
    <3>1. /\ \A i \in 1..Len(inserted) : inserted[i] # c
          /\ inserted' = Append(inserted, c) /\ mixed' = mixed
      BY <2>3, <1>1 DEF RomCard!AddGenie, RomCard!Active
    <3>2. kept' = [kept EXCEPT ![c] = Saved(chip, total, c, file[Test(c)])]
      BY <1>5, <2>2, <2>3 DEF RomCard!AddGenie, Saved
    <3>3. file' = [file EXCEPT ![Test(c)] =
                     IF c.compare \in {NoCompare, file[Test(c)]} THEN c.replace ELSE file[Test(c)]]
      BY <1>2, <2>2, <2>3 DEF RomCard!AddGenie
    <3>4. OtherCheatInv'
      BY <1>1, <2>1, <3>1, <3>2, <3>3, OtherAdd
    <3>5. OtherBanks'
      BY <1>1, <1>2, <1>3, <2>1, <3>3 DEF OtherBanks
    <3> QED BY <3>4, <3>5
  <2>4. ASSUME NEW c \in OtherCheats, RomCard!RemoveGenie(c)
        PROVE  OtherBanks' /\ OtherCheatInv'
    <3>1. PICK i \in DOMAIN inserted :
            /\ inserted[i] = c /\ kept[c] # <<>>
            /\ file' = [file EXCEPT ![Test(c)] = kept[c][1]]
            /\ inserted' = RemoveAt(inserted, i)
            /\ kept' = [kept EXCEPT ![c] = <<>>]
            /\ ~mixed' => ~mixed /\ \A j \in i + 1..Len(inserted) : Test(inserted[j]) # Test(c)
      BY <2>2, <2>4 DEF RomCard!RemoveGenie, RomCard!RemoveAt, RemoveAt
    <3>2. ASSUME NEW w, NEW x \in OtherCells, kept[c] = Saved(chip, total, c, w), x[1] \in {0, 1}
          PROVE  file'[x] = IF x = Test(c) /\ c.compare \in {NoCompare, w} THEN w ELSE file[x]
      <4>1. c.compare \in {NoCompare, w}
        BY <3>1, <3>2 DEF Saved
      <4>2. kept[c] = <<w>>
        BY <1>5, <3>2, <4>1 DEF Saved
      <4> QED BY <1>2, <3>1, <4>1, <4>2
    <3>3. OtherBanks'
      BY <1>1, <1>2, <1>3, <2>1, <3>1 DEF OtherBanks
    <3>4. ~mixed' => ~mixed /\ \A j \in i + 1..Len(inserted) : Test(inserted[j]) # Test(c)
      BY <3>1
    <3>5. CASE ~mixed'
      <4>1. i \in 1..Len(inserted)
        BY <1>1, <3>1, <3>4, <3>5 DEF OtherCheatInv
      <4>2. \A w : \A x \in OtherCells :
              kept[c] = Saved(chip, total, c, w) /\ x[1] \in {0, 1}
              => file'[x] = IF x = Test(c) /\ c.compare \in {NoCompare, w} THEN w ELSE file[x]
        BY <3>2
      <4>3. /\ inserted[i] = c /\ inserted' = RemoveAt(inserted, i)
            /\ kept' = [kept EXCEPT ![c] = <<>>] /\ total' = total /\ chip' = chip
        BY <1>1, <2>1, <3>1
      <4>4. OtherCheatInv'
        BY <1>1, <3>4, <4>1, <4>2, <4>3, OtherRemove
      <4> QED BY <3>3, <4>4
    <3>6. CASE mixed'
      BY <3>3, <3>6 DEF OtherCheatInv
    <3> QED BY <3>5, <3>6
  <2> QED BY <1>5, <2>3, <2>4 DEF CardNext, RomCard!Next
<1> QED BY <1>1, <1>4, <1>5 DEF OtherBanks

LEMMA OtherInvHolds == CardSpec => []OtherInv
<1>1. OtherInv /\ [CardNext]_<<chip, vars, otherVars>> => OtherInv'
  <2>1. ASSUME OtherInv, UNCHANGED <<chip, vars, otherVars>> PROVE OtherInv'
    <3>1. /\ chip' = chip /\ total' = total /\ bank' = bank /\ file' = file
          /\ inserted' = inserted /\ kept' = kept /\ mixed' = mixed /\ spoilt' = spoilt
      BY <2>1 DEF otherVars
    <3>2. /\ Tests' = Tests /\ OtherCells' = OtherCells /\ OtherFile' = OtherFile
          /\ OtherValues' = OtherValues
      BY <3>1 DEF Tests, OtherCells, OtherFile, OtherValues
    <3>3. \A f : IsOtherStack(f) => IsOtherStack(f)'
      BY <3>1, <3>2 DEF IsOtherStack
    <3>4. OtherCheatInv => OtherCheatInv'
      BY <3>1, <3>3 DEF OtherCheatInv
    <3>5. OtherBanks => OtherBanks'
      BY <3>1, <3>2 DEF OtherBanks
    <3> QED BY <2>1, <3>1, <3>4, <3>5 DEF OtherInv
  <2> QED BY <2>1, OtherStep
<1> QED BY <1>1, OtherInit, OtherStep, PTL DEF CardSpec

(* On the other classes the game reads, in the first two banks, the file    *)
(* with the inserted cheats laid over it, and behind them the file, until a *)
(* removal has written there.                                               *)
THEOREM OtherRomsKeepTheFile == CardSpec => []OthersKeepFile
<1>1. OtherInv => OthersKeepFile
  <2> SUFFICES ASSUME OtherInv, chip # "MBC1", NEW area \in {"low", "high"}, NEW o \in Offsets,
                      Mbc3Card!MappedBank(area) < total
               PROVE  LET cell == <<Mbc3Card!MappedBank(area), o>>
                      IN IF cell[1] \in {0, 1} THEN mixed \/ file[cell] = Mbc3Card!Laid[cell]
                         ELSE o \in spoilt \/ file[cell] = Rom0[cell]
    BY DEF OthersKeepFile, Mbc3Card!BanksKeepFile
  <2> DEFINE cell == <<Mbc3Card!MappedBank(area), o>>
  <2>1. /\ total \in Nat \ {0, 1} /\ bank \in Nat /\ file = [x \in OtherCells |-> file[x]]
        /\ \A x \in OtherCells : x[1] \notin {0, 1} => x[2] \in spoilt \/ file[x] = Rom0[x]
    BY DEF OtherInv, OtherBanks
  <2>2. Mbc3Card!MappedBank(area) \in Nat
    BY <2>1 DEF Mbc3Card!MappedBank
  <2>3. cell \in OtherCells /\ cell[1] = Mbc3Card!MappedBank(area) /\ cell[2] = o
    BY <2>1, <2>2 DEF OtherCells
  <2> HIDE DEF cell
  <2>4. ASSUME cell[1] \notin {0, 1} PROVE o \in spoilt \/ file[cell] = Rom0[cell]
    BY <2>1, <2>3, <2>4
  <2>5. ASSUME cell[1] \in {0, 1}, ~mixed PROVE file[cell] = Mbc3Card!Laid[cell]
    <3>1. inserted \in Seq(OtherCheats) /\ \E f : IsOtherStack(f)
      BY <2>5 DEF OtherInv, OtherCheatInv
    <3>2. PICK f : IsOtherStack(f)
      BY <3>1
    <3> DEFINE over[n \in 0..Len(inserted)] ==
          IF n = 0 THEN [x \in DOMAIN file |-> Rom0[x]]
          ELSE LET c == inserted[n]
               IN [over[n - 1] EXCEPT ![Mbc3Card!Tested(c)] =
                     IF Mbc3Card!Matches(c, @) THEN c.replace ELSE @]
               Body(v) ==
          [n \in 0..Len(inserted) |->
             IF n = 0 THEN [x \in DOMAIN file |-> Rom0[x]]
             ELSE LET c == inserted[n]
                  IN [v[n - 1] EXCEPT ![Mbc3Card!Tested(c)] =
                        IF Mbc3Card!Matches(c, @) THEN c.replace ELSE @]]
    <3>3. ASSUME NEW n \in 1..Len(inserted), NEW v, v = [x \in OtherCells |-> v[x]]
          PROVE  LET c == inserted[n]
                 IN [v EXCEPT ![Mbc3Card!Tested(c)] =
                       IF Mbc3Card!Matches(c, @) THEN c.replace ELSE @]
                    = [x \in OtherCells |-> Patched(Tests, c, x, v[x])]
      <4> DEFINE c == inserted[n]
      <4>1. c \in OtherCheats
        BY <3>1
      <4>2. Tests[c] = {Mbc3Card!Tested(c)}
        BY <4>1 DEF Tests, Test, Mbc3Card!Tested
      <4> HIDE DEF c
      <4>3. [v EXCEPT ![Mbc3Card!Tested(c)] =
               IF Mbc3Card!Matches(c, @) THEN c.replace ELSE @]
            = [x \in OtherCells |-> Patched(Tests, c, x, v[x])]
        BY <3>3, <4>2 DEF Patched, Mbc3Card!Matches
      <4> QED BY <4>3 DEF c
    <3>4. DOMAIN file = OtherCells /\ [x \in DOMAIN file |-> Rom0[x]] = OtherFile
      BY <2>1 DEF OtherFile
    <3>5. ASSUME NEW v, \A n \in 1..Len(inserted) : v[n - 1] = [x \in OtherCells |-> v[n - 1][x]]
           PROVE  Body(v) = Layers(Tests, OtherCells, OtherFile, inserted, v)
      <4> DEFINE L == Layers(Tests, OtherCells, OtherFile, inserted, v)
      <4>1. ASSUME NEW n \in 0..Len(inserted) PROVE Body(v)[n] = L[n]
        <5>1. CASE n = 0
          <6>1. Body(v)[n] = OtherFile
            BY <3>4, <5>1
          <6>2. L[n] = OtherFile
            BY <5>1 DEF Layers
          <6> QED BY <6>1, <6>2
        <5>2. CASE n \in 1..Len(inserted)
          <6>1. n # 0
            BY <5>2
          <6>2. Body(v)[n] = LET c == inserted[n]
                             IN [v[n - 1] EXCEPT ![Mbc3Card!Tested(c)] =
                                   IF Mbc3Card!Matches(c, @) THEN c.replace ELSE @]
            BY <6>1
          <6>3. L[n] = [x \in OtherCells |-> Patched(Tests, inserted[n], x, v[n - 1][x])]
            BY <6>1 DEF Layers
          <6>4. v[n - 1] = [x \in OtherCells |-> v[n - 1][x]]
            BY <3>5, <5>2
          <6> QED BY <3>3, <5>2, <6>2, <6>3, <6>4
        <5> QED BY <3>1, <5>1, <5>2
      <4>2. /\ L = [n \in 0..Len(inserted) |-> L[n]]
            /\ Body(v) = [n \in 0..Len(inserted) |-> Body(v)[n]]
        BY DEF Layers
      <4> HIDE DEF L, Body
      <4>3. L = Body(v)
        BY <4>1, <4>2
      <4> QED BY <4>3 DEF L
    <3>6. ASSUME NEW v, NEW n \in 1..Len(inserted)
           PROVE  Body(v)[n] = LET c == inserted[n]
                               IN [v[n - 1] EXCEPT ![Mbc3Card!Tested(c)] =
                                     IF Mbc3Card!Matches(c, @) THEN c.replace ELSE @]
      <4>1. n # 0 /\ n \in 0..Len(inserted)
        BY <3>1
      <4> QED BY <4>1
    <3>7. f = Body(f)
      <4>1. \A n \in 1..Len(inserted) : f[n - 1] = [x \in OtherCells |-> f[n - 1][x]]
        BY <3>1, <3>2 DEF IsOtherStack, IsLaid
      <4>2. f = Layers(Tests, OtherCells, OtherFile, inserted, f)
        BY <3>1, <3>2, LaidLayers DEF IsOtherStack
      <4>3. Body(f) = Layers(Tests, OtherCells, OtherFile, inserted, f)
        BY <3>5, <4>1
      <4> QED BY <4>2, <4>3
    <3>8. over = Body(over)
      BY <3>7 DEF over
    <3>9. Mbc3Card!Laid = over[Len(inserted)]
      BY DEF Mbc3Card!Laid
    <3> HIDE DEF over, Body
    <3>10. over = f
      <4> DEFINE D == {n \in 0..Len(inserted) : over[n] # [x \in OtherCells |-> over[n][x]]}
      <4>1. over[0] = OtherFile
        BY <3>1, <3>8, <3>4 DEF Body
      <4>2. \A n \in 1..Len(inserted) :
              over[n] = LET c == inserted[n]
                        IN [over[n - 1] EXCEPT ![Mbc3Card!Tested(c)] =
                              IF Mbc3Card!Matches(c, @) THEN c.replace ELSE @]
        BY <3>8, <3>6
      <4>3. D = {}
        <5> SUFFICES ASSUME D # {} PROVE FALSE
          OBVIOUS
        <5>1. PICK n \in D : \A m \in D : n <= m
          <6>1. D \in SUBSET Nat
            OBVIOUS
          <6> HIDE DEF D
          <6> QED BY <6>1, LeastNumber
        <5>2. n # 0
          BY <4>1 DEF OtherFile
        <5>3. n \in 1..Len(inserted) /\ n - 1 \in 0..Len(inserted) /\ n - 1 \notin D
          BY <3>1, <5>1, <5>2
        <5>4. over[n - 1] = [x \in OtherCells |-> over[n - 1][x]]
          BY <5>3
        <5>5. over[n] = [x \in OtherCells |-> Patched(Tests, inserted[n], x, over[n - 1][x])]
          BY <3>3, <4>2, <5>3, <5>4
        <5> QED BY <5>5
      <4>4. \A n \in 1..Len(inserted) : over[n - 1] = [x \in OtherCells |-> over[n - 1][x]]
        <5> SUFFICES ASSUME NEW n \in 1..Len(inserted)
                     PROVE  over[n - 1] = [x \in OtherCells |-> over[n - 1][x]]
          OBVIOUS
        <5>1. n - 1 \in 0..Len(inserted)
          BY <3>1
        <5> SUFFICES ASSUME over[n - 1] # [x \in OtherCells |-> over[n - 1][x]] PROVE FALSE
          OBVIOUS
        <5>2. n - 1 \in D
          BY <5>1
        <5> QED BY <4>3, <5>2
      <4>5. Body(over) = Layers(Tests, OtherCells, OtherFile, inserted, over)
        BY <3>5, <4>4
      <4>6. over = Layers(Tests, OtherCells, OtherFile, inserted, over)
        BY <3>8, <4>5
      <4> QED BY <3>1, <3>2, <4>6, LaidOnce DEF IsOtherStack
    <3>11. file[cell] = f[Len(inserted)][cell]
      BY <2>3, <2>5, <3>2 DEF IsOtherStack
    <3> QED BY <3>9, <3>10, <3>11
  <2> QED BY <2>3, <2>4, <2>5 DEF cell
<1> QED BY <1>1, OtherInvHolds, PTL

(* A system that plays any class of cartridge plays MBC1 as Mbc1 says: what *)
(* is proved of Spec holds of it.                                           *)
LEMMA CardsPlayMbc1 == CardSpec => Spec
<1>1. CreateCartridge => Init
  BY DEF CreateCartridge
<1>2. [CardNext]_<<chip, vars, otherVars>> => [Next]_vars
  BY DEF CardNext
<1> QED BY <1>1, <1>2, PTL DEF CardSpec, Spec
=============================================================================
