-------------------------- MODULE ByteArray_proofs --------------------------
(***************************************************************************)
(* The byte array for any size of its blocks, any number of them and any   *)
(* calls: both names of a block stay the same, and the ring is a queue.    *)
(* Places are counted through the ring, block after block; a place is in   *)
(* block p \div Inc of the list, at p % Inc.                               *)
(***************************************************************************)
EXTENDS ByteArray, SequenceTheorems, TLAPS

-----------------------------------------------------------------------------
(* Arithmetic                                                              *)

\* A place is named by its block and the index in it.
LEMMA PlaceParts ==
  ASSUME NEW n \in Nat \ {0}, NEW b \in Nat, NEW a \in 0..n - 1
  PROVE  /\ b * n + a \in Nat
         /\ (b * n + a) \div n = b
         /\ (b * n + a) % n = a
  OBVIOUS

LEMMA PartsOfPlace ==
  ASSUME NEW n \in Nat \ {0}, NEW p \in Nat
  PROVE  /\ p \div n \in Nat
         /\ p % n \in 0..n - 1
         /\ p = (p \div n) * n + (p % n)
<1>1. p \div n \in Int /\ p \div n >= 0
  OBVIOUS
<1>2. p % n \in 0..n - 1
  OBVIOUS
<1>3. p = (p \div n) * n + (p % n)
  OBVIOUS
<1> QED BY <1>1, <1>2, <1>3

\* Blocks do not overlap: an earlier one ends before a later one begins.
LEMMA BlocksApart ==
  ASSUME NEW n \in Nat \ {0}, NEW b \in Nat, NEW c \in Nat, b < c
  PROVE  b * n + n <= c * n
  OBVIOUS

\* The places of k blocks are those below k * n.
LEMMA PlacesOfBlocks ==
  ASSUME NEW n \in Nat \ {0}, NEW k \in Nat, NEW p \in Nat
  PROVE  p < k * n <=> p \div n < k
<1>1. /\ p \div n \in Nat /\ p % n \in 0..n - 1
      /\ p = (p \div n) * n + (p % n)
  BY PartsOfPlace
<1> DEFINE q == p \div n
           a == p % n
<1> HIDE DEF q, a
<1>2. q \in Nat /\ a \in 0..n - 1 /\ p = q * n + a
  BY <1>1 DEF q, a
<1>3. CASE q < k
  <2>1. q * n + n <= k * n
    BY <1>2, <1>3, BlocksApart
  <2>2. q * n \in Int /\ k * n \in Int
    BY <1>2
  <2>3. p < k * n
    BY <1>2, <2>1, <2>2
  <2> QED BY <1>3, <2>3 DEF q
<1>4. CASE ~(q < k)
  <2>1. q * n >= k * n
    <3>1. CASE q = k
      BY <1>2, <3>1
    <3>2. CASE k < q
      <4>1. k * n + n <= q * n
        BY <1>2, <3>2, BlocksApart
      <4>2. q * n \in Int /\ k * n \in Int
        BY <1>2
      <4> QED BY <4>1, <4>2
    <3> QED BY <1>2, <1>4, <3>1, <3>2
  <2>2. q * n \in Int /\ k * n \in Int
    BY <1>2
  <2>3. ~(p < k * n)
    BY <1>2, <2>1, <2>2
  <2> QED BY <1>4, <2>3 DEF q
<1> QED BY <1>3, <1>4

\* At most once round the ring.
LEMMA Turned ==
  ASSUME NEW r \in Nat \ {0}, NEW p \in 0..2 * r - 1
  PROVE  p % r = IF p < r THEN p ELSE p - r
<1>1. CASE p < r
  BY <1>1
<1>2. CASE p >= r
  <2>1. p \in r..2 * r - 1
    BY <1>2
  <2>2. p % r = p - r
    BY <2>1
  <2> QED BY <1>2, <2>2
<1> QED BY <1>1, <1>2

-----------------------------------------------------------------------------
(* Sequences                                                               *)

LEMMA FunIsSeq ==
  ASSUME NEW S, NEW n \in Nat, NEW f \in [1..n -> S]
  PROVE  f \in Seq(S) /\ Len(f) = n
<1>1. f \in Seq(S)
  BY SeqDef
<1>2. Len(f) \in Nat /\ 1..Len(f) = 1..n
  BY <1>1, LenProperties
<1> QED BY <1>1, <1>2

LEMMA GrowsByOne ==
  ASSUME NEW S, NEW n \in Nat, NEW f \in [1..n -> S], NEW g \in [1..n + 1 -> S],
         \A i \in 1..n : g[i] = f[i]
  PROVE  g = Append(f, g[n + 1])
<1>1. f \in Seq(S) /\ Len(f) = n
  BY FunIsSeq
<1>2. g \in Seq(S) /\ Len(g) = n + 1
  BY FunIsSeq
<1>3. g[n + 1] \in S
  OBVIOUS
<1> DEFINE h == Append(f, g[n + 1])
<1>4. /\ h \in Seq(S) /\ Len(h) = n + 1
      /\ \A i \in 1..n : h[i] = f[i]
      /\ h[n + 1] = g[n + 1]
  BY <1>1, <1>3, AppendProperties
<1> HIDE DEF h
<1>5. \A i \in 1..Len(g) : g[i] = h[i]
  BY <1>2, <1>4
<1>6. g = h
  BY <1>2, <1>4, <1>5, SeqEqual
<1> QED BY <1>6 DEF h

LEMMA ShrinksByOne ==
  ASSUME NEW S, NEW n \in Nat \ {0}, NEW f \in [1..n -> S], NEW g \in [1..n - 1 -> S],
         \A i \in 1..n - 1 : g[i] = f[i + 1]
  PROVE  f # <<>> /\ g = Tail(f)
<1>1. f \in Seq(S) /\ Len(f) = n
  BY FunIsSeq
<1>2. g \in Seq(S) /\ Len(g) = n - 1
  BY FunIsSeq
<1>3. f # <<>>
  BY <1>1
<1>4. /\ Tail(f) \in Seq(S) /\ Len(Tail(f)) = n - 1
      /\ \A i \in 1..n - 1 : Tail(f)[i] = f[i + 1]
  BY <1>1, <1>3, HeadTailProperties
<1>5. \A i \in 1..Len(g) : g[i] = Tail(f)[i]
  BY <1>2, <1>4
<1> QED BY <1>2, <1>3, <1>4, <1>5, SeqEqual

\* What list::insert leaves: the blocks from place i on are one place further.
LEMMA Inserted ==
  ASSUME NEW i \in 1..Len(cache) + 1, NEW n \in Blocks, cache \in Seq(Blocks)
  PROVE  /\ With(i, n) \in Seq(Blocks)
         /\ Len(With(i, n)) = Len(cache) + 1
         /\ \A j \in 1..Len(cache) + 1 :
              With(i, n)[j] = IF j < i THEN cache[j] ELSE IF j = i THEN n ELSE cache[j - 1]
<1> DEFINE k == Len(cache)
           a == SubSeq(cache, 1, i - 1)
           c == SubSeq(cache, i, k)
<1>1. k \in Nat /\ i \in 1..k + 1 /\ \A j \in 1..k : cache[j] \in Blocks
  BY ElementOfSeq, LenProperties
<1>2. a \in Seq(Blocks) /\ Len(a) = i - 1 /\ \A j \in 1..i - 1 : a[j] = cache[j]
  <2>1. 1 \in Int /\ i - 1 \in Int /\ \A j \in 1..i - 1 : cache[j] \in Blocks
    BY <1>1
  <2>2. /\ a \in Seq(Blocks) /\ Len(a) = (IF 1 <= i - 1 THEN (i - 1) - 1 + 1 ELSE 0)
        /\ \A j \in 1..(i - 1) - 1 + 1 : a[j] = cache[1 + j - 1]
    BY <2>1, SubSeqProperties
  <2> QED BY <1>1, <2>2
<1>3. c \in Seq(Blocks) /\ Len(c) = k - i + 1 /\ \A j \in 1..k - i + 1 : c[j] = cache[i + j - 1]
  <2>1. i \in Int /\ k \in Int /\ \A j \in i..k : cache[j] \in Blocks
    BY <1>1
  <2>2. /\ c \in Seq(Blocks) /\ Len(c) = (IF i <= k THEN k - i + 1 ELSE 0)
        /\ \A j \in 1..k - i + 1 : c[j] = cache[i + j - 1]
    BY <2>1, SubSeqProperties
  <2> QED BY <1>1, <2>2
<1>4. <<n>> \in Seq(Blocks) /\ Len(<<n>>) = 1 /\ <<n>>[1] = n
  OBVIOUS
<1> HIDE DEF a, c, k
<1> DEFINE d == a \o <<n>>
<1>5. /\ d \in Seq(Blocks) /\ Len(d) = i
      /\ \A j \in 1..i : d[j] = IF j <= i - 1 THEN a[j] ELSE <<n>>[j - (i - 1)]
  BY <1>2, <1>4, ConcatProperties
<1> HIDE DEF d
<1>6. /\ d \o c \in Seq(Blocks) /\ Len(d \o c) = k + 1
      /\ \A j \in 1..k + 1 : (d \o c)[j] = IF j <= i THEN d[j] ELSE c[j - i]
  <2>1. /\ d \o c \in Seq(Blocks) /\ Len(d \o c) = Len(d) + Len(c)
        /\ \A j \in 1..Len(d) + Len(c) : (d \o c)[j] = IF j <= Len(d) THEN d[j] ELSE c[j - Len(d)]
    BY <1>3, <1>5, ConcatProperties
  <2>2. Len(d) = i /\ Len(d) + Len(c) = k + 1
    BY <1>1, <1>3, <1>5
  <2> QED BY <2>1, <2>2
<1>7. With(i, n) = d \o c
  BY DEF With, d, a, c, k
<1>8. ASSUME NEW j \in 1..k + 1
      PROVE  (d \o c)[j] = IF j < i THEN cache[j] ELSE IF j = i THEN n ELSE cache[j - 1]
  <2>1. CASE j < i
    BY <1>1, <1>2, <1>5, <1>6, <2>1
  <2>2. CASE j = i
    <3>1. j - (i - 1) = 1 /\ ~(j <= i - 1)
      BY <2>2
    <3> QED BY <1>4, <1>5, <1>6, <2>2, <3>1
  <2>3. CASE j > i
    <3>1. j - i \in 1..k - i + 1 /\ i + (j - i) - 1 = j - 1
      BY <1>1, <2>3
    <3>2. c[j - i] = cache[j - 1]
      BY <1>3, <3>1
    <3>3. i \in Int /\ ~(j <= i) /\ ~(j < i) /\ j # i
      BY <1>1, <2>3
    <3> QED BY <1>6, <3>2, <3>3
  <2>4. j < i \/ j = i \/ j > i
    BY <1>1
  <2> QED BY <2>1, <2>2, <2>3, <2>4
<1> QED BY <1>6, <1>7, <1>8 DEF k

-----------------------------------------------------------------------------
(* The ring                                                                *)

InRing == begin.bolckIndex < Len(cache) /\ end.bolckIndex < Len(cache)

\* The list holds the blocks made so far, so Len(cache) + 1 is a new one.
NewIsNew == \A i \in 1..Len(cache) : cache[i] <= Len(cache)

\* What push has still to write fits into what it has still to insert, and pop
\* has no more to take than there is.
Fits ==
  /\ call = "push" => /\ Len(cache) + grow <= MaxBlocks
                      /\ size + left <= capacity + grow * Inc
  /\ call = "pop" => left <= size

RInv == TypeOK /\ IteratorsAgree /\ InRing /\ NewIsNew /\ Fits

LEMMA PlaceInRoom ==
  ASSUME NEW ix \in Index, NEW k \in Nat, ix.bolckIndex < k
  PROVE  /\ Place(ix) \in Nat /\ k * Inc \in Nat /\ Place(ix) < k * Inc
         /\ Place(ix) \div Inc = ix.bolckIndex /\ Place(ix) % Inc = ix.arrayIndex
<1> DEFINE b == ix.bolckIndex
           a == ix.arrayIndex
<1>1. Inc \in Nat \ {0} /\ b \in Nat /\ a \in 0..Inc - 1
  BY SizesAssumption DEF Index
<1>2. Place(ix) = b * Inc + a
  BY DEF Place
<1> HIDE DEF b, a
<1>3. b * Inc + a \in Nat /\ (b * Inc + a) \div Inc = b /\ (b * Inc + a) % Inc = a
  BY <1>1, PlaceParts
<1>4. (b * Inc + a) < k * Inc
  <2>1. b < k
    BY DEF b
  <2> QED BY <1>1, <1>3, <2>1, PlacesOfBlocks
<1>5. k * Inc \in Nat
  BY <1>1
<1> QED BY <1>2, <1>3, <1>4, <1>5 DEF b, a

LEMMA SizeIs ==
  ASSUME NEW r \in Nat \ {0}, NEW b \in 0..r - 1, NEW e \in 0..r - 1
  PROVE  /\ (e - b + r) % r = IF e >= b THEN e - b ELSE e - b + r
         /\ (e - b + r) % r \in 0..r - 1
<1>1. e - b + r \in 0..2 * r - 1
  OBVIOUS
<1> DEFINE d == e - b + r
<1>2. d \in 0..2 * r - 1 /\ (d < r <=> e < b) /\ d - r = e - b
  BY <1>1
<1> HIDE DEF d
<1>3. d % r = IF d < r THEN d ELSE d - r
  BY <1>2, Turned
<1>4. d % r = IF e >= b THEN e - b ELSE d
  BY <1>2, <1>3
<1>5. d % r \in 0..r - 1
  BY <1>2, <1>3
<1> QED BY <1>4, <1>5 DEF d

\* Where begin and end are, and how much lies between them.
Measured ==
  /\ Room \in Nat \ {0} /\ Room = Len(cache) * Inc /\ capacity = Room - 1
  /\ Place(begin) \in 0..Room - 1 /\ Place(end) \in 0..Room - 1
  /\ size = IF Place(end) >= Place(begin) THEN Place(end) - Place(begin)
            ELSE Place(end) - Place(begin) + Room
  /\ size \in 0..Room - 1

LEMMA RingMeasured == TypeOK /\ InRing => Measured
<1> SUFFICES ASSUME TypeOK, InRing PROVE Measured
  OBVIOUS
<1>1. Inc \in Nat \ {0} /\ Len(cache) \in Nat \ {0} /\ begin \in Index /\ end \in Index
  BY SizesAssumption DEF TypeOK, Blocks
<1>2. Room = Len(cache) * Inc /\ capacity = Room - 1
  BY DEF Room, capacity
<1>3. Place(begin) \in Nat /\ Place(begin) < Room /\ Place(end) \in Nat /\ Place(end) < Room
  BY <1>1, <1>2, PlaceInRoom DEF InRing
<1>4. Room \in Int
  BY <1>1, <1>2
<1>5. /\ Room \in Nat \ {0}
      /\ Place(begin) \in 0..Room - 1 /\ Place(end) \in 0..Room - 1
  BY <1>3, <1>4
<1>6. /\ size = IF Place(end) >= Place(begin) THEN Place(end) - Place(begin)
                ELSE Place(end) - Place(begin) + Room
      /\ size \in 0..Room - 1
  BY <1>5, SizeIs DEF size
<1> QED BY <1>2, <1>5, <1>6 DEF Measured

LEMMA RingMeasuredNext == TypeOK' /\ InRing' => Measured'
  BY RingMeasured, PTL

\* A block is found where it is.
LEMMA AtItsPlace ==
  ASSUME TypeOK, NEW i \in 1..Len(cache)
  PROVE  At(cache[i]) = i
  BY DEF At, TypeOK

\* One step along the ring keeps both names of the block together.
LEMMA StepRound ==
  ASSUME TypeOK, NEW ix \in Index, ix.bolckIndex < Len(cache),
         cache[ix.bolckIndex + 1] = ix.iter
  PROVE  /\ Step(ix) \in Index /\ Step(ix).bolckIndex < Len(cache)
         /\ cache[Step(ix).bolckIndex + 1] = Step(ix).iter
         /\ Place(Step(ix)) = IF Place(ix) + 1 < Room THEN Place(ix) + 1 ELSE 0
<1> DEFINE k == Len(cache)
           p == Place(ix) + 1
           q == p \div Inc
           a == p % Inc
           b == q % k
<1>1. /\ Inc \in Nat \ {0} /\ k \in Nat \ {0} /\ k <= MaxBlocks
      /\ Room = k * Inc /\ k * Inc \in Nat /\ MaxBlocks \in Nat
      /\ ix.bolckIndex \in 0..k - 1
  <2>1. Inc \in Nat \ {0} /\ MaxBlocks \in Nat \ {0} /\ k \in 1..MaxBlocks
    BY SizesAssumption DEF TypeOK, Blocks
  <2>2. k * Inc \in Nat /\ Room = k * Inc
    BY <2>1 DEF Room
  <2>3. ix.bolckIndex \in Nat
    BY <2>1 DEF Index
  <2> QED BY <2>1, <2>2, <2>3
<1>2. Place(ix) \in Nat /\ Place(ix) < k * Inc
  BY <1>1, PlaceInRoom
<1>3. p \in Nat /\ p <= k * Inc
  BY <1>1, <1>2
<1>4. At(ix.iter) = ix.bolckIndex + 1
  BY <1>1, AtItsPlace
<1>5. Step(ix) = [bolckIndex |-> b, arrayIndex |-> a,
                  iter |-> IF b = 0 THEN cache[1] ELSE cache[ix.bolckIndex + 1 + (b - ix.bolckIndex)]]
  BY <1>4 DEF Step
<1>6. q \in Nat /\ a \in 0..Inc - 1 /\ p = q * Inc + a
  BY <1>1, <1>3, PartsOfPlace
<1> HIDE DEF k, p, q, a, b
<1>7. /\ b \in 0..k - 1
      /\ b * Inc + a = IF p < k * Inc THEN p ELSE 0
  <2>1. CASE p < k * Inc
    <3>1. q < k
      BY <1>1, <1>3, <2>1, PlacesOfBlocks DEF q
    <3>2. b = q
      BY <1>1, <1>6, <3>1 DEF b
    <3> QED BY <1>1, <1>6, <2>1, <3>1, <3>2
  <2>2. CASE p = k * Inc
    <3>1. p = k * Inc + 0 /\ 0 \in 0..Inc - 1
      BY <1>1, <2>2
    <3>2. q = k /\ a = 0
      BY <1>1, <3>1, PlaceParts DEF q, a
    <3>3. k % k = 0
      BY <1>1
    <3>4. b = 0
      BY <3>2, <3>3 DEF b
    <3> QED BY <1>1, <2>2, <3>2, <3>4
  <2> QED BY <1>1, <1>3, <2>1, <2>2
<1>8. cache[b + 1] = IF b = 0 THEN cache[1] ELSE cache[ix.bolckIndex + 1 + (b - ix.bolckIndex)]
  <2>1. ix.bolckIndex + 1 + (b - ix.bolckIndex) = b + 1
    BY <1>1, <1>7
  <2> QED BY <1>7, <2>1
<1>9. cache[b + 1] \in Blocks
  <2>1. cache \in Seq(Blocks) /\ b + 1 \in 1..Len(cache)
    BY <1>1, <1>7 DEF TypeOK, k
  <2> QED BY <2>1, ElementOfSeq
<1>10. b \in 0..MaxBlocks - 1
  BY <1>1, <1>7
<1>11. Step(ix) = [bolckIndex |-> b, arrayIndex |-> a, iter |-> cache[b + 1]]
  BY <1>5, <1>8
<1>12. Step(ix) \in Index
  BY <1>6, <1>9, <1>10, <1>11 DEF Index
<1>13. Place(Step(ix)) = b * Inc + a
  BY <1>11 DEF Place
<1> QED BY <1>1, <1>7, <1>11, <1>12, <1>13 DEF k, p

-----------------------------------------------------------------------------
(* The bytes                                                               *)

CellOf(c, m, p) == m[c[(p \div Inc) + 1]][p % Inc]
Turn(p, r) == IF p < r THEN p ELSE p - r
Held == [i \in 1..size |-> Byte(i - 1)]

LEMMA CellsTyped ==
  ASSUME TypeOK, NEW p \in 0..Room - 1
  PROVE  /\ p \div Inc \in 0..Len(cache) - 1 /\ p % Inc \in 0..Inc - 1
         /\ p = (p \div Inc) * Inc + (p % Inc)
         /\ CellOf(cache, block, p) \in 0..Bytes
<1>1. Inc \in Nat \ {0} /\ Len(cache) \in Nat \ {0}
  BY SizesAssumption DEF TypeOK, Blocks
<1>2. Room = Len(cache) * Inc /\ Len(cache) * Inc \in Nat /\ p \in Nat /\ p < Len(cache) * Inc
  BY <1>1 DEF Room
<1>3. /\ p \div Inc \in Nat /\ p % Inc \in 0..Inc - 1
      /\ p = (p \div Inc) * Inc + (p % Inc)
  BY <1>1, <1>2, PartsOfPlace
<1>4. p \div Inc < Len(cache)
  BY <1>1, <1>2, PlacesOfBlocks
<1> DEFINE b == p \div Inc
           a == p % Inc
<1> HIDE DEF a, b
<1>5. b \in 0..Len(cache) - 1 /\ a \in 0..Inc - 1
  BY <1>1, <1>3, <1>4 DEF a, b
<1>6. cache[b + 1] \in Blocks
  <2>1. b + 1 \in 1..Len(cache) /\ cache \in Seq(Blocks)
    BY <1>1, <1>5 DEF TypeOK
  <2> QED BY <2>1, ElementOfSeq
<1>7. block[cache[b + 1]][a] \in 0..Bytes
  BY <1>5, <1>6 DEF TypeOK
<1> QED BY <1>3, <1>5, <1>7 DEF CellOf, a, b

\* Byte by byte, what lies behind begin.
Readable ==
  /\ Held \in [1..size -> 0..Bytes]
  /\ \A i \in 1..size : /\ Turn(Place(begin) + i - 1, Room) \in 0..Room - 1
                        /\ Held[i] = CellOf(cache, block, Turn(Place(begin) + i - 1, Room))

LEMMA RingReadable == TypeOK /\ InRing => Readable
<1> SUFFICES ASSUME TypeOK, InRing PROVE Readable
  OBVIOUS
<1>1. Measured
  BY RingMeasured
<1>2. ASSUME NEW i \in 1..size
      PROVE  /\ Turn(Place(begin) + i - 1, Room) \in 0..Room - 1
             /\ Byte(i - 1) = CellOf(cache, block, Turn(Place(begin) + i - 1, Room))
             /\ Byte(i - 1) \in 0..Bytes
  <2> DEFINE q == Place(begin) + (i - 1)
  <2>1. /\ q \in 0..2 * Room - 1 /\ Room \in Nat \ {0}
        /\ q = Place(begin) + i - 1
    BY <1>1 DEF Measured
  <2>2. Turn(q, Room) \in 0..Room - 1
    BY <2>1 DEF Turn
  <2>3. Byte(i - 1) = CellOf(cache, block, q % Room)
    BY DEF Byte, CellOf
  <2> HIDE DEF q
  <2>4. q % Room = Turn(q, Room)
    BY <2>1, Turned DEF Turn
  <2>5. CellOf(cache, block, Turn(q, Room)) \in 0..Bytes
    BY <2>2, CellsTyped
  <2> QED BY <2>1, <2>2, <2>3, <2>4, <2>5
<1>3. Held \in [1..size -> 0..Bytes]
  BY <1>2 DEF Held
<1>4. \A i \in 1..size : Held[i] = Byte(i - 1)
  BY DEF Held
<1> QED BY <1>2, <1>3, <1>4 DEF Readable

LEMMA RingReadableNext == TypeOK' /\ InRing' => Readable'
  BY RingReadable, PTL

Written(m, ix, v) == m = [block EXCEPT ![ix.iter][ix.arrayIndex] = v]

\* Two blocks of the list are two blocks: a write to one place of the ring
\* changes no other place.
LEMMA OnePlaceChanges ==
  ASSUME TypeOK, NEW ix \in Index, ix.bolckIndex < Len(cache),
         cache[ix.bolckIndex + 1] = ix.iter, NEW v,
         NEW p \in 0..Room - 1, NEW m, Written(m, ix, v)
  PROVE  CellOf(cache, m, p) = IF p = Place(ix) THEN v ELSE CellOf(cache, block, p)
<1> DEFINE b == p \div Inc
           a == p % Inc
<1>1. /\ b \in 0..Len(cache) - 1 /\ a \in 0..Inc - 1
      /\ p = b * Inc + a
  BY CellsTyped
<1>2. ix.bolckIndex \in Nat /\ ix.arrayIndex \in 0..Inc - 1 /\ ix.iter \in Blocks
  BY SizesAssumption DEF Index
<1>3. Place(ix) = ix.bolckIndex * Inc + ix.arrayIndex
  BY DEF Place
<1>4. /\ Place(ix) \div Inc = ix.bolckIndex /\ Place(ix) % Inc = ix.arrayIndex
  <2>1. Len(cache) \in Nat
    BY DEF TypeOK, Blocks
  <2> QED BY <2>1, PlaceInRoom
<1>5. p = Place(ix) <=> b = ix.bolckIndex /\ a = ix.arrayIndex
  BY <1>1, <1>3, <1>4
<1> HIDE DEF a, b
<1>6. cache[b + 1] = ix.iter <=> b = ix.bolckIndex
  <2>1. /\ b + 1 \in 1..Len(cache) /\ ix.bolckIndex + 1 \in 1..Len(cache)
        /\ (b + 1 = ix.bolckIndex + 1 <=> b = ix.bolckIndex)
    BY <1>1, <1>2 DEF TypeOK, Blocks
  <2> QED BY <2>1 DEF TypeOK
<1>7. cache[b + 1] \in Blocks /\ cache[b + 1] \in DOMAIN block /\ a \in DOMAIN block[cache[b + 1]]
  <2>1. b + 1 \in 1..Len(cache) /\ cache \in Seq(Blocks)
    BY <1>1 DEF TypeOK, Blocks
  <2>2. cache[b + 1] \in Blocks
    BY <2>1, ElementOfSeq
  <2> QED BY <1>1, <2>2 DEF TypeOK
<1>8. m[cache[b + 1]][a] = IF cache[b + 1] = ix.iter /\ a = ix.arrayIndex THEN v
                           ELSE block[cache[b + 1]][a]
  BY <1>2, <1>7 DEF TypeOK, Written
<1> QED BY <1>5, <1>6, <1>8 DEF CellOf, a, b

-----------------------------------------------------------------------------
(* Write and take one byte                                                 *)

\* The arithmetic of the places, in one operator each.
EndIsBehind(r, b, e, s) ==
  /\ Turn(b + s, r) = e
  /\ \A i \in 1..s : Turn(b + i - 1, r) # e
  /\ \A i \in 2..s : Turn(b + i - 1, r) # b

Between(r, b, e, s) ==
  /\ r \in Nat \ {0} /\ b \in 0..r - 1 /\ e \in 0..r - 1 /\ s \in 0..r - 1
  /\ s = IF e >= b THEN e - b ELSE e - b + r

LEMMA BehindLast == \A r, b, e, s : Between(r, b, e, s) => EndIsBehind(r, b, e, s)
  BY DEF Between, EndIsBehind, Turn

\* With a byte more, end goes one place on.
LEMMA SizeGrows ==
  ASSUME NEW r \in Nat \ {0}, NEW b \in 0..r - 1, NEW e \in 0..r - 1, NEW s \in 0..r - 1,
         s = IF e >= b THEN e - b ELSE e - b + r, s + 1 < r,
         NEW f, f = IF e + 1 < r THEN e + 1 ELSE 0,
         NEW t, t = IF f >= b THEN f - b ELSE f - b + r
  PROVE  t = s + 1
  OBVIOUS

\* With a byte less, begin does.
Follows(r, b, c, s, t) ==
  /\ t = s - 1
  /\ \A i \in 1..s - 1 : Turn(c + i - 1, r) = Turn(b + (i + 1) - 1, r)

LEMMA SizeShrinks ==
  \A r, b, c, e, s, t :
    /\ Between(r, b, e, s) /\ Between(r, c, e, t) /\ s > 0
    /\ c = IF b + 1 < r THEN b + 1 ELSE 0
    => Follows(r, b, c, s, t)
  BY DEF Between, Follows, Turn

LEMMA MeasuredBetween == Measured => Between(Room, Place(begin), Place(end), size)
  BY DEF Measured, Between

LEMMA MeasuredBetweenNext ==
  Measured' => Between(Room, Place(begin), Place(end), size)'
  BY MeasuredBetween, PTL

LEMMA WriteStep ==
  ASSUME RInv, Write
  PROVE  RInv' /\ Held' = Append(Held, next) /\ next \in 1..Bytes
<1>1. TypeOK /\ IteratorsAgree /\ InRing /\ NewIsNew /\ Fits /\ Measured /\ Readable
  BY RingMeasured, RingReadable DEF RInv
<1>2. /\ call = "push" /\ grow = 0 /\ left > 0
      /\ block' = [block EXCEPT ![end.iter][end.arrayIndex] = next]
      /\ end' = Step(end) /\ next' = (next % Bytes) + 1 /\ left' = left - 1
      /\ UNCHANGED <<cache, begin, call, grow, ub>>
  BY DEF Write
<1>3. end \in Index /\ begin \in Index /\ end.bolckIndex < Len(cache)
      /\ cache[end.bolckIndex + 1] = end.iter /\ next \in 1..Bytes
  BY <1>1 DEF TypeOK, InRing, IteratorsAgree
<1>4. /\ end' \in Index /\ end'.bolckIndex < Len(cache)
      /\ cache[end'.bolckIndex + 1] = end'.iter
      /\ Place(end)' = IF Place(end) + 1 < Room THEN Place(end) + 1 ELSE 0
  <2>1. Place(end)' = Place(Step(end))
    BY <1>2 DEF Place
  <2> QED BY <1>1, <1>2, <1>3, <2>1, StepRound
<1>5. TypeOK'
  <2>1. block' \in [Blocks -> [0..Inc - 1 -> 0..Bytes]]
    BY <1>1, <1>2, <1>3 DEF TypeOK, Index
  <2>2. next' \in 1..Bytes
    <3>1. Bytes \in Nat \ {0} /\ next \in Nat
      BY <1>3, BytesAssumption
    <3>2. next % Bytes \in 0..Bytes - 1
      BY <3>1
    <3> QED BY <1>2, <3>1, <3>2
  <2>3. left' \in 0..Inc * MaxBlocks
    <3>1. Inc * MaxBlocks \in Int /\ left \in 0..Inc * MaxBlocks
      BY <1>1, SizesAssumption DEF TypeOK
    <3> QED BY <1>2, <3>1
  <2> QED BY <1>1, <1>2, <1>4, <2>1, <2>2, <2>3 DEF TypeOK
<1>6. InRing' /\ IteratorsAgree' /\ NewIsNew'
  BY <1>1, <1>2, <1>4 DEF InRing, IteratorsAgree, NewIsNew
<1>7. Measured' /\ Readable'
  BY <1>5, <1>6, RingMeasuredNext, RingReadableNext
<1>8. Room' = Room /\ capacity' = capacity /\ Place(begin)' = Place(begin)
  BY <1>2 DEF Room, capacity, Place
<1>9. size + left <= capacity /\ size + 1 < Room
  <2>1. size + left <= capacity + grow * Inc /\ grow * Inc = 0
    BY <1>1, <1>2, SizesAssumption DEF Fits
  <2>2. left \in Int /\ size \in Int /\ Room \in Int /\ capacity = Room - 1
    BY <1>1 DEF TypeOK, Measured
  <2> QED BY <1>2, <2>1, <2>2
<1>10. size' = size + 1
  <2>1. /\ Room \in Nat \ {0} /\ Place(begin) \in 0..Room - 1 /\ Place(end) \in 0..Room - 1
        /\ size \in 0..Room - 1
        /\ size = IF Place(end) >= Place(begin) THEN Place(end) - Place(begin)
                  ELSE Place(end) - Place(begin) + Room
    BY <1>1 DEF Measured
  <2>2. size' = IF Place(end)' >= Place(begin) THEN Place(end)' - Place(begin)
                ELSE Place(end)' - Place(begin) + Room
    BY <1>7, <1>8 DEF Measured
  <2> QED BY <1>4, <1>9, <2>1, <2>2, SizeGrows
<1>11. Fits'
  <2>1. size' + left' = size + left
    BY <1>1, <1>2, <1>10 DEF TypeOK, Measured
  <2> QED BY <1>1, <1>2, <1>8, <2>1 DEF Fits
<1>12. ASSUME NEW p \in 0..Room - 1
       PROVE  CellOf(cache, block', p) = IF p = Place(end) THEN next ELSE CellOf(cache, block, p)
  <2> DEFINE m == block'
  <2>1. Written(m, end, next)
    BY <1>2 DEF Written
  <2> HIDE DEF m
  <2>2. CellOf(cache, m, p) = IF p = Place(end) THEN next ELSE CellOf(cache, block, p)
    BY <1>1, <1>3, <2>1, OnePlaceChanges
  <2> QED BY <2>2 DEF m
<1>13. /\ Turn(Place(begin) + size, Room) = Place(end)
       /\ \A i \in 1..size : Turn(Place(begin) + i - 1, Room) # Place(end)
  BY <1>1, MeasuredBetween, BehindLast DEF EndIsBehind
<1>14. /\ size \in Nat
       /\ Held \in [1..size -> 0..Bytes] /\ Held' \in [1..size + 1 -> 0..Bytes]
  <2>1. Held' \in [1..size' -> 0..Bytes]
    BY <1>7 DEF Readable
  <2> QED BY <1>1, <1>10, <2>1 DEF Readable, Measured
<1>15. \A i \in 1..size + 1 :
         /\ Turn(Place(begin) + i - 1, Room) \in 0..Room - 1
         /\ Held'[i] = CellOf(cache, block', Turn(Place(begin) + i - 1, Room))
  BY <1>2, <1>7, <1>8, <1>10 DEF Readable
<1>16. \A i \in 1..size : Held'[i] = Held[i]
  <2> TAKE i \in 1..size
  <2>1. i \in 1..size + 1
    BY <1>14
  <2>2. Turn(Place(begin) + i - 1, Room) \in 0..Room - 1 /\ Turn(Place(begin) + i - 1, Room) # Place(end)
    BY <1>13, <1>15, <2>1
  <2>3. Held'[i] = CellOf(cache, block, Turn(Place(begin) + i - 1, Room))
    BY <1>12, <1>15, <2>1, <2>2
  <2> QED BY <1>1, <2>3 DEF Readable
<1>17. Held'[size + 1] = next
  <2>1. size + 1 \in 1..size + 1 /\ Place(begin) + (size + 1) - 1 = Place(begin) + size
    BY <1>1, <1>14 DEF Measured
  <2>2. Held'[size + 1] = CellOf(cache, block', Place(end)) /\ Place(end) \in 0..Room - 1
    BY <1>13, <1>15, <2>1
  <2> QED BY <1>12, <2>2
<1>18. Held' = Append(Held, Held'[size + 1])
  <2> DEFINE f == Held
             g == Held'
  <2>1. size \in Nat /\ f \in [1..size -> 0..Bytes] /\ g \in [1..size + 1 -> 0..Bytes]
        /\ \A i \in 1..size : g[i] = f[i]
    BY <1>14, <1>16
  <2> HIDE DEF f, g
  <2>2. g = Append(f, g[size + 1])
    BY <2>1, GrowsByOne
  <2> QED BY <2>2 DEF f, g
<1> QED BY <1>3, <1>5, <1>6, <1>11, <1>17, <1>18 DEF RInv

LEMMA TakeStep ==
  ASSUME RInv, Take
  PROVE  RInv' /\ Held # <<>> /\ Held' = Tail(Held)
<1>1. TypeOK /\ IteratorsAgree /\ InRing /\ NewIsNew /\ Fits /\ Measured /\ Readable
  BY RingMeasured, RingReadable DEF RInv
<1>2. /\ call = "pop" /\ left > 0
      /\ block' = [block EXCEPT ![begin.iter][begin.arrayIndex] = 0]
      /\ begin' = Step(begin) /\ left' = left - 1
      /\ UNCHANGED <<cache, end, call, grow, next, ub>>
  BY DEF Take
<1>3. end \in Index /\ begin \in Index /\ begin.bolckIndex < Len(cache)
      /\ cache[begin.bolckIndex + 1] = begin.iter
  BY <1>1 DEF TypeOK, InRing, IteratorsAgree
<1>4. /\ begin' \in Index /\ begin'.bolckIndex < Len(cache)
      /\ cache[begin'.bolckIndex + 1] = begin'.iter
      /\ Place(begin)' = IF Place(begin) + 1 < Room THEN Place(begin) + 1 ELSE 0
  <2>1. Place(begin)' = Place(Step(begin))
    BY <1>2 DEF Place
  <2> QED BY <1>1, <1>2, <1>3, <2>1, StepRound
<1>5. TypeOK'
  <2>1. block' \in [Blocks -> [0..Inc - 1 -> 0..Bytes]]
    BY <1>1, <1>2, <1>3, BytesAssumption DEF TypeOK, Index
  <2>2. left' \in 0..Inc * MaxBlocks
    <3>1. Inc * MaxBlocks \in Int /\ left \in 0..Inc * MaxBlocks
      BY <1>1, SizesAssumption DEF TypeOK
    <3> QED BY <1>2, <3>1
  <2> QED BY <1>1, <1>2, <1>4, <2>1, <2>2 DEF TypeOK
<1>6. InRing' /\ IteratorsAgree' /\ NewIsNew'
  BY <1>1, <1>2, <1>4 DEF InRing, IteratorsAgree, NewIsNew
<1>7. Measured' /\ Readable'
  BY <1>5, <1>6, RingMeasuredNext, RingReadableNext
<1>8. Room' = Room /\ Place(end)' = Place(end)
  BY <1>2 DEF Room, Place
<1>9. size > 0
  BY <1>1, <1>2 DEF Fits, TypeOK, Measured
<1>10. /\ size' = size - 1
       /\ \A i \in 1..size - 1 : Turn(Place(begin)' + i - 1, Room) = Turn(Place(begin) + (i + 1) - 1, Room)
  <2>1. Between(Room, Place(begin), Place(end), size)
    BY <1>1, MeasuredBetween
  <2>2. Between(Room, Place(begin)', Place(end), size')
    BY <1>7, <1>8, MeasuredBetweenNext
  <2>3. Follows(Room, Place(begin), Place(begin)', size, size')
    BY <1>4, <1>9, <2>1, <2>2, SizeShrinks
  <2> QED BY <2>3 DEF Follows
<1>11. Fits'
  <2>1. left' <= size'
    BY <1>1, <1>2, <1>10 DEF TypeOK, Measured, Fits
  <2> QED BY <1>2, <2>1 DEF Fits
<1>12. ASSUME NEW p \in 0..Room - 1
       PROVE  CellOf(cache, block', p) = IF p = Place(begin) THEN 0 ELSE CellOf(cache, block, p)
  <2> DEFINE m == block'
  <2>1. Written(m, begin, 0)
    BY <1>2 DEF Written
  <2> HIDE DEF m
  <2>2. CellOf(cache, m, p) = IF p = Place(begin) THEN 0 ELSE CellOf(cache, block, p)
    BY <1>1, <1>3, <2>1, OnePlaceChanges
  <2> QED BY <2>2 DEF m
<1>13. \A i \in 2..size : Turn(Place(begin) + i - 1, Room) # Place(begin)
  BY <1>1, MeasuredBetween, BehindLast DEF EndIsBehind
<1>14. /\ size \in Nat \ {0}
       /\ Held \in [1..size -> 0..Bytes] /\ Held' \in [1..size - 1 -> 0..Bytes]
  <2>1. Held' \in [1..size' -> 0..Bytes]
    BY <1>7 DEF Readable
  <2> QED BY <1>1, <1>9, <1>10, <2>1 DEF Readable, Measured
<1>15. \A i \in 1..size - 1 : Held'[i] = Held[i + 1]
  <2> TAKE i \in 1..size - 1
  <2>1. i + 1 \in 2..size /\ i + 1 \in 1..size /\ i \in 1..size'
    BY <1>10, <1>14
  <2>2. Held'[i] = CellOf(cache, block', Turn(Place(begin)' + i - 1, Room))
    BY <1>2, <1>7, <1>8, <2>1 DEF Readable
  <2>3. Turn(Place(begin) + (i + 1) - 1, Room) \in 0..Room - 1
        /\ Held[i + 1] = CellOf(cache, block, Turn(Place(begin) + (i + 1) - 1, Room))
    BY <1>1, <2>1 DEF Readable
  <2>4. Held'[i] = CellOf(cache, block', Turn(Place(begin) + (i + 1) - 1, Room))
    BY <1>10, <2>2
  <2> QED BY <1>12, <1>13, <2>1, <2>3, <2>4
<1>16. Held # <<>> /\ Held' = Tail(Held)
  <2> DEFINE f == Held
             g == Held'
  <2>1. size \in Nat \ {0} /\ f \in [1..size -> 0..Bytes] /\ g \in [1..size - 1 -> 0..Bytes]
        /\ \A i \in 1..size - 1 : g[i] = f[i + 1]
    BY <1>14, <1>15
  <2> HIDE DEF f, g
  <2>2. f # <<>> /\ g = Tail(f)
    BY <2>1, ShrinksByOne
  <2> QED BY <2>2 DEF f, g
<1> QED BY <1>5, <1>6, <1>11, <1>16 DEF RInv

-----------------------------------------------------------------------------
(* One more block                                                          *)

LEMMA PlaceOrder ==
  ASSUME NEW n \in Nat \ {0}, NEW b \in Nat, NEW c \in Nat, NEW a \in 0..n - 1, NEW d \in 0..n - 1
  PROVE  b * n + a <= c * n + d <=> b < c \/ (b = c /\ a <= d)
<1> DEFINE u == b * n
           v == c * n
<1>1. u \in Int /\ v \in Int /\ (b = c => u = v)
  OBVIOUS
<1>2. b < c => u + n <= v
  BY BlocksApart
<1>3. c < b => v + n <= u
  BY BlocksApart
<1> HIDE DEF u, v
<1>4. u + a <= v + d <=> b < c \/ (b = c /\ a <= d)
  <2>1. n \in Int /\ a \in Int /\ d \in Int /\ 0 <= a /\ a < n /\ 0 <= d /\ d < n /\ b \in Int /\ c \in Int
    OBVIOUS
  <2>2. CASE b < c
    BY <1>1, <1>2, <2>1, <2>2
  <2>3. CASE b = c
    BY <1>1, <2>1, <2>3
  <2>4. CASE c < b
    BY <1>1, <1>3, <2>1, <2>4
  <2> QED BY <2>1, <2>2, <2>3, <2>4
<1> QED BY <1>4 DEF u, v

\* The list with a new block at i.
Opened(c, i) ==
  /\ c \in Seq(Blocks) /\ Len(c) = Len(cache) + 1
  /\ \A j \in 1..Len(cache) + 1 :
       c[j] = IF j < i THEN cache[j] ELSE IF j = i THEN Len(cache) + 1 ELSE cache[j - 1]
  /\ \A j \in 1..Len(cache) + 1 : c[j] <= Len(cache) + 1
  /\ \A j, l \in 1..Len(cache) + 1 : j # l => c[j] # c[l]

LEMMA OpensNew ==
  ASSUME TypeOK, NewIsNew, Len(cache) < MaxBlocks, NEW i \in 1..Len(cache) + 1
  PROVE  Opened(With(i, Len(cache) + 1), i)
<1> DEFINE k == Len(cache)
           c == With(i, k + 1)
<1>1. /\ k \in Nat /\ k + 1 \in Blocks /\ cache \in Seq(Blocks)
      /\ \A j \in 1..k : cache[j] \in Nat /\ cache[j] <= k
      /\ \A j, l \in 1..k : j # l => cache[j] # cache[l]
  <2>1. k \in 1..MaxBlocks /\ MaxBlocks \in Nat /\ k < MaxBlocks /\ cache \in Seq(1..MaxBlocks)
    BY SizesAssumption DEF TypeOK, Blocks
  <2>2. \A j \in 1..k : cache[j] \in 1..MaxBlocks
    BY <2>1, ElementOfSeq
  <2> QED BY <2>1, <2>2 DEF Blocks, TypeOK, NewIsNew
<1>2. /\ c \in Seq(Blocks) /\ Len(c) = k + 1
      /\ \A j \in 1..k + 1 :
           c[j] = IF j < i THEN cache[j] ELSE IF j = i THEN k + 1 ELSE cache[j - 1]
  BY <1>1, Inserted
<1> HIDE DEF c, k
<1>3. i \in 1..k + 1
  BY DEF k
<1>4. ASSUME NEW j \in 1..k + 1
      PROVE  /\ j < i => j \in 1..k /\ c[j] = cache[j]
             /\ j = i => c[j] = k + 1
             /\ j > i => j - 1 \in 1..k /\ c[j] = cache[j - 1]
             /\ j < i \/ j = i \/ j > i
  BY <1>1, <1>2, <1>3
<1>5. \A j \in 1..k + 1 : c[j] <= k + 1
  BY <1>1, <1>4
<1>6. ASSUME NEW j \in 1..k + 1, NEW l \in 1..k + 1, j < l
      PROVE  c[j] # c[l]
  <2>1. j \in Int /\ l \in Int /\ i \in Int
    BY <1>1, <1>3
  <2>2. CASE l < i
    BY <1>1, <1>4, <1>6, <2>1, <2>2
  <2>3. CASE l = i
    <3>1. j < i
      BY <1>6, <2>3
    <3>2. c[j] <= k /\ c[l] = k + 1 /\ c[j] \in Nat
      BY <1>1, <1>4, <2>3, <3>1
    <3> QED BY <1>1, <3>2
  <2>4. CASE l > i
    <3>1. l - 1 \in 1..k /\ c[l] = cache[l - 1]
      BY <1>4, <2>4
    <3>2. CASE j < i
      <4>1. j \in 1..k /\ c[j] = cache[j] /\ j # l - 1
        BY <1>4, <2>1, <2>4, <3>2
      <4> QED BY <1>1, <3>1, <4>1
    <3>3. CASE j = i
      BY <1>1, <1>4, <3>1, <3>3
    <3>4. CASE j > i
      <4>1. j - 1 \in 1..k /\ c[j] = cache[j - 1] /\ j - 1 # l - 1
        BY <1>4, <1>6, <2>1, <3>4
      <4> QED BY <1>1, <3>1, <4>1
    <3> QED BY <2>1, <3>2, <3>3, <3>4
  <2> QED BY <2>1, <2>2, <2>3, <2>4
<1>7. ASSUME NEW j \in 1..k + 1, NEW l \in 1..k + 1, j # l
      PROVE  c[j] # c[l]
  <2>1. j < l \/ l < j
    BY <1>1, <1>7
  <2> QED BY <1>6, <2>1
<1> QED BY <1>2, <1>5, <1>7 DEF Opened, c, k

\* What both ways to put in a block leave: begin and what lies behind it in the
\* list are a block further, what lies in front of begin is where it was.
Moved ==
  /\ TypeOK' /\ IteratorsAgree' /\ InRing' /\ NewIsNew'
  /\ Len(cache)' = Len(cache) + 1
  /\ Place(begin)' = Place(begin) + Inc
  /\ Place(end)' = IF Place(end) >= Place(begin) THEN Place(end) + Inc ELSE Place(end)
  /\ \A p \in 0..Room - 1 :
       /\ p >= Place(begin) => CellOf(cache', block', p + Inc) = CellOf(cache, block, p)
       /\ p < Place(end) /\ Place(end) < Place(begin)
            => CellOf(cache', block', p) = CellOf(cache, block, p)

\* What a place's block and index say of it.
LEMMA PlaceOf ==
  ASSUME TypeOK, InRing, NEW p \in 0..Room - 1
  PROVE  /\ p \div Inc \in 0..Len(cache) - 1 /\ p % Inc \in 0..Inc - 1
         /\ (p + Inc) \div Inc = (p \div Inc) + 1 /\ (p + Inc) % Inc = p % Inc
         /\ p >= Place(begin) => p \div Inc >= begin.bolckIndex
         /\ p < Place(end) => p \div Inc <= end.bolckIndex
<1> DEFINE q == p \div Inc
           a == p % Inc
<1>1. /\ q \in 0..Len(cache) - 1 /\ a \in 0..Inc - 1
      /\ p = q * Inc + a
  BY CellsTyped
<1>2. /\ Inc \in Nat \ {0} /\ begin.bolckIndex \in Nat /\ end.bolckIndex \in Nat
      /\ begin.arrayIndex \in 0..Inc - 1 /\ end.arrayIndex \in 0..Inc - 1
      /\ Len(cache) \in Nat
  BY SizesAssumption DEF TypeOK, Index, Blocks
<1>3. /\ Place(begin) = begin.bolckIndex * Inc + begin.arrayIndex
      /\ Place(end) = end.bolckIndex * Inc + end.arrayIndex
  BY DEF Place
<1> HIDE DEF q, a
<1>4. q \in Nat
  BY <1>1, <1>2
<1>5. /\ (q + 1) * Inc + a \in Nat
      /\ ((q + 1) * Inc + a) \div Inc = q + 1
      /\ ((q + 1) * Inc + a) % Inc = a
  <2>1. q + 1 \in Nat
    BY <1>4
  <2> QED BY <1>1, <1>2, <2>1, PlaceParts
<1>6. p + Inc = (q + 1) * Inc + a
  <2>1. (q + 1) * Inc = q * Inc + Inc /\ q * Inc \in Int
    BY <1>2, <1>4
  <2> QED BY <1>1, <1>2, <2>1
<1>7. p >= Place(begin) => q >= begin.bolckIndex
  <2>1. begin.bolckIndex * Inc + begin.arrayIndex <= q * Inc + a
          <=> begin.bolckIndex < q \/ (begin.bolckIndex = q /\ begin.arrayIndex <= a)
    BY <1>1, <1>2, <1>4, PlaceOrder
  <2>2. p \in Int /\ Place(begin) \in Int
    BY <1>1, <1>2, <1>3, <1>4
  <2> QED BY <1>1, <1>2, <1>3, <1>4, <2>1, <2>2
<1>8. p < Place(end) => q <= end.bolckIndex
  <2>1. q * Inc + a <= end.bolckIndex * Inc + end.arrayIndex
          <=> q < end.bolckIndex \/ (q = end.bolckIndex /\ a <= end.arrayIndex)
    BY <1>1, <1>2, <1>4, PlaceOrder
  <2>2. p \in Int /\ Place(end) \in Int
    BY <1>1, <1>2, <1>3, <1>4
  <2> QED BY <1>1, <1>2, <1>3, <1>4, <2>1, <2>2
<1> QED BY <1>1, <1>5, <1>6, <1>7, <1>8 DEF q, a

\* Which of begin and end is in front, by their names.
LEMMA EndInFront ==
  ASSUME TypeOK
  PROVE  Place(end) >= Place(begin) <=>
           begin.bolckIndex < end.bolckIndex
           \/ (begin.bolckIndex = end.bolckIndex /\ begin.arrayIndex <= end.arrayIndex)
<1>1. /\ Inc \in Nat \ {0} /\ begin.bolckIndex \in Nat /\ end.bolckIndex \in Nat
      /\ begin.arrayIndex \in 0..Inc - 1 /\ end.arrayIndex \in 0..Inc - 1
  BY SizesAssumption DEF TypeOK, Index, Blocks
<1>2. Place(begin) <= Place(end) <=>
        begin.bolckIndex < end.bolckIndex
        \/ (begin.bolckIndex = end.bolckIndex /\ begin.arrayIndex <= end.arrayIndex)
  BY <1>1, PlaceOrder DEF Place
<1>3. Place(begin) \in Int /\ Place(end) \in Int
  BY <1>1 DEF Place
<1> QED BY <1>2, <1>3

LEMMA NextBlock ==
  ASSUME NEW ix \in Index, NEW jx, jx.bolckIndex = ix.bolckIndex + 1, jx.arrayIndex = ix.arrayIndex
  PROVE  Place(jx) = Place(ix) + Inc
<1>1. Inc \in Nat \ {0} /\ ix.bolckIndex \in Nat /\ ix.arrayIndex \in Nat
  BY SizesAssumption DEF Index
<1>2. (ix.bolckIndex + 1) * Inc = ix.bolckIndex * Inc + Inc /\ ix.bolckIndex * Inc \in Int
  BY <1>1
<1> QED BY <1>1, <1>2 DEF Place

\* The parts of the type invariant the growth of the list is about.
LEMMA GrowthTyped ==
  ASSUME RInv, Grow
  PROVE  /\ TypeOK /\ IteratorsAgree /\ InRing /\ NewIsNew /\ Measured
         /\ Len(cache) \in Nat \ {0} /\ Len(cache) < MaxBlocks /\ MaxBlocks \in Nat
         /\ Len(cache) + 1 \in Blocks
         /\ begin \in Index /\ end \in Index
         /\ begin.bolckIndex \in 0..Len(cache) - 1 /\ end.bolckIndex \in 0..Len(cache) - 1
         /\ At(begin.iter) = begin.bolckIndex + 1
         /\ begin.iter # Len(cache) + 1 /\ \A i \in 1..Len(cache) : cache[i] \in Blocks /\ cache[i] # Len(cache) + 1
         /\ grow - 1 \in 0..MaxBlocks
<1>1. TypeOK /\ IteratorsAgree /\ InRing /\ NewIsNew /\ Fits /\ Measured
  BY RingMeasured DEF RInv
<1>2. call = "push" /\ grow > 0 /\ MaxBlocks \in Nat /\ grow \in 0..MaxBlocks /\ Len(cache) \in 1..MaxBlocks
  BY <1>1, SizesAssumption DEF Grow, TypeOK, Blocks
<1>3. Len(cache) < MaxBlocks
  BY <1>1, <1>2 DEF Fits
<1>4. begin \in Index /\ end \in Index
  BY <1>1 DEF TypeOK
<1>5. begin.bolckIndex \in 0..Len(cache) - 1 /\ end.bolckIndex \in 0..Len(cache) - 1
  BY <1>1, <1>2, <1>4 DEF Index, InRing
<1>6. /\ begin.bolckIndex + 1 \in 1..Len(cache)
      /\ cache[begin.bolckIndex + 1] = begin.iter
  BY <1>1, <1>2, <1>5 DEF IteratorsAgree
<1>7. \A i \in 1..Len(cache) : cache[i] \in Blocks /\ cache[i] # Len(cache) + 1
  <2>1. \A i \in 1..Len(cache) : cache[i] \in Blocks
    BY <1>1, ElementOfSeq DEF TypeOK
  <2>2. \A i \in 1..Len(cache) : cache[i] \in Nat /\ cache[i] <= Len(cache)
    BY <1>1, <2>1 DEF NewIsNew, Blocks
  <2> QED BY <1>2, <2>1, <2>2
<1>8. begin.iter # Len(cache) + 1
  BY <1>6, <1>7
<1>9. At(begin.iter) = begin.bolckIndex + 1
  BY <1>1, <1>6, AtItsPlace
<1> QED BY <1>1, <1>2, <1>3, <1>4, <1>5, <1>7, <1>8, <1>9 DEF Blocks

\* The blocks from the new one on are one further.
LEMMA OpenedMoves ==
  ASSUME TypeOK, NEW i \in 1..Len(cache) + 1, NEW c, Opened(c, i)
  PROVE  /\ c[i] = Len(cache) + 1
         /\ \A j \in 1..Len(cache) : /\ j < i => c[j] = cache[j]
                                     /\ j >= i => c[j + 1] = cache[j]
<1>1. Len(cache) \in Nat /\ i \in Nat
  BY DEF TypeOK, Blocks
<1>2. ASSUME NEW j \in 1..Len(cache)
      PROVE  /\ j < i => c[j] = cache[j]
             /\ j >= i => c[j + 1] = cache[j]
  <2>1. j \in 1..Len(cache) + 1 /\ j + 1 \in 1..Len(cache) + 1 /\ (j + 1) - 1 = j
    BY <1>1
  <2>2. j >= i => ~(j + 1 < i) /\ j + 1 # i
    BY <1>1
  <2> DEFINE l == j + 1
  <2>3. l \in 1..Len(cache) + 1 /\ l - 1 = j /\ (j >= i => ~(l < i) /\ l # i)
    BY <2>1, <2>2
  <2> HIDE DEF l
  <2>4. j >= i => c[l] = cache[j]
    BY <2>3 DEF Opened
  <2> QED BY <2>1, <2>4 DEF Opened, l
<1>3. c[i] = Len(cache) + 1
  BY <1>1 DEF Opened
<1> QED BY <1>2, <1>3

LEMMA EmptyMoves ==
  ASSUME RInv, Grow, ~Splits
  PROVE  Moved
<1> DEFINE k == Len(cache)
           b == begin.bolckIndex
           e == end.bolckIndex
<1>1. /\ TypeOK /\ IteratorsAgree /\ InRing /\ NewIsNew /\ Measured
      /\ k \in Nat \ {0} /\ k < MaxBlocks /\ MaxBlocks \in Nat /\ k + 1 \in Blocks
      /\ begin \in Index /\ end \in Index /\ b \in 0..k - 1 /\ e \in 0..k - 1
      /\ At(begin.iter) = b + 1 /\ begin.iter # k + 1
      /\ \A i \in 1..k : cache[i] \in Blocks /\ cache[i] # k + 1
      /\ grow - 1 \in 0..MaxBlocks
  BY GrowthTyped
<1>2. /\ cache' = With(b + 1, k + 1)
      /\ block' = [block EXCEPT ![k + 1] = Zeros]
      /\ begin' = [begin EXCEPT !.bolckIndex = b + 1]
      /\ end' = IF b > e THEN end ELSE [end EXCEPT !.bolckIndex = e + 1]
      /\ grow' = grow - 1 /\ UNCHANGED <<call, left, next, ub>>
  BY <1>1 DEF Grow, InsertEmpty
<1>3. Opened(cache', b + 1)
  <2>1. b + 1 \in 1..k + 1
    BY <1>1
  <2> QED BY <1>1, <1>2, <2>1, OpensNew
<1>4. ~(b > e) <=> Place(end) >= Place(begin)
  <2>1. b \in Int /\ e \in Int /\ begin.arrayIndex \in Int /\ end.arrayIndex \in Int
    BY <1>1, SizesAssumption DEF Index
  <2>2. Place(end) >= Place(begin) <=> b < e \/ (b = e /\ begin.arrayIndex <= end.arrayIndex)
    BY <1>1, EndInFront
  <2> QED BY <2>1, <2>2 DEF Splits
<1>5. Len(cache') = k + 1
  BY <1>3 DEF Opened
<1>6. /\ begin' \in Index /\ begin'.bolckIndex = b + 1 /\ begin'.arrayIndex = begin.arrayIndex
      /\ begin'.iter = begin.iter
  <2>1. b + 1 \in 0..MaxBlocks - 1
    BY <1>1
  <2> QED BY <1>1, <1>2, <2>1 DEF Index
<1>7. /\ end' \in Index /\ end'.bolckIndex = (IF b > e THEN e ELSE e + 1)
      /\ end'.arrayIndex = end.arrayIndex /\ end'.iter = end.iter
  <2>1. e + 1 \in 0..MaxBlocks - 1
    BY <1>1
  <2>2. CASE b > e
    BY <1>1, <1>2, <2>2
  <2>3. CASE ~(b > e)
    BY <1>1, <1>2, <2>1, <2>3 DEF Index
  <2> QED BY <2>2, <2>3
<1>8. TypeOK'
  <2>1. Zeros \in [0..Inc - 1 -> 0..Bytes]
    BY BytesAssumption DEF Zeros
  <2>2. block' \in [Blocks -> [0..Inc - 1 -> 0..Bytes]]
    BY <1>1, <1>2, <2>1 DEF TypeOK
  <2> QED BY <1>1, <1>2, <1>3, <1>6, <1>7, <2>2 DEF TypeOK, Opened
<1> HIDE DEF k
<1> HIDE DEF b, e
<1>9. \A j \in 1..k : /\ j < b + 1 => cache'[j] = cache[j]
                      /\ j >= b + 1 => cache'[j + 1] = cache[j]
  <2> DEFINE c == cache'
  <2>1. Opened(c, b + 1) /\ b + 1 \in 1..Len(cache) + 1
    BY <1>1, <1>3 DEF k
  <2> HIDE DEF c
  <2>2. /\ \A j \in 1..Len(cache) : /\ j < b + 1 => c[j] = cache[j]
                                    /\ j >= b + 1 => c[j + 1] = cache[j]
    BY <1>1, <2>1, OpenedMoves
  <2> QED BY <2>2 DEF c, k
<1>10. InRing'
  BY <1>1, <1>5, <1>6, <1>7 DEF InRing
<1>11. IteratorsAgree'
  <2>1. cache[b + 1] = begin.iter /\ cache[e + 1] = end.iter
    BY <1>1 DEF IteratorsAgree, b, e
  <2>2. cache'[b + 1 + 1] = cache[b + 1]
    <3>1. b + 1 \in 1..k /\ b + 1 >= b + 1
      BY <1>1
    <3> QED BY <1>9, <3>1
  <2>3. CASE b > e
    <3>1. e + 1 \in 1..k /\ e + 1 < b + 1
      BY <1>1, <2>3
    <3>2. cache'[e + 1] = cache[e + 1]
      BY <1>9, <3>1
    <3> QED BY <1>6, <1>7, <2>1, <2>2, <2>3, <3>2 DEF IteratorsAgree
  <2>4. CASE ~(b > e)
    <3>1. e + 1 \in 1..k /\ e + 1 >= b + 1
      BY <1>1, <2>4
    <3>2. cache'[e + 1 + 1] = cache[e + 1]
      BY <1>9, <3>1
    <3> QED BY <1>6, <1>7, <2>1, <2>2, <2>4, <3>2 DEF IteratorsAgree
  <2> QED BY <2>3, <2>4
<1>12. NewIsNew'
  BY <1>3, <1>5 DEF Opened, NewIsNew, k
<1>13. Place(begin)' = Place(begin) + Inc
  <2>1. begin'.bolckIndex = begin.bolckIndex + 1 /\ begin'.arrayIndex = begin.arrayIndex
    BY <1>6 DEF b
  <2> DEFINE jx == begin'
  <2>2. jx.bolckIndex = begin.bolckIndex + 1 /\ jx.arrayIndex = begin.arrayIndex
    BY <2>1
  <2>3. Place(begin)' = Place(jx)
    BY DEF Place
  <2> HIDE DEF jx
  <2>4. Place(jx) = Place(begin) + Inc
    BY <1>1, <2>2, NextBlock
  <2> QED BY <2>3, <2>4
<1>14. Place(end)' = IF Place(end) >= Place(begin) THEN Place(end) + Inc ELSE Place(end)
  <2> DEFINE jx == end'
  <2>1. Place(end)' = Place(jx)
    BY DEF Place
  <2>2. CASE b > e
    <3>1. Place(end)' = Place(end)
      BY <1>2, <2>2 DEF Place
    <3> QED BY <1>4, <2>2, <3>1
  <2>3. CASE ~(b > e)
    <3>1. jx.bolckIndex = end.bolckIndex + 1 /\ jx.arrayIndex = end.arrayIndex
      BY <1>7, <2>3 DEF e
    <3> HIDE DEF jx
    <3>2. Place(jx) = Place(end) + Inc
      BY <1>1, <3>1, NextBlock
    <3> QED BY <1>4, <2>1, <2>3, <3>2
  <2> QED BY <2>2, <2>3
<1>15. ASSUME NEW p \in 0..Room - 1
       PROVE  /\ p >= Place(begin) => CellOf(cache', block', p + Inc) = CellOf(cache, block, p)
              /\ p < Place(end) /\ Place(end) < Place(begin)
                   => CellOf(cache', block', p) = CellOf(cache, block, p)
  <2> DEFINE q == p \div Inc
             a == p % Inc
  <2>1. /\ q \in 0..k - 1 /\ a \in 0..Inc - 1
        /\ (p + Inc) \div Inc = q + 1 /\ (p + Inc) % Inc = a
        /\ p >= Place(begin) => q >= b
        /\ p < Place(end) => q <= e
    BY <1>1, PlaceOf DEF k, b, e
  <2>2. /\ CellOf(cache, block, p) = block[cache[q + 1]][a]
        /\ CellOf(cache', block', p) = block'[cache'[q + 1]][a]
        /\ CellOf(cache', block', p + Inc) = block'[cache'[q + 1 + 1]][a]
    BY <2>1 DEF CellOf
  <2> HIDE DEF q, a
  <2>3. q + 1 \in 1..k
    BY <1>1, <2>1
  <2>4. block'[cache[q + 1]] = block[cache[q + 1]]
    BY <1>1, <1>2, <2>3 DEF TypeOK, k
  <2>5. ASSUME p >= Place(begin) PROVE CellOf(cache', block', p + Inc) = CellOf(cache, block, p)
    <3>1. q >= b
      BY <2>1, <2>5
    <3>2. q + 1 \in 1..k /\ q + 1 >= b + 1
      BY <1>1, <2>1, <3>1
    <3>3. cache'[q + 1 + 1] = cache[q + 1]
      BY <1>9, <3>2
    <3> QED BY <2>2, <2>4, <3>3
  <2>6. ASSUME p < Place(end), Place(end) < Place(begin) PROVE CellOf(cache', block', p) = CellOf(cache, block, p)
    <3>1. q <= e /\ e < b
      <4>1. ~(Place(end) >= Place(begin))
        BY <1>1, <2>6 DEF Measured
      <4> QED BY <1>1, <1>4, <2>1, <2>6, <4>1
    <3>2. q + 1 \in 1..k /\ q + 1 < b + 1
      BY <1>1, <2>1, <3>1
    <3>3. cache'[q + 1] = cache[q + 1]
      BY <1>9, <3>2
    <3> QED BY <2>2, <2>4, <3>3
  <2> QED BY <2>5, <2>6
<1>16. Len(cache)' = Len(cache) + 1
  BY <1>5 DEF k
<1> QED BY <1>8, <1>10, <1>11, <1>12, <1>13, <1>14, <1>15, <1>16 DEF Moved

LEMMA CopyMoves ==
  ASSUME RInv, Grow, Splits
  PROVE  Moved
<1> DEFINE k == Len(cache)
           b == begin.bolckIndex
<1>1. /\ TypeOK /\ IteratorsAgree /\ InRing /\ NewIsNew /\ Measured
      /\ k \in Nat \ {0} /\ k < MaxBlocks /\ MaxBlocks \in Nat /\ k + 1 \in Blocks
      /\ begin \in Index /\ end \in Index /\ b \in 0..k - 1
      /\ At(begin.iter) = b + 1 /\ begin.iter # k + 1
      /\ \A i \in 1..k : cache[i] \in Blocks /\ cache[i] # k + 1
      /\ grow - 1 \in 0..MaxBlocks
  BY GrowthTyped
<1>2. /\ cache' = With(b + 1 + 1, k + 1)
      /\ block' = [block EXCEPT ![k + 1] = block[begin.iter]]
      /\ begin' = [begin EXCEPT !.bolckIndex = b + 1, !.iter = k + 1]
      /\ end' = end
      /\ grow' = grow - 1 /\ UNCHANGED <<call, left, next, ub>>
  BY <1>1 DEF Grow, InsertCopy
<1>3. end.bolckIndex = b /\ begin.arrayIndex > end.arrayIndex
  BY DEF Splits
<1>4. Opened(cache', b + 1 + 1)
  <2>1. b + 1 + 1 \in 1..k + 1
    BY <1>1
  <2> QED BY <1>1, <1>2, <2>1, OpensNew
<1>5. Len(cache') = k + 1
  BY <1>4 DEF Opened
<1>6. /\ begin' \in Index /\ begin'.bolckIndex = b + 1 /\ begin'.arrayIndex = begin.arrayIndex
      /\ begin'.iter = k + 1
  <2>1. b + 1 \in 0..MaxBlocks - 1
    BY <1>1
  <2> QED BY <1>1, <1>2, <2>1 DEF Index
<1>7. begin.iter \in Blocks
  BY <1>1 DEF Index
<1>8. TypeOK'
  <2>1. block' \in [Blocks -> [0..Inc - 1 -> 0..Bytes]]
    BY <1>1, <1>2, <1>7 DEF TypeOK
  <2> QED BY <1>1, <1>2, <1>4, <1>6, <2>1 DEF TypeOK, Opened
<1> HIDE DEF k, b
<1>9. /\ cache'[b + 1 + 1] = k + 1
      /\ \A j \in 1..k : /\ j < b + 1 + 1 => cache'[j] = cache[j]
                         /\ j >= b + 1 + 1 => cache'[j + 1] = cache[j]
  <2> DEFINE c == cache'
  <2>1. Opened(c, b + 1 + 1) /\ b + 1 + 1 \in 1..Len(cache) + 1
    BY <1>1, <1>4 DEF k
  <2> HIDE DEF c
  <2>2. /\ c[b + 1 + 1] = Len(cache) + 1
        /\ \A j \in 1..Len(cache) : /\ j < b + 1 + 1 => c[j] = cache[j]
                                    /\ j >= b + 1 + 1 => c[j + 1] = cache[j]
    BY <1>1, <2>1, OpenedMoves
  <2> QED BY <2>2 DEF c, k
<1>10. InRing'
  BY <1>1, <1>2, <1>3, <1>5, <1>6 DEF InRing, k
<1>11. IteratorsAgree'
  <2>1. b + 1 \in 1..k /\ b + 1 < b + 1 + 1
    BY <1>1
  <2>2. cache'[b + 1] = cache[b + 1]
    BY <1>9, <2>1
  <2>3. cache[b + 1] = end.iter
    BY <1>1, <1>3 DEF IteratorsAgree
  <2> QED BY <1>2, <1>3, <1>6, <1>9, <2>2, <2>3 DEF IteratorsAgree
<1>12. NewIsNew'
  BY <1>4, <1>5 DEF Opened, NewIsNew, k
<1>13. Place(begin)' = Place(begin) + Inc
  <2> DEFINE jx == begin'
  <2>1. jx.bolckIndex = begin.bolckIndex + 1 /\ jx.arrayIndex = begin.arrayIndex
    BY <1>6 DEF b
  <2>2. Place(begin)' = Place(jx)
    BY DEF Place
  <2> HIDE DEF jx
  <2>3. Place(jx) = Place(begin) + Inc
    BY <1>1, <2>1, NextBlock
  <2> QED BY <2>2, <2>3
<1>14. Place(end) < Place(begin)
  <2>1. begin.arrayIndex \in Int /\ end.arrayIndex \in Int /\ b \in Int
    BY <1>1, SizesAssumption DEF Index
  <2>2. ~(Place(end) >= Place(begin))
    BY <1>1, <1>3, <2>1, EndInFront DEF b
  <2> QED BY <1>1, <2>2 DEF Measured
<1>15. Place(end)' = IF Place(end) >= Place(begin) THEN Place(end) + Inc ELSE Place(end)
  <2>1. Place(end)' = Place(end)
    BY <1>2 DEF Place
  <2>2. ~(Place(end) >= Place(begin))
    BY <1>1, <1>14 DEF Measured
  <2> QED BY <2>1, <2>2
<1>16. ASSUME NEW p \in 0..Room - 1
       PROVE  /\ p >= Place(begin) => CellOf(cache', block', p + Inc) = CellOf(cache, block, p)
              /\ p < Place(end) /\ Place(end) < Place(begin)
                   => CellOf(cache', block', p) = CellOf(cache, block, p)
  <2> DEFINE q == p \div Inc
             a == p % Inc
  <2>1. /\ q \in 0..k - 1 /\ a \in 0..Inc - 1
        /\ (p + Inc) \div Inc = q + 1 /\ (p + Inc) % Inc = a
        /\ p >= Place(begin) => q >= b
        /\ p < Place(end) => q <= b
    BY <1>1, <1>3, PlaceOf DEF k, b
  <2>2. /\ CellOf(cache, block, p) = block[cache[q + 1]][a]
        /\ CellOf(cache', block', p) = block'[cache'[q + 1]][a]
        /\ CellOf(cache', block', p + Inc) = block'[cache'[q + 1 + 1]][a]
    BY <2>1 DEF CellOf
  <2> HIDE DEF q, a
  <2>3. q + 1 \in 1..k
    BY <1>1, <2>1
  <2>4. block'[cache[q + 1]] = block[cache[q + 1]]
    BY <1>1, <1>2, <2>3 DEF TypeOK, k
  <2>5. ASSUME p >= Place(begin) PROVE CellOf(cache', block', p + Inc) = CellOf(cache, block, p)
    <3>1. CASE q = b
      <4>1. block'[k + 1] = block[begin.iter]
        BY <1>1, <1>2 DEF TypeOK
      <4>2. cache[b + 1] = begin.iter
        BY <1>1 DEF IteratorsAgree, b
      <4> QED BY <1>9, <2>2, <3>1, <4>1, <4>2
    <3>2. CASE q # b
      <4>1. q + 1 \in 1..k /\ q + 1 >= b + 1 + 1
        BY <1>1, <2>1, <2>5, <3>2
      <4>2. cache'[q + 1 + 1] = cache[q + 1]
        BY <1>9, <4>1
      <4> QED BY <2>2, <2>4, <4>2
    <3> QED BY <3>1, <3>2
  <2>6. ASSUME p < Place(end) PROVE CellOf(cache', block', p) = CellOf(cache, block, p)
    <3>1. q + 1 \in 1..k /\ q + 1 < b + 1 + 1
      BY <1>1, <2>1, <2>6
    <3>2. cache'[q + 1] = cache[q + 1]
      BY <1>9, <3>1
    <3> QED BY <2>2, <2>4, <3>2
  <2> QED BY <2>5, <2>6
<1>17. Len(cache)' = Len(cache) + 1
  BY <1>5 DEF k
<1> QED BY <1>8, <1>10, <1>11, <1>12, <1>13, <1>15, <1>16, <1>17 DEF Moved

\* A place more in front of begin: what size and the places behind begin become.
Shifted(r, b, s, n, t) ==
  /\ t = s
  /\ \A i \in 1..s : /\ b + i - 1 < r => /\ Turn(b + i - 1, r) = b + i - 1
                                         /\ Turn(b + n + i - 1, r + n) = b + i - 1 + n
                     /\ ~(b + i - 1 < r) => /\ Turn(b + i - 1, r) = b + i - 1 - r
                                            /\ Turn(b + n + i - 1, r + n) = b + i - 1 - r

LEMMA SizeStays ==
  \A r, b, e, s, n, f, t :
    /\ Between(r, b, e, s) /\ n \in Nat /\ Between(r + n, b + n, f, t)
    /\ f = IF e >= b THEN e + n ELSE e
    => Shifted(r, b, s, n, t)
  BY DEF Between, Shifted, Turn

\* Growing moves, loses and doubles no byte, and names no block wrongly.
LEMMA GrowStep ==
  ASSUME RInv, Grow
  PROVE  RInv' /\ Held' = Held
<1>1. TypeOK /\ IteratorsAgree /\ InRing /\ NewIsNew /\ Fits /\ Measured /\ Readable
  BY RingMeasured, RingReadable DEF RInv
<1>2. Moved
  BY EmptyMoves, CopyMoves
<1>3. Measured' /\ Readable'
  BY <1>2, RingMeasuredNext, RingReadableNext DEF Moved
<1>4. Inc \in Nat \ {0} /\ Len(cache) \in Nat /\ grow \in Nat
  BY <1>1, SizesAssumption DEF TypeOK, Blocks
<1>5. Room' = Room + Inc /\ capacity' = capacity + Inc
  <2>1. Room' = (Len(cache) + 1) * Inc
    BY <1>2 DEF Moved, Room
  <2>2. (Len(cache) + 1) * Inc = Len(cache) * Inc + Inc /\ Len(cache) * Inc \in Int
    BY <1>4
  <2> QED BY <1>4, <2>1, <2>2 DEF Room, capacity
<1>6. /\ Between(Room, Place(begin), Place(end), size)
      /\ Between(Room + Inc, Place(begin) + Inc, Place(end)', size')
  <2>1. Between(Room', Place(begin)', Place(end)', size')
    BY <1>3, MeasuredBetweenNext
  <2>2. Place(begin)' = Place(begin) + Inc
    BY <1>2 DEF Moved
  <2> QED BY <1>1, <1>5, <2>1, <2>2, MeasuredBetween
<1>7. Shifted(Room, Place(begin), size, Inc, size')
  <2>1. Place(end)' = IF Place(end) >= Place(begin) THEN Place(end) + Inc ELSE Place(end)
    BY <1>2 DEF Moved
  <2>2. Inc \in Nat
    BY <1>4
  <2> QED BY <1>6, <2>1, <2>2, SizeStays
<1>8. size' = size /\ size \in Nat
  BY <1>1, <1>7 DEF Shifted, Measured
<1>9. Fits'
  <2>1. /\ call' = "push" /\ call = "push" /\ grow > 0 /\ grow' = grow - 1 /\ left' = left
        /\ left \in Int
    BY <1>1, SizesAssumption DEF Grow, TypeOK
  <2>2. (grow - 1) * Inc = grow * Inc - Inc /\ grow * Inc \in Int
    BY <1>4
  <2>3. Len(cache)' + grow' = Len(cache) + grow
    BY <1>2, <1>4, <2>1 DEF Moved
  <2>4. capacity' + grow' * Inc = capacity + grow * Inc
    BY <1>1, <1>4, <1>5, <2>1, <2>2 DEF Measured
  <2> QED BY <1>1, <1>8, <2>1, <2>3, <2>4 DEF Fits
<1>10. Held \in [1..size -> 0..Bytes] /\ Held' \in [1..size -> 0..Bytes]
  <2>1. Held' \in [1..size' -> 0..Bytes]
    BY <1>3 DEF Readable
  <2> QED BY <1>1, <1>8, <2>1 DEF Readable
<1>11. \A i \in 1..size : Held'[i] = Held[i]
  <2> TAKE i \in 1..size
  <2> DEFINE p == Turn(Place(begin) + i - 1, Room)
  <2>1. p \in 0..Room - 1 /\ Held[i] = CellOf(cache, block, p)
    BY <1>1 DEF Readable
  <2>2. Held'[i] = CellOf(cache', block', Turn(Place(begin) + Inc + i - 1, Room + Inc))
    <3>1. Held'[i] = CellOf(cache', block', Turn(Place(begin)' + i - 1, Room'))
      BY <1>3, <1>8 DEF Readable
    <3> QED BY <1>2, <1>5, <3>1 DEF Moved
  <2>3. /\ Place(begin) + i - 1 < Room
             => p = Place(begin) + i - 1 /\ Turn(Place(begin) + Inc + i - 1, Room + Inc) = p + Inc
        /\ ~(Place(begin) + i - 1 < Room)
             => p = Place(begin) + i - 1 - Room /\ Turn(Place(begin) + Inc + i - 1, Room + Inc) = p
    BY <1>7 DEF Shifted
  <2> HIDE DEF p
  <2>4. CASE Place(begin) + i - 1 < Room
    <3>1. p >= Place(begin)
      BY <1>1, <1>8, <2>3, <2>4 DEF Measured
    <3>2. CellOf(cache', block', p + Inc) = CellOf(cache, block, p)
      BY <1>2, <2>1, <3>1 DEF Moved
    <3> QED BY <2>1, <2>2, <2>3, <2>4, <3>2
  <2>5. CASE ~(Place(begin) + i - 1 < Room)
    <3>1. p < Place(end) /\ Place(end) < Place(begin)
      <4>1. p = Place(begin) + i - 1 - Room
        BY <2>3, <2>5
      <4>2. /\ Room \in Int /\ Place(begin) \in Int /\ Place(end) \in Int /\ size \in Int /\ i \in 1..size
            /\ Place(begin) < Room /\ Place(end) < Room
            /\ size = IF Place(end) >= Place(begin) THEN Place(end) - Place(begin)
                      ELSE Place(end) - Place(begin) + Room
        BY <1>1 DEF Measured
      <4> QED BY <2>5, <4>1, <4>2
    <3>2. CellOf(cache', block', p) = CellOf(cache, block, p)
      BY <1>2, <2>1, <3>1 DEF Moved
    <3> QED BY <2>1, <2>2, <2>3, <2>5, <3>2
  <2> QED BY <2>4, <2>5
<1>12. Held' = Held
  <2> DEFINE f == Held
             g == Held'
  <2>1. f \in [1..size -> 0..Bytes] /\ g \in [1..size -> 0..Bytes] /\ \A i \in 1..size : g[i] = f[i]
    BY <1>10, <1>11
  <2> HIDE DEF f, g
  <2>2. f = [i \in 1..size |-> f[i]] /\ g = [i \in 1..size |-> g[i]]
    BY <2>1
  <2>3. [i \in 1..size |-> f[i]] = [i \in 1..size |-> g[i]]
    BY <2>1
  <2> QED BY <2>2, <2>3 DEF f, g
<1> QED BY <1>2, <1>9, <1>12 DEF RInv, Moved

-----------------------------------------------------------------------------
(* The calls                                                               *)

LEMMA StartsEmpty == Init => RInv /\ Held = <<>>
<1> SUFFICES ASSUME Init PROVE RInv /\ Held = <<>>
  OBVIOUS
<1>1. Inc \in Nat \ {0} /\ MaxBlocks \in Nat \ {0} /\ Bytes \in Nat \ {0}
  <2>1. Inc * MaxBlocks >= 1
    BY SizesAssumption
  <2>2. Inc * MaxBlocks \in Int
    BY SizesAssumption
  <2> QED BY <2>1, <2>2, SizesAssumption, BytesAssumption
<1>2. Zeros \in [0..Inc - 1 -> 0..Bytes]
  BY <1>1 DEF Zeros
<1>3. 1 \in Blocks /\ 0 \in 0..MaxBlocks - 1 /\ 0 \in 0..Inc - 1
  BY <1>1 DEF Blocks
<1>4. cache = <<1>> /\ Len(cache) = 1 /\ cache[1] = 1
  BY DEF Init
<1>5. begin = [bolckIndex |-> 0, arrayIndex |-> 0, iter |-> 1] /\ end = begin
  BY DEF Init
<1>6. TypeOK
  <2>1. cache \in Seq(Blocks)
    BY <1>3, <1>4
  <2>2. block \in [Blocks -> [0..Inc - 1 -> 0..Bytes]]
    BY <1>2 DEF Init
  <2>3. begin \in Index /\ end \in Index
    BY <1>3, <1>5 DEF Index
  <2>4. 0 \in 0..MaxBlocks /\ 0 \in 0..Inc * MaxBlocks /\ 1 \in 1..Bytes
    BY <1>1
  <2>5. Len(cache) \in Blocks
    BY <1>3, <1>4
  <2>6. \A i, j \in 1..Len(cache) : i # j => cache[i] # cache[j]
    BY <1>4
  <2>7. 0 \in 0..MaxBlocks
    BY <1>1
  <2>8. call = "none" /\ grow = 0 /\ left = 0 /\ next = 1 /\ ub = FALSE
    BY DEF Init
  <2> QED BY <2>1, <2>2, <2>3, <2>4, <2>5, <2>6, <2>7, <2>8 DEF TypeOK
<1>7. IteratorsAgree /\ InRing /\ NewIsNew
  BY <1>4, <1>5 DEF IteratorsAgree, InRing, NewIsNew
<1>8. Fits
  BY DEF Init, Fits
<1>9. Measured /\ Readable
  BY <1>6, <1>7, RingMeasured, RingReadable
<1>10. size = 0
  <2>1. Place(begin) \in Int /\ Place(end) = Place(begin)
    BY <1>5, <1>9 DEF Measured
  <2> QED BY <1>9, <2>1 DEF Measured
<1>11. Held = <<>>
  <2> DEFINE f == Held
  <2>1. f \in [1..0 -> 0..Bytes]
    BY <1>9, <1>10 DEF Readable
  <2> HIDE DEF f
  <2>2. f \in Seq(0..Bytes) /\ Len(f) = 0
    BY <2>1, FunIsSeq
  <2>3. f = <<>>
    BY <2>2, EmptySeq
  <2> QED BY <2>3 DEF f
<1> QED BY <1>6, <1>7, <1>8, <1>11 DEF RInv

\* A step that leaves the ring alone leaves what it is and holds alone.
LEMMA SameRing ==
  ASSUME RInv, UNCHANGED <<cache, block, begin, end>>
  PROVE  /\ (IteratorsAgree /\ InRing /\ NewIsNew)'
         /\ size' = size /\ capacity' = capacity /\ Held' = Held
<1>1. (IteratorsAgree /\ InRing /\ NewIsNew)'
  BY DEF RInv, IteratorsAgree, InRing, NewIsNew
<1>2. size' = size /\ capacity' = capacity
  BY DEF size, capacity, Room, Place
<1>3. Held' = Held
  BY <1>2 DEF Held, Byte, Room, Place
<1> QED BY <1>1, <1>2, <1>3

\* n bytes are less than one more block than n fills.
LEMMA RoundedUp ==
  ASSUME NEW m \in Nat \ {0}, NEW n \in Nat
  PROVE  /\ (n \div m) + 1 \in Nat \ {0}
         /\ n < ((n \div m) + 1) * m
         /\ ((n \div m) + 2) * m = ((n \div m) + 1) * m + m
<1> DEFINE q == n \div m
<1>1. q \in Nat /\ n % m \in 0..m - 1 /\ n = q * m + (n % m)
  BY PartsOfPlace
<1> HIDE DEF q
<1>2. (q + 1) * m = q * m + m /\ (q + 2) * m = q * m + m + m /\ q * m \in Int
  BY <1>1
<1>3. n < (q + 1) * m
  BY <1>1, <1>2
<1> QED BY <1>1, <1>2, <1>3 DEF q

\* Both growths make room for what is to be written.
LEMMA GrowthIsEnough ==
  ASSUME RInv, NEW n \in Nat, NEW g \in {Needed(n), NeededForString(n)}
  PROVE  g \in Nat /\ size + n <= capacity + g * Inc
<1>1. /\ Inc \in Nat \ {0} /\ size \in Nat /\ capacity \in Int /\ size <= capacity
  BY RingMeasured, SizesAssumption DEF RInv, Measured
<1>2. CASE capacity > size + n
  <2>1. g = 0 /\ g * Inc = 0
    BY <1>1, <1>2 DEF Needed, NeededForString
  <2> QED BY <1>1, <1>2, <2>1
<1>3. CASE ~(capacity > size + n)
  <2> DEFINE d == size + n - capacity
  <2>1. d \in Nat
    BY <1>1, <1>3
  <2>2. g = (d \div Inc) + 1 \/ g = (n \div Inc) + 2
    BY <1>3 DEF Needed, NeededForString
  <2> HIDE DEF d
  <2>3. CASE g = (d \div Inc) + 1
    <3>1. g \in Nat /\ d < g * Inc
      BY <1>1, <2>1, <2>3, RoundedUp
    <3>2. g * Inc \in Int
      BY <1>1, <3>1
    <3> QED BY <1>1, <2>1, <3>1, <3>2 DEF d
  <2>4. CASE g = (n \div Inc) + 2
    <3> DEFINE q == n \div Inc
    <3>1. q + 1 \in Nat /\ n < (q + 1) * Inc /\ (q + 2) * Inc = (q + 1) * Inc + Inc
      BY <1>1, RoundedUp
    <3> HIDE DEF q
    <3>2. g = q + 2 /\ q \in Int
      BY <1>1, <2>4 DEF q
    <3>3. g \in Nat /\ g * Inc \in Int /\ (q + 1) * Inc \in Int
      BY <1>1, <3>1, <3>2
    <3>4. g * Inc = (q + 1) * Inc + Inc
      BY <3>1, <3>2
    <3> QED BY <1>1, <3>1, <3>3, <3>4
  <2> QED BY <2>2, <2>3, <2>4
<1> QED BY <1>2, <1>3

LEMMA PushStep ==
  ASSUME RInv, NEW n \in 0..MaxPush, Push(n)
  PROVE  RInv' /\ Held' = Held
<1>1. TypeOK /\ IteratorsAgree /\ InRing /\ NewIsNew /\ Measured
  BY RingMeasured DEF RInv
<1>2. /\ grow' \in {Needed(n), NeededForString(n)} /\ Len(cache) + grow' <= MaxBlocks
      /\ call' = "push" /\ left' = n
      /\ UNCHANGED <<cache, block, begin, end, next, ub>>
  BY DEF Push
<1>3. n \in Nat
  BY SizesAssumption
<1>4. /\ (IteratorsAgree /\ InRing /\ NewIsNew)'
      /\ size' = size /\ capacity' = capacity /\ Held' = Held
  BY <1>2, SameRing
<1>5. grow' \in Nat /\ size + n <= capacity + grow' * Inc
  <2> DEFINE g == grow'
  <2>1. g \in {Needed(n), NeededForString(n)}
    BY <1>2
  <2> HIDE DEF g
  <2>2. g \in Nat /\ size + n <= capacity + g * Inc
    BY <1>3, <2>1, GrowthIsEnough
  <2> QED BY <2>2 DEF g
<1>6. Fits'
  BY <1>2, <1>4, <1>5 DEF Fits
<1>7. left' \in 0..Inc * MaxBlocks
  <2> DEFINE k == Len(cache)
             g == grow'
  <2>1. Inc \in Nat \ {0} /\ MaxBlocks \in Nat /\ k \in Nat /\ g \in Nat /\ k + g <= MaxBlocks
    BY <1>1, <1>2, <1>5, SizesAssumption DEF TypeOK, Blocks
  <2>2. size \in Nat /\ capacity = k * Inc - 1 /\ size + n <= capacity + g * Inc
    BY <1>1, <1>5 DEF Measured
  <2> HIDE DEF k, g
  <2>3. (k + g) * Inc <= Inc * MaxBlocks
    BY <2>1
  <2>4. (k + g) * Inc = k * Inc + g * Inc /\ k * Inc \in Int /\ g * Inc \in Int /\ Inc * MaxBlocks \in Int
    BY <2>1
  <2>5. n <= Inc * MaxBlocks
    BY <1>3, <2>2, <2>3, <2>4
  <2> QED BY <1>2, <1>3, <2>4, <2>5
<1>8. grow' \in 0..MaxBlocks
  BY <1>1, <1>2, <1>5, SizesAssumption DEF TypeOK, Blocks
<1>9. TypeOK'
  BY <1>1, <1>2, <1>7, <1>8 DEF TypeOK
<1> QED BY <1>4, <1>6, <1>9 DEF RInv

LEMMA PopStep ==
  ASSUME RInv, NEW n \in 0..MaxPush, Pop(n)
  PROVE  RInv' /\ Held' = Held
<1>1. TypeOK /\ IteratorsAgree /\ InRing /\ NewIsNew /\ Measured
  BY RingMeasured DEF RInv
<1>2. /\ call' = "pop" /\ left' = IF size < n THEN size ELSE n
      /\ UNCHANGED <<cache, block, begin, end, grow, next, ub>>
  BY DEF Pop
<1>3. n \in Nat /\ size \in Nat /\ size < Len(cache) * Inc
  <2>1. size \in 0..Room - 1 /\ Room \in Int /\ Room = Len(cache) * Inc
    BY <1>1 DEF Measured
  <2> QED BY <2>1, SizesAssumption
<1>4. /\ (IteratorsAgree /\ InRing /\ NewIsNew)'
      /\ size' = size /\ Held' = Held
  BY <1>2, SameRing
<1>5. left' \in Nat /\ left' <= size
  BY <1>2, <1>3
<1>6. left' \in 0..Inc * MaxBlocks
  <2> DEFINE k == Len(cache)
  <2>1. Inc \in Nat \ {0} /\ MaxBlocks \in Nat /\ k \in Nat /\ k <= MaxBlocks
    BY <1>1, SizesAssumption DEF TypeOK, Blocks
  <2>2. size < k * Inc
    BY <1>3
  <2> HIDE DEF k
  <2>3. k * Inc <= Inc * MaxBlocks /\ k * Inc \in Int /\ Inc * MaxBlocks \in Int
    BY <2>1
  <2> QED BY <1>3, <1>5, <2>2, <2>3
<1>7. TypeOK'
  BY <1>1, <1>2, <1>6 DEF TypeOK
<1>8. Fits'
  BY <1>2, <1>4, <1>5 DEF Fits
<1> QED BY <1>4, <1>7, <1>8 DEF RInv

LEMMA ReturnStep ==
  ASSUME RInv, Return
  PROVE  RInv' /\ Held' = Held
<1>1. call' = "none" /\ UNCHANGED <<cache, block, begin, end, grow, left, next, ub>>
  BY DEF Return
<1>2. (IteratorsAgree /\ InRing /\ NewIsNew)' /\ Held' = Held
  BY <1>1, SameRing
<1>3. TypeOK' /\ Fits'
  BY <1>1 DEF RInv, TypeOK, Fits
<1> QED BY <1>2, <1>3 DEF RInv

LEMMA ReadToStringStep ==
  ASSUME RInv, NEW n \in 0..MaxPush, ReadToString(n)
  PROVE  RInv' /\ Held' = Held
<1>1. call = "none" /\ ub' = (size > n) /\ UNCHANGED <<cache, block, begin, end, call, grow, left, next>>
  BY DEF ReadToString
<1>2. (IteratorsAgree /\ InRing /\ NewIsNew)' /\ Held' = Held
  BY <1>1, SameRing
<1>3. TypeOK' /\ Fits'
  <2>1. ub' \in BOOLEAN
    BY <1>1
  <2> QED BY <1>1, <2>1 DEF RInv, TypeOK, Fits
<1> QED BY <1>2, <1>3 DEF RInv

\* The names agree, so a copy that goes on from the numbers is the same ring.
LEMMA CopyStep ==
  ASSUME RInv, Copy
  PROVE  RInv' /\ Held' = Held
<1>1. /\ call = "none"
      /\ begin' = [begin EXCEPT !.iter = cache[begin.bolckIndex + 1]]
      /\ end' = [end EXCEPT !.iter = cache[end.bolckIndex + 1]]
      /\ UNCHANGED <<cache, block, call, grow, left, next, ub>>
  BY DEF Copy
<1>2. begin' = begin /\ end' = end
  <2>1. /\ begin \in Index /\ end \in Index
        /\ cache[begin.bolckIndex + 1] = begin.iter /\ cache[end.bolckIndex + 1] = end.iter
    BY DEF RInv, TypeOK, IteratorsAgree
  <2> QED BY <1>1, <2>1 DEF Index
<1>3. (IteratorsAgree /\ InRing /\ NewIsNew)' /\ Held' = Held
  BY <1>1, <1>2, SameRing
<1>4. TypeOK' /\ Fits'
  BY <1>1, <1>2 DEF RInv, TypeOK, Fits
<1> QED BY <1>3, <1>4 DEF RInv

-----------------------------------------------------------------------------
(* The whole of it                                                         *)

\* Every step of the array is a step of the queue, or leaves the bytes alone.
LEMMA QueueStep ==
  ASSUME RInv, [Next]_vars
  PROVE  RInv' /\ [Queue!Next]_Held
<1>1. ASSUME NEW n \in 0..MaxPush, Push(n) PROVE RInv' /\ Held' = Held
  BY <1>1, PushStep
<1>2. ASSUME NEW n \in 0..MaxPush, Pop(n) PROVE RInv' /\ Held' = Held
  BY <1>2, PopStep
<1>3. ASSUME NEW n \in 0..MaxPush, ReadToString(n) PROVE RInv' /\ Held' = Held
  BY <1>3, ReadToStringStep
<1>4. CASE Grow
  BY <1>4, GrowStep
<1>5. CASE Write
  <2>1. RInv' /\ Held' = Append(Held, next) /\ next \in 1..Bytes
    BY <1>5, WriteStep
  <2>2. Queue!Put
    BY <2>1 DEF Queue!Put, Held
  <2> QED BY <2>1, <2>2 DEF Queue!Next
<1>6. CASE Take
  <2>1. RInv' /\ Held # <<>> /\ Held' = Tail(Held)
    BY <1>6, TakeStep
  <2>2. Queue!Take
    BY <2>1 DEF Queue!Take, Held
  <2> QED BY <2>1, <2>2 DEF Queue!Next
<1>7. CASE Return
  BY <1>7, ReturnStep
<1>8. CASE Copy
  BY <1>8, CopyStep
<1>9. CASE UNCHANGED vars
  <2>1. (IteratorsAgree /\ InRing /\ NewIsNew)' /\ size' = size /\ capacity' = capacity /\ Held' = Held
    BY <1>9, SameRing DEF vars
  <2>2. TypeOK' /\ Fits'
    BY <1>9, <2>1 DEF RInv, TypeOK, Fits, vars
  <2> QED BY <2>1, <2>2 DEF RInv
<1>10. CASE Next
  BY <1>1, <1>2, <1>3, <1>4, <1>5, <1>6, <1>7, <1>8, <1>10 DEF Next
<1> QED BY <1>9, <1>10

\* What every call leaves of the ring: the two names of a block are one block,
\* a block put in is a new one, and push has made the room it writes into.
THEOREM Invariance == Spec => []RInv
<1>1. Init => RInv
  BY StartsEmpty
<1>2. RInv /\ [Next]_vars => RInv'
  BY QueueStep
<1> QED BY <1>1, <1>2, PTL DEF Spec

\* The state has its type.
THEOREM TypeCorrect == Spec => []TypeOK
<1>1. RInv => TypeOK
  BY DEF RInv
<1> QED BY <1>1, Invariance, PTL

\* The iterator and the number of begin, and those of end, name one block.
THEOREM NamesAgree == Spec => []IteratorsAgree
<1>1. RInv => IteratorsAgree
  BY DEF RInv
<1> QED BY <1>1, Invariance, PTL

\* The ring of blocks is a queue of bytes, wherever it comes round and grows.
THEOREM Refinement == Spec => ImplementsByteQueue
<1>1. Init => Queue!Init
  BY StartsEmpty DEF Queue!Init, Held
<1>2. RInv /\ [Next]_vars => [Queue!Next]_[i \in 1..size |-> Byte(i - 1)]
  BY QueueStep DEF Held
<1> QED BY <1>1, <1>2, Invariance, PTL DEF Spec, ImplementsByteQueue, Queue!Spec
=============================================================================
