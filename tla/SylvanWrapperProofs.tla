------------------------ MODULE SylvanWrapperProofs ------------------------
(***************************************************************************)
(* What is proved of the node table and of the operation cache, for any    *)
(* number of threads, keys and nodes, any table, and any way the hashes    *)
(* make probe sequences meet.                                              *)
(*                                                                         *)
(* The parts of the argument, each an invariant:                           *)
(*   RegionInv  the threads take regions of bitmap2 for themselves, except *)
(*              region 0, where every builder starts;                      *)
(*   ClaimInv   so what a thread reads of a word of bitmap2 is still there *)
(*              when it writes the word, and an index has one holder;      *)
(*   TableInv   all buckets a search has passed are taken by other nodes,  *)
(*              so of two threads with one node the second meets the       *)
(*              bucket of the first, or fails to publish;                  *)
(*   LeakInv    an index is lost only on the way to the end of the program;*)
(*   CacheInv   the status of a bucket changes whenever its pair does.     *)
(* The theorems after TypeCorrect and HomesAreApart assume that Main has   *)
(* filled region 0 before the builders start; the run `sylvan_shared'      *)
(* shows that OneNumberPerNode fails otherwise.                            *)
(***************************************************************************)
EXTENDS SylvanWrapper, FiniteSetTheorems, TLAPS

-----------------------------------------------------------------------------
(* Arithmetic.                                                             *)

LEMMA TimesMonotonic ==
  ASSUME NEW a \in Int, NEW b \in Int, NEW m \in Nat, a <= b
  PROVE  m * a <= m * b
OBVIOUS

LEMMA Division ==
  ASSUME NEW a \in Nat, NEW m \in Nat \ {0}
  PROVE  /\ a \div m \in Nat
         /\ a % m \in 0 .. m - 1
         /\ a = m * (a \div m) + (a % m)
<1>1. a % m \in 0 .. m - 1
  OBVIOUS
<1>2. a \div m \in Nat
  OBVIOUS
<1>3. a = m * (a \div m) + (a % m)
  OBVIOUS
<1>4. QED
  BY <1>1, <1>2, <1>3

LEMMA DivisionIsUnique ==
  ASSUME NEW m \in Nat \ {0}, NEW q \in Nat, NEW r \in 0 .. m - 1
  PROVE  /\ (m * q + r) \div m = q
         /\ (m * q + r) % m = r
OBVIOUS

(* A bucket after another of the same cache line. *)
First(i) == (i \div Line) * Line
Last(i) == First(i) + Line - 1

LEMMA LineProperties ==
  ASSUME NEW i \in Index
  PROVE  /\ First(i) \in Index /\ Last(i) \in Index
         /\ First(i) <= i /\ i <= Last(i)
         /\ Last(i) = First(i) + Line - 1
         /\ InLine(i) = IF i = Last(i) THEN First(i) ELSE i + 1
<1> DEFINE q == i \div Line
<1> DEFINE r == i % Line
<1>1. i \in Nat /\ i < TableSize /\ Line \in Nat \ {0} /\ TableSize \in Nat \ {0}
      /\ TableSize % Line = 0
  BY SylvanWrapperAssumption DEF Index
<1>2. q \in Nat /\ r \in 0 .. Line - 1 /\ i = Line * q + r
  BY <1>1, Division
<1> HIDE DEF q, r
<1>3. First(i) = Line * q /\ Last(i) = Line * q + Line - 1 /\ First(i) \in Nat
  BY <1>1, <1>2 DEF First, Last, q
<1>4. First(i) <= i /\ i <= Last(i) /\ First(i) \in Nat /\ Last(i) = First(i) + Line - 1
  BY <1>1, <1>2, <1>3
<1>5. Last(i) < TableSize
  <2> DEFINE d == TableSize \div Line
  <2>1. d \in Nat /\ TableSize = Line * d
    <3>1. d \in Nat /\ TableSize = Line * d + (TableSize % Line)
      BY <1>1, Division
    <3>2. QED
      BY <1>1, <3>1
  <2> HIDE DEF d
  <2>2. q < d
    <3>1. CASE d <= q
      <4>1. Line * d <= Line * q
        BY <1>1, <1>2, <2>1, <3>1, TimesMonotonic
      <4>2. QED
        BY <1>1, <1>2, <2>1, <4>1
    <3>2. QED
      BY <1>2, <2>1, <3>1
  <2>3. Line * (q + 1) <= Line * d
    BY <1>1, <1>2, <2>1, <2>2, TimesMonotonic
  <2>4. Line * (q + 1) = Line * q + Line
    BY <1>1, <1>2
  <2>5. QED
    BY <1>1, <1>2, <1>3, <2>1, <2>3, <2>4
<1>6. CASE r + 1 < Line
  <2>1. i + 1 = Line * q + (r + 1) /\ r + 1 \in 0 .. Line - 1
    BY <1>1, <1>2, <1>6
  <2>2. (i + 1) % Line = r + 1
    <3>1. (Line * q + (r + 1)) % Line = r + 1
      BY <1>1, <1>2, <2>1, DivisionIsUnique
    <3>2. QED
      BY <2>1, <3>1
  <2>3. i # Last(i) /\ InLine(i) = i + 1
    BY <1>1, <1>2, <1>3, <1>6, <2>2 DEF InLine, q
  <2>4. QED
    BY <1>1, <1>2, <1>3, <1>4, <1>5, <2>3 DEF Index
<1>7. CASE r + 1 = Line
  <2>1. i + 1 = Line * (q + 1) + 0
    BY <1>1, <1>2, <1>7
  <2>2. (i + 1) % Line = 0
    BY <1>1, <1>2, <2>1, DivisionIsUnique
  <2>3. i = Last(i) /\ InLine(i) = First(i)
    BY <1>1, <1>2, <1>3, <1>7, <2>2 DEF InLine, q
  <2>4. QED
    BY <1>1, <1>2, <1>3, <1>4, <1>5, <2>3 DEF Index
<1>8. QED
  BY <1>1, <1>2, <1>6, <1>7

-----------------------------------------------------------------------------
(* Regions and their words.                                                *)
Size == Words * Bits
Bound(r) == r * Size
RegionBits(r) == Bound(r) .. Bound(r) + Size - 1
WordAt(r, k) == LET first == (r * Words + k) * Bits IN first .. first + Bits - 1

LEMMA SizeProperties ==
  /\ Words \in Nat \ {0} /\ Bits \in Nat \ {0} /\ Size \in Nat \ {0}
  /\ Size = Words * Bits /\ TableSize \in Nat \ {0}
  /\ TableSize % Size = 0
<1>1. Words \in Nat \ {0} /\ Bits \in Nat \ {0} /\ TableSize \in Nat \ {0}
  BY SylvanWrapperAssumption
<1>2. \A a, b \in Nat \ {0} : a * b \in Nat \ {0}
  OBVIOUS
<1>3. QED
  BY <1>1, <1>2, SylvanWrapperAssumption DEF Size

LEMMA RegionCount ==
  /\ Cardinality(Region) \in Nat \ {0}
  /\ Region = 0 .. Cardinality(Region) - 1
  /\ TableSize = Size * Cardinality(Region)
<1> DEFINE c == TableSize \div Size
<1>1. c \in Nat /\ TableSize = Size * c
  <2>1. c \in Nat /\ TableSize = Size * c + (TableSize % Size)
    BY SizeProperties, Division
  <2>2. QED
    BY <2>1, SizeProperties
<1>2. Region = 0 .. c - 1
  BY DEF Region, Size
<1> HIDE DEF c
<1>3. c # 0
  <2>1. CASE c = 0
    BY <1>1, <2>1, SizeProperties
  <2>2. QED
    BY <2>1
<1>4. Cardinality(Region) = c
  BY <1>1, <1>2, <1>3, FS_Interval
<1>5. QED
  BY <1>1, <1>2, <1>3, <1>4

LEMMA BoundProperties ==
  ASSUME NEW r \in Region
  PROVE  /\ r \in Nat /\ Bound(r) \in Nat /\ Bound(r) = Size * r
         /\ RegionBits(r) \subseteq Index
<1>1. r \in Nat /\ r + 1 <= Cardinality(Region)
  BY RegionCount
<1>2. Bound(r) = Size * r /\ Bound(r) \in Nat
  BY <1>1, SizeProperties DEF Bound
<1>3. Size * (r + 1) <= Size * Cardinality(Region)
  BY <1>1, RegionCount, SizeProperties, TimesMonotonic
<1>4. Size * (r + 1) = Size * r + Size
  BY <1>1, SizeProperties
<1>5. Bound(r) + Size <= TableSize
  BY <1>1, <1>2, <1>3, <1>4, RegionCount, SizeProperties
<1>6. QED
  BY <1>1, <1>2, <1>5, SizeProperties DEF RegionBits, Index

LEMMA RegionsAreDisjoint ==
  ASSUME NEW r \in Region, NEW q \in Region, r # q
  PROVE  RegionBits(r) \cap RegionBits(q) = {}
<1>1. /\ r \in Nat /\ q \in Nat /\ Bound(r) \in Nat /\ Bound(q) \in Nat
      /\ Bound(r) = Size * r /\ Bound(q) = Size * q
  BY BoundProperties
<1>2. ASSUME NEW a \in Nat, NEW b \in Nat, a < b
      PROVE  Size * a + Size <= Size * b
  <2>1. Size * (a + 1) <= Size * b
    BY <1>2, SizeProperties, TimesMonotonic
  <2>2. Size * (a + 1) = Size * a + Size
    BY SizeProperties
  <2>3. QED
    BY <2>1, <2>2
<1>3. \/ Bound(r) + Size <= Bound(q)
      \/ Bound(q) + Size <= Bound(r)
  BY <1>1, <1>2
<1>4. QED
  BY <1>1, <1>3, SizeProperties DEF RegionBits

LEMMA WordInRegion ==
  ASSUME NEW r \in Region, NEW k \in 0 .. Words - 1
  PROVE  WordAt(r, k) \subseteq RegionBits(r)
<1>1. r \in Nat /\ Bound(r) \in Nat /\ Bound(r) = Size * r
  BY BoundProperties
<1>2. /\ Words \in Nat \ {0} /\ Bits \in Nat \ {0} /\ k \in Nat /\ k + 1 <= Words
      /\ Size = Words * Bits /\ Size \in Nat
  BY SizeProperties
<1>3. (r * Words + k) * Bits = Size * r + Bits * k
  BY <1>1, <1>2
<1>4. Bits * (k + 1) <= Bits * Words
  BY <1>2, TimesMonotonic
<1>5. Bits * (k + 1) = Bits * k + Bits /\ Bits * Words = Size /\ Bits * k \in Nat
  BY <1>2
<1>6. Bits * k + Bits <= Size
  BY <1>4, <1>5
<1> DEFINE first == (r * Words + k) * Bits
<1>7. first = Bound(r) + Bits * k
  BY <1>1, <1>3
<1> HIDE DEF first
<1>8. first >= Bound(r) /\ first + Bits - 1 <= Bound(r) + Size - 1 /\ first \in Nat
  BY <1>1, <1>2, <1>5, <1>6, <1>7
<1>9. first .. first + Bits - 1 \subseteq RegionBits(r)
  BY <1>1, <1>2, <1>8 DEF RegionBits
<1>10. QED
  BY <1>9 DEF WordAt, first

(* The word of an index is in the region of the index. *)
LEMMA WordOfIndex ==
  ASSUME NEW r \in Region, NEW i \in RegionBits(r)
  PROVE  i \in Nat /\ i \in WordOf(i) /\ WordOf(i) \subseteq RegionBits(r)
<1>1. r \in Nat /\ Bound(r) \in Nat /\ Bound(r) = Size * r
  BY BoundProperties
<1>2. /\ Words \in Nat \ {0} /\ Bits \in Nat \ {0}
      /\ Size = Words * Bits /\ Size \in Nat
  BY SizeProperties
<1>3. i \in Nat /\ Bound(r) <= i /\ i < Bound(r) + Size
  BY <1>1, <1>2 DEF RegionBits
<1> DEFINE q == i \div Bits
<1>4. q \in Nat /\ i = Bits * q + (i % Bits) /\ i % Bits \in 0 .. Bits - 1
  BY <1>2, <1>3, Division
<1>5. Bits * q <= i /\ i < Bits * q + Bits /\ Bits * q \in Nat
  BY <1>2, <1>3, <1>4
<1>6. WordOf(i) = Bits * q .. Bits * q + Bits - 1
  BY <1>2, <1>4 DEF WordOf
<1> HIDE DEF q
<1>7. Bits * (Words * r) = Bound(r) /\ Words * r \in Nat
  BY <1>1, <1>2
<1>8. Bits * (Words * r + Words) = Bound(r) + Size
  BY <1>1, <1>2
<1>9. Words * r <= q
  <2>1. CASE q + 1 <= Words * r
    <3>1. Bits * (q + 1) <= Bits * (Words * r)
      BY <1>2, <1>4, <1>7, <2>1, TimesMonotonic
    <3>2. Bits * (q + 1) = Bits * q + Bits
      BY <1>2, <1>4
    <3>3. Bits * q + Bits <= Bound(r)
      BY <1>7, <3>1, <3>2
    <3>4. FALSE
      BY <1>1, <1>2, <1>3, <1>5, <3>3
    <3>5. QED
      BY <3>4
  <2>2. QED
    BY <1>4, <1>7, <2>1
<1>10. q + 1 <= Words * r + Words
  <2>1. CASE Words * r + Words <= q
    <3>1. Bits * (Words * r + Words) <= Bits * q
      BY <1>2, <1>4, <1>7, <2>1, TimesMonotonic
    <3>2. Bound(r) + Size <= Bits * q
      BY <1>8, <3>1
    <3>3. FALSE
      BY <1>1, <1>2, <1>3, <1>5, <3>2
    <3>4. QED
      BY <3>3
  <2>2. QED
    BY <1>2, <1>4, <1>7, <2>1
<1>11. Bits * (Words * r) <= Bits * q
  BY <1>2, <1>4, <1>7, <1>9, TimesMonotonic
<1>12. Bits * (q + 1) <= Bits * (Words * r + Words)
  BY <1>2, <1>4, <1>7, <1>10, TimesMonotonic
<1>13. Bits * (q + 1) = Bits * q + Bits
  BY <1>2, <1>4
<1>14. Bound(r) <= Bits * q /\ Bits * q + Bits <= Bound(r) + Size
  BY <1>7, <1>8, <1>11, <1>12, <1>13
<1>15. QED
  BY <1>1, <1>2, <1>3, <1>5, <1>6, <1>14 DEF RegionBits

-----------------------------------------------------------------------------
(* The order in which the buckets are probed for a node.                   *)
Start(m, l) == (NodeHash[m].first + l * NodeHash[m].step) % TableSize
Buckets(i) == First(i) .. Last(i)
Lines(m, l) == UNION {Buckets(Start(m, k)) : k \in 0 .. l - 1}

(* From i round its line to b; all that is probed for m before b.          *)
Turn(i, b) == IF i <= b THEN i .. b - 1 ELSE (i .. Last(i)) \cup (First(i) .. b - 1)
Seen(m, l, b) == Lines(m, l) \cup Turn(Start(m, l), b)

LEMMA StartInIndex ==
  ASSUME NEW m \in DOMAIN NodeHash, NEW l \in Nat
  PROVE  Start(m, l) \in Index
<1> DEFINE i == NodeHash[m].first + l * NodeHash[m].step
<1>1. i \in Nat
  BY SylvanWrapperAssumption DEF Index
<1> HIDE DEF i
<1>2. i % TableSize \in 0 .. TableSize - 1
  BY <1>1, SizeProperties, Division
<1>3. QED
  BY <1>2 DEF Start, Index, i

LEMMA FirstStart ==
  ASSUME NEW m \in DOMAIN NodeHash
  PROVE  Start(m, 0) = NodeHash[m].first
<1> DEFINE i == NodeHash[m].first
<1>1. i \in 0 .. TableSize - 1 /\ i + 0 * NodeHash[m].step = i
  BY SylvanWrapperAssumption DEF Index
<1>2. (TableSize * 0 + i) % TableSize = i
  BY <1>1, SizeProperties, DivisionIsUnique
<1>3. TableSize * 0 + i = i
  BY <1>1, SizeProperties
<1>4. QED
  BY <1>1, <1>2, <1>3 DEF Start

LEMMA SameLine ==
  ASSUME NEW i \in Index, NEW b \in Buckets(i)
  PROVE  b \in Index /\ First(b) = First(i) /\ Last(b) = Last(i)
<1> DEFINE q == i \div Line
<1>1. Line \in Nat \ {0} /\ i \in Nat
  BY SylvanWrapperAssumption DEF Index
<1>2. q \in Nat
  BY <1>1, Division
<1>3. First(i) = Line * q /\ Last(i) = Line * q + Line - 1 /\ Line * q \in Nat
  BY <1>1, <1>2 DEF First, Last
<1>4. First(i) \in Index /\ Last(i) \in Index
  BY LineProperties
<1> HIDE DEF q
<1>5. b \in Index /\ b - Line * q \in 0 .. Line - 1
  <2> DEFINE z == Line * q
  <2>1. z \in Nat /\ First(i) = z /\ Last(i) = z + Line - 1 /\ z <= b /\ b <= z + Line - 1
    BY <1>1, <1>3 DEF Buckets
  <2>2. b \in Nat /\ z \in Nat /\ b < TableSize
    BY <1>1, <1>4, <2>1, SizeProperties DEF Buckets, Index
  <2> HIDE DEF z
  <2>3. b \in Index /\ b - z \in 0 .. Line - 1
    BY <1>1, <2>1, <2>2, SizeProperties DEF Index
  <2>4. QED
    BY <2>3 DEF z
<1>6. (Line * q + (b - Line * q)) \div Line = q
  BY <1>1, <1>2, <1>5, DivisionIsUnique
<1>7. Line * q + (b - Line * q) = b
  BY <1>3, <1>5 DEF Index
<1>8. b \div Line = q
  BY <1>6, <1>7
<1>9. QED
  BY <1>5, <1>8 DEF First, Last, q

LEMMA SeenFirst ==
  ASSUME NEW m \in DOMAIN NodeHash
  PROVE  Seen(m, 0, Start(m, 0)) = {}
<1>1. Start(m, 0) \in Nat
  BY StartInIndex DEF Index
<1>2. QED
  BY <1>1 DEF Seen, Lines, Turn

(* What has been seen when the search goes on after b. *)
LEMMA SeenNext ==
  ASSUME NEW m \in DOMAIN NodeHash, NEW l \in Nat, NEW b \in Buckets(Start(m, l))
  PROVE  /\ InLine(b) \in Buckets(Start(m, l))
         /\ InLine(b) # Start(m, l) => Seen(m, l, InLine(b)) = Seen(m, l, b) \cup {b}
         /\ InLine(b) = Start(m, l) => Lines(m, l + 1) = Seen(m, l, b) \cup {b}
<1> DEFINE i == Start(m, l)
<1>1. /\ i \in Index /\ b \in Index
      /\ First(b) = First(i) /\ Last(b) = Last(i)
  BY StartInIndex, SameLine
<1>2. /\ First(i) \in Nat /\ Last(i) \in Nat /\ i \in Nat /\ b \in Nat
      /\ First(i) <= i /\ i <= Last(i) /\ First(i) <= b /\ b <= Last(i)
      /\ InLine(b) = IF b = Last(i) THEN First(i) ELSE b + 1
  BY <1>1, LineProperties DEF Index
<1>3. Buckets(i) = First(i) .. Last(i)
  BY DEF Buckets
<1>4. Lines(m, l + 1) = Lines(m, l) \cup Buckets(i)
  <2>1. 0 .. l + 1 - 1 = (0 .. l - 1) \cup {l}
    OBVIOUS
  <2>2. QED
    BY <2>1 DEF Lines
<1>5. /\ Turn(i, b) = IF i <= b THEN i .. b - 1 ELSE (i .. Last(i)) \cup (First(i) .. b - 1)
      /\ Turn(i, InLine(b)) = IF i <= InLine(b) THEN i .. InLine(b) - 1
                              ELSE (i .. Last(i)) \cup (First(i) .. InLine(b) - 1)
  BY DEF Turn
<1>6. Seen(m, l, b) = Lines(m, l) \cup Turn(i, b)
      /\ Seen(m, l, InLine(b)) = Lines(m, l) \cup Turn(i, InLine(b))
  BY DEF Seen
<1> HIDE DEF i
<1>7. InLine(b) \in Buckets(i)
  BY <1>2, <1>3
<1>8. InLine(b) # i => Turn(i, InLine(b)) = Turn(i, b) \cup {b}
  BY <1>2, <1>5
<1>9. InLine(b) = i => Buckets(i) = Turn(i, b) \cup {b}
  BY <1>2, <1>3, <1>5
<1>10. QED
  BY <1>4, <1>6, <1>7, <1>8, <1>9 DEF i

LEMMA SeenLine ==
  ASSUME NEW m \in DOMAIN NodeHash, NEW l \in Nat
  PROVE  Start(m, l) \in Buckets(Start(m, l)) /\ Seen(m, l, Start(m, l)) = Lines(m, l)
<1>1. Start(m, l) \in Index
  BY StartInIndex
<1>2. Start(m, l) \in Nat /\ Turn(Start(m, l), Start(m, l)) = {}
  BY <1>1 DEF Turn, Index
<1>3. QED
  BY <1>1, <1>2, LineProperties DEF Seen, Buckets, Index

(* Of two buckets that are probed for a node, one is probed first. *)
LEMMA SeenIsOrder ==
  ASSUME NEW m \in DOMAIN NodeHash, NEW l \in Nat, NEW k \in Nat,
         NEW b \in Buckets(Start(m, l)), NEW c \in Buckets(Start(m, k))
  PROVE  b = c \/ b \in Seen(m, k, c) \/ c \in Seen(m, l, b)
<1>1. CASE l < k
  <2>1. l \in 0 .. k - 1
    BY <1>1
  <2>2. QED
    BY <2>1 DEF Seen, Lines
<1>2. CASE k < l
  <2>1. k \in 0 .. l - 1
    BY <1>2
  <2>2. QED
    BY <2>1 DEF Seen, Lines
<1>3. CASE k = l
  <2> DEFINE i == Start(m, l)
  <2>1. i \in Index
    BY StartInIndex
  <2>2. /\ First(i) \in Nat /\ Last(i) \in Nat /\ i \in Nat
        /\ First(i) <= i /\ i <= Last(i)
    BY <2>1, LineProperties DEF Index
  <2>3. b \in First(i) .. Last(i) /\ c \in First(i) .. Last(i)
    BY <1>3 DEF Buckets
  <2> HIDE DEF i
  <2>4. b = c \/ b \in Turn(i, c) \/ c \in Turn(i, b)
    BY <2>2, <2>3 DEF Turn
  <2>5. QED
    BY <1>3, <2>4 DEF Seen, i
<1>4. QED
  BY <1>1, <1>2, <1>3

-----------------------------------------------------------------------------
(* The types, and where the threads are.                                   *)
Looking == {"get", "match", "result", "recheck"}
Scanning == {"word", "bit"}
Trying == {"region", "owned", "own"}
Resting == {"idle", "exit"}
Label == Looking \cup Scanning \cup Trying \cup Resting
           \cup {"probe", "write", "publish", "compare",
                 "release", "clear", "full", "put", "lock", "key", "value", "unlock"}

Hash == {0} \cup {NodeHash[m].hash : m \in DOMAIN NodeHash}
Slots == {KeyHash[k].bucket : k \in Key}
Status ==
  [locked : BOOLEAN, hash : {0} \cup {KeyHash[k].hash : k \in Key}, counter : Nat]

TypeOK ==
  /\ table \in [Index -> [hash : Hash, index : Index]]
  /\ data \in [Index -> {"none"} \cup DOMAIN NodeHash]
  /\ bitmap1 \in SUBSET Region
  /\ bitmap2 \in SUBSET Nat
  /\ status \in [Slots -> Status]
  /\ entry \in [Slots -> [key : Key \cup {NoKey}, res : Index]]
  /\ load \in Seq(Key)
  /\ region \in [Thread -> Region \cup {NoRegion}]
  /\ pc \in [Thread -> Label]
  /\ ops \in [Thread -> Nat]
  /\ key \in [Thread -> Key]
  /\ attempt \in [Thread -> {1, 2}]
  /\ idx \in [Thread -> Index]
  /\ line \in [Thread -> 0 .. Threshold - 1]
  /\ cidx \in [Thread -> Index]
  /\ n \in [Thread -> Nat]
  /\ word \in [Thread -> SUBSET Nat]
  /\ s \in [Thread -> Status]
  /\ answer \in [Thread -> Index]

Forbidden == {0, 1}

ThreadOK(w) ==
  /\ pc[w] \in Looking =>
       cidx[w] = 0 /\ line[w] = 0 /\ idx[w] = NodeHash[Node(w)].first /\ attempt[w] = 1
  /\ pc[w] \in Scanning \cup Trying => cidx[w] = 0
  /\ pc[w] \in {"write", "publish", "release", "clear"} => cidx[w] # 0
  /\ pc[w] \in Scanning => region[w] \in Region /\ n[w] \in 0 .. Words - 1
  /\ pc[w] \in Trying => n[w] \in 0 .. Cardinality(Region)
  /\ pc[w] \in {"owned", "own"} => region[w] \in Region /\ n[w] # 0
  /\ w \in Builder => region[w] \in Region
  /\ pc[w] = "own" => region[w] \notin word[w]
  /\ cidx[w] # 1
  /\ pc[w] = "bit" => Forbidden \cap WordBits(w) \subseteq word[w]
  /\ pc[w] = "clear" => Forbidden \cap WordOf(cidx[w]) \subseteq word[w]
  /\ pc[w] = "compare" => table[idx[w]] # Empty
  /\ pc[w] \notin Resting => ops[w] # 0
  /\ ops[w] # 0 => idx[w] \in Buckets(Start(Node(w), line[w]))

(* The program has ended.                                                  *)
Ended == \A w \in Thread : pc[w] = "exit"
Loaded == pc[Main] = "idle" /\ ops[Main] = Len(load)

TypeInv ==
  /\ TypeOK
  /\ Forbidden \subseteq bitmap2
  /\ \A w \in Thread : ThreadOK(w)
  /\ (\E w \in Thread : pc[w] = "exit") => Ended
  /\ (\E w \in Builder : pc[w] \notin Resting) => Loaded

LEMMA NodeProperties ==
  ASSUME TypeOK, NEW w \in Thread
  PROVE  /\ key[w] \in Key /\ Node(w) \in DOMAIN NodeHash
         /\ Slot(w) \in Slots
         /\ NodeHash[Node(w)].hash \in Hash
         /\ \A l : LineStart(w, l) = Start(Node(w), l)
<1>1. key[w] \in Key
  BY DEF TypeOK
<1>2. Node(w) \in DOMAIN NodeHash
  BY <1>1, SylvanWrapperAssumption DEF Node
<1>3. QED
  BY <1>1, <1>2 DEF Slot, Slots, Hash, LineStart, Start

LEMMA IndexZero == 0 \in Index /\ 0 \in Region /\ Main \in Thread /\ Main \notin Builder
<1>1. 0 \in Index
  BY SizeProperties DEF Index
<1>2. 0 \in Region
  BY RegionCount
<1>3. QED
  BY <1>1, <1>2, SylvanWrapperAssumption DEF Thread

LEMMA ThresholdProperties ==
  /\ Threshold \in Nat \ {0} /\ 0 \in 0 .. Threshold - 1
  /\ Modulus \in Nat \ {0}
BY SylvanWrapperAssumption

(* A step of thread w leaves what the others have as it is.                *)
Others(w) ==
  \A v \in Thread \ {w} :
    /\ region'[v] = region[v] /\ ops'[v] = ops[v] /\ key'[v] = key[v]
    /\ attempt'[v] = attempt[v] /\ idx'[v] = idx[v] /\ line'[v] = line[v]
    /\ cidx'[v] = cidx[v] /\ n'[v] = n[v] /\ word'[v] = word[v]
    /\ s'[v] = s[v] /\ answer'[v] = answer[v]

Step(w) ==
  \/ Begin(w)
  \/ ReadStatus(w) \/ MatchKey(w) \/ ReadResult(w) \/ Recheck(w)
  \/ Probe(w) \/ ReadWord(w) \/ SetBit(w) \/ NextRegion(w) \/ ReadOwned(w) \/ OwnRegion(w)
  \/ WriteData(w) \/ Publish(w) \/ Found(w) \/ NextBucket(w) \/ ReadRelease(w) \/ Release(w)
  \/ Full(w)
  \/ ReadPut(w) \/ Lock(w) \/ PutKey(w) \/ PutResult(w) \/ Unlock(w)

LEMMA OthersKept ==
  ASSUME TypeOK, NEW w \in Thread, Step(w)
  PROVE  Others(w)
<1> USE DEF Others, TypeOK, shared, probe, claim, local
<1>1. CASE Begin(w)
  BY <1>1 DEF Begin
<1>2. CASE ReadStatus(w)
  BY <1>2 DEF ReadStatus
<1>3. CASE MatchKey(w)
  BY <1>3 DEF MatchKey
<1>4. CASE ReadResult(w)
  BY <1>4 DEF ReadResult
<1>5. CASE Recheck(w)
  BY <1>5 DEF Recheck
<1>6. CASE Probe(w)
  BY <1>6 DEF Probe
<1>7. CASE ReadWord(w)
  BY <1>7 DEF ReadWord
<1>8. CASE SetBit(w)
  BY <1>8 DEF SetBit
<1>9. CASE NextRegion(w)
  BY <1>9 DEF NextRegion
<1>10. CASE ReadOwned(w)
  BY <1>10 DEF ReadOwned
<1>11. CASE OwnRegion(w)
  BY <1>11 DEF OwnRegion
<1>12. CASE WriteData(w)
  BY <1>12 DEF WriteData
<1>13. CASE Publish(w)
  BY <1>13 DEF Publish
<1>14. CASE Found(w)
  BY <1>14 DEF Found
<1>15. CASE NextBucket(w)
  BY <1>15 DEF NextBucket
<1>16. CASE ReadRelease(w)
  BY <1>16 DEF ReadRelease
<1>17. CASE Release(w)
  BY <1>17 DEF Release
<1>18. CASE Full(w)
  BY <1>18 DEF Full
<1>19. CASE ReadPut(w)
  BY <1>19 DEF ReadPut
<1>20. CASE Lock(w)
  BY <1>20 DEF Lock
<1>21. CASE PutKey(w)
  BY <1>21 DEF PutKey
<1>22. CASE PutResult(w)
  BY <1>22 DEF PutResult
<1>23. CASE Unlock(w)
  BY <1>23 DEF Unlock
<1>24. QED
  BY <1>1, <1>2, <1>3, <1>4, <1>5, <1>6, <1>7, <1>8, <1>9, <1>10, <1>11, <1>12, <1>13,
     <1>14, <1>15, <1>16, <1>17, <1>18, <1>19, <1>20, <1>21, <1>22, <1>23 DEF Step

(* Where a step leads to: nobody moves but its thread, unless the program  *)
(* ends.                                                                   *)
Moves(w) == pc'[w] \in Label \ {"exit"} /\ pc' = [pc EXCEPT ![w] = pc'[w]]
Ends == pc' = [x \in Thread |-> "exit"]

LEMMA StepMoves ==
  ASSUME TypeOK, NEW w \in Thread, Step(w)
  PROVE  Moves(w) \/ (Full(w) /\ attempt[w] = 2 /\ Ends)
<1> USE DEF Moves, Ends, TypeOK, Goto, Label, Looking, Scanning, Trying, Resting
<1>1. CASE Begin(w)
  BY <1>1 DEF Begin
<1>2. CASE ReadStatus(w)
  BY <1>2 DEF ReadStatus
<1>3. CASE MatchKey(w)
  BY <1>3 DEF MatchKey
<1>4. CASE ReadResult(w)
  BY <1>4 DEF ReadResult
<1>5. CASE Recheck(w)
  BY <1>5 DEF Recheck
<1>6. CASE Probe(w)
  BY <1>6 DEF Probe
<1>7. CASE ReadWord(w)
  BY <1>7 DEF ReadWord
<1>8. CASE SetBit(w)
  BY <1>8 DEF SetBit
<1>9. CASE NextRegion(w)
  BY <1>9 DEF NextRegion
<1>10. CASE ReadOwned(w)
  BY <1>10 DEF ReadOwned
<1>11. CASE OwnRegion(w)
  BY <1>11 DEF OwnRegion
<1>12. CASE WriteData(w)
  BY <1>12 DEF WriteData
<1>13. CASE Publish(w)
  BY <1>13 DEF Publish
<1>14. CASE Found(w)
  BY <1>14 DEF Found
<1>15. CASE NextBucket(w)
  BY <1>15 DEF NextBucket
<1>16. CASE ReadRelease(w)
  BY <1>16 DEF ReadRelease
<1>17. CASE Release(w)
  BY <1>17 DEF Release
<1>18. CASE Full(w)
  BY <1>18 DEF Full
<1>19. CASE ReadPut(w)
  BY <1>19 DEF ReadPut
<1>20. CASE Lock(w)
  BY <1>20 DEF Lock
<1>21. CASE PutKey(w)
  BY <1>21 DEF PutKey
<1>22. CASE PutResult(w)
  BY <1>22 DEF PutResult
<1>23. CASE Unlock(w)
  BY <1>23 DEF Unlock
<1>24. QED
  BY <1>1, <1>2, <1>3, <1>4, <1>5, <1>6, <1>7, <1>8, <1>9, <1>10, <1>11, <1>12, <1>13, <1>14, <1>15, <1>16, <1>17, <1>18, <1>19, <1>20, <1>21, <1>22, <1>23 DEF Step

(* The word a thread searches is in its region. *)
LEMMA WordProperties ==
  ASSUME TypeInv, NEW w \in Thread, pc[w] \in Scanning
  PROVE  /\ region[w] \in Region
         /\ WordBits(w) \subseteq RegionBits(region[w])
         /\ WordBits(w) \subseteq Index /\ WordBits(w) \subseteq Nat
<1>1. region[w] \in Region /\ n[w] \in 0 .. Words - 1
  BY DEF TypeInv, ThreadOK
<1>2. WordBits(w) = WordAt(region[w], n[w])
  BY DEF WordBits, WordAt
<1>3. Index \subseteq Nat
  BY DEF Index
<1>4. QED
  BY <1>1, <1>2, <1>3, WordInRegion, BoundProperties

(* The bucket a thread looks at, and the next ones. *)
LEMMA ProbeProperties ==
  ASSUME TypeInv, NEW w \in Thread, ops[w] # 0
  PROVE  /\ idx[w] \in Index /\ line[w] \in 0 .. Threshold - 1 /\ line[w] \in Nat
         /\ Node(w) \in DOMAIN NodeHash
         /\ idx[w] \in Buckets(Start(Node(w), line[w]))
         /\ InLine(idx[w]) \in Index
         /\ InLine(idx[w]) \in Buckets(Start(Node(w), line[w]))
         /\ \A l \in Nat : /\ LineStart(w, l) \in Index
                           /\ LineStart(w, l) = Start(Node(w), l)
                           /\ LineStart(w, l) \in Buckets(Start(Node(w), l))
<1>1. TypeOK /\ Node(w) \in DOMAIN NodeHash
      /\ \A l \in Nat : LineStart(w, l) = Start(Node(w), l)
  BY NodeProperties DEF TypeInv
<1>2. idx[w] \in Index /\ line[w] \in 0 .. Threshold - 1 /\ line[w] \in Nat
  BY <1>1, ThresholdProperties DEF TypeOK
<1>3. idx[w] \in Buckets(Start(Node(w), line[w]))
  BY DEF TypeInv, ThreadOK
<1>4. InLine(idx[w]) \in Buckets(Start(Node(w), line[w]))
  BY <1>1, <1>2, <1>3, SeenNext
<1>5. InLine(idx[w]) \in Index
  BY <1>1, <1>2, <1>4, StartInIndex, SameLine
<1>6. QED
  BY <1>1, <1>2, <1>3, <1>4, <1>5, StartInIndex, SeenLine

LEMMA TypeStep ==
  ASSUME TypeInv, NEW w \in Thread, Step(w)
  PROVE  TypeOK'
<1>1. TypeOK /\ key[w] \in Key /\ Node(w) \in DOMAIN NodeHash /\ Slot(w) \in Slots
      /\ NodeHash[Node(w)].hash \in Hash
  BY NodeProperties DEF TypeInv
<1>2. pc' \in [Thread -> Label]
  BY <1>1, StepMoves DEF TypeOK, Moves, Ends, Label, Resting
<1>3. pc[w] \notin Resting => ops[w] # 0
  BY DEF TypeInv, ThreadOK
<1>0. /\ n[w] + 1 \in Nat /\ s[w].counter + 1 \in Nat /\ region[w] + 1 \in Nat
      /\ WordBits(w) \cap bitmap2 \in SUBSET Nat /\ {} \in SUBSET Nat /\ 0 \in Nat
  <2>1. n[w] \in Nat /\ s[w].counter \in Nat /\ region[w] \in Region \cup {-1}
    BY <1>1 DEF TypeOK, Status, NoRegion
  <2>2. region[w] + 1 \in Nat
    BY <2>1, RegionCount
  <2>3. bitmap2 \in SUBSET Nat
    BY <1>1 DEF TypeOK
  <2>4. WordBits(w) \cap bitmap2 \in SUBSET Nat
    BY <2>3
  <2>5. n[w] + 1 \in Nat /\ s[w].counter + 1 \in Nat
    BY <2>1
  <2>6. QED
    BY <2>2, <2>4, <2>5
<1> USE <1>1, <1>2 DEF TypeOK, shared, probe, claim, local
<1>4. CASE Begin(w)
  <2>1. \A k \in Key : NodeHash[Result[k]].first \in Index
    BY SylvanWrapperAssumption
  <2>2. QED
    BY <1>4, <2>1, IndexZero, ThresholdProperties DEF Begin
<1>5. CASE ReadStatus(w)
  BY <1>5 DEF ReadStatus
<1>6. CASE MatchKey(w)
  BY <1>6 DEF MatchKey
<1>7. CASE ReadResult(w)
  BY <1>7 DEF ReadResult
<1>8. CASE Recheck(w)
  BY <1>8 DEF Recheck
<1>9. CASE Probe(w)
  BY <1>9 DEF Probe
<1>10. CASE ReadWord(w)
  <2>1. word' \in [Thread -> SUBSET Nat]
    BY <1>10, <1>0 DEF ReadWord
  <2>2. n' \in [Thread -> Nat]
    BY <1>10, <1>0 DEF ReadWord
  <2>3. QED
    BY <1>10, <2>1, <2>2 DEF ReadWord
<1>11. CASE SetBit(w)
  <2>1. WordBits(w) \subseteq Index /\ WordBits(w) \subseteq Nat
    BY <1>11, WordProperties DEF SetBit, Scanning
  <2>2. QED
    BY <1>11, <2>1 DEF SetBit
<1>12. CASE NextRegion(w)
  <2>1. (region[w] + 1) % Cardinality(Region) \in Region
    <3> HIDE <1>1, <1>2
    <3> HIDE DEF TypeOK
    <3>1. QED
      BY <1>0, RegionCount, Division
  <2>2. n' \in [Thread -> Nat]
    BY <1>12, <1>0 DEF NextRegion
  <2>3. region' \in [Thread -> Region \cup {NoRegion}]
    BY <1>12, <2>1 DEF NextRegion
  <2>4. QED
    BY <1>12, <2>2, <2>3 DEF NextRegion
<1>13. CASE ReadOwned(w)
  <2>1. bitmap1 \in SUBSET Nat
    BY RegionCount
  <2>2. QED
    BY <1>13, <2>1 DEF ReadOwned
<1>14. CASE OwnRegion(w)
  <2>1. region[w] \in Region
    BY <1>14 DEF OwnRegion, TypeInv, ThreadOK
  <2>2. bitmap1' \in SUBSET Region
    BY <1>14, <2>1 DEF OwnRegion
  <2>3. n' \in [Thread -> Nat]
    BY <1>14, <1>0 DEF OwnRegion
  <2>4. word' \in [Thread -> SUBSET Nat]
    BY <1>14, <1>0 DEF OwnRegion
  <2>5. QED
    BY <1>14, <2>2, <2>3, <2>4 DEF OwnRegion
<1>15. CASE WriteData(w)
  <2>1. data' \in [Index -> {"none"} \cup DOMAIN NodeHash]
    BY <1>15 DEF WriteData
  <2>2. QED
    BY <1>15, <2>1 DEF WriteData
<1>16. CASE Publish(w)
  <2>1. [hash |-> NodeHash[Node(w)].hash, index |-> cidx[w]] \in [hash : Hash, index : Index]
    OBVIOUS
  <2>2. table' \in [Index -> [hash : Hash, index : Index]]
    BY <1>16, <2>1 DEF Publish
  <2>3. answer' \in [Thread -> Index]
    BY <1>16 DEF Publish
  <2>4. QED
    BY <1>16, <2>2, <2>3 DEF Publish
<1>17. CASE Found(w)
  BY <1>17 DEF Found
<1>18. CASE NextBucket(w)
  <2>1. ops[w] # 0
    BY <1>3, <1>18 DEF NextBucket, Resting
  <2>2. InLine(idx[w]) \in Index /\ \A l \in Nat : LineStart(w, l) \in Index
    BY <2>1, ProbeProperties
  <2>3. line[w] \in Nat /\ line[w] + 1 \in Nat
    BY ThresholdProperties
  <2>4. line[w] + 1 < Threshold => line[w] + 1 \in 0 .. Threshold - 1
    BY <2>3, ThresholdProperties
  <2>5. QED
    BY <1>18, <2>2, <2>3, <2>4 DEF NextBucket
<1>19. CASE ReadRelease(w)
  <2>1. WordOf(cidx[w]) \cap bitmap2 \in SUBSET Nat
    OBVIOUS
  <2>2. QED
    BY <1>19, <2>1 DEF ReadRelease
<1>20. CASE Release(w)
  <2>1. (bitmap2 \ WordOf(cidx[w])) \cup (word[w] \ {cidx[w]}) \in SUBSET Nat
    OBVIOUS
  <2>2. QED
    BY <1>20, <2>1 DEF Release
<1>21. CASE Full(w)
  <2>1. ops[w] # 0
    BY <1>3, <1>21 DEF Full, Resting
  <2>2. LineStart(w, 0) \in Index
    BY <2>1, ProbeProperties
  <2>3. attempt' \in [Thread -> {1, 2}] /\ idx' \in [Thread -> Index]
    BY <1>21, <2>2 DEF Full
  <2>4. 0 \in 0 .. Threshold - 1 /\ 0 \in Index
    BY IndexZero, ThresholdProperties
  <2>5. line' \in [Thread -> 0 .. Threshold - 1]
    BY <1>21, <2>4 DEF Full
  <2>6. cidx' \in [Thread -> Index]
    BY <1>21, <2>4 DEF Full
  <2>7. QED
    BY <1>21, <2>3, <2>5, <2>6 DEF Full
<1>22. CASE ReadPut(w)
  BY <1>22 DEF ReadPut
<1>23. CASE Lock(w)
  <2>1. (s[w].counter + 1) % Modulus \in Nat
    <3> HIDE <1>1, <1>2
    <3> HIDE DEF TypeOK
    <3>1. QED
      BY <1>0, ThresholdProperties, Division
  <2>2. KeyHash[key[w]].hash \in {KeyHash[k].hash : k \in Key}
    OBVIOUS
  <2>3. [locked |-> TRUE, hash |-> KeyHash[key[w]].hash,
         counter |-> (s[w].counter + 1) % Modulus] \in Status
    BY <2>1, <2>2 DEF Status
  <2>4. status' \in [Slots -> Status]
    BY <1>23, <2>3 DEF Lock
  <2>5. QED
    BY <1>23, <2>4 DEF Lock
<1>24. CASE PutKey(w)
  BY <1>24 DEF PutKey
<1>25. CASE PutResult(w)
  BY <1>25 DEF PutResult
<1>26. CASE Unlock(w)
  BY <1>26 DEF Unlock, Status
<1>27. QED
  BY <1>4, <1>5, <1>6, <1>7, <1>8, <1>9, <1>10, <1>11, <1>12, <1>13, <1>14, <1>15, <1>16, <1>17, <1>18, <1>19, <1>20, <1>21, <1>22, <1>23, <1>24, <1>25, <1>26 DEF Step

-----------------------------------------------------------------------------
(* What a step does to what all threads share: a bucket of the table is    *)
(* written by a compare-and-swap that finds it empty.                      *)
LEMMA SharedStep ==
  ASSUME NEW w \in Thread, Step(w)
  PROVE  /\ \/ UNCHANGED table
            \/ /\ Publish(w) /\ pc[w] = "publish" /\ table[idx[w]] = Empty
               /\ table' = [table EXCEPT ![idx[w]] =
                              [hash |-> NodeHash[Node(w)].hash, index |-> cidx[w]]]
         /\ \/ UNCHANGED data
            \/ /\ WriteData(w) /\ pc[w] = "write"
               /\ data' = [data EXCEPT ![cidx[w]] = Node(w)]
         /\ UNCHANGED load
         /\ UNCHANGED bitmap1 \/ OwnRegion(w)
         /\ UNCHANGED bitmap2 \/ SetBit(w) \/ Release(w)
         /\ UNCHANGED status \/ Lock(w) \/ Unlock(w)
         /\ UNCHANGED entry \/ PutKey(w) \/ PutResult(w)
<1> USE DEF shared
<1>1. CASE Begin(w)
  BY <1>1 DEF Begin
<1>2. CASE ReadStatus(w)
  BY <1>2 DEF ReadStatus
<1>3. CASE MatchKey(w)
  BY <1>3 DEF MatchKey
<1>4. CASE ReadResult(w)
  BY <1>4 DEF ReadResult
<1>5. CASE Recheck(w)
  BY <1>5 DEF Recheck
<1>6. CASE Probe(w)
  BY <1>6 DEF Probe
<1>7. CASE ReadWord(w)
  BY <1>7 DEF ReadWord
<1>8. CASE SetBit(w)
  BY <1>8 DEF SetBit
<1>9. CASE NextRegion(w)
  BY <1>9 DEF NextRegion
<1>10. CASE ReadOwned(w)
  BY <1>10 DEF ReadOwned
<1>11. CASE OwnRegion(w)
  BY <1>11 DEF OwnRegion
<1>12. CASE WriteData(w)
  BY <1>12 DEF WriteData
<1>13. CASE Publish(w)
  BY <1>13 DEF Publish
<1>14. CASE Found(w)
  BY <1>14 DEF Found
<1>15. CASE NextBucket(w)
  BY <1>15 DEF NextBucket
<1>16. CASE ReadRelease(w)
  BY <1>16 DEF ReadRelease
<1>17. CASE Release(w)
  BY <1>17 DEF Release
<1>18. CASE Full(w)
  BY <1>18 DEF Full
<1>19. CASE ReadPut(w)
  BY <1>19 DEF ReadPut
<1>20. CASE Lock(w)
  BY <1>20 DEF Lock
<1>21. CASE PutKey(w)
  BY <1>21 DEF PutKey
<1>22. CASE PutResult(w)
  BY <1>22 DEF PutResult
<1>23. CASE Unlock(w)
  BY <1>23 DEF Unlock
<1>24. QED
  BY <1>1, <1>2, <1>3, <1>4, <1>5, <1>6, <1>7, <1>8, <1>9, <1>10, <1>11, <1>12, <1>13, <1>14, <1>15, <1>16, <1>17, <1>18, <1>19, <1>20, <1>21, <1>22, <1>23 DEF Step

LEMMA PublishedStays ==
  ASSUME TypeOK, NEW w \in Thread, Step(w)
  PROVE  \A b \in Index : table[b] # Empty => table'[b] = table[b]
<1>1. CASE UNCHANGED table
  BY <1>1
<1>2. CASE /\ table[idx[w]] = Empty
           /\ table' = [table EXCEPT ![idx[w]] =
                          [hash |-> NodeHash[Node(w)].hash, index |-> cidx[w]]]
  BY <1>2 DEF TypeOK
<1>3. QED
  BY <1>1, <1>2, SharedStep

-----------------------------------------------------------------------------
(* TypeInv is inductive.                                                   *)

LEMMA OthersOK ==
  ASSUME TypeInv, NEW w \in Thread, Step(w), NEW v \in Thread, v # w
  PROVE  ThreadOK(v)'
<1>1. TypeOK /\ ThreadOK(v) /\ Others(w)
  BY OthersKept DEF TypeInv
<1>2. pc'[v] = pc[v] \/ pc'[v] = "exit"
  BY <1>1, StepMoves DEF Moves, Ends, TypeOK
<1>3. idx[v] \in Index /\ (table[idx[v]] # Empty => table'[idx[v]] # Empty)
  BY <1>1, PublishedStays DEF TypeOK
<1>4. Node(v)' = Node(v) /\ WordBits(v)' = WordBits(v)
  BY <1>1 DEF Others, Node, WordBits
<1> HIDE DEF Empty
<1>5. QED
  BY <1>1, <1>2, <1>3, <1>4 DEF ThreadOK, Others, Looking, Scanning, Trying, Resting

LEMMA OwnOK ==
  ASSUME TypeInv, NEW w \in Thread, Step(w)
  PROVE  ThreadOK(w)'
<1>1. TypeOK /\ ThreadOK(w)
  BY DEF TypeInv
<1> USE <1>1 DEF TypeOK, ThreadOK, Looking, Scanning, Trying, Resting, Goto, Node, shared, probe, claim, local
<1>2. CASE Begin(w)
  <2>1. PICK k \in Key : key' = [key EXCEPT ![w] = k]
                           /\ idx' = [idx EXCEPT ![w] = NodeHash[Result[k]].first]
    BY <1>2 DEF Begin
  <2>2. Result[k] \in DOMAIN NodeHash
    BY SylvanWrapperAssumption
  <2>3. NodeHash[Result[k]].first \in Buckets(Start(Result[k], 0))
    BY <2>2, FirstStart, SeenLine
  <2>4. 0 # 1 /\ cidx'[w] = 0 /\ pc'[w] = "get" /\ ops'[w] # 0
    BY <1>2 DEF Begin
  <2>5. idx'[w] \in Buckets(Start(Result[key'[w]], line'[w]))
    BY <1>2, <2>1, <2>3 DEF Begin
  <2>6. w \in Builder => region'[w] \in Region
    BY <1>2 DEF Begin
  <2>7. line'[w] = 0 /\ idx'[w] = NodeHash[Result[key'[w]]].first /\ attempt'[w] = 1
    BY <1>2, <2>1 DEF Begin
  <2>8. QED
    BY <2>4, <2>5, <2>6, <2>7
<1>3. CASE ReadStatus(w)
  BY <1>3 DEF ReadStatus
<1>4. CASE MatchKey(w)
  BY <1>4 DEF MatchKey
<1>5. CASE ReadResult(w)
  BY <1>5 DEF ReadResult
<1>6. CASE Recheck(w)
  BY <1>6 DEF Recheck
<1>7. CASE Probe(w)
  <2>1. 0 \in 0 .. Words - 1 /\ 0 \in 0 .. Cardinality(Region)
    BY SizeProperties, RegionCount
  <2>2. region[w] # NoRegion => region[w] \in Region
    OBVIOUS
  <2>3. QED
    BY <1>7, <2>1, <2>2 DEF Probe
<1>8. CASE ReadWord(w)
  <2>1. n[w] \in 0 .. Words - 1 /\ 0 \in 0 .. Words - 1 /\ 0 \in 0 .. Cardinality(Region)
    BY <1>8, SizeProperties, RegionCount DEF ReadWord
  <2>2. n[w] + 1 # Words => n[w] + 1 \in 0 .. Words - 1
    BY <2>1, SizeProperties
  <2>3. Forbidden \cap WordBits(w) \subseteq WordBits(w) \cap bitmap2
    BY DEF TypeInv
  <2>4. WordBits(w)' = WordBits(w) \/ pc'[w] # "bit"
    BY <1>8 DEF ReadWord, WordBits
  <2>5. QED
    BY <1>8, <2>1, <2>2, <2>3, <2>4 DEF ReadWord
<1>9. CASE SetBit(w)
  <2>1. PICK j \in WordBits(w) \ word[w] : cidx' = [cidx EXCEPT ![w] = j]
    BY <1>9 DEF SetBit
  <2>2. j \notin Forbidden
    BY <1>9, <2>1 DEF SetBit
  <2>3. j # 0 /\ j # 1
    BY <2>2 DEF Forbidden
  <2>4. QED
    BY <1>9, <2>1, <2>3 DEF SetBit
<1>10. CASE NextRegion(w)
  <2>1. (region[w] + 1) % Cardinality(Region) \in Region
    <3>1. region[w] + 1 \in Nat
      BY RegionCount DEF NoRegion
    <3>2. QED
      BY <3>1, RegionCount, Division
  <2>2. n[w] < Cardinality(Region) => n[w] + 1 \in 0 .. Cardinality(Region) /\ n[w] + 1 # 0
    BY RegionCount
  <2>3. QED
    BY <1>10, <2>1, <2>2 DEF NextRegion
<1>11. CASE ReadOwned(w)
  BY <1>11 DEF ReadOwned
<1>12. CASE OwnRegion(w)
  <2>1. 0 \in 0 .. Words - 1
    BY SizeProperties
  <2>2. QED
    BY <1>12, <2>1 DEF OwnRegion
<1>13. CASE WriteData(w)
  BY <1>13 DEF WriteData
<1>14. CASE Publish(w)
  BY <1>14 DEF Publish
<1>15. CASE Found(w)
  BY <1>15 DEF Found
<1>16. CASE NextBucket(w)
  <2>1. ops[w] # 0 /\ line[w] \in Nat
    BY <1>16, ThresholdProperties DEF NextBucket
  <2>2. /\ InLine(idx[w]) \in Buckets(Start(Node(w), line[w]))
        /\ \A l \in Nat : LineStart(w, l) \in Buckets(Start(Node(w), l))
    BY <2>1, ProbeProperties
  <2>3. idx'[w] \in Buckets(Start(Result[key'[w]], line'[w]))
    BY <1>16, <2>1, <2>2 DEF NextBucket
  <2>4. QED
    BY <1>16, <2>1, <2>3 DEF NextBucket
<1>17. CASE ReadRelease(w)
  <2>1. Forbidden \cap WordOf(cidx[w]) \subseteq WordOf(cidx[w]) \cap bitmap2
    BY DEF TypeInv
  <2>2. QED
    BY <1>17, <2>1 DEF ReadRelease
<1>18. CASE Release(w)
  BY <1>18 DEF Release
<1>19. CASE Full(w)
  <2>1. ops[w] # 0
    BY <1>19 DEF Full
  <2>2. LineStart(w, 0) \in Buckets(Start(Node(w), 0))
    BY <2>1, ProbeProperties
  <2>3. CASE attempt[w] = 1
    BY <1>19, <2>1, <2>2, <2>3 DEF Full
  <2>4. CASE attempt[w] # 1
    BY <1>19, <2>1, <2>4 DEF Full
  <2>5. QED
    BY <2>3, <2>4
<1>20. CASE ReadPut(w)
  BY <1>20 DEF ReadPut
<1>21. CASE Lock(w)
  BY <1>21 DEF Lock
<1>22. CASE PutKey(w)
  BY <1>22 DEF PutKey
<1>23. CASE PutResult(w)
  BY <1>23 DEF PutResult
<1>24. CASE Unlock(w)
  BY <1>24 DEF Unlock
<1>25. QED
  BY <1>2, <1>3, <1>4, <1>5, <1>6, <1>7, <1>8, <1>9, <1>10, <1>11, <1>12, <1>13, <1>14, <1>15, <1>16, <1>17, <1>18, <1>19, <1>20, <1>21, <1>22, <1>23, <1>24 DEF Step

LEMMA StepFrom ==
  ASSUME NEW w \in Thread, Step(w)
  PROVE  pc[w] # "exit" /\ (pc[w] = "idle" => Begin(w))
<1>1. CASE Begin(w)
  BY <1>1 DEF Begin
<1>2. CASE ReadStatus(w)
  BY <1>2 DEF ReadStatus
<1>3. CASE MatchKey(w)
  BY <1>3 DEF MatchKey
<1>4. CASE ReadResult(w)
  BY <1>4 DEF ReadResult
<1>5. CASE Recheck(w)
  BY <1>5 DEF Recheck
<1>6. CASE Probe(w)
  BY <1>6 DEF Probe
<1>7. CASE ReadWord(w)
  BY <1>7 DEF ReadWord
<1>8. CASE SetBit(w)
  BY <1>8 DEF SetBit
<1>9. CASE NextRegion(w)
  BY <1>9 DEF NextRegion
<1>10. CASE ReadOwned(w)
  BY <1>10 DEF ReadOwned
<1>11. CASE OwnRegion(w)
  BY <1>11 DEF OwnRegion
<1>12. CASE WriteData(w)
  BY <1>12 DEF WriteData
<1>13. CASE Publish(w)
  BY <1>13 DEF Publish
<1>14. CASE Found(w)
  BY <1>14 DEF Found
<1>15. CASE NextBucket(w)
  BY <1>15 DEF NextBucket
<1>16. CASE ReadRelease(w)
  BY <1>16 DEF ReadRelease
<1>17. CASE Release(w)
  BY <1>17 DEF Release
<1>18. CASE Full(w)
  BY <1>18 DEF Full
<1>19. CASE ReadPut(w)
  BY <1>19 DEF ReadPut
<1>20. CASE Lock(w)
  BY <1>20 DEF Lock
<1>21. CASE PutKey(w)
  BY <1>21 DEF PutKey
<1>22. CASE PutResult(w)
  BY <1>22 DEF PutResult
<1>23. CASE Unlock(w)
  BY <1>23 DEF Unlock
<1>24. QED
  BY <1>1, <1>2, <1>3, <1>4, <1>5, <1>6, <1>7, <1>8, <1>9, <1>10, <1>11, <1>12, <1>13, <1>14, <1>15, <1>16, <1>17, <1>18, <1>19, <1>20, <1>21, <1>22, <1>23 DEF Step

LEMMA ForbiddenKept ==
  ASSUME TypeInv, NEW w \in Thread, Step(w)
  PROVE  Forbidden \subseteq bitmap2'
<1>1. Forbidden \subseteq bitmap2 /\ ThreadOK(w)
  BY DEF TypeInv
<1>2. CASE SetBit(w)
  <2>1. Forbidden \cap WordBits(w) \subseteq word[w] \cap bitmap2 \cap WordBits(w)
    BY <1>1, <1>2 DEF ThreadOK, SetBit
  <2>2. PICK j \in WordBits(w), v \in {word[w], WordBits(w) \cap bitmap2} :
          bitmap2' = (bitmap2 \ WordBits(w)) \cup v \cup {j}
    BY <1>2 DEF SetBit
  <2>3. QED
    BY <1>1, <2>1, <2>2
<1>3. CASE Release(w)
  <2>1. /\ Forbidden \cap WordOf(cidx[w]) \subseteq word[w] \ {cidx[w]}
        /\ bitmap2' = (bitmap2 \ WordOf(cidx[w])) \cup (word[w] \ {cidx[w]})
    BY <1>1, <1>3 DEF ThreadOK, Release, Forbidden
  <2>2. QED
    BY <1>1, <2>1
<1>4. QED
  BY <1>1, <1>2, <1>3, SharedStep

LEMMA LoadedKept ==
  ASSUME TypeInv, NEW w \in Thread, Step(w),
         NEW b \in Builder, pc'[b] \notin Resting
  PROVE  Loaded' /\ w \in Builder
<1>1. TypeOK /\ Main \in Thread /\ Main \notin Builder /\ b \in Thread
  BY IndexZero DEF TypeInv, Thread
<1>2. Moves(w)
  BY <1>1, StepMoves DEF Ends, Resting
<1>3. Loaded
  <2>1. CASE pc[b] \notin Resting
    BY <2>1 DEF TypeInv
  <2>2. CASE pc[b] \in Resting
    <3>1. b = w /\ Begin(w)
      BY <1>1, <1>2, <2>2, StepFrom DEF Moves, Resting, TypeOK
    <3>2. QED
      BY <1>1, <3>1 DEF Begin, Loaded
  <2>3. QED
    BY <2>1, <2>2
<1>4. w # Main
  <2>1. CASE w = Main
    <3>1. Begin(w) /\ ops[w] < Len(load) /\ ops[w] = Len(load)
      BY <1>3, <2>1, StepFrom DEF Loaded, Begin
    <3>2. ops[w] \in Nat
      BY <1>1 DEF TypeOK
    <3>3. QED
      BY <3>1, <3>2
  <2>2. QED
    BY <2>1
<1>5. pc'[Main] = pc[Main] /\ ops'[Main] = ops[Main] /\ load' = load
  BY <1>1, <1>2, <1>4, OthersKept, SharedStep DEF Others, Moves, TypeOK
<1>6. QED
  BY <1>3, <1>4, <1>5 DEF Loaded, Thread

LEMMA TypeInvStep ==
  ASSUME TypeInv, [Next]_vars
  PROVE  TypeInv'
<1>1. CASE UNCHANGED vars
  BY <1>1 DEF vars, shared, local, probe, claim, TypeInv, TypeOK, ThreadOK, Ended, Loaded,
              Node, WordBits
<1>2. ASSUME NEW w \in Thread, Step(w)
      PROVE  TypeInv'
  <2>1. TypeOK /\ TypeOK'
    BY <1>2, TypeStep DEF TypeInv
  <2>2. \A v \in Thread : ThreadOK(v)'
    BY <1>2, OthersOK, OwnOK
  <2>3. (\E v \in Thread : pc'[v] = "exit") => Ended'
    <3>1. \A v \in Thread : pc[v] # "exit"
      BY <1>2, StepFrom DEF TypeInv, Ended
    <3>2. QED
      BY <1>2, <2>1, <3>1, StepMoves DEF Moves, Ends, Ended, TypeOK
  <2>4. (\E v \in Builder : pc'[v] \notin Resting) => Loaded'
    BY <1>2, LoadedKept
  <2>5. Forbidden \subseteq bitmap2'
    BY <1>2, ForbiddenKept
  <2>6. QED
    BY <2>1, <2>2, <2>3, <2>4, <2>5 DEF TypeInv
<1>3. QED
  BY <1>1, <1>2 DEF Next, Step

LEMMA TypeInvInit ==
  ASSUME Init
  PROVE  TypeInv
<1>1. (CHOOSE k \in Key : TRUE) \in Key
  BY SylvanWrapperAssumption
<1>2. 0 \in Index /\ 0 \in Region /\ Main \in Thread /\ Main \notin Builder
      /\ 0 \in 0 .. Threshold - 1 /\ load \in Seq(Key)
  BY IndexZero, ThresholdProperties, SylvanWrapperAssumption DEF Init
<1> DEFINE none == [locked |-> FALSE, hash |-> 0, counter |-> 0]
<1>3. Empty \in [hash : Hash, index : Index] /\ none \in Status
  BY <1>2 DEF Empty, Hash, Status
<1>4. NoEntry \in [key : Key \cup {NoKey}, res : Index]
  BY <1>2 DEF NoEntry
<1>5. TypeOK
  <2>1. table \in [Index -> [hash : Hash, index : Index]]
    BY <1>3 DEF Init
  <2>2. status \in [Slots -> Status] /\ s \in [Thread -> Status]
    BY <1>3 DEF Init, Slots
  <2>3. entry \in [Slots -> [key : Key \cup {NoKey}, res : Index]]
    BY <1>4 DEF Init, Slots
  <2>4. region \in [Thread -> Region \cup {NoRegion}] /\ line \in [Thread -> 0 .. Threshold - 1]
    BY <1>2 DEF Init
  <2>5. key \in [Thread -> Key] /\ pc \in [Thread -> Label]
    BY <1>1 DEF Init, Label, Resting
  <2>6. idx \in [Thread -> Index] /\ cidx \in [Thread -> Index] /\ answer \in [Thread -> Index]
    BY <1>2 DEF Init
  <2>7. /\ data \in [Index -> {"none"} \cup DOMAIN NodeHash]
        /\ bitmap1 \in SUBSET Region /\ bitmap2 \in SUBSET Nat
        /\ ops \in [Thread -> Nat] /\ attempt \in [Thread -> {1, 2}]
        /\ n \in [Thread -> Nat] /\ word \in [Thread -> SUBSET Nat]
    BY DEF Init
  <2>8. QED
    BY <1>2, <2>1, <2>2, <2>3, <2>4, <2>5, <2>6, <2>7 DEF TypeOK
<1>6. \A w \in Thread : ThreadOK(w)
  BY <1>2 DEF Init, ThreadOK, Looking, Scanning, Trying, Resting, Thread
<1>7. QED
  BY <1>2, <1>5, <1>6 DEF Init, TypeInv, Forbidden, Ended, Resting, Thread

(* TypeInv: the types of the variables, where each thread is in its own    *)
(* operation, and that the builders run only when Main has loaded the net. *)
THEOREM TypeCorrect == Spec => []TypeInv
<1>1. Init => TypeInv
  BY TypeInvInit
<1>2. TypeInv /\ [Next]_vars => TypeInv'
  BY TypeInvStep
<1>3. QED
  BY <1>1, <1>2, PTL DEF Spec

-----------------------------------------------------------------------------
(* The region of a thread: the one it has taken last, or the first one,    *)
(* where builders start.  A thread that tries other regions goes round     *)
(* them from there.                                                        *)
Home(w) ==
  IF pc[w] \notin Trying THEN region[w]
  ELSE IF n[w] <= region[w] THEN region[w] - n[w]
  ELSE region[w] - n[w] + Cardinality(Region)

(* All but Main before it takes its first region. *)
Housed(w) == region[w] # NoRegion /\ (w = Main /\ pc[w] \in Trying => bitmap1 # {})

(* Main takes region 0 at its first try. *)
FirstTry ==
  \/ pc[Main] = "region" /\ region[Main] = NoRegion /\ n[Main] = 0
  \/ pc[Main] = "owned" /\ region[Main] = 0 /\ n[Main] = 1
  \/ pc[Main] = "own" /\ region[Main] = 0 /\ n[Main] = 1 /\ word[Main] = {}

(* No region is the home of two threads, except region 0, and what is home *)
(* has been taken, except by the builders that start there.                *)
RegionInv ==
  Ended \/
    /\ \A w \in Thread : Housed(w) => Home(w) \in bitmap1 \/ (w \in Builder /\ Home(w) = 0)
    /\ \A v, w \in Thread :
         v # w /\ Housed(v) /\ Housed(w) /\ Home(v) = Home(w) => Home(v) = 0
    /\ ~Housed(Main) /\ ~Loaded => bitmap1 = {} /\ (pc[Main] \in Trying => FirstTry)

LEMMA Runs ==
  ASSUME TypeInv, NEW w \in Thread, Step(w)
  PROVE  /\ ~Ended
         /\ w = Main => ~Loaded
         /\ w \in Builder => Loaded /\ (Moves(w) => Loaded')
<1>1. TypeOK /\ Main \in Thread /\ Main \notin Builder
  BY IndexZero DEF TypeInv
<1>2. pc[w] # "exit" /\ (pc[w] = "idle" => Begin(w))
  BY StepFrom
<1>3. ASSUME w = Main, Loaded PROVE FALSE
  <2>1. ops[w] < Len(load) /\ ops[w] = Len(load) /\ ops[w] \in Nat
    BY <1>1, <1>2, <1>3 DEF Loaded, Begin, TypeOK
  <2>2. QED
    BY <2>1
<1>4. ASSUME w \in Builder PROVE Loaded
  <2>1. CASE pc[w] = "idle"
    BY <1>1, <1>2, <1>4, <2>1 DEF Begin, Loaded
  <2>2. CASE pc[w] # "idle"
    BY <1>2, <1>4, <2>2 DEF TypeInv, Resting
  <2>3. QED
    BY <2>1, <2>2
<1>5. ASSUME w \in Builder, Moves(w) PROVE Loaded'
  <2>1. pc'[Main] = pc[Main] /\ ops'[Main] = ops[Main] /\ load' = load
    BY <1>1, <1>5, OthersKept, SharedStep DEF Others, Moves, TypeOK
  <2>2. QED
    BY <1>4, <1>5, <2>1 DEF Loaded
<1>6. QED
  BY <1>2, <1>3, <1>4, <1>5 DEF Ended

LEMMA RegionStep ==
  ASSUME TypeOK, NEW w \in Thread, Step(w), Moves(w)
  PROVE  \/ region' = region /\ pc[w] \notin Trying /\ pc'[w] \notin Trying
         \/ Probe(w) \/ ReadWord(w) \/ NextRegion(w) \/ ReadOwned(w) \/ OwnRegion(w)
<1> USE DEF TypeOK, Goto, Trying, claim, local
<1>1. CASE Begin(w)
  BY <1>1 DEF Begin
<1>2. CASE ReadStatus(w)
  BY <1>2 DEF ReadStatus
<1>3. CASE MatchKey(w)
  BY <1>3 DEF MatchKey
<1>4. CASE ReadResult(w)
  BY <1>4 DEF ReadResult
<1>5. CASE Recheck(w)
  BY <1>5 DEF Recheck
<1>6. CASE Probe(w)
  BY <1>6
<1>7. CASE ReadWord(w)
  BY <1>7
<1>8. CASE SetBit(w)
  BY <1>8 DEF SetBit
<1>9. CASE NextRegion(w)
  BY <1>9
<1>10. CASE ReadOwned(w)
  BY <1>10
<1>11. CASE OwnRegion(w)
  BY <1>11
<1>12. CASE WriteData(w)
  BY <1>12 DEF WriteData
<1>13. CASE Publish(w)
  BY <1>13 DEF Publish
<1>14. CASE Found(w)
  BY <1>14 DEF Found
<1>15. CASE NextBucket(w)
  BY <1>15 DEF NextBucket
<1>16. CASE ReadRelease(w)
  BY <1>16 DEF ReadRelease
<1>17. CASE Release(w)
  BY <1>17 DEF Release
<1>18. CASE Full(w)
  BY <1>18 DEF Full, Moves
<1>19. CASE ReadPut(w)
  BY <1>19 DEF ReadPut
<1>20. CASE Lock(w)
  BY <1>20 DEF Lock
<1>21. CASE PutKey(w)
  BY <1>21 DEF PutKey
<1>22. CASE PutResult(w)
  BY <1>22 DEF PutResult
<1>23. CASE Unlock(w)
  BY <1>23 DEF Unlock
<1>24. QED
  BY <1>1, <1>2, <1>3, <1>4, <1>5, <1>6, <1>7, <1>8, <1>9, <1>10, <1>11, <1>12, <1>13, <1>14, <1>15, <1>16, <1>17, <1>18, <1>19, <1>20, <1>21, <1>22, <1>23 DEF Step

LEMMA AfterRegion ==
  ASSUME NEW r \in Region \cup {NoRegion}
  PROVE  (r + 1) % Cardinality(Region) = IF r + 1 = Cardinality(Region) THEN 0 ELSE r + 1
<1> DEFINE c == Cardinality(Region)
<1>1. c \in Nat \ {0} /\ r \in -1 .. c - 1
  BY RegionCount DEF NoRegion
<1> HIDE DEF c
<1>2. CASE r + 1 = c
  <2>1. (c * 1 + 0) % c = 0
    BY <1>1, DivisionIsUnique
  <2>2. c * 1 + 0 = r + 1
    BY <1>1, <1>2
  <2>3. QED
    BY <1>2, <2>1, <2>2 DEF c
<1>3. CASE r + 1 # c
  <2>1. r + 1 \in 0 .. c - 1
    BY <1>1, <1>3
  <2>2. (c * 0 + (r + 1)) % c = r + 1
    BY <1>1, <2>1, DivisionIsUnique
  <2>3. c * 0 + (r + 1) = r + 1
    BY <1>1
  <2>4. QED
    BY <1>3, <2>2, <2>3 DEF c
<1>4. QED
  BY <1>2, <1>3

(* The home of the thread that takes a step. *)
LEMMA OwnHome ==
  ASSUME TypeInv, RegionInv, NEW w \in Thread, Step(w), Moves(w)
  PROVE  \/ /\ UNCHANGED bitmap1
            /\ Housed(w) /\ Housed(w)' /\ Home(w)' = Home(w)
         \/ /\ UNCHANGED bitmap1
            /\ w = Main /\ ~Housed(w) /\ ~Housed(w)' /\ (pc'[Main] \in Trying => FirstTry')
         \/ /\ region[w] \in Region \ bitmap1 /\ bitmap1' = bitmap1 \cup {region[w]}
            /\ Housed(w)' /\ Home(w)' = region[w]
<1> DEFINE c == Cardinality(Region)
<1>1. TypeOK /\ ThreadOK(w) /\ ThreadOK(w)'
  BY OwnOK DEF TypeInv
<1>2. c \in Nat \ {0} /\ Region = 0 .. c - 1
  BY RegionCount
<1>3. region[w] \in Region \cup {-1} /\ n[w] \in Nat /\ pc'[w] \in Label
  BY <1>1 DEF TypeOK, Moves, NoRegion
<1>4. w # Main => region[w] \in Region
  BY <1>1 DEF ThreadOK, Thread
<1>5. ~Housed(Main) /\ w = Main => bitmap1 = {} /\ (pc[Main] \in Trying => FirstTry)
  BY Runs DEF RegionInv
<1>6. pc[w] \in Trying => n[w] \in 0 .. c
  BY <1>1 DEF ThreadOK
<1> HIDE DEF c
<1>7. CASE region' = region /\ pc[w] \notin Trying /\ pc'[w] \notin Trying
  <2>1. UNCHANGED bitmap1
    BY <1>7, SharedStep DEF OwnRegion, Trying
  <2>2. Home(w)' = Home(w) /\ (Housed(w)' <=> Housed(w))
    BY <1>7 DEF Home, Housed
  <2>3. ~Housed(w) => w = Main /\ pc'[Main] \notin Trying
    BY <1>2, <1>4, <1>7 DEF Housed, NoRegion
  <2>4. QED
    BY <2>1, <2>2, <2>3
<1>8. CASE Probe(w)
  <2>1. /\ UNCHANGED bitmap1 /\ region' = region /\ n'[w] = 0 /\ pc[w] = "probe"
        /\ pc'[w] \in Trying => pc'[w] = "region" /\ region[w] = NoRegion
    BY <1>1, <1>8 DEF Probe, shared, Goto, TypeOK, Trying
  <2>2. CASE region[w] = NoRegion
    BY <1>3, <1>4, <1>5, <2>1, <2>2, <1>2 DEF Housed, Trying, FirstTry, NoRegion
  <2>3. CASE region[w] # NoRegion
    BY <2>1, <2>3 DEF Housed, Home, Trying
  <2>4. QED
    BY <2>2, <2>3
<1>9. CASE ReadWord(w)
  <2>1. /\ UNCHANGED bitmap1 /\ region' = region /\ pc[w] = "word"
        /\ pc'[w] \in Trying => n'[w] = 0 /\ pc'[w] = "region"
    BY <1>1, <1>9, SizeProperties DEF ReadWord, shared, Goto, TypeOK, Trying
  <2>2. region[w] \in Region /\ region[w] # NoRegion
    BY <1>1, <1>2, <2>1 DEF ThreadOK, Scanning, NoRegion
  <2>3. Housed(w) /\ Home(w) = region[w]
    BY <2>1, <2>2 DEF Housed, Home, Trying
  <2>4. Home(w)' = region[w]
    BY <1>2, <2>1, <2>2 DEF Home
  <2>5. w = Main => bitmap1 # {}
    BY <1>2, <2>2, <2>3, Runs, IndexZero DEF RegionInv
  <2>6. Housed(w)'
    BY <2>1, <2>2, <2>5 DEF Housed
  <2>7. QED
    BY <2>1, <2>3, <2>4, <2>6
<1>10. CASE NextRegion(w)
  <2>1. UNCHANGED bitmap1 /\ pc[w] = "region" /\ pc[w] \in Trying
    BY <1>10 DEF NextRegion, shared, Trying
  <2>2. CASE n[w] = c /\ pc'[w] = "full" /\ UNCHANGED <<region, n>>
    <3>1. Housed(w)
      <4>1. CASE ~Housed(w)
        <5>1. w = Main /\ n[w] = 0
          BY <1>2, <1>4, <1>5, <2>1, <4>1 DEF Housed, FirstTry, NoRegion
        <5>2. QED
          BY <1>2, <2>2, <5>1
      <4>2. QED
        BY <4>1
    <3>2. region[w] \in Region /\ region[w] # NoRegion
      BY <1>3, <3>1 DEF Housed, NoRegion
    <3>3. Home(w) = region[w]
      BY <1>2, <2>1, <2>2, <3>2 DEF Home, c
    <3>4. Home(w)' = region[w] /\ Housed(w)'
      BY <2>2, <3>2 DEF Home, Housed, Trying
    <3>5. QED
      BY <2>1, <3>1, <3>3, <3>4
  <2>3. CASE /\ n[w] < c /\ n' = [n EXCEPT ![w] = @ + 1]
             /\ region' = [region EXCEPT ![w] = (@ + 1) % c]
             /\ pc'[w] = "owned"
    <3>1. n'[w] = n[w] + 1 /\ region'[w] = (region[w] + 1) % c
      BY <1>1, <2>3 DEF TypeOK
    <3>2. region'[w] = IF region[w] + 1 = c THEN 0 ELSE region[w] + 1
      BY <1>3, <3>1, AfterRegion DEF c, NoRegion
    <3>3. CASE Housed(w)
      <4>1. region[w] \in Region /\ region[w] \in 0 .. c - 1 /\ region'[w] \in 0 .. c - 1
        BY <1>2, <1>3, <3>2, <3>3 DEF Housed, NoRegion
      <4>2. Home(w) = IF n[w] <= region[w] THEN region[w] - n[w] ELSE region[w] - n[w] + c
        BY <2>1 DEF Home, c
      <4>3. Home(w)' = IF n'[w] <= region'[w] THEN region'[w] - n'[w]
                       ELSE region'[w] - n'[w] + c
        BY <2>3 DEF Home, c, Trying
      <4>4. Home(w)' = Home(w)
        <5>1. n[w] \in 0 .. c - 1 /\ n'[w] = n[w] + 1
          BY <1>2, <1>3, <2>3, <3>1
        <5>2. CASE region[w] + 1 = c
          <6>1. region'[w] = 0 /\ region[w] = c - 1 /\ c \in Nat
            BY <1>2, <3>2, <4>1, <5>2
          <6>2. Home(w) = c - 1 - n[w] /\ Home(w)' = 0 - (n[w] + 1) + c
            BY <4>2, <4>3, <5>1, <6>1
          <6>3. QED
            BY <5>1, <6>1, <6>2
        <5>3. CASE region[w] + 1 # c
          <6>1. region'[w] = region[w] + 1
            BY <3>2, <5>3
          <6>2. QED
            BY <1>2, <4>1, <4>2, <4>3, <5>1, <6>1
        <5>4. QED
          BY <5>2, <5>3
      <4>5. Housed(w)'
        BY <2>1, <3>3, <4>1 DEF Housed, NoRegion
      <4>6. QED
        BY <2>1, <3>3, <4>4, <4>5
    <3>4. CASE ~Housed(w)
      <4>1. w = Main /\ region[w] = -1 /\ n[w] = 0 /\ bitmap1 = {}
        BY <1>2, <1>4, <1>5, <2>1, <3>4 DEF Housed, FirstTry, NoRegion
      <4>2. region'[w] = 0 /\ n'[w] = 1
        BY <1>2, <3>1, <3>2, <4>1
      <4>3. pc'[w] \in Trying /\ FirstTry'
        BY <2>3, <4>1, <4>2 DEF FirstTry, Trying
      <4>4. QED
        BY <2>1, <3>4, <4>1, <4>3 DEF Housed
    <3>5. QED
      BY <3>3, <3>4
  <2>4. QED
    BY <1>1, <1>10, <2>2, <2>3 DEF NextRegion, Goto, TypeOK, c
<1>11. CASE ReadOwned(w)
  <2>1. /\ UNCHANGED bitmap1 /\ region' = region /\ n' = n /\ pc[w] = "owned"
        /\ IF region[w] \in bitmap1 THEN pc'[w] = "region"
           ELSE pc'[w] = "own" /\ word'[w] = bitmap1
    BY <1>1, <1>11 DEF ReadOwned, shared, Goto, TypeOK, Trying
  <2>2. pc[w] \in Trying /\ pc'[w] \in Trying
    BY <2>1 DEF Trying
  <2>3. Home(w)' = Home(w) /\ Housed(w)' = Housed(w)
    BY <2>1, <2>2 DEF Home, Housed
  <2>4. CASE ~Housed(w)
    <3>1. w = Main /\ region[w] = 0 /\ n[w] = 1 /\ bitmap1 = {}
      BY <1>2, <1>4, <1>5, <2>1, <2>2, <2>4 DEF Housed, FirstTry, NoRegion
    <3>2. FirstTry'
      BY <2>1, <3>1 DEF FirstTry
    <3>3. QED
      BY <2>1, <2>3, <2>4, <3>1, <3>2
  <2>5. QED
    BY <2>1, <2>3, <2>4
<1>12. CASE OwnRegion(w)
  <2>1. /\ region' = region /\ pc[w] = "own"
        /\ \/ bitmap1 = word[w] /\ bitmap1' = bitmap1 \cup {region[w]} /\ pc'[w] = "word"
           \/ bitmap1 # word[w] /\ UNCHANGED <<bitmap1, n>> /\ pc'[w] = "owned"
    BY <1>1, <1>12 DEF OwnRegion, Goto, TypeOK
  <2>2. pc[w] \in Trying /\ region[w] \in Region /\ region[w] \notin word[w]
    BY <1>1, <2>1 DEF ThreadOK, Trying
  <2>3. CASE bitmap1 = word[w] /\ bitmap1' = bitmap1 \cup {region[w]} /\ pc'[w] = "word"
    BY <1>2, <2>1, <2>2, <2>3 DEF Home, Housed, Trying, NoRegion
  <2>4. CASE bitmap1 # word[w] /\ UNCHANGED <<bitmap1, n>> /\ pc'[w] = "owned"
    <3>1. Housed(w)
      <4>1. ASSUME ~Housed(w) PROVE FALSE
        <5>1. w = Main
          BY <1>2, <2>2, <4>1 DEF Housed, NoRegion
        <5>2. bitmap1 = {} /\ FirstTry
          BY <1>5, <2>2, <4>1, <5>1
        <5>3. word[w] = {}
          BY <2>1, <5>1, <5>2 DEF FirstTry
        <5>4. QED
          BY <2>4, <5>2, <5>3
      <4>2. QED
        BY <4>1
    <3>2. pc'[w] \in Trying
      BY <2>4 DEF Trying
    <3>3. QED
      BY <2>1, <2>2, <2>4, <3>1, <3>2 DEF Home, Housed
  <2>5. QED
    BY <2>1, <2>3, <2>4
<1>13. QED
  BY <1>1, <1>7, <1>8, <1>9, <1>10, <1>11, <1>12, RegionStep

(* A step of one thread leaves the homes of the others.                    *)
LEMMA OthersHome ==
  ASSUME TypeInv, NEW w \in Thread, Step(w), Moves(w), NEW v \in Thread, v # w
  PROVE  Home(v)' = Home(v) /\ (Housed(v)' <=> Housed(v))
<1>1. pc'[v] = pc[v] /\ region'[v] = region[v] /\ n'[v] = n[v]
  BY OthersKept DEF Others, Moves, TypeInv, TypeOK
<1>2. ~(v = Main /\ pc[v] \in Trying)
  <2>1. ASSUME v = Main, pc[v] \in Trying PROVE FALSE
    <3>1. w \in Builder
      BY <2>1 DEF Thread
    <3>2. Loaded
      BY <3>1, Runs
    <3>3. QED
      BY <2>1, <3>2 DEF Loaded, Trying
  <2>2. QED
    BY <2>1
<1>3. QED
  BY <1>1, <1>2 DEF Home, Housed

LEMMA RegionInvStep ==
  ASSUME TypeInv, RegionInv, [Next]_vars
  PROVE  RegionInv'
<1>1. CASE UNCHANGED vars
  BY <1>1 DEF vars, shared, local, claim, RegionInv, Ended, Loaded, Housed, Home, FirstTry
<1>2. ASSUME NEW w \in Thread, Step(w)
      PROVE  RegionInv'
  <2>1. TypeOK /\ Main \in Thread /\ ~Ended
    BY <1>2, IndexZero, Runs DEF TypeInv
  <2>2. CASE Ends
    BY <2>1, <2>2 DEF Ends, Ended, RegionInv
  <2>3. CASE Moves(w)
    <3>1. \A v \in Thread : v # w => Home(v)' = Home(v) /\ (Housed(v)' <=> Housed(v))
      BY <1>2, <2>3, OthersHome
    <3>2. \/ bitmap1' = bitmap1 /\ Housed(w) /\ Housed(w)' /\ Home(w)' = Home(w)
          \/ /\ bitmap1' = bitmap1
             /\ w = Main /\ ~Housed(w) /\ ~Housed(w)' /\ (pc'[Main] \in Trying => FirstTry')
          \/ /\ region[w] \in Region \ bitmap1 /\ bitmap1' = bitmap1 \cup {region[w]}
             /\ Housed(w)' /\ Home(w)' = region[w]
      BY <1>2, <2>3, OwnHome
    <3>3. /\ \A v \in Thread : Housed(v) => Home(v) \in bitmap1 \/ (v \in Builder /\ Home(v) = 0)
          /\ \A v, u \in Thread :
               v # u /\ Housed(v) /\ Housed(u) /\ Home(v) = Home(u) => Home(v) = 0
          /\ ~Housed(Main) /\ ~Loaded => bitmap1 = {}
      BY <2>1 DEF RegionInv
    <3>4. ASSUME NEW v \in Thread, Housed(v)'
          PROVE  Home(v)' \in bitmap1' \/ (v \in Builder /\ Home(v)' = 0)
      <4>1. CASE v = w
        BY <3>2, <3>3, <3>4, <4>1
      <4>2. CASE v # w
        BY <3>1, <3>2, <3>3, <3>4, <4>2
      <4>3. QED
        BY <4>1, <4>2
    <3>5. ASSUME NEW v \in Thread, v # w, Housed(v)', Housed(w)', Home(v)' = Home(w)'
          PROVE  Home(v)' = 0
      <4>1. Housed(v) /\ Home(v)' = Home(v)
        BY <3>1, <3>5
      <4>2. QED
        BY <3>2, <3>3, <3>5, <4>1
    <3>6. ASSUME NEW v \in Thread, NEW u \in Thread, v # u, Housed(v)', Housed(u)',
                 Home(v)' = Home(u)'
          PROVE  Home(v)' = 0
      <4>1. CASE v # w /\ u # w
        BY <3>1, <3>3, <3>6, <4>1
      <4>2. CASE v = w \/ u = w
        BY <3>5, <3>6, <4>2
      <4>3. QED
        BY <4>1, <4>2
    <3>7. ~Housed(Main)' /\ ~Loaded' => bitmap1' = {} /\ (pc'[Main] \in Trying => FirstTry')
      <4>1. CASE w = Main
        BY <1>2, <3>2, <3>3, <4>1, Runs
      <4>2. CASE w # Main
        BY <1>2, <2>3, <4>2, Runs DEF Thread
      <4>3. QED
        BY <4>1, <4>2
    <3>8. QED
      BY <3>4, <3>6, <3>7 DEF RegionInv
  <2>4. QED
    BY <1>2, <2>1, <2>2, <2>3, StepMoves
<1>3. QED
  BY <1>1, <1>2 DEF Next, Step

LEMMA RegionInvInit ==
  ASSUME Init
  PROVE  RegionInv
<1>1. Main \in Thread /\ Main \notin Builder
  BY IndexZero
<1>2. /\ \A w \in Thread : region[w] = IF w = Main THEN NoRegion ELSE 0
      /\ \A w \in Thread : pc[w] = "idle" /\ n[w] = 0
      /\ bitmap1 = {}
  BY DEF Init
<1>3. \A w \in Thread : Housed(w) => w \in Builder /\ Home(w) = 0
  BY <1>2 DEF Housed, Home, Trying, Thread
<1>4. pc[Main] \notin Trying
  BY <1>1, <1>2 DEF Trying
<1>5. QED
  BY <1>2, <1>3, <1>4 DEF RegionInv

(* A region is the home of one thread, except the first one: bitmap1 is    *)
(* written by a compare-and-swap, whoever goes round the regions.          *)
THEOREM HomesAreApart == Spec => []RegionInv
<1>1. Init => RegionInv
  BY RegionInvInit
<1>2. TypeInv /\ RegionInv /\ [Next]_vars => RegionInv'
  BY RegionInvStep
<1>3. QED
  BY <1>1, <1>2, TypeCorrect, PTL DEF Spec

-----------------------------------------------------------------------------
(* The claims: while a thread searches a word of bitmap2 or holds an index *)
(* nobody else claims in its region, so its reads and writes of the word   *)
(* are not disturbed.                                                      *)

(* The hypothesis of the theorems, which the run `sylvan_shared' does not  *)
(* meet: Main has filled region 0 when it has loaded the net.  The threads *)
(* that start in that region without owning it then find it full.          *)
Started == \E w \in Builder : ops[w] # 0
LoadFillsRegion == Loaded /\ ~Started => RegionBits(0) \subseteq bitmap2
FirstRegionFull == Loaded => RegionBits(0) \subseteq bitmap2

Holding(w) ==
  /\ cidx[w] # 0
  /\ pc[w] \in {"write", "publish", "compare", "probe", "release", "clear"}
Claiming(w) == pc[w] = "bit" \/ Holding(w)
Used == {table[b].index : b \in Published}

ClaimOK(w) ==
  /\ Claiming(w) => region[w] \in Region /\ (w \in Builder => region[w] # 0)
  /\ pc[w] = "bit" => word[w] = WordBits(w) \cap bitmap2
  /\ Holding(w) => cidx[w] \in (RegionBits(region[w]) \cap bitmap2) \ Used
  /\ pc[w] = "clear" => word[w] = WordOf(cidx[w]) \cap bitmap2

ClaimInv ==
  /\ Ended \/ \A w \in Thread : ClaimOK(w)
  /\ Used \subseteq bitmap2 \ Forbidden
  /\ \A b, c \in Published : b # c => table[b].index # table[c].index

LEMMA Apart ==
  ASSUME TypeInv, RegionInv, ~Ended,
         NEW v \in Thread, NEW w \in Thread, v # w, Claiming(v), Claiming(w),
         ClaimOK(v), ClaimOK(w)
  PROVE  /\ region[v] \in Region /\ region[w] \in Region
         /\ RegionBits(region[v]) \cap RegionBits(region[w]) = {}
<1>1. /\ region[v] \in Region /\ region[w] \in Region
      /\ v \in Builder => region[v] # 0
      /\ w \in Builder => region[w] # 0
  BY DEF ClaimOK
<1>2. v \in Builder \/ w \in Builder
  BY DEF Thread
<1>3. pc[v] \notin Trying /\ pc[w] \notin Trying
  BY DEF Claiming, Holding, Trying
<1>4. Home(v) = region[v] /\ Home(w) = region[w]
  BY <1>3 DEF Home
<1>5. Housed(v) /\ Housed(w)
  BY <1>1, <1>3, RegionCount DEF Housed, NoRegion
<1>6. region[v] # region[w]
  BY <1>1, <1>2, <1>4, <1>5 DEF RegionInv
<1>7. QED
  BY <1>1, <1>6, RegionsAreDisjoint

(* The two writes of bitmap2 set one bit and clear one. *)
LEMMA BitmapStep ==
  ASSUME TypeInv, NEW w \in Thread, Step(w), ClaimOK(w)
  PROVE  \/ UNCHANGED bitmap2
         \/ /\ SetBit(w) /\ Claiming(w)
            /\ cidx'[w] \in WordBits(w) \ bitmap2
            /\ cidx'[w] \in RegionBits(region[w])
            /\ bitmap2' = bitmap2 \cup {cidx'[w]}
         \/ /\ Release(w) /\ Holding(w)
            /\ bitmap2' = bitmap2 \ {cidx[w]}
<1>1. TypeOK
  BY DEF TypeInv
<1>2. CASE SetBit(w)
  <2>1. pc[w] = "bit" /\ pc[w] \in Scanning
    BY <1>2 DEF SetBit, Scanning
  <2>2. word[w] = WordBits(w) \cap bitmap2 /\ WordBits(w) \subseteq RegionBits(region[w])
    BY <2>1, WordProperties DEF ClaimOK
  <2>3. PICK j \in WordBits(w) \ word[w] :
          /\ bitmap2' = (bitmap2 \ WordBits(w)) \cup (WordBits(w) \cap bitmap2) \cup {j}
          /\ cidx' = [cidx EXCEPT ![w] = j]
    BY <1>2, <2>2 DEF SetBit
  <2>4. cidx'[w] = j /\ j \notin bitmap2 /\ bitmap2' = bitmap2 \cup {j}
    BY <1>1, <2>2, <2>3 DEF TypeOK
  <2>5. QED
    BY <1>2, <2>1, <2>2, <2>4 DEF Claiming
<1>3. CASE Release(w)
  <2>1. pc[w] = "clear" /\ Holding(w)
    BY <1>3 DEF Release, TypeInv, ThreadOK, Holding
  <2>2. /\ word[w] = WordOf(cidx[w]) \cap bitmap2
        /\ region[w] \in Region /\ cidx[w] \in RegionBits(region[w])
    BY <2>1 DEF ClaimOK, Claiming
  <2>3. cidx[w] \in WordOf(cidx[w])
    BY <2>2, WordOfIndex
  <2>4. bitmap2' = (bitmap2 \ WordOf(cidx[w])) \cup ((WordOf(cidx[w]) \cap bitmap2) \ {cidx[w]})
    BY <1>3, <2>2 DEF Release
  <2>5. bitmap2' = bitmap2 \ {cidx[w]}
    BY <2>3, <2>4
  <2>6. QED
    BY <1>3, <2>1, <2>5
<1>4. QED
  BY <1>2, <1>3, SharedStep

(* The write of the table uses one bucket and one index. *)
LEMMA TableStep ==
  ASSUME TypeInv, NEW w \in Thread, Step(w)
  PROVE  \/ UNCHANGED table
         \/ /\ Publish(w) /\ pc[w] = "publish" /\ Holding(w)
            /\ idx[w] \in Index \ Published /\ cidx[w] \in Index
            /\ table'[idx[w]] = [hash |-> NodeHash[Node(w)].hash, index |-> cidx[w]]
            /\ \A b \in Index : b # idx[w] => table'[b] = table[b]
            /\ Published' = Published \cup {idx[w]}
            /\ Used' = Used \cup {cidx[w]}
<1>1. TypeOK /\ ThreadOK(w)
  BY DEF TypeInv
<1>2. ASSUME Publish(w), pc[w] = "publish", table[idx[w]] = Empty,
             table' = [table EXCEPT ![idx[w]] =
                         [hash |-> NodeHash[Node(w)].hash, index |-> cidx[w]]]
      PROVE  /\ Holding(w) /\ idx[w] \in Index \ Published /\ cidx[w] \in Index
             /\ table'[idx[w]] = [hash |-> NodeHash[Node(w)].hash, index |-> cidx[w]]
             /\ \A b \in Index : b # idx[w] => table'[b] = table[b]
             /\ Published' = Published \cup {idx[w]}
             /\ Used' = Used \cup {cidx[w]}
  <2>1. idx[w] \in Index \ Published /\ cidx[w] \in Index /\ cidx[w] # 0
    BY <1>1, <1>2 DEF TypeOK, ThreadOK, Published
  <2>2. /\ table'[idx[w]] = [hash |-> NodeHash[Node(w)].hash, index |-> cidx[w]]
        /\ \A b \in Index : b # idx[w] => table'[b] = table[b]
    BY <1>1, <1>2, <2>1 DEF TypeOK
  <2>3. table'[idx[w]] # Empty
    BY <2>1, <2>2 DEF Empty
  <2>4. Published' = Published \cup {idx[w]}
    BY <2>1, <2>2, <2>3 DEF Published
  <2>5. Published \subseteq Index
    BY DEF Published
  <2>6. Used' = {table'[b].index : b \in Published \cup {idx[w]}}
    BY <2>4 DEF Used
  <2>7. \A b \in Published : table'[b] = table[b]
    BY <2>1, <2>2, <2>5
  <2>8. Used' = Used \cup {cidx[w]}
    <3>1. {table'[b].index : b \in Published \cup {idx[w]}} = Used \cup {cidx[w]}
      BY <2>2, <2>7 DEF Used
    <3>2. QED
      BY <2>6, <3>1
  <2>9. QED
    BY <1>2, <2>1, <2>2, <2>4, <2>8 DEF Holding
<1>3. QED
  BY <1>2, SharedStep

LEMMA OthersClaim ==
  ASSUME TypeInv, RegionInv, \A v \in Thread : ClaimOK(v),
         NEW w \in Thread, Step(w), Moves(w), NEW v \in Thread, v # w
  PROVE  ClaimOK(v)'
<1>1. /\ ClaimOK(v) /\ ClaimOK(w) /\ ~Ended
      /\ pc'[v] = pc[v] /\ region'[v] = region[v] /\ cidx'[v] = cidx[v] /\ word'[v] = word[v]
      /\ n'[v] = n[v]
  BY OthersKept, Runs DEF Others, Moves, TypeInv, TypeOK
<1>2. WordBits(v)' = WordBits(v) /\ (Holding(v)' <=> Holding(v)) /\ (Claiming(v)' <=> Claiming(v))
      /\ RegionBits(region[v])' = RegionBits(region[v])
  BY <1>1 DEF WordBits, Holding, Claiming, RegionBits, Bound
<1>3. CASE ~Claiming(v)
  <2>1. pc[v] # "bit" /\ pc[v] # "clear" /\ ~Holding(v)
    BY <1>3 DEF Claiming, Holding, TypeInv, ThreadOK
  <2>2. QED
    BY <1>1, <1>2, <1>3, <2>1 DEF ClaimOK
<1>4. CASE Claiming(v)
  <2>1. bitmap2' \cap RegionBits(region[v]) = bitmap2 \cap RegionBits(region[v])
    <3>1. CASE UNCHANGED bitmap2
      BY <3>1
    <3>2. CASE /\ Claiming(w)
               /\ cidx'[w] \in RegionBits(region[w])
               /\ bitmap2' = bitmap2 \cup {cidx'[w]}
      BY <1>1, <1>4, <3>2, Apart
    <3>3. CASE Holding(w) /\ bitmap2' = bitmap2 \ {cidx[w]}
      <4>1. Claiming(w) /\ cidx[w] \in RegionBits(region[w])
        BY <1>1, <3>3 DEF ClaimOK, Claiming
      <4>2. QED
        BY <1>1, <1>4, <3>3, <4>1, Apart
    <3>4. QED
      BY <1>1, <3>1, <3>2, <3>3, BitmapStep
  <2>2. ASSUME Holding(v) PROVE cidx[v] \notin Used'
    <3>1. cidx[v] \notin Used /\ cidx[v] \in RegionBits(region[v])
      BY <1>1, <2>2 DEF ClaimOK
    <3>2. CASE UNCHANGED table
      BY <3>1, <3>2 DEF Used, Published
    <3>3. CASE Holding(w) /\ Used' = Used \cup {cidx[w]}
      <4>1. Claiming(w) /\ cidx[w] \in RegionBits(region[w])
        BY <1>1, <3>3 DEF ClaimOK, Claiming
      <4>2. QED
        BY <1>1, <1>4, <3>1, <3>3, <4>1, Apart
    <3>4. QED
      BY <3>2, <3>3, TableStep
  <2>3. region[v] \in Region /\ (v \in Builder => region[v] # 0)
    BY <1>1, <1>4 DEF ClaimOK
  <2>4. ASSUME pc[v] = "bit" PROVE word[v] = WordBits(v) \cap bitmap2'
    <3>1. WordBits(v) \subseteq RegionBits(region[v])
      BY <2>4, WordProperties DEF Scanning
    <3>2. word[v] = WordBits(v) \cap bitmap2
      BY <1>1, <2>4 DEF ClaimOK
    <3>3. QED
      BY <2>1, <3>1, <3>2
  <2>5. ASSUME pc[v] = "clear" PROVE word[v] = WordOf(cidx[v]) \cap bitmap2'
    <3>1. Holding(v)
      BY <1>4, <2>5 DEF Claiming
    <3>2. WordOf(cidx[v]) \subseteq RegionBits(region[v]) /\ word[v] = WordOf(cidx[v]) \cap bitmap2
      BY <1>1, <2>3, <2>5, <3>1, WordOfIndex DEF ClaimOK
    <3>3. QED
      BY <2>1, <3>2
  <2>6. Holding(v) => cidx[v] \in (RegionBits(region[v]) \cap bitmap2') \ Used'
    BY <1>1, <2>1, <2>2 DEF ClaimOK
  <2>7. WordOf(cidx[v])' = WordOf(cidx[v])
    BY <1>1 DEF WordOf
  <2>8. QED
    BY <1>1, <1>2, <2>3, <2>4, <2>5, <2>6, <2>7 DEF ClaimOK
<1>5. QED
  BY <1>3, <1>4

(* A thread begins to claim at a word that is not full, takes a bit of it, *)
(* and holds the index until it has published or released it.              *)
LEMMA ClaimStep ==
  ASSUME TypeInv, NEW w \in Thread, Step(w), Moves(w)
  PROVE  \/ ~Claiming(w)'
         \/ ReadWord(w) /\ pc'[w] = "bit" /\ cidx'[w] = 0
         \/ SetBit(w)
         \/ ReadRelease(w)
         \/ /\ Holding(w) /\ Holding(w)' /\ pc'[w] \notin {"bit", "clear"}
            /\ pc[w] \notin {"release", "clear"}
            /\ cidx'[w] = cidx[w] /\ region'[w] = region[w] /\ key'[w] = key[w]
            /\ UNCHANGED <<bitmap2, table>>
<1>1. TypeOK /\ ThreadOK(w) /\ ThreadOK(w)'
  BY OwnOK DEF TypeInv
<1> USE DEF TypeOK, Goto, Claiming, Holding, Looking, Scanning, Trying, Resting, claim, local, shared
<1>2. CASE Begin(w)
  BY <1>1, <1>2 DEF Begin
<1>3. CASE ReadStatus(w)
  BY <1>1, <1>3 DEF ReadStatus, ThreadOK
<1>4. CASE MatchKey(w)
  BY <1>1, <1>4 DEF MatchKey, ThreadOK
<1>5. CASE ReadResult(w)
  BY <1>1, <1>5 DEF ReadResult
<1>6. CASE Recheck(w)
  BY <1>1, <1>6 DEF Recheck, ThreadOK
<1>7. CASE Probe(w)
  BY <1>1, <1>7 DEF Probe
<1>8. CASE ReadWord(w)
  BY <1>1, <1>8 DEF ReadWord, ThreadOK
<1>9. CASE SetBit(w)
  BY <1>9
<1>10. CASE NextRegion(w)
  BY <1>1, <1>10 DEF NextRegion
<1>11. CASE ReadOwned(w)
  BY <1>1, <1>11 DEF ReadOwned
<1>12. CASE OwnRegion(w)
  BY <1>1, <1>12 DEF OwnRegion
<1>13. CASE WriteData(w)
  BY <1>1, <1>13 DEF WriteData, ThreadOK
<1>14. CASE Publish(w)
  BY <1>1, <1>14 DEF Publish, ThreadOK
<1>15. CASE Found(w)
  BY <1>1, <1>15 DEF Found
<1>16. CASE NextBucket(w)
  BY <1>1, <1>16 DEF NextBucket
<1>17. CASE ReadRelease(w)
  BY <1>17
<1>18. CASE Release(w)
  BY <1>1, <1>18 DEF Release
<1>19. CASE Full(w)
  BY <1>1, <1>19 DEF Full, Moves
<1>20. CASE ReadPut(w)
  BY <1>1, <1>20 DEF ReadPut
<1>21. CASE Lock(w)
  BY <1>1, <1>21 DEF Lock
<1>22. CASE PutKey(w)
  BY <1>1, <1>22 DEF PutKey
<1>23. CASE PutResult(w)
  BY <1>1, <1>23 DEF PutResult
<1>24. CASE Unlock(w)
  BY <1>1, <1>24 DEF Unlock
<1>25. QED
  BY <1>2, <1>3, <1>4, <1>5, <1>6, <1>7, <1>8, <1>9, <1>10, <1>11, <1>12, <1>13, <1>14, <1>15, <1>16, <1>17, <1>18, <1>19, <1>20, <1>21, <1>22, <1>23, <1>24 DEF Step

LEMMA OwnClaim ==
  ASSUME TypeInv, FirstRegionFull, Used \subseteq bitmap2, NEW w \in Thread, ClaimOK(w),
         Step(w), Moves(w)
  PROVE  ClaimOK(w)'
<1>1. TypeOK /\ ThreadOK(w)
  BY DEF TypeInv
<1>2. CASE ~Claiming(w)'
  <2>1. pc'[w] # "bit" /\ pc'[w] # "clear" /\ ~Holding(w)'
    BY <1>2, OwnOK DEF Claiming, Holding, TypeInv, ThreadOK
  <2>2. QED
    BY <1>2, <2>1 DEF ClaimOK
<1>3. CASE ReadWord(w) /\ pc'[w] = "bit" /\ cidx'[w] = 0
  <2>1. /\ word' = [word EXCEPT ![w] = WordBits(w) \cap bitmap2]
        /\ ~(WordBits(w) \subseteq bitmap2)
        /\ n' = n /\ region' = region /\ bitmap2' = bitmap2 /\ pc[w] = "word"
    BY <1>1, <1>3 DEF ReadWord, shared, Goto, TypeOK
  <2>2. word'[w] = WordBits(w)' \cap bitmap2'
    BY <1>1, <2>1 DEF TypeOK, WordBits
  <2>3. region[w] \in Region /\ WordBits(w) \subseteq RegionBits(region[w])
    BY <2>1, WordProperties DEF Scanning
  <2>4. ASSUME w \in Builder PROVE region[w] # 0
    <3>1. Loaded
      BY <2>4, Runs
    <3>2. RegionBits(0) \subseteq bitmap2
      BY <3>1 DEF FirstRegionFull
    <3>3. QED
      BY <2>1, <2>3, <3>2
  <2>5. ~Holding(w)' /\ pc'[w] # "clear" /\ region'[w] = region[w]
    BY <1>3, <2>1 DEF Holding
  <2>6. QED
    BY <2>2, <2>3, <2>4, <2>5 DEF ClaimOK
<1>4. CASE SetBit(w)
  <2>1. pc[w] = "bit" /\ pc'[w] = "write" /\ region' = region /\ table' = table
    BY <1>1, <1>4 DEF SetBit, Goto, TypeOK
  <2>2. region[w] \in Region /\ (w \in Builder => region[w] # 0)
    BY <2>1 DEF ClaimOK, Claiming
  <2>3. ~Release(w) /\ bitmap2' # bitmap2
    <3>1. ~Release(w)
      BY <2>1 DEF Release
    <3>2. PICK j \in WordBits(w) \ word[w] : j \in bitmap2'
      BY <1>4 DEF SetBit
    <3>3. j \notin bitmap2
      BY <2>1, <3>2 DEF ClaimOK
    <3>4. QED
      BY <3>1, <3>2, <3>3
  <2>4. /\ cidx'[w] \in RegionBits(region[w]) /\ cidx'[w] \notin bitmap2
        /\ bitmap2' = bitmap2 \cup {cidx'[w]}
    BY <2>3, BitmapStep
  <2>5. Used' = Used /\ RegionBits(region[w])' = RegionBits(region[w])
    BY <2>1 DEF Used, Published, RegionBits, Bound
  <2>6. pc'[w] # "bit" /\ pc'[w] # "clear" /\ region'[w] = region[w]
    BY <2>1
  <2>7. cidx'[w] \in (RegionBits(region[w])' \cap bitmap2') \ Used'
    BY <2>4, <2>5
  <2>8. QED
    BY <2>2, <2>6, <2>7 DEF ClaimOK
<1>5. CASE ReadRelease(w)
  <2>1. /\ pc[w] = "release" /\ pc'[w] = "clear" /\ region' = region /\ table' = table
        /\ bitmap2' = bitmap2 /\ cidx' = cidx /\ word'[w] = WordOf(cidx[w]) \cap bitmap2
    BY <1>1, <1>5 DEF ReadRelease, shared, Goto, TypeOK
  <2>2. Holding(w)
    BY <1>1, <2>1 DEF ThreadOK, Holding
  <2>3. Used' = Used /\ RegionBits(region[w])' = RegionBits(region[w])
        /\ WordOf(cidx[w])' = WordOf(cidx[w]) /\ region'[w] = region[w]
    BY <2>1 DEF Used, Published, RegionBits, Bound, WordOf
  <2>4. /\ region[w] \in Region /\ (w \in Builder => region[w] # 0)
        /\ cidx[w] \in (RegionBits(region[w]) \cap bitmap2) \ Used
    BY <2>2 DEF ClaimOK, Claiming
  <2>5. cidx'[w] \in (RegionBits(region[w])' \cap bitmap2') \ Used'
    BY <2>1, <2>3, <2>4
  <2>6. word'[w] = WordOf(cidx[w])' \cap bitmap2' /\ pc'[w] # "bit"
    BY <2>1, <2>3
  <2>7. QED
    BY <2>3, <2>4, <2>5, <2>6 DEF ClaimOK
<1>6. CASE /\ Holding(w) /\ Holding(w)' /\ pc'[w] \notin {"bit", "clear"}
           /\ cidx'[w] = cidx[w] /\ region'[w] = region[w]
           /\ UNCHANGED <<bitmap2, table>>
  <2>1. Used' = Used /\ RegionBits(region[w])' = RegionBits(region[w])
    BY <1>6 DEF Used, Published, RegionBits, Bound
  <2>2. /\ region[w] \in Region /\ (w \in Builder => region[w] # 0)
        /\ cidx[w] \in (RegionBits(region[w]) \cap bitmap2) \ Used
    BY <1>6 DEF ClaimOK, Claiming
  <2>3. cidx'[w] \in (RegionBits(region[w])' \cap bitmap2') \ Used'
    BY <1>6, <2>1, <2>2
  <2>4. pc'[w] # "bit" /\ pc'[w] # "clear" /\ region'[w] = region[w]
    BY <1>6
  <2>5. QED
    BY <2>2, <2>3, <2>4 DEF ClaimOK
<1>7. QED
  BY <1>2, <1>3, <1>4, <1>5, <1>6, ClaimStep

LEMMA ClaimInvStep ==
  ASSUME TypeInv, RegionInv, FirstRegionFull, ClaimInv, [Next]_vars
  PROVE  ClaimInv'
<1>1. CASE UNCHANGED vars
  BY <1>1 DEF vars, shared, local, claim, ClaimInv, ClaimOK, Claiming, Holding, Used, Published,
              Ended, WordBits
<1>2. ASSUME NEW w \in Thread, Step(w)
      PROVE  ClaimInv'
  <2>1. ~Ended /\ ClaimOK(w)
    BY <1>2, Runs DEF ClaimInv
  <2>2. /\ \A v \in Thread : ClaimOK(v)
        /\ Used \subseteq bitmap2 \ Forbidden
        /\ \A b, c \in Published : b # c => table[b].index # table[c].index
    BY <2>1 DEF ClaimInv
  <2>3. Ended' \/ \A v \in Thread : ClaimOK(v)'
    <3>1. CASE Ends
      BY <3>1 DEF Ends, Ended
    <3>2. CASE Moves(w)
      BY <1>2, <2>2, <3>2, OthersClaim, OwnClaim
    <3>3. QED
      BY <1>2, <3>1, <3>2, StepMoves DEF TypeInv
  <2>4. Holding(w) => cidx[w] \in bitmap2 \ Used
    BY <2>1 DEF ClaimOK
  <2>5. cidx[w] # 0 => cidx[w] \notin Forbidden
    BY DEF TypeInv, ThreadOK, Forbidden
  <2>6. CASE UNCHANGED table
    <3>1. Used' = Used /\ Published' = Published
      BY <2>6 DEF Used, Published
    <3>2. Used \subseteq bitmap2'
      BY <1>2, <2>1, <2>2, <2>4, BitmapStep
    <3>3. \A b, c \in Published' : b # c => table'[b].index # table'[c].index
      BY <2>2, <2>6, <3>1
    <3>4. QED
      BY <2>2, <2>3, <3>1, <3>2, <3>3 DEF ClaimInv, Forbidden
  <2>7. CASE /\ pc[w] = "publish" /\ Holding(w)
             /\ idx[w] \in Index \ Published
             /\ table'[idx[w]] = [hash |-> NodeHash[Node(w)].hash, index |-> cidx[w]]
             /\ \A b \in Index : b # idx[w] => table'[b] = table[b]
             /\ Published' = Published \cup {idx[w]}
             /\ Used' = Used \cup {cidx[w]}
    <3>1. bitmap2' = bitmap2
      BY <1>2, <2>1, <2>7, BitmapStep DEF SetBit, Release
    <3>2. Used' \subseteq bitmap2' \ Forbidden
      BY <2>2, <2>4, <2>5, <2>7, <3>1 DEF Holding
    <3>3. Published \subseteq Index /\ \A b \in Published : table[b].index \in Used
      BY DEF Published, Used
    <3>4. /\ \A b \in Published : table'[b].index = table[b].index /\ table[b].index # cidx[w]
          /\ table'[idx[w]].index = cidx[w]
      BY <2>4, <2>7, <3>3
    <3>5. \A b, c \in Published' : b # c => table'[b].index # table'[c].index
      BY <2>2, <2>7, <3>4
    <3>6. QED
      BY <2>3, <3>2, <3>5 DEF ClaimInv, Forbidden
  <2>8. QED
    BY <1>2, <2>6, <2>7, TableStep
<1>3. QED
  BY <1>1, <1>2 DEF Next, Step

-----------------------------------------------------------------------------
(* The table: a node is in the first bucket of its probe sequence that is  *)
(* free when it comes, and whoever looks for it passes the others.         *)
NodeAt(b) == data[table[b].index]
Searching ==
  {"probe", "compare", "word", "bit", "region", "owned", "own", "write", "publish"}
Passed(w, B) == \A b \in B : b \in Published /\ NodeAt(b) # Node(w)

Placed(b) ==
  /\ NodeAt(b) \in DOMAIN NodeHash
  /\ table[b].hash = NodeHash[NodeAt(b)].hash
  /\ \E l \in Nat : /\ b \in Buckets(Start(NodeAt(b), l))
                    /\ Seen(NodeAt(b), l, b) \subseteq Published

SearchOK(w) ==
  /\ pc[w] \in Searching => Passed(w, Seen(Node(w), line[w], idx[w]))
  /\ Holding(w) /\ pc[w] \in {"publish", "probe", "compare"} => data[cidx[w]] = Node(w)

TableInv ==
  /\ \A b \in Published : Placed(b)
  /\ \A b, c \in Published : b # c => NodeAt(b) # NodeAt(c)
  /\ \A w \in Thread : SearchOK(w)

(* What is published keeps its index, and the index its node: data is      *)
(* written at an index that is held, hence not published.                  *)
LEMMA NodesStay ==
  ASSUME TypeInv, ClaimInv, NEW w \in Thread, Step(w), NEW b \in Published
  PROVE  /\ b \in Index /\ b \in Published' /\ table'[b] = table[b]
         /\ data'[table[b].index] = data[table[b].index]
         /\ NodeAt(b)' = NodeAt(b)
<1>1. b \in Index /\ table[b] # Empty /\ TypeOK
  BY DEF Published, TypeInv
<1>2. table'[b] = table[b]
  BY <1>1, PublishedStays
<1>3. b \in Published'
  BY <1>1, <1>2 DEF Published
<1>4. table[b].index \in Index /\ table[b].index \in Used
  BY <1>1 DEF TypeOK, Used
<1>5. data'[table[b].index] = data[table[b].index]
  <2>1. CASE UNCHANGED data
    BY <2>1
  <2>2. CASE pc[w] = "write" /\ data' = [data EXCEPT ![cidx[w]] = Node(w)]
    <3>1. Holding(w) /\ ClaimOK(w)
      BY <2>2, Runs DEF TypeInv, ThreadOK, Holding, ClaimInv
    <3>2. cidx[w] # table[b].index
      BY <1>4, <3>1 DEF ClaimOK
    <3>3. QED
      BY <1>1, <1>4, <2>2, <3>2 DEF TypeOK
  <2>3. QED
    BY <2>1, <2>2, SharedStep
<1>6. QED
  BY <1>1, <1>2, <1>3, <1>5 DEF NodeAt

LEMMA SeenKept ==
  ASSUME NEW v, Node(v)' = Node(v), line'[v] = line[v], idx'[v] = idx[v]
  PROVE  Seen(Node(v), line[v], idx[v])' = Seen(Node(v), line[v], idx[v])
BY DEF Seen, Lines, Turn, Start, Buckets, First, Last

LEMMA OthersSearch ==
  ASSUME TypeInv, RegionInv, ClaimInv, NEW w \in Thread, Step(w), Moves(w),
         NEW v \in Thread, v # w, SearchOK(v)
  PROVE  SearchOK(v)'
<1>1. /\ pc'[v] = pc[v] /\ key'[v] = key[v] /\ idx'[v] = idx[v] /\ line'[v] = line[v]
      /\ cidx'[v] = cidx[v] /\ TypeOK
  BY OthersKept DEF Others, Moves, TypeInv, TypeOK
<1>2. Node(v)' = Node(v) /\ (Holding(v)' <=> Holding(v))
  BY <1>1 DEF Node, Holding
<1>3. pc[v] \in Searching => Passed(v, Seen(Node(v), line[v], idx[v]))'
  <2>1. ASSUME pc[v] \in Searching
        PROVE  Passed(v, Seen(Node(v), line[v], idx[v]))'
    <3> DEFINE B == Seen(Node(v), line[v], idx[v])
    <3>1. Passed(v, B)
      BY <2>1 DEF SearchOK
    <3>2. B' = B
      BY <1>1, <1>2, SeenKept
    <3> HIDE DEF B
    <3>3. \A b \in B : b \in Published' /\ NodeAt(b)' # Node(v)'
      BY <1>2, <3>1, NodesStay DEF Passed
    <3>4. Passed(v, B)'
      BY <3>2, <3>3 DEF Passed
    <3>5. QED
      BY <3>4 DEF B
  <2>2. QED
    BY <2>1
<1>4. ASSUME Holding(v), pc[v] \in {"publish", "probe", "compare"}
      PROVE  data'[cidx[v]] = Node(v)
  <2>1. data[cidx[v]] = Node(v)
    BY <1>4 DEF SearchOK
  <2>2. CASE UNCHANGED data
    BY <2>1, <2>2
  <2>3. CASE pc[w] = "write" /\ data' = [data EXCEPT ![cidx[w]] = Node(w)]
    <3>1. Holding(w) /\ ClaimOK(w) /\ ClaimOK(v) /\ ~Ended
      BY <2>3, Runs DEF TypeInv, ThreadOK, Holding, ClaimInv
    <3>2. RegionBits(region[v]) \cap RegionBits(region[w]) = {}
      BY <1>4, <3>1, Apart DEF Claiming
    <3>3. cidx[v] # cidx[w]
      BY <1>4, <3>1, <3>2 DEF ClaimOK
    <3>4. QED
      BY <1>1, <2>1, <2>3, <3>3 DEF TypeOK
  <2>4. QED
    BY <2>2, <2>3, SharedStep
<1>5. QED
  BY <1>1, <1>2, <1>3, <1>4 DEF SearchOK

(* How a search begins, goes on and ends.                                  *)
LEMMA SearchStep ==
  ASSUME TypeInv, NEW w \in Thread, Step(w), Moves(w)
  PROVE  \/ pc'[w] \notin Searching
         \/ /\ pc[w] \in Searching
            /\ key'[w] = key[w] /\ line'[w] = line[w] /\ idx'[w] = idx[w]
         \/ /\ key'[w] = key[w] /\ line'[w] = 0 /\ idx'[w] = Start(Node(w), 0) /\ cidx'[w] = 0
         \/ NextBucket(w)
<1>1. TypeOK /\ ThreadOK(w) /\ Node(w) \in DOMAIN NodeHash
  BY NodeProperties DEF TypeInv
<1>2. Start(Node(w), 0) = NodeHash[Node(w)].first
  BY <1>1, FirstStart
<1> USE DEF TypeOK, Goto, Searching, Looking, probe, claim, local, shared
<1>3. CASE Begin(w)
  BY <1>1, <1>3 DEF Begin
<1>4. CASE ReadStatus(w)
  BY <1>1, <1>2, <1>4 DEF ReadStatus, ThreadOK
<1>5. CASE MatchKey(w)
  BY <1>1, <1>2, <1>5 DEF MatchKey, ThreadOK
<1>6. CASE ReadResult(w)
  BY <1>1, <1>6 DEF ReadResult
<1>7. CASE Recheck(w)
  BY <1>1, <1>2, <1>7 DEF Recheck, ThreadOK
<1>8. CASE Probe(w)
  BY <1>1, <1>8 DEF Probe
<1>9. CASE ReadWord(w)
  BY <1>1, <1>9 DEF ReadWord
<1>10. CASE SetBit(w)
  BY <1>1, <1>10 DEF SetBit
<1>11. CASE NextRegion(w)
  BY <1>1, <1>11 DEF NextRegion
<1>12. CASE ReadOwned(w)
  BY <1>1, <1>12 DEF ReadOwned
<1>13. CASE OwnRegion(w)
  BY <1>1, <1>13 DEF OwnRegion
<1>14. CASE WriteData(w)
  BY <1>1, <1>14 DEF WriteData
<1>15. CASE Publish(w)
  BY <1>1, <1>15 DEF Publish
<1>16. CASE Found(w)
  BY <1>1, <1>16 DEF Found
<1>17. CASE NextBucket(w)
  BY <1>17
<1>18. CASE ReadRelease(w)
  BY <1>1, <1>18 DEF ReadRelease
<1>19. CASE Release(w)
  BY <1>1, <1>19 DEF Release
<1>20. CASE Full(w)
  <2>1. LineStart(w, 0) = Start(Node(w), 0)
    BY <1>1, NodeProperties
  <2>2. CASE attempt[w] = 1
    BY <1>1, <1>20, <2>1, <2>2 DEF Full
  <2>3. CASE attempt[w] # 1
    <3>1. pc'[w] = "exit"
      BY <1>20, <2>3 DEF Full
    <3>2. QED
      BY <3>1
  <2>4. QED
    BY <2>2, <2>3
<1>21. CASE ReadPut(w)
  BY <1>1, <1>21 DEF ReadPut
<1>22. CASE Lock(w)
  BY <1>1, <1>22 DEF Lock
<1>23. CASE PutKey(w)
  BY <1>1, <1>23 DEF PutKey
<1>24. CASE PutResult(w)
  BY <1>1, <1>24 DEF PutResult
<1>25. CASE Unlock(w)
  BY <1>1, <1>25 DEF Unlock
<1>26. QED
  BY <1>3, <1>4, <1>5, <1>6, <1>7, <1>8, <1>9, <1>10, <1>11, <1>12, <1>13, <1>14, <1>15, <1>16, <1>17, <1>18, <1>19, <1>20, <1>21, <1>22, <1>23, <1>24, <1>25 DEF Step

(* The next bucket: the one that is left holds another node.               *)
LEMMA NextPassed ==
  ASSUME TypeInv, ClaimInv, TableInv, NEW w \in Thread, NextBucket(w)
  PROVE  \/ /\ pc'[w] = "probe"
            /\ Passed(w, Seen(Node(w), line'[w], idx'[w]))
         \/ /\ pc'[w] = "full" /\ line[w] + 1 = Threshold
            /\ Passed(w, Lines(Node(w), Threshold))
<1> DEFINE m == Node(w)
           l == line[w]
           b == idx[w]
<1>1. TypeOK /\ ThreadOK(w) /\ pc[w] = "compare" /\ ~Same(w) /\ ops[w] # 0
  BY DEF TypeInv, ThreadOK, NextBucket, Resting
<1>2. /\ m \in DOMAIN NodeHash /\ l \in Nat /\ b \in Index /\ b \in Buckets(Start(m, l))
      /\ LineStart(w, l) = Start(m, l) /\ LineStart(w, l + 1) = Start(m, l + 1)
      /\ l + 1 \in Nat
  BY <1>1, ProbeProperties
<1>3. b \in Published
  BY <1>1, <1>2 DEF ThreadOK, Published
<1>4. NodeAt(b) # m
  <2>1. table[b].hash = NodeHash[NodeAt(b)].hash
    BY <1>3 DEF TableInv, Placed
  <2>2. QED
    BY <1>1, <2>1 DEF Same, NodeAt
<1>5. Passed(w, Seen(m, l, b))
  BY <1>1 DEF TableInv, SearchOK, Searching
<1>6. \A B : B = Seen(m, l, b) \cup {b} => Passed(w, B)
  BY <1>3, <1>4, <1>5 DEF Passed
<1>7. /\ InLine(b) # Start(m, l) => Seen(m, l, InLine(b)) = Seen(m, l, b) \cup {b}
      /\ InLine(b) = Start(m, l) => Lines(m, l + 1) = Seen(m, l, b) \cup {b}
  BY <1>2, SeenNext
<1>8. Seen(m, l + 1, Start(m, l + 1)) = Lines(m, l + 1)
  BY <1>2, SeenLine
<1> HIDE DEF m, l, b
<1>9. CASE InLine(b) # Start(m, l)
  <2>1. pc'[w] = "probe" /\ idx'[w] = InLine(b) /\ line'[w] = l
    BY <1>1, <1>2, <1>9 DEF NextBucket, Goto, TypeOK, l, b
  <2>2. Passed(w, Seen(m, line'[w], idx'[w]))
    BY <1>6, <1>7, <1>9, <2>1
  <2>3. QED
    BY <2>1, <2>2 DEF m
<1>10. CASE InLine(b) = Start(m, l) /\ l + 1 < Threshold
  <2>1. pc'[w] = "probe" /\ idx'[w] = Start(m, l + 1) /\ line'[w] = l + 1
    BY <1>1, <1>2, <1>10 DEF NextBucket, Goto, TypeOK, l, b
  <2>2. Passed(w, Seen(m, line'[w], idx'[w]))
    BY <1>6, <1>7, <1>8, <1>10, <2>1
  <2>3. QED
    BY <2>1, <2>2 DEF m
<1>11. CASE InLine(b) = Start(m, l) /\ ~(l + 1 < Threshold)
  <2>1. pc'[w] = "full" /\ l + 1 = Threshold
    BY <1>1, <1>2, <1>11 DEF NextBucket, Goto, TypeOK, l, b
  <2>2. Passed(w, Lines(m, Threshold))
    BY <1>6, <1>7, <1>11, <2>1
  <2>3. QED
    BY <2>1, <2>2 DEF m, l
<1>12. QED
  BY <1>9, <1>10, <1>11

LEMMA OwnSearch ==
  ASSUME TypeInv, ClaimInv, TableInv, NEW w \in Thread, Step(w), Moves(w)
  PROVE  SearchOK(w)'
<1>1. TypeOK /\ ThreadOK(w) /\ Node(w) \in DOMAIN NodeHash /\ SearchOK(w)
  BY NodeProperties DEF TypeInv, TableInv
<1>2. ASSUME pc'[w] \in Searching
      PROVE  Passed(w, Seen(Node(w), line[w], idx[w]))'
  <2> DEFINE B == Seen(Node(w)', line'[w], idx'[w])
  <2>1. Seen(Node(w), line[w], idx[w])' = B
    BY DEF Seen, Lines, Turn, Start, Buckets, First, Last
  <2>2. Node(w)' = Node(w) /\ Passed(w, B)
    <3>1. CASE /\ pc[w] \in Searching
               /\ key'[w] = key[w] /\ line'[w] = line[w] /\ idx'[w] = idx[w]
      BY <1>1, <3>1 DEF SearchOK, Node
    <3>2. CASE key'[w] = key[w] /\ line'[w] = 0 /\ idx'[w] = Start(Node(w), 0)
      <4>1. Node(w)' = Node(w)
        BY <3>2 DEF Node
      <4>2. B = {}
        BY <1>1, <3>2, <4>1, SeenFirst
      <4>3. QED
        BY <4>1, <4>2 DEF Passed
    <3>3. CASE NextBucket(w)
      <4>1. Node(w)' = Node(w)
        BY <3>3 DEF NextBucket, Node
      <4>2. pc'[w] # "full"
        BY <1>2 DEF Searching
      <4>3. QED
        BY <3>3, <4>1, <4>2, NextPassed
    <3>4. QED
      BY <1>2, <3>1, <3>2, <3>3, SearchStep
  <2> HIDE DEF B
  <2>3. \A b \in B : b \in Published' /\ NodeAt(b)' # Node(w)'
    BY <2>2, NodesStay DEF Passed
  <2>4. QED
    BY <2>1, <2>3 DEF Passed
<1>3. ASSUME Holding(w)', pc'[w] \in {"publish", "probe", "compare"}
      PROVE  data'[cidx'[w]] = Node(w)'
  <2>1. cidx'[w] # 0
    BY <1>3 DEF Holding
  <2>2. CASE /\ Holding(w) /\ pc[w] \notin {"release", "clear"}
             /\ cidx'[w] = cidx[w] /\ key'[w] = key[w]
    <3>1. Node(w)' = Node(w) /\ cidx[w] \in Index
      BY <1>1, <2>2 DEF Node, TypeOK
    <3>2. CASE pc[w] = "write"
      <4>1. WriteData(w)
        BY <3>2 DEF Step, Begin, ReadStatus, MatchKey, ReadResult, Recheck, Probe, ReadWord,
          SetBit, NextRegion, ReadOwned, OwnRegion, WriteData, Publish, Found, NextBucket,
          ReadRelease, Release, Full, ReadPut, Lock, PutKey, PutResult, Unlock
      <4>2. QED
        BY <1>1, <2>2, <3>1, <4>1 DEF WriteData, TypeOK
    <3>3. CASE pc[w] \in {"publish", "probe", "compare"}
      <4>1. UNCHANGED data
        BY <3>3, SharedStep
      <4>2. QED
        BY <1>1, <2>2, <3>1, <3>3, <4>1 DEF SearchOK
    <3>4. QED
      BY <2>2, <3>2, <3>3 DEF Holding
  <2>3. CASE SetBit(w) \/ ReadRelease(w)
    <3>1. pc'[w] \in {"write", "clear"}
      BY <1>1, <2>3 DEF SetBit, ReadRelease, Goto, TypeOK
    <3>2. QED
      BY <1>3, <3>1
  <2>4. QED
    BY <1>3, <2>1, <2>2, <2>3, ClaimStep DEF Claiming
<1>4. QED
  BY <1>2, <1>3 DEF SearchOK

(* A node that is published has no twin: its searcher has passed, or will  *)
(* meet, any other bucket that holds it.                                   *)
LEMMA NoTwin ==
  ASSUME TypeInv, TableInv, NEW w \in Thread, pc[w] = "publish",
         table[idx[w]] = Empty, NEW b \in Published
  PROVE  NodeAt(b) # Node(w)
<1> DEFINE m == Node(w)
<1>1. /\ ops[w] # 0 /\ m \in DOMAIN NodeHash /\ line[w] \in Nat
      /\ idx[w] \in Buckets(Start(m, line[w]))
  BY ProbeProperties DEF TypeInv, ThreadOK, Resting
<1>2. Passed(w, Seen(m, line[w], idx[w]))
  BY DEF TableInv, SearchOK, Searching
<1>3. ASSUME NodeAt(b) = m PROVE FALSE
  <2>1. PICK k \in Nat : b \in Buckets(Start(m, k)) /\ Seen(m, k, b) \subseteq Published
    BY <1>3 DEF TableInv, Placed
  <2>2. idx[w] \notin Published
    BY DEF Published
  <2>3. b # idx[w] /\ idx[w] \notin Seen(m, k, b)
    BY <2>1, <2>2
  <2>4. b \in Seen(m, line[w], idx[w])
    BY <1>1, <2>1, <2>3, SeenIsOrder
  <2>5. QED
    BY <1>2, <1>3, <2>4 DEF Passed
<1>4. QED
  BY <1>3

LEMMA TableInvStep ==
  ASSUME TypeInv, RegionInv, ClaimInv, TableInv, [Next]_vars
  PROVE  TableInv'
<1>1. CASE UNCHANGED vars
  BY <1>1 DEF vars, shared, local, probe, TableInv, Placed, SearchOK, Passed, NodeAt, Node,
              Holding, Published
<1>2. ASSUME NEW w \in Thread, Step(w)
      PROVE  TableInv'
  <2>1. TypeOK /\ ThreadOK(w) /\ ~Ended /\ Node(w) \in DOMAIN NodeHash
    BY <1>2, NodeProperties, Runs DEF TypeInv
  <2>2. \A b \in Published : /\ b \in Index /\ b \in Published' /\ table'[b] = table[b]
                             /\ NodeAt(b)' = NodeAt(b)
    BY <1>2, NodesStay
  <2>3. \A v \in Thread : SearchOK(v)'
    <3>1. CASE Ends
      <4>1. \A v \in Thread : pc'[v] = "exit"
        BY <3>1 DEF Ends
      <4>2. QED
        BY <4>1 DEF SearchOK, Searching
    <3>2. CASE Moves(w)
      BY <1>2, <3>2, OthersSearch, OwnSearch DEF TableInv
    <3>3. QED
      BY <1>2, <2>1, <3>1, <3>2, StepMoves
  <2>4. \A b \in Published : Placed(b)'
    <3>1. ASSUME NEW b \in Published PROVE Placed(b)'
      <4>1. PICK l \in Nat : b \in Buckets(Start(NodeAt(b), l))
                             /\ Seen(NodeAt(b), l, b) \subseteq Published
        BY DEF TableInv, Placed
      <4>2. NodeAt(b)' = NodeAt(b) /\ table'[b] = table[b]
        BY <2>2
      <4>3. Start(NodeAt(b), l)' = Start(NodeAt(b), l)
        BY <4>2 DEF Start
      <4>4. b \in Buckets(Start(NodeAt(b), l))' /\ Seen(NodeAt(b), l, b)' = Seen(NodeAt(b), l, b)
        BY <4>1, <4>2, <4>3 DEF Buckets, First, Last, Seen, Lines, Turn, Start
      <4>5. Published \subseteq Published'
        BY <2>2
      <4>6. NodeAt(b) \in DOMAIN NodeHash /\ table[b].hash = NodeHash[NodeAt(b)].hash
        BY DEF TableInv, Placed
      <4>7. QED
        BY <4>1, <4>2, <4>4, <4>5, <4>6 DEF Placed
    <3>2. QED
      BY <3>1
  <2>5. CASE UNCHANGED table
    <3>1. Published' = Published
      BY <2>5 DEF Published
    <3>2. \A b, c \in Published' : b # c => NodeAt(b)' # NodeAt(c)'
      BY <2>2, <3>1 DEF TableInv
    <3>3. QED
      BY <2>3, <2>4, <3>1, <3>2 DEF TableInv
  <2>6. CASE /\ pc[w] = "publish" /\ Holding(w) /\ Publish(w)
             /\ idx[w] \in Index \ Published /\ cidx[w] \in Index
             /\ table'[idx[w]] = [hash |-> NodeHash[Node(w)].hash, index |-> cidx[w]]
             /\ Published' = Published \cup {idx[w]}
    <3> DEFINE m == Node(w)
               c == idx[w]
    <3>1. data' = data
      BY <2>6 DEF Publish
    <3>2. data[cidx[w]] = m
      BY <2>6 DEF TableInv, SearchOK
    <3>3. NodeAt(c)' = m
      <4>1. NodeAt(c)' = data'[table'[idx[w]].index]
        <5>1. idx' = idx
          BY <2>6 DEF Publish, probe
        <5>2. QED
          BY <5>1 DEF NodeAt
      <4>2. QED
        BY <2>6, <3>1, <3>2, <4>1
    <3>4. QED
      <4>1. idx' = idx /\ line[w] \in Nat /\ c \in Buckets(Start(m, line[w]))
        BY <2>1, <2>6, ProbeProperties DEF Publish, probe, ThreadOK, Resting
      <4>2. Passed(w, Seen(m, line[w], c))
        BY <2>6 DEF TableInv, SearchOK, Searching
      <4>3. Seen(m, line[w], c) \subseteq Published'
        BY <2>2, <4>2 DEF Passed
      <4>4. \A b \in Published : NodeAt(b) # m
        BY <2>6, NoTwin DEF Published
      <4>5. \A b, d \in Published' : b # d => NodeAt(b)' # NodeAt(d)'
        <5>1. ASSUME NEW b \in Published', NEW d \in Published', b # d
              PROVE  NodeAt(b)' # NodeAt(d)'
          <6>1. \A e \in Published : NodeAt(e)' = NodeAt(e) /\ NodeAt(e)' # m
            BY <2>2, <4>4
          <6>2. b \in Published \/ b = c
            BY <2>6
          <6>3. d \in Published \/ d = c
            BY <2>6
          <6>4. \A e : e = c => NodeAt(e)' = m
            BY <3>3, <4>1 DEF NodeAt
          <6>5. QED
            BY <5>1, <6>1, <6>2, <6>3, <6>4 DEF TableInv
        <5>2. QED
          BY <5>1
      <4>6. \A b \in Published' : Placed(b)'
        <5>1. ASSUME NEW b \in Published', b = c PROVE Placed(b)'
          <6>1. NodeAt(b)' = m /\ table'[b] = [hash |-> NodeHash[m].hash, index |-> cidx[w]]
            BY <2>6, <3>3, <4>1, <5>1 DEF NodeAt
          <6>2. Start(NodeAt(b), line[w])' = Start(m, line'[w])
            BY <6>1 DEF Start
          <6>3. line' = line
            BY <2>6 DEF Publish, probe
          <6>4. b \in Buckets(Start(NodeAt(b)', line[w]))
                /\ Seen(NodeAt(b)', line[w], b) \subseteq Published'
            BY <4>1, <4>3, <5>1, <6>1
          <6>5. QED
            BY <2>1, <4>1, <6>1, <6>4 DEF Placed, Buckets, First, Last, Seen, Lines, Turn, Start
        <5>2. QED
          BY <2>4, <2>6, <5>1
      <4>7. QED
        BY <2>3, <4>5, <4>6 DEF TableInv
  <2>7. QED
    BY <1>2, <2>5, <2>6, TableStep
<1>3. QED
  BY <1>1, <1>2 DEF Next, Step

-----------------------------------------------------------------------------
(* The indices that are claimed: one is lost only when a thread has passed *)
(* the whole probe sequence of its node with the index in hand; the second *)
(* attempt of lddmc_makenode then passes it again and ends the program.    *)
Doomed(w) ==
  /\ pc[w] \in {"full", "probe", "compare"}
  /\ attempt[w] = 2 \/ pc[w] = "full"
  /\ Passed(w, Lines(Node(w), Threshold))

LeakInv ==
  \/ Ended /\ \E w \in Thread : attempt[w] = 2
  \/ \E w \in Thread : Doomed(w)
  \/ \A i \in bitmap2 \ Forbidden : i \in Used \/ \E w \in Thread : Holding(w) /\ cidx[w] = i

LEMMA LinesPassed ==
  ASSUME TypeInv, ClaimInv, NEW w \in Thread, Step(w), NEW v \in Thread, key'[v] = key[v],
         Passed(v, Lines(Node(v), Threshold))
  PROVE  Passed(v, Lines(Node(v), Threshold))'
<1> DEFINE B == Lines(Node(v), Threshold)
<1>1. Node(v)' = Node(v)
  BY DEF Node
<1>2. B' = B
  BY <1>1 DEF Lines, Buckets, Start, First, Last
<1> HIDE DEF B
<1>3. \A b \in B : b \in Published' /\ NodeAt(b)' # Node(v)'
  BY <1>1, NodesStay DEF Passed, B
<1>4. Passed(v, B)'
  BY <1>2, <1>3 DEF Passed
<1>5. QED
  BY <1>4 DEF B

LEMMA DoomedStays ==
  ASSUME TypeInv, ClaimInv, TableInv, NEW w \in Thread, Step(w), NEW v \in Thread, Doomed(v)
  PROVE  (Ended /\ \E u \in Thread : attempt[u] = 2)' \/ Doomed(v)'
<1>1. TypeOK /\ ThreadOK(v) /\ pc[v] \in {"full", "probe", "compare"}
      /\ Passed(v, Lines(Node(v), Threshold)) /\ (attempt[v] = 2 \/ pc[v] = "full")
  BY DEF TypeInv, Doomed
<1>2. CASE Full(w) /\ attempt[w] = 2 /\ Ends
  <2>1. attempt'[w] = 2 /\ Ended'
    BY <1>1, <1>2 DEF Full, Ends, Ended, probe
  <2>2. QED
    BY <2>1
<1>3. CASE Moves(w) /\ v # w
  <2>1. pc'[v] = pc[v] /\ attempt'[v] = attempt[v] /\ key'[v] = key[v]
    BY <1>1, <1>3, OthersKept DEF Others, Moves, TypeOK
  <2>2. Passed(v, Lines(Node(v), Threshold))'
    BY <1>1, <2>1, LinesPassed
  <2>3. QED
    BY <1>1, <2>1, <2>2 DEF Doomed
<1>4. CASE Moves(w) /\ v = w
  <2>1. Full(w) \/ Probe(w) \/ Found(w) \/ NextBucket(w)
    BY <1>1, <1>4 DEF Step, Begin, ReadStatus, MatchKey, ReadResult, Recheck, Probe, ReadWord,
      SetBit, NextRegion, ReadOwned, OwnRegion, WriteData, Publish, Found, NextBucket,
      ReadRelease, Release, Full, ReadPut, Lock, PutKey, PutResult, Unlock
  <2>2. key' = key
    BY <2>1 DEF Full, Probe, Found, NextBucket
  <2>3. Passed(w, Lines(Node(w), Threshold))'
    BY <1>1, <1>4, <2>2, LinesPassed
  <2>4. pc[w] \in {"probe", "compare"} =>
          idx[w] \in Index /\ idx[w] \in Published /\ NodeAt(idx[w]) # Node(w) /\ attempt[w] = 2
    <3>1. ASSUME pc[w] \in {"probe", "compare"}
          PROVE  idx[w] \in Lines(Node(w), Threshold)
      <4>1. ops[w] # 0
        BY <1>1, <1>4, <3>1 DEF ThreadOK, Resting
      <4>2. line[w] \in 0 .. Threshold - 1 /\ idx[w] \in Buckets(Start(Node(w), line[w]))
        BY <4>1, ProbeProperties
      <4>3. QED
        BY <4>2 DEF Lines
    <3>2. QED
      BY <1>1, <1>4, <3>1 DEF Passed, Published
  <2>5. CASE Full(w)
    <3>1. attempt[w] = 1
      BY <1>1, <1>4, <2>5 DEF Full, Moves, TypeOK
    <3>2. pc'[w] = "probe" /\ attempt'[w] = 2
      BY <1>1, <2>5, <3>1 DEF Full, Goto, TypeOK
    <3>3. QED
      BY <1>4, <2>3, <3>2 DEF Doomed
  <2>6. CASE Probe(w)
    <3>1. pc[w] = "probe" /\ table[idx[w]] # Empty
      BY <2>4, <2>6 DEF Probe, Published
    <3>2. pc'[w] = "compare" /\ attempt'[w] = attempt[w]
      BY <1>1, <2>6, <3>1 DEF Probe, Goto, TypeOK, probe
    <3>3. QED
      BY <1>4, <2>3, <2>4, <3>1, <3>2 DEF Doomed
  <2>7. CASE Found(w)
    BY <2>4, <2>7 DEF Found, Same, NodeAt
  <2>8. CASE NextBucket(w)
    <3>1. pc'[w] \in {"probe", "full"} /\ attempt'[w] = attempt[w] /\ pc[w] = "compare"
      BY <1>1, <2>8 DEF NextBucket, Goto, TypeOK
    <3>2. QED
      BY <1>4, <2>3, <2>4, <3>1 DEF Doomed
  <2>9. QED
    BY <2>1, <2>5, <2>6, <2>7, <2>8
<1>5. QED
  BY <1>1, <1>2, <1>3, <1>4, StepMoves

(* An index that is held stays held, is published or given back, or is     *)
(* lost.                                                                   *)
LEMMA HoldingStep ==
  ASSUME TypeInv, ClaimInv, TableInv, NEW w \in Thread, Step(w), Moves(w), Holding(w)
  PROVE  \/ Holding(w)' /\ cidx'[w] = cidx[w]
         \/ cidx[w] \in Used'
         \/ cidx[w] \notin bitmap2'
         \/ Doomed(w)'
<1>1. TypeOK /\ ClaimOK(w)
  BY Runs DEF TypeInv, ClaimInv
<1>2. Probe(w) \/ WriteData(w) \/ Publish(w) \/ Found(w) \/ NextBucket(w) \/ ReadRelease(w) \/ Release(w)
  BY DEF Step, Begin, ReadStatus, MatchKey, ReadResult, Recheck, Probe, ReadWord,
      SetBit, NextRegion, ReadOwned, OwnRegion, WriteData, Publish, Found, NextBucket,
      ReadRelease, Release, Full, ReadPut, Lock, PutKey, PutResult, Unlock, Holding
<1> USE DEF Holding, Goto, TypeOK, local, claim
<1>3. CASE Probe(w)
  BY <1>1, <1>3 DEF Probe
<1>4. CASE WriteData(w)
  BY <1>1, <1>4 DEF WriteData
<1>5. CASE Publish(w)
  <2>1. CASE table[idx[w]] # Empty
    BY <1>1, <1>5, <2>1 DEF Publish
  <2>2. CASE table[idx[w]] = Empty
    <3>1. table' # table
      <4>1. idx[w] \in Index /\ table'[idx[w]].index = cidx[w] /\ table[idx[w]].index = 0
        BY <1>1, <1>5, <2>2 DEF Publish, Empty
      <4>2. QED
        BY <4>1
    <3>2. QED
      BY <3>1, TableStep
  <2>3. QED
    BY <2>1, <2>2
<1>6. CASE Found(w)
  BY <1>1, <1>6 DEF Found
<1>7. CASE NextBucket(w)
  <2>1. CASE pc'[w] = "probe"
    BY <1>1, <1>7, <2>1 DEF NextBucket
  <2>2. CASE pc'[w] = "full" /\ Passed(w, Lines(Node(w), Threshold))
    <3>1. key' = key
      BY <1>7 DEF NextBucket
    <3>2. Passed(w, Lines(Node(w), Threshold))'
      BY <2>2, <3>1, LinesPassed
    <3>3. QED
      BY <2>2, <3>2 DEF Doomed
  <2>3. QED
    BY <1>7, <2>1, <2>2, NextPassed
<1>8. CASE ReadRelease(w)
  BY <1>1, <1>8 DEF ReadRelease
<1>9. CASE Release(w)
  <2>1. pc[w] = "clear" /\ bitmap2' = (bitmap2 \ WordOf(cidx[w])) \cup (word[w] \ {cidx[w]})
    BY <1>9 DEF Release
  <2>2. region[w] \in Region /\ cidx[w] \in RegionBits(region[w])
    BY <1>1, <2>1 DEF ClaimOK, Claiming
  <2>3. cidx[w] \in WordOf(cidx[w])
    BY <2>2, WordOfIndex
  <2>4. QED
    BY <2>1, <2>3
<1>10. QED
  BY <1>2, <1>3, <1>4, <1>5, <1>6, <1>7, <1>8, <1>9

LEMMA LeakInvStep ==
  ASSUME TypeInv, ClaimInv, TableInv, LeakInv, [Next]_vars
  PROVE  LeakInv'
<1>1. CASE UNCHANGED vars
  BY <1>1 DEF vars, shared, local, probe, LeakInv, Doomed, Passed, NodeAt, Node, Lines, Buckets,
              Start, First, Last, Holding, Used, Published, Ended
<1>2. ASSUME NEW w \in Thread, Step(w)
      PROVE  LeakInv'
  <2>1. TypeOK /\ ~Ended /\ ClaimOK(w)
    BY <1>2, Runs DEF TypeInv, ClaimInv
  <2>2. CASE \E v \in Thread : Doomed(v)
    BY <1>2, <2>2, DoomedStays DEF LeakInv
  <2>3. CASE Full(w) /\ attempt[w] = 2 /\ Ends
    <3>1. attempt'[w] = 2 /\ Ended'
      BY <2>1, <2>3 DEF Full, Ends, Ended, probe
    <3>2. QED
      BY <3>1 DEF LeakInv
  <2>4. CASE /\ Moves(w)
             /\ \A i \in bitmap2 \ Forbidden :
                  i \in Used \/ \E v \in Thread : Holding(v) /\ cidx[v] = i
    <3>1. Used \subseteq Used'
      BY <1>2, TableStep DEF Used, Published
    <3>2. ASSUME NEW i \in bitmap2' \ Forbidden, i \notin Used', ~Doomed(w)'
          PROVE  \E v \in Thread : Holding(v)' /\ cidx'[v] = i
      <4>1. CASE i \notin bitmap2
        <5>1. SetBit(w) /\ i = cidx'[w]
          BY <1>2, <2>1, <3>2, <4>1, BitmapStep
        <5>2. pc'[w] = "write" /\ cidx'[w] # 0
          BY <2>1, <3>2, <5>1 DEF SetBit, Goto, TypeOK, Forbidden
        <5>3. QED
          BY <5>1, <5>2 DEF Holding
      <4>2. CASE i \in bitmap2
        <5>1. PICK v \in Thread : Holding(v) /\ cidx[v] = i
          BY <2>4, <3>1, <3>2, <4>2
        <5>2. CASE v = w
          BY <1>2, <2>4, <3>2, <5>1, <5>2, HoldingStep
        <5>3. CASE v # w
          <6>1. pc'[v] = pc[v] /\ cidx'[v] = cidx[v]
            BY <1>2, <2>1, <2>4, <5>3, OthersKept DEF Others, Moves, TypeOK
          <6>2. QED
            BY <5>1, <6>1 DEF Holding
        <5>4. QED
          BY <5>2, <5>3
      <4>3. QED
        BY <4>1, <4>2
    <3>3. QED
      BY <3>2 DEF LeakInv
  <2>5. QED
    BY <1>2, <2>1, <2>2, <2>3, <2>4, StepMoves DEF LeakInv
<1>3. QED
  BY <1>1, <1>2 DEF Next, Step

-----------------------------------------------------------------------------
(* The theorems about the table.                                           *)
StartInv == Started => Loaded \/ Ended

Inv == TypeInv /\ RegionInv /\ ClaimInv /\ TableInv /\ LeakInv /\ StartInv /\ FirstRegionFull

LEMMA StartInvStep ==
  ASSUME TypeInv, StartInv, [Next]_vars
  PROVE  StartInv'
<1>1. CASE UNCHANGED vars
  BY <1>1 DEF vars, shared, local, StartInv, Started, Loaded, Ended
<1>2. ASSUME NEW w \in Thread, Step(w)
      PROVE  StartInv'
  <2>1. CASE Ends
    BY <2>1 DEF Ends, Ended, StartInv
  <2>2. CASE Moves(w) /\ w \in Builder
    BY <1>2, <2>2, Runs DEF StartInv
  <2>3. CASE Moves(w) /\ w = Main
    <3>1. ~Started
      BY <1>2, <2>3, Runs DEF StartInv
    <3>2. \A v \in Builder : ops'[v] = ops[v]
      BY <1>2, <2>3, OthersKept, IndexZero DEF Others, TypeInv, Thread
    <3>3. QED
      BY <3>1, <3>2 DEF StartInv, Started
  <2>4. QED
    BY <1>2, <2>1, <2>2, <2>3, StepMoves DEF TypeInv, Thread
<1>3. QED
  BY <1>1, <1>2 DEF Next, Step

(* Nobody gives an index of region 0 back once the builders run.           *)
LEMMA FirstRegionStays ==
  ASSUME TypeInv, ClaimInv, StartInv, FirstRegionFull, LoadFillsRegion', [Next]_vars
  PROVE  FirstRegionFull'
<1>1. CASE UNCHANGED vars
  BY <1>1 DEF vars, shared, local, FirstRegionFull, Loaded, RegionBits, Bound
<1>2. ASSUME NEW w \in Thread, Step(w), Loaded'
      PROVE  RegionBits(0)' \subseteq bitmap2'
  <2>1. RegionBits(0)' = RegionBits(0)
    BY DEF RegionBits, Bound
  <2>2. CASE w = Main
    <3>1. \A v \in Builder : ops[v] = 0
      BY <1>2, <2>2, Runs DEF StartInv, Started
    <3>2. \A v \in Builder : ops'[v] = ops[v]
      BY <1>2, <2>2, OthersKept, IndexZero DEF Others, TypeInv, Thread
    <3>3. ~Started'
      BY <3>1, <3>2 DEF Started
    <3>4. QED
      BY <1>2, <3>3 DEF LoadFillsRegion
  <2>3. CASE w \in Builder
    <3>1. Loaded /\ ~Ended /\ ClaimOK(w)
      BY <1>2, <2>3, Runs DEF ClaimInv
    <3>2. RegionBits(0) \subseteq bitmap2
      BY <3>1 DEF FirstRegionFull
    <3>3. Holding(w) => cidx[w] \notin RegionBits(0)
      <4>1. ASSUME Holding(w) PROVE cidx[w] \notin RegionBits(0)
        <5>1. /\ region[w] \in Region /\ region[w] # 0
              /\ cidx[w] \in RegionBits(region[w])
          BY <2>3, <3>1, <4>1 DEF ClaimOK, Claiming
        <5>2. QED
          BY <5>1, IndexZero, RegionsAreDisjoint
      <4>2. QED
        BY <4>1
    <3>4. QED
      BY <1>2, <2>1, <3>1, <3>2, <3>3, BitmapStep
  <2>4. QED
    BY <2>2, <2>3 DEF Thread
<1>3. QED
  BY <1>1, <1>2 DEF Next, Step, FirstRegionFull

LEMMA InvInit ==
  ASSUME Init, LoadFillsRegion
  PROVE  Inv
<1>1. TypeInv /\ RegionInv
  BY TypeInvInit, RegionInvInit
<1>2. Published = {} /\ Used = {}
  <2>1. \A b \in Index : table[b] = Empty
    BY DEF Init
  <2>2. Published = {}
    BY <2>1 DEF Published
  <2>3. QED
    BY <2>2 DEF Used
<1>3. /\ \A w \in Thread : pc[w] = "idle" /\ ops[w] = 0
      /\ bitmap2 = Forbidden
  BY DEF Init, Forbidden
<1>4. ClaimInv
  BY <1>2, <1>3 DEF ClaimInv, ClaimOK, Claiming, Holding
<1>5. TableInv
  BY <1>2, <1>3 DEF TableInv, SearchOK, Searching
<1>6. LeakInv
  BY <1>3 DEF LeakInv
<1>7. ~Started
  BY <1>3 DEF Started, Thread
<1>8. StartInv /\ FirstRegionFull
  BY <1>7 DEF StartInv, FirstRegionFull, LoadFillsRegion
<1>9. QED
  BY <1>1, <1>4, <1>5, <1>6, <1>8 DEF Inv

LEMMA InvStep ==
  ASSUME Inv, LoadFillsRegion', [Next]_vars
  PROVE  Inv'
<1>1. TypeInv' /\ RegionInv' /\ ClaimInv' /\ TableInv' /\ LeakInv'
  BY TypeInvStep, RegionInvStep, ClaimInvStep, TableInvStep, LeakInvStep DEF Inv
<1>2. StartInv' /\ FirstRegionFull'
  BY StartInvStep, FirstRegionStays DEF Inv
<1>3. QED
  BY <1>1, <1>2 DEF Inv

LEMMA InvHolds == Spec /\ []LoadFillsRegion => []Inv
<1>1. Init /\ LoadFillsRegion => Inv
  BY InvInit
<1>2. Inv /\ LoadFillsRegion' /\ [Next]_vars => Inv'
  BY InvStep
<1>3. QED
  BY <1>1, <1>2, PTL DEF Spec

(* OneNumberPerNode: equal diagrams have equal numbers, however threads    *)
(* race to insert them (llmsset_lookup2).                                  *)
THEOREM NumbersAreUnique == Spec /\ []LoadFillsRegion => []OneNumberPerNode
<1>1. Inv => OneNumberPerNode
  BY DEF Inv, ClaimInv, TableInv, NodeAt, OneNumberPerNode
<1>2. QED
  BY <1>1, InvHolds, PTL

(* NumbersAreFinal: WriteData never writes under a number that is given.   *)
THEOREM NumbersStay == Spec /\ []LoadFillsRegion => NumbersAreFinal
<1>1. Inv /\ [Next]_vars =>
        [\A b \in Published :
           table'[b] = table[b] /\ data'[table[b].index] = data[table[b].index]]_vars
  <2>1. ASSUME Inv, NEW w \in Thread, Step(w)
        PROVE  \A b \in Published :
                 table'[b] = table[b] /\ data'[table[b].index] = data[table[b].index]
    BY <2>1, NodesStay DEF Inv
  <2>2. QED
    BY <2>1 DEF Next, Step
<1>2. QED
  BY <1>1, InvHolds, PTL DEF Spec, NumbersAreFinal

(* ClaimedIsUsed: an index that is claimed is published or held once.      *)
THEOREM NoIndexLost == Spec /\ []LoadFillsRegion => []ClaimedIsUsed
<1>1. ASSUME Inv PROVE ClaimedIsUsed
  <2>1. ASSUME \A w \in Thread : attempt[w] = 1 /\ pc[w] # "full",
               NEW i \in bitmap2 \ Forbidden, i \notin Used
        PROVE  Cardinality(Holders(i)) = 1
    <3>1. ~(\E w \in Thread : attempt[w] = 2 \/ Doomed(w))
      BY <2>1 DEF Doomed
    <3>2. PICK w \in Thread : Holding(w) /\ cidx[w] = i
      BY <1>1, <2>1, <3>1 DEF Inv, LeakInv
    <3>3. ~Ended
      BY <3>2 DEF Ended, Holding
    <3>4. ASSUME NEW v \in Thread, Holding(v), cidx[v] = i PROVE v = w
      <4>1. ClaimOK(v) /\ ClaimOK(w)
        BY <1>1, <3>3 DEF Inv, ClaimInv
      <4>2. i \in RegionBits(region[v]) \cap RegionBits(region[w])
        BY <3>2, <3>4, <4>1 DEF ClaimOK
      <4>3. QED
        BY <1>1, <3>2, <3>3, <3>4, <4>1, <4>2, Apart DEF Inv, Claiming
    <3>5. Holders(i) = {w}
      BY <2>1, <3>2, <3>4 DEF Holders, Holding, Forbidden
    <3>6. QED
      BY <3>5, FS_Singleton
  <2>2. QED
    BY <2>1 DEF ClaimedIsUsed, Forbidden, Used
<1>2. QED
  BY <1>1, InvHolds, PTL

-----------------------------------------------------------------------------
(* The cache: the bucket is written under a lock, and whoever locks it     *)
(* counts, so a reader that finds the status as it was has read a pair     *)
(* that was written together.                                              *)

(* What the counter of 16 bits cannot exclude: that a reader is overtaken  *)
(* by as many writers of its bucket as the counter has values.             *)
CountersFit == \A b \in Slots : status[b].counter + 1 < Modulus

Right(k, r) == \E b \in Published : table[b].index = r /\ data[r] = Result[k]

Answering == {"idle", "release", "clear", "put", "lock", "key", "value", "unlock"}
Reading == {"match", "result", "recheck"}
Writing == {"key", "value", "unlock"}

AnswerOK(w) ==
  /\ pc[w] \in Answering /\ ops[w] # 0 => Right(key[w], answer[w])
  /\ pc[w] \in Reading \cup {"lock"} => ~s[w].locked
  /\ pc[w] \in Reading =>
       status[Slot(w)] = s[w] \/ s[w].counter < status[Slot(w)].counter
  /\ status[Slot(w)] = s[w] =>
       /\ pc[w] = "result" => entry[Slot(w)].key = key[w]
       /\ pc[w] = "recheck" => entry[Slot(w)].key = key[w] /\ entry[Slot(w)].res = answer[w]
  /\ pc[w] \in Writing => status[Slot(w)].locked
  /\ pc[w] = "value" => entry[Slot(w)].key = key[w]

(* The pair in a bucket is right, or half of it has been written.          *)
PairOK(b) ==
  \/ entry[b].key = NoKey
  \/ Right(entry[b].key, entry[b].res)
  \/ \E w \in Thread : pc[w] = "value" /\ Slot(w) = b

CacheInv ==
  Ended \/
    /\ \A w \in Thread : AnswerOK(w)
    /\ \A v, w \in Thread :
         v # w /\ pc[v] \in Writing /\ pc[w] \in Writing => Slot(v) # Slot(w)
    /\ \A b \in Slots : PairOK(b)

LEMMA RightStays ==
  ASSUME TypeInv, ClaimInv, NEW w \in Thread, Step(w), NEW k, NEW r, Right(k, r)
  PROVE  \E b \in Published' : table'[b].index = r /\ data'[r] = Result[k]
<1>1. PICK b \in Published : table[b].index = r /\ data[r] = Result[k]
  BY DEF Right
<1>2. b \in Published' /\ table'[b].index = r /\ data'[r] = Result[k]
  BY <1>1, NodesStay
<1>3. QED
  BY <1>2

LEMMA StatusStep ==
  ASSUME TypeInv, NEW w \in Thread, Step(w)
  PROVE  \/ UNCHANGED status
         \/ /\ pc[w] = "lock" /\ pc'[w] = "key" /\ key' = key
            /\ status[Slot(w)] = s[w]
            /\ status'[Slot(w)].locked
            /\ status'[Slot(w)].counter = (s[w].counter + 1) % Modulus
            /\ \A b \in Slots : b # Slot(w) => status'[b] = status[b]
         \/ /\ pc[w] = "unlock" /\ pc'[w] = "idle" /\ key' = key
            /\ status'[Slot(w)].counter = status[Slot(w)].counter
            /\ \A b \in Slots : b # Slot(w) => status'[b] = status[b]
<1>1. TypeOK /\ Slot(w) \in Slots
  BY NodeProperties DEF TypeInv
<1>2. CASE Lock(w)
  BY <1>1, <1>2 DEF Lock, Goto, TypeOK, local
<1>3. CASE Unlock(w)
  <2>1. /\ pc[w] = "unlock" /\ pc'[w] = "idle" /\ key' = key
        /\ status' = [status EXCEPT ![Slot(w)] = [@ EXCEPT !.locked = FALSE]]
    BY <1>1, <1>3 DEF Unlock, Goto, TypeOK, local
  <2>2. status[Slot(w)] \in Status
    BY <1>1 DEF TypeOK
  <2>3. status'[Slot(w)] = [status[Slot(w)] EXCEPT !.locked = FALSE]
        /\ \A b \in Slots : b # Slot(w) => status'[b] = status[b]
    BY <1>1, <2>1 DEF TypeOK
  <2>4. status'[Slot(w)].counter = status[Slot(w)].counter
    BY <2>2, <2>3 DEF Status
  <2>5. QED
    BY <2>1, <2>3, <2>4
<1>4. QED
  BY <1>2, <1>3, SharedStep

LEMMA EntryStep ==
  ASSUME TypeInv, NEW w \in Thread, Step(w)
  PROVE  \/ UNCHANGED entry /\ pc[w] # "value"
         \/ /\ pc[w] = "key" /\ pc'[w] = "value" /\ key' = key
            /\ entry'[Slot(w)].key = key[w]
            /\ \A b \in Slots : b # Slot(w) => entry'[b] = entry[b]
         \/ /\ pc[w] = "value" /\ pc'[w] = "unlock" /\ key' = key /\ answer' = answer
            /\ entry'[Slot(w)].key = entry[Slot(w)].key
            /\ entry'[Slot(w)].res = answer[w]
            /\ \A b \in Slots : b # Slot(w) => entry'[b] = entry[b]
<1>1. TypeOK /\ Slot(w) \in Slots
  BY NodeProperties DEF TypeInv
<1>2. entry[Slot(w)] \in [key : Key \cup {NoKey}, res : Index]
  BY <1>1 DEF TypeOK
<1>3. CASE PutKey(w)
  <2>1. /\ pc[w] = "key" /\ pc'[w] = "value" /\ key' = key
        /\ entry' = [entry EXCEPT ![Slot(w)] = [@ EXCEPT !.key = key[w]]]
    BY <1>1, <1>3 DEF PutKey, Goto, TypeOK, local
  <2>2. entry'[Slot(w)] = [entry[Slot(w)] EXCEPT !.key = key[w]]
        /\ \A b \in Slots : b # Slot(w) => entry'[b] = entry[b]
    BY <1>1, <2>1 DEF TypeOK
  <2>3. QED
    BY <1>2, <2>1, <2>2
<1>4. CASE PutResult(w)
  <2>1. /\ pc[w] = "value" /\ pc'[w] = "unlock" /\ key' = key /\ answer' = answer
        /\ entry' = [entry EXCEPT ![Slot(w)] = [@ EXCEPT !.res = answer[w]]]
    BY <1>1, <1>4 DEF PutResult, Goto, TypeOK, local
  <2>2. entry'[Slot(w)] = [entry[Slot(w)] EXCEPT !.res = answer[w]]
        /\ \A b \in Slots : b # Slot(w) => entry'[b] = entry[b]
    BY <1>1, <2>1 DEF TypeOK
  <2>3. QED
    BY <1>2, <2>1, <2>2
<1>5. pc[w] = "value" => PutResult(w)
  BY DEF Step, Begin, ReadStatus, MatchKey, ReadResult, Recheck, Probe, ReadWord,
    SetBit, NextRegion, ReadOwned, OwnRegion, WriteData, Publish, Found, NextBucket,
    ReadRelease, Release, Full, ReadPut, Lock, PutKey, Unlock
<1>6. QED
  BY <1>3, <1>4, <1>5, SharedStep

(* The counter of the status that is locked goes past what any reader has. *)
LEMMA CounterGrows ==
  ASSUME TypeInv, CountersFit, NEW w \in Thread, status[Slot(w)] = s[w]
  PROVE  /\ status[Slot(w)].counter \in Nat
         /\ (s[w].counter + 1) % Modulus = status[Slot(w)].counter + 1
<1> DEFINE c == status[Slot(w)].counter
<1>1. TypeOK /\ Slot(w) \in Slots
  BY NodeProperties DEF TypeInv
<1>2. c \in Nat
  BY <1>1 DEF TypeOK, Status
<1>3. c + 1 < Modulus /\ s[w].counter = c
  BY <1>1 DEF CountersFit
<1> HIDE DEF c
<1>4. Modulus \in Nat \ {0} /\ c + 1 \in 0 .. Modulus - 1
  BY <1>2, <1>3, ThresholdProperties
<1>5. (Modulus * 0 + (c + 1)) % Modulus = c + 1
  BY <1>4, DivisionIsUnique
<1>6. Modulus * 0 + (c + 1) = c + 1
  BY <1>2, <1>4
<1>7. QED
  BY <1>2, <1>3, <1>5, <1>6 DEF c

LEMMA OthersAnswer ==
  ASSUME TypeInv, ClaimInv, CountersFit, NEW w \in Thread, Step(w), Moves(w),
         NEW v \in Thread, v # w, AnswerOK(v), AnswerOK(w),
         pc[v] \in Writing /\ pc[w] \in Writing => Slot(v) # Slot(w)
  PROVE  AnswerOK(v)'
<1>1. /\ pc'[v] = pc[v] /\ key'[v] = key[v] /\ ops'[v] = ops[v] /\ s'[v] = s[v]
      /\ answer'[v] = answer[v] /\ TypeOK
  BY OthersKept DEF Others, Moves, TypeInv, TypeOK
<1>2. Slot(v)' = Slot(v) /\ Slot(v) \in Slots /\ Slot(w) \in Slots
  BY <1>1, NodeProperties DEF Slot
<1>3. pc[v] \in Answering /\ ops[v] # 0 => Right(key[v], answer[v])'
  <2>1. ASSUME Right(key[v], answer[v]) PROVE Right(key[v], answer[v])'
    <3>1. \E b \in Published' : table'[b].index = answer[v] /\ data'[answer[v]] = Result[key[v]]
      BY <2>1, RightStays
    <3>2. QED
      BY <1>1, <3>1 DEF Right
  <2>2. QED
    BY <2>1 DEF AnswerOK
<1>4. /\ pc[v] \in Reading => status[Slot(v)] = s[v] \/ s[v].counter < status[Slot(v)].counter
      /\ pc[v] \in Reading \cup {"lock"} => ~s[v].locked
      /\ status[Slot(v)] = s[v] =>
           /\ pc[v] = "result" => entry[Slot(v)].key = key[v]
           /\ pc[v] = "recheck" => entry[Slot(v)].key = key[v] /\ entry[Slot(v)].res = answer[v]
      /\ pc[v] \in Writing => status[Slot(v)].locked
      /\ pc[v] = "value" => entry[Slot(v)].key = key[v]
  BY DEF AnswerOK
<1>5. s[v].counter \in Nat /\ status[Slot(v)].counter \in Nat
  BY <1>1, <1>2 DEF TypeOK, Status
<1>6. \/ status'[Slot(v)] = status[Slot(v)]
      \/ /\ pc[v] \notin Writing
         /\ pc[v] \in Reading => s[v].counter < status'[Slot(v)].counter
  <2>1. CASE UNCHANGED status
    BY <2>1
  <2>2. CASE /\ pc[w] = "lock" /\ status[Slot(w)] = s[w]
             /\ status'[Slot(w)].counter = (s[w].counter + 1) % Modulus
             /\ \A b \in Slots : b # Slot(w) => status'[b] = status[b]
    <3>1. ~status[Slot(w)].locked
      BY <2>2 DEF AnswerOK
    <3>2. status'[Slot(w)].counter = status[Slot(w)].counter + 1
      BY <2>2, CounterGrows
    <3>3. CASE Slot(v) = Slot(w)
      BY <1>4, <1>5, <3>1, <3>2, <3>3
    <3>4. QED
      BY <1>2, <2>2, <3>3
  <2>3. CASE /\ pc[w] = "unlock"
             /\ status'[Slot(w)].counter = status[Slot(w)].counter
             /\ \A b \in Slots : b # Slot(w) => status'[b] = status[b]
    <3>1. status[Slot(w)].locked /\ pc[w] \in Writing
      BY <2>3 DEF AnswerOK, Writing
    <3>2. CASE Slot(v) = Slot(w)
      BY <1>4, <2>3, <3>1, <3>2
    <3>3. QED
      BY <1>2, <2>3, <3>2
  <2>4. QED
    BY <2>1, <2>2, <2>3, StatusStep
<1>7. \/ entry'[Slot(v)] = entry[Slot(v)]
      \/ pc[v] \notin Writing /\ (pc[v] \in Reading => status[Slot(v)] # s[v])
  <2>1. CASE UNCHANGED entry
    BY <2>1
  <2>2. CASE /\ pc[w] \in {"key", "value"}
             /\ \A b \in Slots : b # Slot(w) => entry'[b] = entry[b]
    <3>1. status[Slot(w)].locked /\ pc[w] \in Writing
      BY <2>2 DEF AnswerOK, Writing
    <3>2. CASE Slot(v) = Slot(w)
      BY <1>4, <3>1, <3>2
    <3>3. QED
      BY <1>2, <2>2, <3>2
  <2>3. QED
    BY <2>1, <2>2, EntryStep
<1>8. /\ pc[v] \in Writing => status'[Slot(v)].locked
      /\ pc[v] \in Reading => status'[Slot(v)] = s[v] \/ s[v].counter < status'[Slot(v)].counter
      /\ pc[v] = "value" => entry'[Slot(v)].key = key[v]
  BY <1>4, <1>6, <1>7 DEF Writing
<1>9. ASSUME status'[Slot(v)] = s[v]
      PROVE  /\ pc[v] = "result" => entry'[Slot(v)].key = key[v]
             /\ pc[v] = "recheck" => entry'[Slot(v)].key = key[v] /\ entry'[Slot(v)].res = answer[v]
  <2>1. CASE pc[v] \in Reading
    <3>1. status[Slot(v)] = s[v]
      BY <1>5, <1>6, <1>9, <2>1
    <3>2. entry'[Slot(v)] = entry[Slot(v)]
      BY <1>7, <2>1, <3>1
    <3>3. QED
      BY <1>4, <3>1, <3>2
  <2>2. QED
    BY <2>1 DEF Reading
<1>10. QED
  BY <1>1, <1>2, <1>3, <1>4, <1>8, <1>9 DEF AnswerOK

(* A thread that answers keeps its answer; it comes to one at three places *)
(* and goes on with it from there.                                         *)
LEMMA OwnAnswer ==
  ASSUME TypeInv, ClaimInv, TableInv, NEW w \in Thread, Step(w), Moves(w), AnswerOK(w),
         \A v \in Thread : AnswerOK(v), \A b \in Slots : PairOK(b)
  PROVE  AnswerOK(w)'
<1>1. TypeOK /\ ThreadOK(w) /\ Slot(w) \in Slots /\ key[w] \in Key
  BY NodeProperties DEF TypeInv
<1>2. /\ pc[w] \in Answering /\ ops[w] # 0 => Right(key[w], answer[w])
      /\ pc[w] \in Reading \cup {"lock"} => ~s[w].locked
      /\ pc[w] \in Reading =>
           status[Slot(w)] = s[w] \/ s[w].counter < status[Slot(w)].counter
      /\ status[Slot(w)] = s[w] =>
           /\ pc[w] = "result" => entry[Slot(w)].key = key[w]
           /\ pc[w] = "recheck" => entry[Slot(w)].key = key[w] /\ entry[Slot(w)].res = answer[w]
      /\ pc[w] \in Writing => status[Slot(w)].locked
      /\ pc[w] = "value" => entry[Slot(w)].key = key[w]
  BY DEF AnswerOK
<1>3. ASSUME Right(key[w], answer[w]), key'[w] = key[w], answer'[w] = answer[w]
      PROVE  Right(key[w], answer[w])'
  <2>1. \E b \in Published' : table'[b].index = answer[w] /\ data'[answer[w]] = Result[key[w]]
    BY <1>3, RightStays
  <2>2. QED
    BY <1>3, <2>1 DEF Right
<1>4. pc[w] \notin Resting => ops[w] # 0
  BY <1>1 DEF ThreadOK
<1>5. ASSUME pc'[w] \notin Answering \cup Reading PROVE AnswerOK(w)'
  BY <1>5 DEF AnswerOK, Answering, Reading, Writing
<1>6. ASSUME pc'[w] \in Answering \ (Writing \cup {"lock"}), Right(key[w], answer[w])'
      PROVE  AnswerOK(w)'
  BY <1>6 DEF AnswerOK, Answering, Reading, Writing
<1>7. CASE Begin(w)
  BY <1>1, <1>5, <1>7 DEF Begin, Goto, TypeOK, Answering, Reading
<1>8. CASE ReadStatus(w)
  <2>1. /\ pc[w] = "get" /\ s'[w] = status[Slot(w)] /\ status' = status /\ key' = key
        /\ pc'[w] = IF status[Slot(w)].locked \/ status[Slot(w)].hash # KeyHash[key[w]].hash
                    THEN "probe" ELSE "match"
    BY <1>1, <1>8 DEF ReadStatus, Goto, TypeOK, shared
  <2>2. CASE pc'[w] = "probe"
    BY <1>5, <2>2 DEF Answering, Reading
  <2>3. CASE pc'[w] = "match"
    <3>1. ~s'[w].locked /\ Slot(w)' = Slot(w) /\ status'[Slot(w)] = s'[w]
      BY <2>1, <2>3 DEF Slot
    <3>2. QED
      BY <2>3, <3>1 DEF AnswerOK, Answering, Reading, Writing
  <2>4. QED
    BY <2>1, <2>2, <2>3
<1>9. CASE MatchKey(w)
  <2>1. /\ pc[w] = "match" /\ UNCHANGED <<s, status, entry, key>>
        /\ pc'[w] = IF entry[Slot(w)].key = key[w] THEN "result" ELSE "probe"
    BY <1>1, <1>9 DEF MatchKey, Goto, TypeOK, shared, local
  <2>2. CASE pc'[w] = "probe"
    BY <1>5, <2>2 DEF Answering, Reading
  <2>3. CASE pc'[w] = "result"
    <3>1. entry[Slot(w)].key = key[w] /\ Slot(w)' = Slot(w)
      BY <2>1, <2>3 DEF Slot
    <3>2. QED
      BY <1>2, <2>1, <2>3, <3>1 DEF AnswerOK, Answering, Reading, Writing
  <2>4. QED
    BY <2>1, <2>2, <2>3
<1>10. CASE ReadResult(w)
  <2>1. /\ pc[w] = "result" /\ UNCHANGED <<s, status, entry, key>>
        /\ answer'[w] = entry[Slot(w)].res /\ pc'[w] = "recheck"
    BY <1>1, <1>10 DEF ReadResult, Goto, TypeOK, shared
  <2>2. Slot(w)' = Slot(w)
    BY <2>1 DEF Slot
  <2>3. QED
    BY <1>2, <2>1, <2>2 DEF AnswerOK, Answering, Reading, Writing
<1>11. CASE Recheck(w)
  <2>1. /\ pc[w] = "recheck" /\ UNCHANGED <<key, answer>>
        /\ pc'[w] = IF status[Slot(w)] = s[w] THEN "idle" ELSE "probe"
    BY <1>1, <1>11 DEF Recheck, Goto, TypeOK, local
  <2>2. CASE status[Slot(w)] # s[w]
    BY <1>5, <2>1, <2>2 DEF Answering, Reading
  <2>3. CASE status[Slot(w)] = s[w]
    <3>1. ~status[Slot(w)].locked /\ entry[Slot(w)].key = key[w] /\ entry[Slot(w)].res = answer[w]
      BY <1>2, <2>1, <2>3 DEF Reading
    <3>2. \A v \in Thread : pc[v] = "value" => Slot(v) # Slot(w)
      BY <3>1 DEF AnswerOK, Writing
    <3>3. entry[Slot(w)].key # NoKey
      BY <1>1, <3>1, SylvanWrapperAssumption
    <3>4. Right(key[w], answer[w])
      BY <1>1, <3>1, <3>2, <3>3 DEF PairOK
    <3>5. QED
      BY <1>3, <1>6, <2>1, <2>3, <3>4 DEF Answering, Writing
  <2>4. QED
    BY <2>2, <2>3
<1>12. CASE Probe(w)
  BY <1>1, <1>5, <1>12 DEF Probe, Goto, TypeOK, Answering, Reading
<1>13. CASE ReadWord(w)
  BY <1>1, <1>5, <1>13 DEF ReadWord, Goto, TypeOK, Answering, Reading
<1>14. CASE SetBit(w)
  BY <1>1, <1>5, <1>14 DEF SetBit, Goto, TypeOK, Answering, Reading
<1>15. CASE NextRegion(w)
  BY <1>1, <1>5, <1>15 DEF NextRegion, Goto, TypeOK, Answering, Reading
<1>16. CASE ReadOwned(w)
  BY <1>1, <1>5, <1>16 DEF ReadOwned, Goto, TypeOK, Answering, Reading
<1>17. CASE OwnRegion(w)
  BY <1>1, <1>5, <1>17 DEF OwnRegion, Goto, TypeOK, Answering, Reading
<1>18. CASE WriteData(w)
  BY <1>1, <1>5, <1>18 DEF WriteData, Goto, TypeOK, Answering, Reading
<1>19. CASE Publish(w)
  <2>1. /\ pc[w] = "publish" /\ key' = key /\ data' = data
        /\ \/ pc'[w] = "compare"
           \/ /\ pc'[w] = "put" /\ answer'[w] = cidx[w] /\ table[idx[w]] = Empty
              /\ table' = [table EXCEPT ![idx[w]] =
                             [hash |-> NodeHash[Node(w)].hash, index |-> cidx[w]]]
    BY <1>1, <1>19 DEF Publish, Goto, TypeOK
  <2>2. CASE pc'[w] = "compare"
    BY <1>5, <2>2 DEF Answering, Reading
  <2>3. CASE pc'[w] # "compare"
    <3>1. idx[w] \in Index /\ cidx[w] \in Index /\ cidx[w] # 0
      BY <1>1, <2>1 DEF TypeOK, ThreadOK
    <3>2. table'[idx[w]] = [hash |-> NodeHash[Node(w)].hash, index |-> cidx[w]]
      BY <1>1, <2>1, <2>3, <3>1 DEF TypeOK
    <3>3. idx[w] \in Published' /\ table'[idx[w]].index = cidx[w]
      BY <3>1, <3>2 DEF Published, Empty
    <3>4. data[cidx[w]] = Node(w)
      BY <2>1, <3>1 DEF TableInv, SearchOK, Holding
    <3>5. \E b \in Published' : table'[b].index = answer'[w] /\ data'[answer'[w]] = Result[key'[w]]
      BY <2>1, <2>3, <3>3, <3>4 DEF Node
    <3>6. Right(key[w], answer[w])'
      BY <3>5 DEF Right
    <3>7. QED
      BY <1>6, <2>1, <2>3, <3>6 DEF Answering, Writing
  <2>4. QED
    BY <2>2, <2>3
<1>20. CASE Found(w)
  <2>1. /\ pc[w] = "compare" /\ Same(w) /\ UNCHANGED <<key, table, data>>
        /\ answer'[w] = table[idx[w]].index /\ pc'[w] \in {"release", "put"}
    BY <1>1, <1>20 DEF Found, Goto, TypeOK, shared
  <2>2. idx[w] \in Published
    BY <1>1, <2>1 DEF ThreadOK, TypeOK, Published
  <2>3. Published' = Published
    BY <2>1 DEF Published
  <2>4. \E b \in Published' : table'[b].index = answer'[w] /\ data'[answer'[w]] = Result[key'[w]]
    BY <2>1, <2>2, <2>3 DEF Same, Node
  <2>5. Right(key[w], answer[w])'
    BY <2>4 DEF Right
  <2>6. QED
    BY <1>6, <2>1, <2>5 DEF Answering, Writing
<1>21. CASE NextBucket(w)
  BY <1>1, <1>5, <1>21 DEF NextBucket, Goto, TypeOK, Answering, Reading
<1>22. CASE ReadRelease(w)
  <2>1. pc[w] = "release" /\ pc'[w] = "clear" /\ UNCHANGED <<key, answer>>
    BY <1>1, <1>22 DEF ReadRelease, Goto, TypeOK
  <2>2. QED
    BY <1>2, <1>3, <1>4, <1>6, <2>1 DEF Answering, Writing, Resting
<1>23. CASE Release(w)
  <2>1. pc[w] = "clear" /\ pc'[w] = "put" /\ UNCHANGED <<key, answer>>
    BY <1>1, <1>23 DEF Release, Goto, TypeOK
  <2>2. QED
    BY <1>2, <1>3, <1>4, <1>6, <2>1 DEF Answering, Writing, Resting
<1>24. CASE Full(w)
  <2>1. pc'[w] = "probe"
    BY <1>1, <1>24 DEF Full, Goto, TypeOK, Moves
  <2>2. QED
    BY <1>5, <2>1 DEF Answering, Reading
<1>25. CASE ReadPut(w)
  <2>1. /\ pc[w] = "put" /\ UNCHANGED <<key, answer>> /\ s'[w] = status[Slot(w)]
        /\ pc'[w] = IF status[Slot(w)].locked THEN "idle" ELSE "lock"
    BY <1>1, <1>25 DEF ReadPut, Goto, TypeOK
  <2>2. Right(key[w], answer[w])'
    BY <1>2, <1>3, <1>4, <2>1 DEF Answering, Resting
  <2>3. QED
    BY <2>1, <2>2 DEF AnswerOK, Answering, Reading, Writing
<1>26. CASE Lock(w)
  <2>1. pc[w] = "lock" /\ UNCHANGED <<key, answer>> /\ pc'[w] \in {"idle", "key"}
    BY <1>1, <1>26 DEF Lock, Goto, TypeOK, local
  <2>2. Right(key[w], answer[w])'
    BY <1>2, <1>3, <1>4, <2>1 DEF Answering, Resting
  <2>3. CASE pc'[w] = "idle"
    BY <1>6, <2>2, <2>3 DEF Answering, Writing
  <2>4. CASE pc'[w] = "key"
    <3>1. status' = [status EXCEPT ![Slot(w)] =
             [locked |-> TRUE, hash |-> KeyHash[key[w]].hash,
              counter |-> (s[w].counter + 1) % Modulus]]
      BY <1>1, <1>26, <2>4 DEF Lock, Goto, TypeOK
    <3>2. status'[Slot(w)].locked /\ Slot(w)' = Slot(w)
      BY <1>1, <2>1, <3>1 DEF TypeOK, Slot
    <3>3. QED
      BY <2>2, <2>4, <3>2 DEF AnswerOK, Answering, Reading, Writing
  <2>5. QED
    BY <2>1, <2>3, <2>4
<1>27. CASE PutKey(w)
  <2>1. /\ pc[w] = "key" /\ pc'[w] = "value" /\ UNCHANGED <<key, answer, status>>
        /\ entry'[Slot(w)].key = key[w]
    <3>1. pc[w] = "key" /\ pc'[w] = "value" /\ UNCHANGED <<key, answer, status>>
      BY <1>1, <1>27 DEF PutKey, Goto, TypeOK, local
    <3>2. entry' = [entry EXCEPT ![Slot(w)] = [@ EXCEPT !.key = key[w]]]
      BY <1>27 DEF PutKey
    <3>3. entry[Slot(w)] \in [key : Key \cup {NoKey}, res : Index]
      BY <1>1 DEF TypeOK
    <3>4. entry'[Slot(w)] = [entry[Slot(w)] EXCEPT !.key = key[w]]
      BY <1>1, <3>2 DEF TypeOK
    <3>5. QED
      BY <3>1, <3>3, <3>4
  <2>2. Right(key[w], answer[w])' /\ Slot(w)' = Slot(w)
    BY <1>2, <1>3, <1>4, <2>1 DEF Answering, Resting, Slot
  <2>3. status[Slot(w)].locked
    BY <1>2, <2>1 DEF Writing
  <2>4. QED
    BY <2>1, <2>2, <2>3 DEF AnswerOK, Answering, Reading, Writing
<1>28. CASE PutResult(w)
  <2>1. /\ pc[w] = "value" /\ pc'[w] = "unlock" /\ UNCHANGED <<key, answer, status>>
    BY <1>1, <1>28 DEF PutResult, Goto, TypeOK, local
  <2>2. Right(key[w], answer[w])' /\ Slot(w)' = Slot(w)
    BY <1>2, <1>3, <1>4, <2>1 DEF Answering, Resting, Slot
  <2>3. status[Slot(w)].locked
    BY <1>2, <2>1 DEF Writing
  <2>4. QED
    BY <2>1, <2>2, <2>3 DEF AnswerOK, Answering, Reading, Writing
<1>29. CASE Unlock(w)
  <2>1. pc[w] = "unlock" /\ pc'[w] = "idle" /\ UNCHANGED <<key, answer>>
    BY <1>1, <1>29 DEF Unlock, Goto, TypeOK, local
  <2>2. QED
    BY <1>2, <1>3, <1>4, <1>6, <2>1 DEF Answering, Writing, Resting
<1>30. QED
  BY <1>7, <1>8, <1>9, <1>10, <1>11, <1>12, <1>13, <1>14, <1>15, <1>16, <1>17, <1>18, <1>19, <1>20, <1>21, <1>22, <1>23, <1>24, <1>25, <1>26, <1>27, <1>28, <1>29 DEF Step

LEMMA CacheInvStep ==
  ASSUME TypeInv, ClaimInv, TableInv, CountersFit, CacheInv, [Next]_vars
  PROVE  CacheInv'
<1>1. CASE UNCHANGED vars
  <2>1. /\ \A w \in Thread : Slot(w)' = Slot(w)
        /\ UNCHANGED <<pc, ops, key, s, answer, status, entry>>
    BY <1>1 DEF vars, shared, local, Slot
  <2>2. \A w \in Thread : Right(key[w], answer[w])' = Right(key[w], answer[w])
    BY <1>1 DEF vars, shared, local, Right, Published
  <2>3. \A b \in Slots : Right(entry[b].key, entry[b].res)' = Right(entry[b].key, entry[b].res)
    BY <1>1 DEF vars, shared, Right, Published
  <2>4. \A w \in Thread : AnswerOK(w) => AnswerOK(w)'
    BY <2>1, <2>2 DEF AnswerOK
  <2>5. \A b \in Slots : PairOK(b) => PairOK(b)'
    BY <2>1, <2>3 DEF PairOK
  <2>6. QED
    BY <2>1, <2>4, <2>5 DEF CacheInv, Ended
<1>2. ASSUME NEW w \in Thread, Step(w)
      PROVE  CacheInv'
  <2>1. TypeOK /\ ~Ended /\ Slot(w) \in Slots
    BY <1>2, NodeProperties, Runs DEF TypeInv
  <2>2. /\ \A v \in Thread : AnswerOK(v)
        /\ \A v, u \in Thread :
             v # u /\ pc[v] \in Writing /\ pc[u] \in Writing => Slot(v) # Slot(u)
        /\ \A b \in Slots : PairOK(b)
    BY <2>1 DEF CacheInv
  <2>3. CASE Ends
    BY <2>3 DEF Ends, Ended, CacheInv
  <2>4. CASE Moves(w)
    <3>1. \A v \in Thread : AnswerOK(v)'
      BY <1>2, <2>2, <2>4, OthersAnswer, OwnAnswer
    <3>2. \A v \in Thread \ {w} : pc'[v] = pc[v] /\ Slot(v)' = Slot(v)
      BY <1>2, <2>1, <2>4, OthersKept DEF Others, Moves, TypeOK, Slot
    <3>3. pc'[w] \in Writing =>
            \/ pc[w] \in Writing /\ key' = key
            \/ pc[w] = "lock" /\ key' = key /\ status[Slot(w)] = s[w]
      <4>1. ASSUME pc'[w] \in Writing PROVE Lock(w) \/ PutKey(w) \/ PutResult(w)
        BY <1>2, <2>1, <4>1 DEF Step, Begin, ReadStatus, MatchKey, ReadResult, Recheck, Probe,
          ReadWord, SetBit, NextRegion, ReadOwned, OwnRegion, WriteData, Publish, Found,
          NextBucket, ReadRelease, Release, Full, ReadPut, Unlock, Goto, TypeOK, Writing
      <4>2. QED
        BY <2>1, <4>1 DEF Lock, PutKey, PutResult, Goto, TypeOK, Writing, local
    <3>4. ASSUME NEW v \in Thread \ {w}, pc'[v] \in Writing, pc'[w] \in Writing
          PROVE  Slot(v)' # Slot(w)'
      <4>1. pc[v] \in Writing /\ Slot(v)' = Slot(v) /\ status[Slot(v)].locked
        BY <2>2, <3>2, <3>4 DEF AnswerOK
      <4>2. Slot(w)' = Slot(w)
        BY <3>3, <3>4 DEF Slot
      <4>3. CASE pc[w] \in Writing
        BY <2>2, <4>1, <4>2, <4>3
      <4>4. CASE pc[w] = "lock" /\ status[Slot(w)] = s[w]
        <5>1. ~status[Slot(w)].locked
          BY <2>2, <4>4 DEF AnswerOK
        <5>2. QED
          BY <4>1, <4>2, <5>1
      <4>5. QED
        BY <3>3, <3>4, <4>3, <4>4
    <3>5. \A v, u \in Thread :
            v # u /\ pc'[v] \in Writing /\ pc'[u] \in Writing => Slot(v)' # Slot(u)'
      BY <2>2, <3>2, <3>4
    <3>6. ASSUME NEW b \in Slots PROVE PairOK(b)'
      <4>1. CASE entry'[b] = entry[b] /\ entry[b].key = NoKey
        BY <4>1 DEF PairOK
      <4>2. CASE entry'[b] = entry[b] /\ Right(entry[b].key, entry[b].res)
        <5>1. \E c \in Published' : /\ table'[c].index = entry[b].res
                                    /\ data'[entry[b].res] = Result[entry[b].key]
          BY <1>2, <4>2, RightStays
        <5>2. Right(entry[b].key, entry[b].res)'
          BY <4>2, <5>1 DEF Right
        <5>3. QED
          BY <5>2 DEF PairOK
      <4>3. ASSUME entry'[b] = entry[b], NEW v \in Thread, pc[v] = "value", Slot(v) = b, v # w
            PROVE  PairOK(b)'
        BY <3>2, <4>3 DEF PairOK
      <4>4. CASE entry'[b] = entry[b] /\ ~(pc[w] = "value" /\ Slot(w) = b)
        BY <2>2, <4>1, <4>2, <4>3, <4>4 DEF PairOK
      <4>5. CASE /\ b = Slot(w) /\ pc[w] = "key" /\ pc'[w] = "value" /\ key' = key
        <5>1. Slot(w)' = b
          BY <4>5 DEF Slot
        <5>2. QED
          BY <4>5, <5>1 DEF PairOK
      <4>6. CASE /\ b = Slot(w) /\ pc[w] = "value" /\ pc'[w] = "unlock"
                 /\ key' = key /\ answer' = answer
                 /\ entry'[Slot(w)].key = entry[Slot(w)].key
                 /\ entry'[Slot(w)].res = answer[w]
        <5>1. entry'[b].key = key[w]
          BY <2>2, <4>6 DEF AnswerOK
        <5>2. ops[w] # 0 /\ Right(key[w], answer[w])
          BY <2>2, <4>6 DEF AnswerOK, TypeInv, ThreadOK, Resting, Answering
        <5>3. \E c \in Published' : /\ table'[c].index = answer[w]
                                    /\ data'[answer[w]] = Result[key[w]]
          BY <1>2, <5>2, RightStays
        <5>4. Right(entry[b].key, entry[b].res)'
          BY <4>6, <5>1, <5>3 DEF Right
        <5>5. QED
          BY <5>4 DEF PairOK
      <4>7. QED
        BY <1>2, <2>1, <4>4, <4>5, <4>6, EntryStep
    <3>7. QED
      BY <3>1, <3>5, <3>6 DEF CacheInv
  <2>5. QED
    BY <1>2, <2>1, <2>3, <2>4, StepMoves
<1>3. QED
  BY <1>1, <1>2 DEF Next, Step

LEMMA CacheInvInit ==
  ASSUME Init
  PROVE  CacheInv
<1>1. Slots = DOMAIN status
  BY DEF Init, Slots
<1>2. \A b \in Slots : entry[b] = NoEntry
  BY <1>1 DEF Init
<1>3. \A b \in Slots : PairOK(b)
  BY <1>2 DEF PairOK, NoEntry
<1>4. \A w \in Thread : pc[w] = "idle" /\ ops[w] = 0
  BY DEF Init
<1>5. QED
  BY <1>3, <1>4 DEF CacheInv, AnswerOK, Answering, Reading, Writing

(* AnswerIsRight: what is read of a bucket while it is written is not      *)
(* used, and what is used is the number of the node.                       *)
THEOREM AnswersAreRight == Spec /\ []LoadFillsRegion /\ []CountersFit => []AnswerIsRight
<1>1. Init => CacheInv
  BY CacheInvInit
<1>2. Inv /\ CountersFit /\ CacheInv /\ [Next]_vars => CacheInv'
  BY CacheInvStep DEF Inv
<1>3. Inv /\ CacheInv => AnswerIsRight
  <2>1. ASSUME Inv, CacheInv, NEW w \in Thread, pc[w] = "idle", ops[w] > 0
        PROVE  \E b \in Published : table[b].index = answer[w] /\ data[answer[w]] = Node(w)
    <3>1. ops[w] # 0 /\ ~Ended
      BY <2>1 DEF Inv, TypeInv, TypeOK, Ended
    <3>2. Right(key[w], answer[w])
      BY <2>1, <3>1 DEF CacheInv, AnswerOK, Answering
    <3>3. QED
      BY <3>2 DEF Right, Node
  <2>2. QED
    BY <2>1 DEF AnswerIsRight
<1>4. QED
  BY <1>1, <1>2, <1>3, InvHolds, PTL DEF Spec
=============================================================================
