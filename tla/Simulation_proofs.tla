--------------------------- MODULE Simulation_proofs ---------------------------
(***************************************************************************)
(* Proofs about Simulation: the windows of the cores, for any trace, any   *)
(* number of cores, any width and depth of the window, and any caches that *)
(* keep CachePort.                                                         *)
(***************************************************************************)
EXTENDS Simulation, FiniteSetTheorems, SequenceTheorems, WellFoundedInduction, TLAPS

TraceBlock == {Pieces[n].block : n \in DOMAIN Pieces}

\* What AccessCoversLine says of the line of one request
Covers(a) ==
  a.type \in SectorTypes /\ (Aligned(Lines[a.line]) \/ Divided(Lines[a.line])) =>
    Touched(Lines[a.line], a.block) \subseteq a.sectors

AccessRecord ==
  [line : DOMAIN Lines, bubble_cnt : Nat, type : {"READ", "WRITE"}, block : TraceBlock,
   sectors : SUBSET Sector, actual : SUBSET Sector]

Access == {a \in AccessRecord : Covers(a)}

TraceState == [read : 0..(Len(Pieces) - 1), pretrace_buffer : Seq(Access)]

WindowState ==
  [ready_list : [Place -> BOOLEAN], addr_list : [Place -> Block \cup {NoBlock}],
   sector_list : [Place -> SUBSET Nat], head : Place, tail : Place, load : 0..depth]

CoreState == [trace : TraceState, access : Access, window : WindowState,
              cpu_inst : 0..InstBound, reached_limit : BOOLEAN]

(***************************************************************************)
(* The type of a core.  The buffer of its trace is never larger than its   *)
(* size between two steps, although a divided request is read as a whole;  *)
(* head follows from tail and load.                                        *)
(***************************************************************************)
RingClosed(w) == w.head = (w.tail + w.load) % depth

CoreOK(c) ==
  /\ c \in CoreState
  /\ Len(c.trace.pretrace_buffer) <= pretrace_buffer_size
  /\ RingClosed(c.window)

\* The two properties of a window, with what the caches owe.
Served(w, o) ==
  \A p \in Live(w) : ~w.ready_list[p] => {w.addr_list[p]} \X Needs(w.sector_list[p]) \subseteq o

Complete(w) == \A p \in Live(w) : w.ready_list[p] => w.sector_list[p] = {}

WindowInv ==
  /\ core \in [Core -> CoreState]
  /\ dynamicOn \in BOOLEAN
  /\ \A k \in Core : /\ CoreOK(core[k])
                     /\ Served(core[k].window, owed)
                     /\ Complete(core[k].window)

-----------------------------------------------------------------------------
(***************************************************************************)
(* Division.                                                               *)
(***************************************************************************)
LEMMA ProductKeepsOrder ==
  ASSUME NEW a \in Int, NEW b \in Int, NEW m \in Nat, a <= b
  PROVE  a * m \in Int /\ b * m \in Int /\ a * m <= b * m
<1>1. (b - a) * m \in Nat
  OBVIOUS
<1>2. (b - a) * m = b * m - a * m
  OBVIOUS
<1>3. QED
  BY <1>1, <1>2

LEMMA SameMultiple ==
  ASSUME NEW m \in Nat, m > 0, NEW a \in Int, NEW b \in Int, a * m <= b * m, b * m < a * m + m
  PROVE  a = b
<1>1. a <= b
  <2>1. ASSUME b <= a - 1 PROVE FALSE
    <3>1. b * m <= (a - 1) * m
      BY <2>1, ProductKeepsOrder
    <3>2. (a - 1) * m = a * m - m
      OBVIOUS
    <3>3. QED
      BY <3>1, <3>2
  <2>2. QED
    BY <2>1
<1>2. b <= a
  <2>1. ASSUME a + 1 <= b PROVE FALSE
    <3>1. (a + 1) * m <= b * m
      BY <2>1, ProductKeepsOrder
    <3>2. (a + 1) * m = a * m + m
      OBVIOUS
    <3>3. QED
      BY <3>1, <3>2
  <2>2. QED
    BY <2>1
<1>3. QED
  BY <1>1, <1>2

LEMMA DivisionParts ==
  ASSUME NEW n \in Nat, NEW m \in Nat, m > 0
  PROVE  n \div m \in Nat /\ n = (n \div m) * m + (n % m) /\ n % m \in 0..(m - 1)
OBVIOUS

LEMMA DivisionIs ==
  ASSUME NEW n \in Nat, NEW m \in Nat, m > 0, NEW a \in Nat, NEW r \in 0..(m - 1), n = a * m + r
  PROVE  n \div m = a /\ n % m = r
<1> DEFINE b == n \div m
           s == n % m
<1>1. b \in Nat /\ n = b * m + s /\ s \in 0..(m - 1)
  BY DivisionParts
<1> HIDE DEF b, s
<1>2. a * m \in Nat /\ b * m \in Nat /\ a * m + r = b * m + s
  BY <1>1
<1>3. CASE a * m <= b * m
  <2>1. b * m < a * m + m
    BY <1>1, <1>2, <1>3
  <2>2. a = b
    BY <1>1, <1>3, <2>1, SameMultiple
  <2>3. QED
    BY <1>1, <1>2, <2>2 DEF b, s
<1>4. CASE b * m <= a * m
  <2>1. a * m < b * m + m
    BY <1>1, <1>2, <1>4
  <2>2. a = b
    BY <1>1, <1>4, <2>1, SameMultiple
  <2>3. QED
    BY <1>1, <1>2, <2>2 DEF b, s
<1>5. QED
  BY <1>2, <1>3, <1>4

LEMMA DivisionOrder ==
  ASSUME NEW n \in Nat, NEW k \in Nat, n <= k, NEW m \in Nat, m > 0
  PROVE  n \div m \in Nat /\ k \div m \in Nat /\ n \div m <= k \div m
<1> DEFINE a == n \div m
           b == k \div m
<1>1. /\ a \in Nat /\ n = a * m + (n % m) /\ n % m \in 0..(m - 1)
      /\ b \in Nat /\ k = b * m + (k % m) /\ k % m \in 0..(m - 1)
  BY DivisionParts
<1> HIDE DEF a, b
<1>2. ASSUME b + 1 <= a PROVE FALSE
  <2>1. (b + 1) * m <= a * m /\ (b + 1) * m = b * m + m /\ a * m \in Nat /\ b * m \in Nat
    BY <1>1, <1>2, ProductKeepsOrder
  <2>2. QED
    BY <1>1, <2>1
<1>3. a <= b
  BY <1>1, <1>2
<1>4. QED
  BY <1>1, <1>3 DEF a, b

-----------------------------------------------------------------------------
(***************************************************************************)
(* Lines and their pieces.                                                 *)
(***************************************************************************)
Line == [bubbles : Nat, type : {"READ", "WRITE"}, addr : Nat, size : Nat]

LEMMA SizeTypes ==
  /\ BlockSize \in Nat /\ BlockSize > 0 /\ sector_size \in Nat /\ sector_size > 0
BY LineAssumption

Sectors == BlockSize \div sector_size

LEMMA SectorCount ==
  Sectors \in Nat /\ Sectors > 0 /\ BlockSize = Sectors * sector_size /\ Sector = 0..(Sectors - 1)
<1>1. Sectors \in Nat /\ BlockSize = Sectors * sector_size
  <2>1. BlockSize % sector_size = 0
    BY LineAssumption
  <2>2. Sectors \in Nat /\ BlockSize = Sectors * sector_size + (BlockSize % sector_size)
    BY SizeTypes, DivisionParts DEF Sectors
  <2>3. Sectors * sector_size \in Int
    BY <2>2, SizeTypes
  <2> HIDE DEF Sectors
  <2>4. QED
    BY <2>1, <2>2, <2>3
<1>2. Sectors # 0
  BY <1>1, SizeTypes
<1>3. QED
  BY <1>1, <1>2 DEF Sector, Sectors

LEMMA LineNumbers ==
  ASSUME NEW l \in Line
  PROVE  /\ l.addr \in Nat /\ l.size \in Nat /\ l.bubbles \in Nat /\ l.type \in {"READ", "WRITE"}
         /\ BlockOf(l) \in Nat /\ Offset(l) \in 0..(BlockSize - 1)
         /\ l.addr = BlockOf(l) * BlockSize + Offset(l)
BY SizeTypes, DivisionParts DEF Line, BlockOf, Offset

\* Where the bytes of a line lie in the first and in the second of its blocks
LEMMA BytesTouched ==
  ASSUME NEW l \in Line, NEW s \in Touched(l, BlockOf(l))
  PROVE  \E x \in Offset(l)..(BlockSize - 1) : x < Offset(l) + l.size /\ s = x \div sector_size
<1> DEFINE b == BlockOf(l)
           o == Offset(l)
<1>1. PICK a \in l.addr..(l.addr + l.size - 1) : a \div BlockSize = b /\ (a % BlockSize) \div sector_size = s
  BY DEF Touched
<1>2. /\ l.addr \in Nat /\ l.size \in Nat /\ b \in Nat /\ o \in 0..(BlockSize - 1)
      /\ l.addr = b * BlockSize + o /\ b * BlockSize \in Nat
  BY LineNumbers, SizeTypes
<1> DEFINE x == a % BlockSize
           y == b * BlockSize
<1>3. a \in Nat /\ l.addr <= a /\ a <= l.addr + l.size - 1
  BY <1>2
<1>4. a = y + x /\ x \in 0..(BlockSize - 1)
  <2>1. a = (a \div BlockSize) * BlockSize + (a % BlockSize) /\ a % BlockSize \in 0..(BlockSize - 1)
    BY <1>3, SizeTypes, DivisionParts
  <2>2. QED
    BY <1>1, <2>1
<1>5. s = x \div sector_size
  BY <1>1
<1>6. l.addr = y + o /\ y \in Nat
  BY <1>2
<1> HIDE DEF b, o, x, y
<1>7. x \in o..(BlockSize - 1) /\ x < o + l.size
  BY <1>2, <1>3, <1>4, <1>6, SizeTypes
<1>8. QED
  BY <1>5, <1>7 DEF o

LEMMA BytesTouchedNext ==
  ASSUME NEW l \in Line, NEW s \in Touched(l, BlockOf(l) + 1)
  PROVE  \E x \in Nat : x < l.size - (BlockSize - Offset(l)) /\ s = x \div sector_size
<1> DEFINE b == BlockOf(l)
           o == Offset(l)
<1>1. PICK a \in l.addr..(l.addr + l.size - 1) :
        a \div BlockSize = b + 1 /\ (a % BlockSize) \div sector_size = s
  BY DEF Touched
<1>2. /\ l.addr \in Nat /\ l.size \in Nat /\ b \in Nat /\ o \in 0..(BlockSize - 1)
      /\ l.addr = b * BlockSize + o /\ b * BlockSize \in Nat
  BY LineNumbers, SizeTypes
<1> DEFINE x == a % BlockSize
           y == b * BlockSize
<1>3. a \in Nat /\ l.addr <= a /\ a <= l.addr + l.size - 1
  BY <1>2
<1>4. a = (b + 1) * BlockSize + x /\ x \in 0..(BlockSize - 1)
  <2>1. a = (a \div BlockSize) * BlockSize + (a % BlockSize) /\ a % BlockSize \in 0..(BlockSize - 1)
    BY <1>3, SizeTypes, DivisionParts
  <2>2. QED
    BY <1>1, <2>1
<1>5. s = x \div sector_size
  BY <1>1
<1>6. l.addr = y + o /\ y \in Nat /\ (b + 1) * BlockSize = y + BlockSize
  BY <1>2, SizeTypes
<1>7. a = y + BlockSize + x
  BY <1>4, <1>6
<1> HIDE DEF b, o, x, y
<1>8. x \in Nat /\ x < l.size - (BlockSize - o)
  BY <1>2, <1>3, <1>4, <1>6, <1>7, SizeTypes
<1>9. QED
  BY <1>5, <1>8 DEF o

\* The sectors of the first half go up to the last.
LEMMA FirstRun ==
  ASSUME NEW l \in Line
  PROVE  FirstSectors(l) = (Offset(l) \div sector_size)..(Sectors - 1)
         /\ Offset(l) \div sector_size \in Nat
<1> DEFINE o == Offset(l)
           q == o \div sector_size
           r == o % sector_size
           k == Sectors - q - 1
           t == sector_size - 1 - r
<1>1. o \in 0..(BlockSize - 1)
  BY LineNumbers
<1>2. q \in Nat /\ o = q * sector_size + r /\ r \in 0..(sector_size - 1)
  BY <1>1, SizeTypes, DivisionParts
<1>3. FirstSectors(l) = q..(q + ((BlockSize - o - 1) \div sector_size + 1) - 1)
  BY DEF FirstSectors, SectorRun
<1> HIDE DEF o, q, r
<1>4. q < Sectors
  <2>1. ASSUME Sectors <= q PROVE FALSE
    <3>1. Sectors * sector_size <= q * sector_size /\ q * sector_size \in Nat
      BY <1>2, <2>1, SectorCount, SizeTypes, ProductKeepsOrder
    <3>2. QED
      BY <1>1, <1>2, <3>1, SectorCount, SizeTypes
  <2>2. QED
    BY <1>2, <2>1, SectorCount
<1>5. k \in Nat /\ t \in 0..(sector_size - 1)
  BY <1>2, <1>4, SectorCount, SizeTypes
<1>6. k * sector_size = Sectors * sector_size - q * sector_size - sector_size
  BY <1>2, SectorCount, SizeTypes
<1>7. BlockSize - o - 1 = k * sector_size + t /\ BlockSize - o - 1 \in Nat
  BY <1>1, <1>2, <1>6, SectorCount, SizeTypes
<1> HIDE DEF k, t
<1>8. (BlockSize - o - 1) \div sector_size = k
  BY <1>5, <1>7, SizeTypes, DivisionIs
<1>9. q + (k + 1) - 1 = Sectors - 1
  BY <1>2, SectorCount DEF k
<1>10. QED
  BY <1>2, <1>3, <1>8, <1>9 DEF o, q

LEMMA LastSector ==
  ASSUME NEW x \in 0..(BlockSize - 1)
  PROVE  x \div sector_size \in Sector
<1> DEFINE q == x \div sector_size
<1>1. q \in Nat /\ x = q * sector_size + (x % sector_size) /\ x % sector_size \in 0..(sector_size - 1)
  BY SizeTypes, DivisionParts
<1> HIDE DEF q
<1>2. ASSUME Sectors <= q PROVE FALSE
  <2>1. Sectors * sector_size <= q * sector_size /\ q * sector_size \in Nat
    BY <1>1, <1>2, SectorCount, SizeTypes, ProductKeepsOrder
  <2>2. QED
    BY <1>1, <2>1, SectorCount, SizeTypes
<1>3. q < Sectors
  BY <1>1, <1>2, SectorCount
<1>4. QED
  BY <1>1, <1>3, SectorCount DEF q

LEMMA FirstCovers ==
  ASSUME NEW l \in Line
  PROVE  Touched(l, BlockOf(l)) \subseteq FirstSectors(l) /\ FirstSectors(l) \subseteq Sector
<1>1. /\ FirstSectors(l) = (Offset(l) \div sector_size)..(Sectors - 1)
      /\ Offset(l) \div sector_size \in Nat
  BY FirstRun
<1>2. ASSUME NEW s \in Touched(l, BlockOf(l))
      PROVE  s \in FirstSectors(l)
  <2>1. PICK x \in Offset(l)..(BlockSize - 1) : s = x \div sector_size
    BY BytesTouched
  <2>2. Offset(l) \in Nat /\ x \in Nat /\ Offset(l) <= x /\ x \in 0..(BlockSize - 1)
    BY LineNumbers, SizeTypes
  <2>3. Offset(l) \div sector_size <= s
    BY <2>1, <2>2, SizeTypes, DivisionOrder
  <2>4. s \in 0..(Sectors - 1)
    BY <2>1, <2>2, LastSector, SectorCount
  <2>5. QED
    BY <1>1, <2>3, <2>4, SectorCount
<1>3. QED
  BY <1>1, <1>2, SectorCount

LEMMA SecondCovers ==
  ASSUME NEW l \in Line, Divided(l), ~Ignored(l)
  PROVE  Touched(l, BlockOf(l) + 1) \subseteq SecondSectors(l) /\ SecondSectors(l) \subseteq Sector
<1> DEFINE n == l.size - (BlockSize - Offset(l))
<1>1. n \in 0..(BlockSize - 1) /\ n \in Nat
  <2>1. l.size \in Nat /\ Offset(l) \in 0..(BlockSize - 1)
    BY LineNumbers
  <2>2. QED
    BY <2>1, SizeTypes DEF Divided, Ignored
<1>2. SecondSectors(l) = 0..(0 + (n \div sector_size + 1) - 1)
  BY DEF SecondSectors, SectorRun
<1>3. n \div sector_size \in Nat /\ n \div sector_size \in Sector
  BY <1>1, SizeTypes, DivisionParts, LastSector
<1>4. SecondSectors(l) = 0..(n \div sector_size)
  BY <1>2, <1>3
<1>5. ASSUME NEW s \in Touched(l, BlockOf(l) + 1)
      PROVE  s \in SecondSectors(l)
  <2>1. PICK x \in Nat : x < n /\ s = x \div sector_size
    BY BytesTouchedNext
  <2>2. s \in Nat /\ s <= n \div sector_size
    BY <1>1, <2>1, SizeTypes, DivisionOrder
  <2>3. QED
    BY <1>3, <1>4, <2>2
<1>6. QED
  BY <1>3, <1>4, <1>5, SectorCount

LEMMA OffsetInSector ==
  ASSUME NEW l \in Line
  PROVE  l.addr % sector_size = Offset(l) % sector_size
<1> DEFINE b == BlockOf(l)
           o == Offset(l)
           q == o \div sector_size
           r == o % sector_size
<1>1. b \in Nat /\ o \in Nat /\ l.addr \in Nat /\ l.addr = b * BlockSize + o
  BY LineNumbers, SizeTypes
<1>2. q \in Nat /\ o = q * sector_size + r /\ r \in 0..(sector_size - 1)
  BY <1>1, SizeTypes, DivisionParts
<1> HIDE DEF b, o, q, r
<1>3. b * BlockSize = b * (Sectors * sector_size)
  BY SectorCount
<1>4. b * (Sectors * sector_size) = (b * Sectors) * sector_size /\ b * Sectors \in Nat
  BY <1>1, SectorCount, SizeTypes
<1>5. (b * Sectors + q) * sector_size = (b * Sectors) * sector_size + q * sector_size
  BY <1>1, <1>2, <1>4, SectorCount, SizeTypes
<1>6. l.addr = (b * Sectors + q) * sector_size + r
  <2>1. b * BlockSize \in Nat /\ q * sector_size \in Nat
    BY <1>1, <1>2, SizeTypes
  <2>2. QED
    BY <1>1, <1>2, <1>3, <1>4, <1>5, <2>1
<1>7. b * Sectors + q \in Nat
  BY <1>2, <1>4
<1>8. l.addr % sector_size = r
  <2> DEFINE a == b * Sectors + q
  <2>1. a \in Nat /\ l.addr = a * sector_size + r /\ r \in 0..(sector_size - 1)
    BY <1>2, <1>6, <1>7
  <2> HIDE DEF a
  <2>2. QED
    BY <1>1, <2>1, SizeTypes, DivisionIs
<1>9. QED
  BY <1>8 DEF r, o

\* A request within a block has the sectors its bytes lie in, if it is aligned, and never
\* one beyond the last.
LEMMA WholeCovers ==
  ASSUME NEW l \in Line, ~Divided(l)
  PROVE  /\ Aligned(l) => Touched(l, BlockOf(l)) \subseteq WholeSectors(l)
         /\ WholeSectors(l) \subseteq Sector
<1> DEFINE o == Offset(l)
           n == l.size
           q == o \div sector_size
           r == o % sector_size
           m == n \div sector_size
           u == n % sector_size
           k == IF n < sector_size THEN 1 ELSE m
<1>1. o \in 0..(BlockSize - 1) /\ n \in Nat /\ o \in Nat /\ o + n <= BlockSize
  <2>1. l.size \in Nat /\ Offset(l) \in 0..(BlockSize - 1)
    BY LineNumbers
  <2>2. QED
    BY <2>1, SizeTypes DEF Divided
<1>2. /\ q \in Nat /\ o = q * sector_size + r /\ r \in 0..(sector_size - 1)
      /\ m \in Nat /\ n = m * sector_size + u /\ u \in 0..(sector_size - 1)
      /\ q \in Sector
  BY <1>1, SizeTypes, DivisionParts, LastSector
<1>3. WholeSectors(l) = q..(q + k - 1)
  BY DEF WholeSectors, SectorRun
<1>4. Aligned(l) <=> (u = 0 /\ r = 0) \/ r + n <= sector_size
  BY OffsetInSector DEF Aligned
<1> HIDE DEF o, n, q, r, m, u
<1>5. n >= sector_size => m > 0
  <2>1. m = 0 => m * sector_size = 0
    BY SizeTypes
  <2>2. QED
    BY <1>2, <2>1, SizeTypes
<1>6. /\ k \in Nat /\ k > 0
      /\ n < sector_size => k = 1
      /\ n >= sector_size => k = m
  BY <1>1, <1>2, <1>5, SizeTypes
<1>7. (q + m) * sector_size = q * sector_size + m * sector_size /\ (q + m) * sector_size \in Nat
      /\ q * sector_size \in Nat /\ m * sector_size \in Nat
  BY <1>2, SizeTypes
<1>8. n >= sector_size => q + m <= Sectors
  <2>1. ASSUME Sectors + 1 <= q + m PROVE FALSE
    <3>1. (Sectors + 1) * sector_size <= (q + m) * sector_size
      BY <1>2, <2>1, SectorCount, SizeTypes, ProductKeepsOrder
    <3>2. (Sectors + 1) * sector_size = Sectors * sector_size + sector_size
      BY SectorCount, SizeTypes
    <3>3. QED
      BY <1>1, <1>2, <1>7, <3>1, <3>2, SectorCount, SizeTypes
  <2>2. QED
    BY <1>2, <2>1, SectorCount
<1>9. WholeSectors(l) \subseteq Sector
  <2>1. q + k <= Sectors
    <3>1. q < Sectors
      BY <1>2, SectorCount
    <3>2. CASE n < sector_size
      BY <1>2, <1>6, <3>1, <3>2, SectorCount
    <3>3. CASE n >= sector_size
      BY <1>6, <1>8, <3>3
    <3>4. QED
      BY <1>1, <3>2, <3>3, SizeTypes
  <2>2. QED
    BY <1>2, <1>3, <1>6, <2>1, SectorCount
<1>10. ASSUME Aligned(l), NEW s \in Touched(l, BlockOf(l))
       PROVE  s \in WholeSectors(l)
  <2>1. PICK x \in o..(BlockSize - 1) : x < o + n /\ s = x \div sector_size
    BY BytesTouched DEF o, n
  <2>2. x \in Nat /\ o <= x /\ s \in Nat /\ q <= s
    BY <1>1, <2>1, SizeTypes, DivisionOrder DEF q
  <2>3. CASE r + n <= sector_size
    <3>1. x = q * sector_size + (x - q * sector_size) /\ x - q * sector_size \in 0..(sector_size - 1)
      BY <1>1, <1>2, <1>7, <2>1, <2>2, <2>3, SizeTypes
    <3>2. s = q
      BY <1>2, <2>1, <2>2, <3>1, SizeTypes, DivisionIs
    <3>3. QED
      BY <1>2, <1>3, <1>6, <3>2
  <2>4. CASE u = 0 /\ r = 0
    <3>1. x < (q + m) * sector_size
      BY <1>1, <1>2, <1>7, <2>1, <2>2, <2>4
    <3>2. s < q + m
      <4>1. x = s * sector_size + (x % sector_size) /\ x % sector_size \in 0..(sector_size - 1)
        BY <2>1, <2>2, SizeTypes, DivisionParts
      <4>2. ASSUME q + m <= s PROVE FALSE
        <5>1. (q + m) * sector_size <= s * sector_size /\ s * sector_size \in Nat
          BY <1>2, <2>2, <4>2, SizeTypes, ProductKeepsOrder
        <5>2. s * sector_size <= x
          BY <2>2, <4>1, <5>1, SizeTypes
        <5>3. QED
          BY <1>7, <2>2, <3>1, <5>1, <5>2
      <4>3. QED
        BY <1>2, <2>2, <4>2
    <3>3. m <= k
      <4>1. CASE n < sector_size
        <5>1. m = 0
          BY <1>1, <1>2, <4>1, SizeTypes, DivisionIs
        <5>2. QED
          BY <1>6, <5>1
      <4>2. CASE n >= sector_size
        BY <1>2, <1>6, <4>2
      <4>3. QED
        BY <1>1, <4>1, <4>2, SizeTypes
    <3>4. QED
      BY <1>2, <1>3, <1>6, <2>2, <3>2, <3>3
  <2>5. QED
    BY <1>4, <1>10, <2>3, <2>4
<1>11. QED
  BY <1>9, <1>10

\* Induction over the natural numbers, for a set.
LEMMA Induction ==
  ASSUME NEW S \in SUBSET Nat, 0 \in S, \A n \in S : n + 1 \in S
  PROVE  S = Nat
<1> SUFFICES ASSUME Nat \ S # {}
             PROVE  FALSE
  OBVIOUS
<1> DEFINE Upto == {0..n : n \in Nat \ S}
           R == StrictSubsetOrdering(Nat)
<1>1. IsWellFoundedOn(R, FiniteSubsetsOf(Nat))
  BY FS_StrictSubsetOrderingWellFounded
<1>2. Upto # {} /\ Upto \subseteq FiniteSubsetsOf(Nat)
  <2>1. \A n \in Nat \ S : n \in Int /\ 0..n \in SUBSET Nat /\ IsFiniteSet(0..n)
    BY FS_Interval
  <2>2. QED
    BY <2>1 DEF FiniteSubsetsOf
<1> HIDE DEF R
<1>3. PICK n \in Nat \ S : \A m \in Nat \ S : <<0..m, 0..n>> \notin R
  <2>1. \E x \in Upto : \A y \in Upto : ~(<<y, x>> \in R)
    BY <1>1, <1>2, WFMin
  <2>2. QED
    BY <2>1
<1>4. n # 0 /\ n - 1 \in Nat \ S
  BY <1>3
<1>5. 0..(n - 1) \subseteq 0..n /\ n \in 0..n /\ n \notin 0..(n - 1)
      /\ 0..(n - 1) \subseteq Nat /\ 0..n \subseteq Nat
  BY <1>4
<1>6. <<0..(n - 1), 0..n>> \in R
  BY <1>5 DEF R, StrictSubsetOrdering
<1>7. QED
  BY <1>3, <1>4, <1>6

-----------------------------------------------------------------------------
(***************************************************************************)
(* The requests read from the lines (FlattenSeq of SequencesExt).          *)
(***************************************************************************)
FlatTo(f, s, n) == f = [j \in 1..n |-> IF j = 1 THEN s[j] ELSE f[j - 1] \o s[j]]

LEMMA FlatStep ==
  ASSUME NEW f, NEW s, NEW n, FlatTo(f, s, n), NEW j \in 1..n
  PROVE  f[j] = IF j = 1 THEN s[j] ELSE f[j - 1] \o s[j]
BY DEF FlatTo

\* Its recursive function exists ...
LEMMA FlatExists ==
  ASSUME NEW s, NEW n \in Nat
  PROVE  \E f : FlatTo(f, s, n)
<1> DEFINE Good == {m \in Nat : \E f : FlatTo(f, s, m)}
<1>1. 0 \in Good
  <2>1. FlatTo([j \in 1..0 |-> 0], s, 0)
    <3>1. 1..0 = {}
      OBVIOUS
    <3>2. QED
      BY <3>1 DEF FlatTo
  <2>2. QED
    BY <2>1
<1>2. ASSUME NEW m \in Good
      PROVE  m + 1 \in Good
  <2>1. PICK g : FlatTo(g, s, m)
    OBVIOUS
  <2>2. m \in Nat
    OBVIOUS
  <2> DEFINE last == IF m = 0 THEN s[m + 1] ELSE g[m] \o s[m + 1]
             h == [j \in 1..(m + 1) |-> IF j = m + 1 THEN last ELSE g[j]]
  <2>3. ASSUME NEW j \in 1..(m + 1)
        PROVE  h[j] = IF j = 1 THEN s[j] ELSE h[j - 1] \o s[j]
    <3>1. CASE j = m + 1
      <4>1. h[j] = last /\ (j = 1 <=> m = 0) /\ j - 1 = m
        BY <2>2, <3>1
      <4>2. m # 0 => h[m] = g[m]
        BY <2>2
      <4>3. QED
        BY <3>1, <4>1, <4>2
    <3>2. CASE j # m + 1
      <4>1. j \in 1..m /\ (j # 1 => j - 1 \in 1..(m + 1) /\ j - 1 # m + 1)
        BY <2>2, <3>2
      <4>2. g[j] = IF j = 1 THEN s[j] ELSE g[j - 1] \o s[j]
        BY <2>1, <4>1, FlatStep
      <4>3. QED
        BY <3>2, <4>1, <4>2
    <3>3. QED
      BY <3>1, <3>2
  <2>4. FlatTo(h, s, m + 1)
    <3>1. h = [j \in 1..(m + 1) |-> h[j]]
      OBVIOUS
    <3> HIDE DEF h
    <3>2. QED
      BY <2>3, <3>1 DEF FlatTo
  <2>5. m + 1 \in Nat
    BY <2>2
  <2>6. QED
    BY <2>4, <2>5
<1>3. Good = Nat
  <2>1. Good \in SUBSET Nat
    OBVIOUS
  <2> HIDE DEF Good
  <2>2. QED
    BY <1>1, <1>2, <2>1, Induction
<1>4. QED
  BY <1>3

\* ... and its values are sequences of what the sequences hold.
LEMMA FlatType ==
  ASSUME NEW T, NEW s \in Seq(Seq(T)), NEW f, FlatTo(f, s, Len(s)), NEW n \in 1..Len(s)
  PROVE  f[n] \in Seq(T)
<1> DEFINE Good == {m \in Nat : m + 1 \in 1..Len(s) => f[m + 1] \in Seq(T)}
<1>1. Len(s) \in Nat
  BY LenProperties
<1>2. \A m \in 1..Len(s) : s[m] \in Seq(T)
  BY ElementOfSeq
<1>3. 0 \in Good
  <2>1. ASSUME 0 + 1 \in 1..Len(s) PROVE f[0 + 1] \in Seq(T)
    <3>1. f[1] = s[1] /\ 1 \in 1..Len(s)
      BY <2>1, FlatStep
    <3>2. QED
      BY <1>2, <3>1
  <2>2. QED
    BY <2>1
<1>4. ASSUME NEW m \in Good
      PROVE  m + 1 \in Good
  <2>1. m \in Nat
    OBVIOUS
  <2>2. ASSUME m + 1 + 1 \in 1..Len(s)
        PROVE  f[m + 1 + 1] \in Seq(T)
    <3> DEFINE k == m + 1 + 1
    <3>1. m + 1 \in 1..Len(s) /\ k # 1 /\ k - 1 = m + 1 /\ k \in 1..Len(s)
      BY <1>1, <2>1, <2>2
    <3>2. f[m + 1] \in Seq(T) /\ s[k] \in Seq(T)
      BY <1>2, <3>1
    <3> HIDE DEF k
    <3>3. f[k] = f[m + 1] \o s[k]
      <4>1. \A j \in 1..Len(s) : f[j] = IF j = 1 THEN s[j] ELSE f[j - 1] \o s[j]
        BY FlatStep
      <4>2. f[k] = f[k - 1] \o s[k]
        BY <3>1, <4>1
      <4>3. QED
        BY <3>1, <4>2
    <3>4. QED
      BY <3>2, <3>3, ConcatProperties DEF k
  <2>3. QED
    BY <2>1, <2>2
<1>5. Good = Nat
  <2>1. Good \in SUBSET Nat
    OBVIOUS
  <2> HIDE DEF Good
  <2>2. QED
    BY <1>3, <1>4, <2>1, Induction
<1>6. n - 1 \in Good /\ (n - 1) + 1 = n
  <2>1. n - 1 \in Nat /\ (n - 1) + 1 = n
    BY <1>1
  <2>2. QED
    BY <1>5, <2>1
<1>7. QED
  BY <1>6

LEMMA FlattenType ==
  ASSUME NEW T, NEW s \in Seq(Seq(T))
  PROVE  FlattenSeq(s) \in Seq(T)
<1>1. Len(s) \in Nat
  BY LenProperties
<1>2. CASE Len(s) = 0
  <2>1. s = << >>
    BY <1>2, EmptySeq
  <2>2. FlattenSeq(s) = << >>
    BY <1>2, <2>1 DEF FlattenSeq
  <2>3. QED
    BY <2>2, EmptySeq
<1>3. CASE Len(s) # 0
  <2> DEFINE F == CHOOSE f : FlatTo(f, s, Len(s))
  <2>1. FlattenSeq(s) = F[Len(s)]
    BY <1>3 DEF FlattenSeq, FlatTo
  <2>2. FlatTo(F, s, Len(s))
    BY <1>1, FlatExists
  <2> HIDE DEF F
  <2>3. Len(s) \in 1..Len(s)
    BY <1>1, <1>3
  <2>4. QED
    BY <2>1, <2>2, <2>3, FlatType
<1>4. QED
  BY <1>2, <1>3

\* A request of the trace, with what AccessCoversLine says of it
GoodPiece == {p \in Piece : p.sectors \subseteq Sector /\ Covers(p)}

LEMMA LineIs ==
  ASSUME NEW n \in DOMAIN Lines
  PROVE  Lines[n] \in Line
<1>1. Lines \in Seq(Line)
  BY LineAssumption DEF Line
<1> HIDE DEF Line
<1>2. QED
  BY <1>1, ElementOfSeq, LenProperties

LEMMA PiecesOfLine ==
  ASSUME NEW n \in DOMAIN Lines
  PROVE  PiecesOf(n) \in Seq(GoodPiece)
<1> DEFINE l == Lines[n]
           piece(bubbles, block, sectors, divided, first) ==
             [line |-> n, bubble_cnt |-> bubbles, type |-> l.type, block |-> block, divided |-> divided,
              first |-> first, sectors |-> IF l.type \in SectorTypes THEN sectors ELSE {}]
<1>1. l \in Line
  BY LineIs
<1>2. l.bubbles \in Nat /\ 1 \in Nat /\ l.type \in {"READ", "WRITE"}
      /\ BlockOf(l) \in Nat /\ BlockOf(l) + 1 \in Nat
  BY <1>1, LineNumbers
<1> HIDE DEF l
<1>3. ASSUME NEW bubbles \in Nat, NEW block \in Nat, NEW sectors, NEW divided \in BOOLEAN,
             NEW first \in BOOLEAN, sectors \subseteq Sector,
             Aligned(l) \/ Divided(l) => Touched(l, block) \subseteq sectors
      PROVE  piece(bubbles, block, sectors, divided, first) \in GoodPiece
  <2> DEFINE p == piece(bubbles, block, sectors, divided, first)
  <2>1. p.sectors = (IF l.type \in SectorTypes THEN sectors ELSE {}) /\ p.type = l.type
        /\ p.line = n /\ p.block = block
    OBVIOUS
  <2>2. p.sectors \subseteq Sector /\ p.sectors \in SUBSET Nat
    BY <1>3, <2>1, SectorCount
  <2>3. p \in Piece
    BY <1>2, <1>3, <2>2 DEF Piece
  <2> HIDE DEF p
  <2>4. Covers(p)
    BY <1>3, <2>1 DEF Covers, l
  <2>5. QED
    BY <2>2, <2>3, <2>4 DEF GoodPiece, p
<1>4. CASE Ignored(l)
  <2>1. PiecesOf(n) = << >>
    BY <1>4 DEF PiecesOf, l
  <2>2. QED
    BY <2>1, EmptySeq
<1>5. CASE ~Ignored(l) /\ Divided(l)
  <2> DEFINE p == piece(l.bubbles, BlockOf(l), FirstSectors(l), TRUE, TRUE)
             q == piece(1, BlockOf(l) + 1, SecondSectors(l), TRUE, FALSE)
  <2>1. PiecesOf(n) = <<p, q>>
    BY <1>5 DEF PiecesOf, l
  <2>2. p \in GoodPiece
    BY <1>1, <1>2, <1>3, FirstCovers
  <2>3. q \in GoodPiece
    BY <1>1, <1>2, <1>3, <1>5, SecondCovers
  <2> HIDE DEF p, q
  <2>4. QED
    BY <2>1, <2>2, <2>3
<1>6. CASE ~Ignored(l) /\ ~Divided(l)
  <2> DEFINE p == piece(l.bubbles, BlockOf(l), WholeSectors(l), FALSE, TRUE)
  <2>1. PiecesOf(n) = <<p>>
    BY <1>6 DEF PiecesOf, l
  <2>2. p \in GoodPiece
    BY <1>1, <1>2, <1>3, <1>6, WholeCovers
  <2> HIDE DEF p
  <2>3. QED
    BY <2>1, <2>2
<1>7. QED
  BY <1>4, <1>5, <1>6

\* Every request of the trace has only sectors of a block, so that the assertion
\* `sector_bits <= 255` (Processor.cpp) holds, and all that its line touches.
LEMMA PiecesType == Pieces \in Seq(GoodPiece)
<1> DEFINE s == [n \in 1..Len(Lines) |-> PiecesOf(n)]
<1>1. Len(Lines) \in Nat /\ DOMAIN Lines = 1..Len(Lines)
  BY LineAssumption, LenProperties
<1>2. \A n \in 1..Len(Lines) : PiecesOf(n) \in Seq(GoodPiece)
  BY <1>1, PiecesOfLine
<1>3. s \in Seq(Seq(GoodPiece))
  BY <1>1, <1>2
<1> HIDE DEF s
<1>4. FlattenSeq(s) \in Seq(GoodPiece)
  BY <1>3, FlattenType
<1>5. QED
  BY <1>4 DEF Pieces, s

-----------------------------------------------------------------------------
\* Places of a ring, which are counted modulo depth.
LEMMA DepthType == depth \in Nat /\ depth > 0 /\ ipc \in Nat /\ ipc > 0
BY WindowAssumption

LEMMA ModSmall ==
  ASSUME NEW a \in Nat, a < depth
  PROVE  a % depth = a
BY DepthType

LEMMA ModLarge ==
  ASSUME NEW a \in Nat, depth <= a, a < 2 * depth
  PROVE  a % depth = a - depth
BY DepthType

LEMMA ModPlace ==
  ASSUME NEW a \in Nat
  PROVE  a % depth \in Place
BY DepthType DEF Place

\* Places that follow each other: m places after the n-th, and never one twice.
LEMMA PlacesFollow ==
  ASSUME NEW tail \in Place, NEW n \in 0..depth, NEW m \in 0..depth, n + m <= depth
  PROVE  (((tail + n) % depth) + m) % depth = (tail + n + m) % depth
<1>1. tail \in Nat /\ tail < depth /\ n \in Nat /\ m \in Nat /\ depth \in Nat /\ n <= depth
  BY DepthType DEF Place
<1>2. CASE tail + n < depth
  BY <1>1, <1>2, ModSmall
<1>3. CASE tail + n >= depth
  <2>1. (tail + n) % depth = tail + n - depth
    BY <1>1, <1>3, ModLarge
  <2>2. CASE n + m < depth \/ tail + n + m < 2 * depth
    <3>1. (tail + n + m) % depth = tail + n + m - depth
      BY <1>1, <1>3, <2>2, ModLarge
    <3>2. tail + n - depth + m \in Nat /\ tail + n - depth + m < depth
      BY <1>1, <1>3, <2>2
    <3>3. QED
      BY <1>1, <2>1, <3>1, <3>2, ModSmall
  <2>3. QED
    BY <1>1, <2>2
<1>4. QED
  BY <1>1, <1>2, <1>3

LEMMA PlacesDiffer ==
  ASSUME NEW tail \in Place, NEW n \in 0..(depth - 1), NEW m \in 0..(depth - 1), n # m
  PROVE  (tail + n) % depth # (tail + m) % depth
<1>1. tail \in Nat /\ tail < depth /\ n \in Nat /\ m \in Nat /\ depth \in Nat
      /\ n < depth /\ m < depth
  BY DepthType DEF Place
<1>2. \A a \in {n, m} : (tail + a) % depth = IF tail + a < depth THEN tail + a ELSE tail + a - depth
  BY <1>1, ModSmall, ModLarge
<1>3. QED
  BY <1>1, <1>2

-----------------------------------------------------------------------------
(***************************************************************************)
(* The operators of the window, seen from its oldest instruction on.       *)
(***************************************************************************)
\* The m-th oldest instruction, counted from 0
Ready(w, m) == w.ready_list[PlaceOf(w, m)]
Reads(w, m) == w.addr_list[PlaceOf(w, m)]
Left(w, m)  == w.sector_list[PlaceOf(w, m)]

\* The m-th oldest of v is the j-th oldest of w.
Same(v, m, w, j) == Ready(v, m) = Ready(w, j) /\ Reads(v, m) = Reads(w, j) /\ Left(v, m) = Left(w, j)

Bubble(v, m) == Ready(v, m) /\ Left(v, m) = {}

LEMMA WindowTypes ==
  ASSUME NEW w \in WindowState
  PROVE  /\ w.tail \in Place /\ w.head \in Place /\ w.load \in 0..depth
         /\ w.tail \in Nat /\ w.tail < depth
         /\ \A m \in Nat : PlaceOf(w, m) \in Place
         /\ w.ready_list \in [Place -> BOOLEAN] /\ w.addr_list \in [Place -> Block \cup {NoBlock}]
         /\ w.sector_list \in [Place -> SUBSET Nat]
BY DepthType, ModPlace DEF WindowState, Place, PlaceOf

LEMMA BubblesInserted ==
  ASSUME NEW w \in WindowState, RingClosed(w), NEW n \in Nat, w.load + n <= depth
  PROVE  LET v == insertBubbles(w, n)
         IN  /\ v \in WindowState /\ RingClosed(v) /\ v.load = w.load + n
             /\ \A m \in 0..(w.load - 1) : Same(v, m, w, m)
             /\ \A m \in w.load..(w.load + n - 1) : Bubble(v, m)
<1> DEFINE v == insertBubbles(w, n)
           new == {(w.head + j) % depth : j \in 0..(n - 1)}
<1>0. /\ w.tail \in Place /\ w.head \in Place /\ w.load \in 0..depth /\ depth \in Nat
      /\ w.tail \in Nat /\ w.tail < depth /\ w.load \in Nat
      /\ w.head = (w.tail + w.load) % depth /\ n \in 0..depth
  BY WindowTypes, DepthType DEF RingClosed
<1>1. /\ v.ready_list = [p \in Place |-> p \in new \/ w.ready_list[p]]
      /\ v.addr_list = [p \in Place |-> IF p \in new THEN NoBlock ELSE w.addr_list[p]]
      /\ v.sector_list = [p \in Place |-> IF p \in new THEN {} ELSE w.sector_list[p]]
      /\ v.head = (w.head + n) % depth /\ v.tail = w.tail /\ v.load = w.load + n
  BY DEF insertBubbles, WindowState
<1>2. \A j \in 0..(n - 1) : (w.head + j) % depth = (w.tail + w.load + j) % depth
  BY <1>0, PlacesFollow
<1>3. v \in WindowState
  <2>1. v.head \in Place /\ v.tail \in Place /\ v.load \in 0..depth
    <3>1. w.head + n \in Nat
      BY <1>0 DEF Place
    <3>2. v.head \in Place
      BY <1>1, <3>1, ModPlace
    <3>3. QED
      BY <1>0, <1>1, <3>2
  <2>2. /\ v.ready_list \in [Place -> BOOLEAN] /\ v.addr_list \in [Place -> Block \cup {NoBlock}]
        /\ v.sector_list \in [Place -> SUBSET Nat]
    BY <1>1, WindowTypes
  <2>3. QED
    BY <2>1, <2>2 DEF insertBubbles, WindowState
<1>4. RingClosed(v)
  BY <1>0, <1>1, PlacesFollow DEF RingClosed
<1>5. \A m \in Nat : PlaceOf(v, m) = PlaceOf(w, m) /\ PlaceOf(w, m) \in Place
  BY <1>1, WindowTypes DEF PlaceOf
<1>6. ASSUME NEW m \in 0..(w.load - 1)
      PROVE  Same(v, m, w, m)
  <2>1. PlaceOf(w, m) \notin new
    <3> SUFFICES ASSUME NEW j \in 0..(n - 1), PlaceOf(w, m) = (w.head + j) % depth
                 PROVE  FALSE
      OBVIOUS
    <3>1. (w.tail + m) % depth = (w.tail + (w.load + j)) % depth
      BY <1>0, <1>2 DEF PlaceOf
    <3>2. m \in 0..(depth - 1) /\ w.load + j \in 0..(depth - 1) /\ m # w.load + j
      BY <1>0
    <3>3. QED
      BY <1>0, <3>1, <3>2, PlacesDiffer
  <2>2. QED
    BY <1>1, <1>5, <2>1, WindowTypes DEF Same, Ready, Reads, Left
<1>7. ASSUME NEW m \in w.load..(w.load + n - 1)
      PROVE  Bubble(v, m)
  <2>1. m - w.load \in 0..(n - 1) /\ m \in Nat /\ w.load + (m - w.load) = m
    BY <1>0
  <2>2. PlaceOf(w, m) = (w.head + (m - w.load)) % depth
    BY <1>0, <1>2, <2>1 DEF PlaceOf
  <2>3. PlaceOf(w, m) \in new
    BY <2>1, <2>2
  <2>4. QED
    BY <1>1, <1>5, <2>1, <2>3 DEF Bubble, Ready, Left
<1>8. QED
  BY <1>1, <1>3, <1>4, <1>6, <1>7

LEMMA ReadInserted ==
  ASSUME NEW w \in WindowState, RingClosed(w), w.load < depth,
         NEW block \in Block, NEW sectors \in SUBSET Nat
  PROVE  LET v == insertRead(w, block, sectors)
         IN  /\ v \in WindowState /\ RingClosed(v) /\ v.load = w.load + 1
             /\ \A m \in 0..(w.load - 1) : Same(v, m, w, m)
             /\ ~Ready(v, w.load) /\ Reads(v, w.load) = block /\ Left(v, w.load) = sectors
<1> DEFINE v == insertRead(w, block, sectors)
<1>0. /\ w.tail \in Place /\ w.head \in Place /\ w.load \in 0..depth /\ depth \in Nat
      /\ w.tail \in Nat /\ w.tail < depth /\ w.load \in Nat
      /\ w.head = (w.tail + w.load) % depth /\ w.load \in 0..(depth - 1)
  BY WindowTypes, DepthType DEF RingClosed
<1>1. /\ v.ready_list = [w.ready_list EXCEPT ![w.head] = FALSE]
      /\ v.addr_list = [w.addr_list EXCEPT ![w.head] = block]
      /\ v.sector_list = [w.sector_list EXCEPT ![w.head] = sectors]
      /\ v.head = (w.head + 1) % depth /\ v.tail = w.tail /\ v.load = w.load + 1
  BY DEF insertRead, WindowState
<1>2. v \in WindowState
  <2>1. v.head \in Place
    <3>1. w.head + 1 \in Nat
      BY <1>0 DEF Place
    <3>2. QED
      BY <1>1, <3>1, ModPlace
  <2>2. /\ v.ready_list \in [Place -> BOOLEAN] /\ v.addr_list \in [Place -> Block \cup {NoBlock}]
        /\ v.sector_list \in [Place -> SUBSET Nat]
    BY <1>0, <1>1, WindowTypes
  <2>3. v.tail \in Place /\ v.load \in 0..depth
    BY <1>0, <1>1
  <2>4. QED
    BY <2>1, <2>2, <2>3 DEF insertRead, WindowState
<1>3. RingClosed(v)
  <2>1. 1 \in 0..depth /\ w.load + 1 <= depth
    BY <1>0
  <2>2. QED
    BY <1>0, <1>1, <2>1, PlacesFollow DEF RingClosed
<1>4. \A m \in Nat : PlaceOf(v, m) = PlaceOf(w, m) /\ PlaceOf(w, m) \in Place
  BY <1>1, WindowTypes DEF PlaceOf
<1>5. ASSUME NEW m \in 0..(w.load - 1)
      PROVE  Same(v, m, w, m)
  <2>1. m \in 0..(depth - 1) /\ m # w.load /\ m \in Nat
    BY <1>0
  <2>2. PlaceOf(w, m) # w.head
    BY <1>0, <2>1, PlacesDiffer DEF PlaceOf
  <2>3. PlaceOf(v, m) = PlaceOf(w, m) /\ PlaceOf(w, m) \in Place
    BY <1>4, <2>1
  <2>4. /\ v.ready_list[PlaceOf(w, m)] = w.ready_list[PlaceOf(w, m)]
        /\ v.addr_list[PlaceOf(w, m)] = w.addr_list[PlaceOf(w, m)]
        /\ v.sector_list[PlaceOf(w, m)] = w.sector_list[PlaceOf(w, m)]
    BY <1>1, <2>2, <2>3, WindowTypes
  <2>5. QED
    BY <2>3, <2>4 DEF Same, Ready, Reads, Left
<1>6. ~Ready(v, w.load) /\ Reads(v, w.load) = block /\ Left(v, w.load) = sectors
  <2>1. PlaceOf(v, w.load) = w.head
    BY <1>0, <1>1 DEF PlaceOf
  <2>2. /\ v.ready_list[w.head] = FALSE /\ v.addr_list[w.head] = block
        /\ v.sector_list[w.head] = sectors
    BY <1>0, <1>1, WindowTypes
  <2>3. QED
    BY <2>1, <2>2 DEF Ready, Reads, Left
<1>7. QED
  BY <1>1, <1>2, <1>3, <1>5, <1>6

LEMMA Retired ==
  ASSUME NEW w \in WindowState, RingClosed(w), NEW n \in Nat, n <= w.load
  PROVE  LET v == retire(w, n)
         IN  /\ v \in WindowState /\ RingClosed(v) /\ v.load = w.load - n
             /\ \A m \in 0..(w.load - n - 1) : Same(v, m, w, n + m)
<1> DEFINE v == retire(w, n)
<1>0. /\ w.tail \in Place /\ w.head \in Place /\ w.load \in 0..depth /\ depth \in Nat
      /\ w.tail \in Nat /\ w.load \in Nat /\ n \in 0..depth /\ w.load - n \in 0..depth
      /\ w.head = (w.tail + w.load) % depth
  BY WindowTypes, DepthType DEF RingClosed
<1>1. /\ v.ready_list = w.ready_list /\ v.addr_list = w.addr_list /\ v.sector_list = w.sector_list
      /\ v.head = w.head /\ v.tail = (w.tail + n) % depth /\ v.load = w.load - n
  BY DEF retire, WindowState
<1>2. v \in WindowState
  <2>1. v.tail \in Place
    BY <1>0, <1>1, ModPlace
  <2>2. QED
    BY <1>0, <1>1, <2>1, WindowTypes DEF retire, WindowState
<1>3. ASSUME NEW m \in 0..(w.load - n)
      PROVE  PlaceOf(v, m) = PlaceOf(w, n + m)
  <2>1. m \in 0..depth /\ n + m <= depth /\ w.tail + n + m = w.tail + (n + m)
    BY <1>0
  <2>2. QED
    BY <1>0, <1>1, <2>1, PlacesFollow DEF PlaceOf
<1>4. RingClosed(v)
  <2>1. w.load - n \in 0..(w.load - n) /\ n + (w.load - n) = w.load
    BY <1>0
  <2>2. PlaceOf(v, w.load - n) = PlaceOf(w, w.load)
    BY <1>3, <2>1
  <2>3. QED
    BY <1>0, <1>1, <2>2 DEF RingClosed, PlaceOf
<1>5. \A m \in 0..(w.load - n - 1) : Same(v, m, w, n + m)
  BY <1>0, <1>1, <1>3 DEF Same, Ready, Reads, Left
<1>6. QED
  BY <1>1, <1>2, <1>4, <1>5

\* An answer finds an instruction by its block.
LEMMA Woken ==
  ASSUME NEW w \in WindowState, RingClosed(w), NEW b \in Block, NEW parts
  PROVE  LET v == set_ready(w, b, parts)
         IN  /\ v \in WindowState /\ RingClosed(v) /\ v.load = w.load
             /\ \A m \in 0..(w.load - 1) :
                  IF Reads(w, m) = b
                  THEN /\ Ready(v, m) <=> Left(w, m) \ parts = {} \/ Ready(w, m)
                       /\ Reads(v, m) = b /\ Left(v, m) = Left(w, m) \ parts
                  ELSE Same(v, m, w, m)
<1> DEFINE v == set_ready(w, b, parts)
           mine == {p \in Live(w) : w.addr_list[p] = b}
           left(p) == w.sector_list[p] \ parts
<1>1. /\ v.ready_list = [p \in Place |-> (p \in mine /\ left(p) = {}) \/ w.ready_list[p]]
      /\ v.sector_list = [p \in Place |-> IF p \in mine THEN left(p) ELSE w.sector_list[p]]
      /\ v.addr_list = w.addr_list /\ v.head = w.head /\ v.tail = w.tail /\ v.load = w.load
  BY DEF set_ready, WindowState
<1>2. v \in WindowState
  <2>1. v.sector_list \in [Place -> SUBSET Nat]
    BY <1>1, WindowTypes
  <2>2. v.ready_list \in [Place -> BOOLEAN]
    BY <1>1, WindowTypes
  <2>3. QED
    BY <1>1, <2>1, <2>2, WindowTypes DEF set_ready, WindowState
<1>3. RingClosed(v)
  BY <1>1 DEF RingClosed
<1>4. ASSUME NEW m \in 0..(w.load - 1)
      PROVE  IF Reads(w, m) = b
             THEN /\ Ready(v, m) <=> Left(w, m) \ parts = {} \/ Ready(w, m)
                  /\ Reads(v, m) = b /\ Left(v, m) = Left(w, m) \ parts
             ELSE Same(v, m, w, m)
  <2>1. m \in Nat /\ PlaceOf(v, m) = PlaceOf(w, m) /\ PlaceOf(w, m) \in Place
    BY <1>1, WindowTypes DEF PlaceOf
  <2>2. PlaceOf(w, m) \in Live(w)
    BY DEF Live
  <2>3. PlaceOf(w, m) \in mine <=> w.addr_list[PlaceOf(w, m)] = b
    BY <2>2
  <2>4. CASE w.addr_list[PlaceOf(w, m)] = b
    <3>1. /\ v.sector_list[PlaceOf(w, m)] = w.sector_list[PlaceOf(w, m)] \ parts
          /\ v.addr_list[PlaceOf(w, m)] = b
      BY <1>1, <2>1, <2>3, <2>4
    <3>2. v.ready_list[PlaceOf(w, m)]
            <=> w.sector_list[PlaceOf(w, m)] \ parts = {} \/ w.ready_list[PlaceOf(w, m)]
      BY <1>1, <2>1, <2>3, <2>4
    <3>3. QED
      BY <2>1, <2>4, <3>1, <3>2 DEF Ready, Reads, Left
  <2>5. CASE w.addr_list[PlaceOf(w, m)] # b
    <3>1. /\ v.sector_list[PlaceOf(w, m)] = w.sector_list[PlaceOf(w, m)]
          /\ v.addr_list[PlaceOf(w, m)] = w.addr_list[PlaceOf(w, m)]
      BY <1>1, <2>1, <2>3, <2>5
    <3>2. v.ready_list[PlaceOf(w, m)] = w.ready_list[PlaceOf(w, m)]
      BY <1>1, <2>1, <2>3, <2>5, WindowTypes
    <3>3. QED
      BY <2>1, <2>5, <3>1, <3>2 DEF Same, Ready, Reads, Left
  <2>6. QED
    BY <2>4, <2>5
<1>5. QED
  BY <1>1, <1>2, <1>3, <1>4

-----------------------------------------------------------------------------
(***************************************************************************)
(* The trace: taking a request keeps the buffer within its size.           *)
(***************************************************************************)
LEMMA LineTypes ==
  /\ pretrace_buffer_size \in Nat /\ pretrace_buffer_size > 0
  /\ Sector \in SUBSET Nat
<1>1. {BlockSize, sector_size, pretrace_buffer_size} \subseteq Nat \ {0}
  BY LineAssumption
<1>2. BlockSize \div sector_size \in Int
  BY <1>1
<1>3. QED
  BY <1>1, <1>2 DEF Sector

LEMMA PieceTypes ==
  /\ Len(Pieces) \in Nat /\ Len(Pieces) > 0
  /\ \A n \in 1..Len(Pieces) : Pieces[n] \in GoodPiece /\ Pieces[n].block \in TraceBlock
<1>1. Pieces \in Seq(GoodPiece) /\ Pieces # << >>
  BY PieceAssumption, PiecesType
<1>2. Len(Pieces) \in Nat \ {0} /\ DOMAIN Pieces = 1..Len(Pieces)
  BY <1>1, EmptySeq, LenProperties
<1>3. \A n \in 1..Len(Pieces) : Pieces[n] \in GoodPiece
  BY <1>1, ElementOfSeq
<1>4. QED
  BY <1>2, <1>3 DEF TraceBlock

LEMMA PieceAtTypes ==
  ASSUME NEW p \in Nat, NEW n \in Nat, n > 0
  PROVE  PieceAt(p, n) \in GoodPiece /\ PieceAt(p, n).block \in TraceBlock
<1>1. Len(Pieces) \in Nat /\ Len(Pieces) > 0 /\ p + n - 1 \in Nat
  BY PieceTypes
<1>2. ((p + n - 1) % Len(Pieces)) + 1 \in 1..Len(Pieces)
  BY <1>1
<1>3. QED
  BY <1>2, PieceTypes DEF PieceAt

LEMMA EntryType ==
  ASSUME NEW p \in GoodPiece, p.block \in TraceBlock, NEW d \in BOOLEAN
  PROVE  Entry(p, d) \in Access
<1> DEFINE e == Entry(p, d)
<1>1. p \in Piece /\ p.sectors \subseteq Sector /\ Covers(p)
  BY DEF GoodPiece
<1>2. /\ e.line = p.line /\ e.type = p.type /\ e.block = p.block
      /\ e.sectors \in {Sector, p.sectors} /\ e.sectors \subseteq Sector
  BY <1>1 DEF Entry
<1>3. e \in AccessRecord
  BY <1>1 DEF Entry, Piece, AccessRecord
<1> HIDE DEF e
<1>4. Touched(Lines[p.line], p.block) \subseteq Sector
  BY DEF Touched
<1>5. Covers(e)
  BY <1>1, <1>2, <1>4 DEF Covers
<1>6. QED
  BY <1>3, <1>5 DEF Access, e

LEMMA TraceTaken ==
  ASSUME NEW t \in TraceState, Len(t.pretrace_buffer) <= pretrace_buffer_size, NEW d \in BOOLEAN
  PROVE  LET next == get_unfiltered_request(t, d)
         IN  /\ next.access \in Access
             /\ next.trace \in TraceState
             /\ Len(next.trace.pretrace_buffer) <= pretrace_buffer_size
<1> DEFINE new == [n \in 1..NumRead(t) |-> Entry(PieceAt(t.read, n), d)]
           buffer == t.pretrace_buffer \o new
           front == buffer[1]
           later == Tail(buffer)
<1>1. /\ t.pretrace_buffer \in Seq(Access) /\ t.read \in Nat
      /\ Len(t.pretrace_buffer) \in Nat
  BY PieceTypes, LenProperties DEF TraceState
<1>2. /\ NumRead(t) \in Nat
      /\ NumRead(t) + Len(t.pretrace_buffer) \in {pretrace_buffer_size, pretrace_buffer_size + 1}
  <2>1. Wanted(t) \in Nat /\ Wanted(t) + Len(t.pretrace_buffer) = pretrace_buffer_size
    BY <1>1, LineTypes DEF Wanted
  <2>2. NumRead(t) \in {Wanted(t), Wanted(t) + 1}
    BY <2>1 DEF NumRead
  <2>3. QED
    BY <1>1, <2>1, <2>2
<1>3. new \in Seq(Access) /\ Len(new) = NumRead(t)
  <2>1. \A n \in 1..NumRead(t) : Entry(PieceAt(t.read, n), d) \in Access
    BY <1>1, <1>2, PieceAtTypes, EntryType
  <2>2. new \in [1..NumRead(t) -> Access]
    BY <2>1
  <2>3. QED
    BY <1>2, <2>2
<1>4. buffer \in Seq(Access) /\ Len(buffer) \in {pretrace_buffer_size, pretrace_buffer_size + 1}
  BY <1>1, <1>2, <1>3, ConcatProperties
<1> HIDE DEF new, buffer
<1>5. buffer # << >> /\ Len(buffer) > 0
  BY <1>4, LineTypes, EmptySeq
<1> HIDE DEF front, later
<1>6. /\ front \in Access /\ later \in Seq(Access) /\ Len(later) = Len(buffer) - 1
  <2>1. 1 \in 1..Len(buffer)
    BY <1>4, <1>5
  <2>2. QED
    BY <1>4, <1>5, <2>1, HeadTailProperties, ElementOfSeq DEF front, later
<1>7. Len(later) \in Nat /\ Len(later) <= pretrace_buffer_size
  <2>1. Len(later) \in Nat
    BY <1>6, LenProperties
  <2>2. QED
    BY <1>4, <1>6, <2>1, LineTypes
<1>8. [front EXCEPT !.sectors = @ \cup Lookahead(front, later)] \in Access
  <2> DEFINE more == Lookahead(front, later)
             a == [front EXCEPT !.sectors = front.sectors \cup more]
  <2>1. \A m \in 1..Len(later) : later[m].sectors \subseteq Sector
    <3> SUFFICES ASSUME NEW m \in 1..Len(later)
                 PROVE  later[m].sectors \subseteq Sector
      OBVIOUS
    <3>1. later[m] \in Access
      BY <1>6, ElementOfSeq
    <3>2. QED
      BY <3>1 DEF Access, AccessRecord
  <2>2. more \subseteq Sector
    BY <2>1 DEF Lookahead
  <2> HIDE DEF more
  <2>3. front \in AccessRecord /\ Covers(front)
    BY <1>6 DEF Access
  <2>4. /\ a \in AccessRecord /\ a.line = front.line /\ a.type = front.type
        /\ a.block = front.block /\ a.sectors = front.sectors \cup more
    BY <2>2, <2>3 DEF AccessRecord
  <2> HIDE DEF a
  <2>5. Covers(a)
    BY <2>3, <2>4 DEF Covers
  <2>6. a \in Access
    BY <2>4, <2>5 DEF Access
  <2>7. QED
    BY <2>6 DEF a, more
<1> DEFINE next == get_unfiltered_request(t, d)
           read == (t.read + NumRead(t)) % Len(Pieces)
<1>9. next.access = IF lookahead_predictor
                    THEN [front EXCEPT !.sectors = @ \cup Lookahead(front, later)] ELSE front
  BY DEF get_unfiltered_request, populate_pretrace_buffer, buffer, new, front, later
<1>10. next.trace = [read |-> read, pretrace_buffer |-> later]
  BY DEF get_unfiltered_request, populate_pretrace_buffer, buffer, new, front, later
<1>11. read \in 0..(Len(Pieces) - 1)
  BY <1>1, <1>2, PieceTypes
<1> HIDE DEF next, read
<1>12. next.trace \in TraceState /\ next.trace.pretrace_buffer = later
  BY <1>6, <1>10, <1>11 DEF TraceState
<1>13. next.access \in Access
  BY <1>6, <1>8, <1>9
<1>14. QED
  BY <1>7, <1>12, <1>13 DEF next

-----------------------------------------------------------------------------
(***************************************************************************)
(* The cycle of a core.                                                    *)
(***************************************************************************)
LEMMA CoreTypes ==
  ASSUME NEW c, CoreOK(c)
  PROVE  /\ c.trace \in TraceState /\ c.access \in Access /\ c.window \in WindowState
         /\ c.cpu_inst \in 0..InstBound /\ c.reached_limit \in BOOLEAN
         /\ Len(c.trace.pretrace_buffer) <= pretrace_buffer_size
         /\ RingClosed(c.window)
         /\ c.access.bubble_cnt \in Nat /\ c.access.block \in TraceBlock
         /\ c.access.sectors \in SUBSET Nat /\ c.access.type \in {"READ", "WRITE"}
<1>1. /\ c.trace \in TraceState /\ c.access \in Access /\ c.window \in WindowState
      /\ c.cpu_inst \in 0..InstBound /\ c.reached_limit \in BOOLEAN
      /\ Len(c.trace.pretrace_buffer) <= pretrace_buffer_size /\ RingClosed(c.window)
  BY DEF CoreOK, CoreState
<1>2. c.access \in AccessRecord
  BY <1>1 DEF Access
<1>3. QED
  BY <1>1, <1>2, LineTypes DEF AccessRecord

LEMMA BoundType == InstBound \in Nat
BY ProcessorAssumption

LEMMA PhysicalType ==
  ASSUME NEW k \in Core, NEW c, CoreOK(c)
  PROVE  Physical(k, c) \in Block
BY CoreTypes, ProcessorAssumption DEF Physical, TraceBlock

LEMMA RoomFits ==
  ASSUME NEW c, CoreOK(c)
  PROVE  /\ Room(c) \in 0..ipc /\ c.window.load + Room(c) <= depth
         /\ Bubbles(c) \in 0..Room(c) /\ Bubbles(c) <= c.access.bubble_cnt
<1>1. c.window.load \in 0..depth
  BY CoreTypes, WindowTypes
<1>2. Room(c) \in 0..ipc /\ c.window.load + Room(c) <= depth
  BY <1>1, DepthType DEF Room
<1>3. Bubbles(c) \in 0..Room(c) /\ Bubbles(c) <= c.access.bubble_cnt
  BY <1>2, CoreTypes, DepthType DEF Bubbles
<1>4. QED
  BY <1>2, <1>3

LEMMA Counted ==
  ASSUME NEW c, CoreOK(c), NEW m \in Nat
  PROVE  CoreOK(Count(c, m)) /\ Count(c, m).window = c.window
<1> DEFINE d == Count(c, m)
           inst == IF c.cpu_inst + m > InstBound THEN InstBound ELSE c.cpu_inst + m
           reached == c.reached_limit \/ expected_limit_insts \in (c.cpu_inst + 1)..(c.cpu_inst + m)
<1>1. c \in CoreState
  BY DEF CoreOK
<1>2. inst \in 0..InstBound /\ reached \in BOOLEAN
  BY CoreTypes, BoundType
<1>3. d = [c EXCEPT !.cpu_inst = inst, !.reached_limit = reached]
  BY <1>1 DEF Count, CoreState
<1> HIDE DEF d, inst, reached
<1>4. d \in CoreState /\ d.window = c.window /\ d.trace = c.trace
  BY <1>1, <1>2, <1>3 DEF CoreState
<1>5. QED
  BY <1>4 DEF d, CoreOK

\* The cycle of a core whose access is not accepted
LEMMA BubblesIssued ==
  ASSUME NEW c, CoreOK(c)
  PROVE  CoreOK(IssueBubbles(c)) /\ IssueBubbles(c).window = insertBubbles(c.window, Bubbles(c))
<1> DEFINE window == insertBubbles(c.window, Bubbles(c))
           access == [c.access EXCEPT !.bubble_cnt = @ - Bubbles(c)]
           d == [c EXCEPT !.window = window, !.access = access]
<1>1. Bubbles(c) \in Nat /\ Bubbles(c) <= c.access.bubble_cnt /\ c.window.load + Bubbles(c) <= depth
  BY RoomFits, CoreTypes, WindowTypes, DepthType
<1>2. window \in WindowState /\ RingClosed(window)
  BY <1>1, CoreTypes, BubblesInserted
<1>3. access \in Access
  <2>1. c.access.bubble_cnt - Bubbles(c) \in Nat
    BY <1>1, CoreTypes
  <2>2. c.access \in AccessRecord /\ Covers(c.access)
    BY CoreTypes DEF Access
  <2>3. access = [c.access EXCEPT !.bubble_cnt = c.access.bubble_cnt - Bubbles(c)]
    BY <2>2
  <2> HIDE DEF access
  <2>4. /\ access \in AccessRecord /\ access.line = c.access.line /\ access.type = c.access.type
        /\ access.block = c.access.block /\ access.sectors = c.access.sectors
    BY <2>1, <2>2, <2>3 DEF AccessRecord
  <2>5. QED
    BY <2>2, <2>4 DEF Access, Covers
<1>4. c \in CoreState
  BY DEF CoreOK
<1>5. IssueBubbles(c) = Count(d, Bubbles(c))
  BY <1>4 DEF IssueBubbles, CoreState
<1> HIDE DEF window, access
<1>6. d \in CoreState /\ d.window = window /\ d.trace = c.trace
  BY <1>2, <1>3, <1>4 DEF CoreState
<1> HIDE DEF d
<1>7. CoreOK(d)
  BY <1>2, <1>6, CoreTypes DEF CoreOK
<1>8. QED
  BY <1>1, <1>5, <1>6, <1>7, Counted DEF window

\* The cycle of a core whose access is accepted
LEMMA Issued ==
  ASSUME NEW k \in Core, NEW c, CoreOK(c), Sends(c), dynamicOn \in BOOLEAN
  PROVE  /\ CoreOK(Issue(k, c))
         /\ LET w == insertBubbles(c.window, Bubbles(c))
            IN  Issue(k, c).window = IF c.access.type = "READ"
                                     THEN insertRead(w, Physical(k, c), c.access.sectors) ELSE w
<1> DEFINE w == insertBubbles(c.window, Bubbles(c))
           window == IF c.access.type = "READ"
                     THEN insertRead(w, Physical(k, c), c.access.sectors) ELSE w
           next == get_unfiltered_request(c.trace, dynamicOn)
           d == [c EXCEPT !.window = window, !.access = next.access, !.trace = next.trace]
<1>1. Bubbles(c) \in Nat /\ c.window.load + Bubbles(c) <= depth
  BY RoomFits, CoreTypes, WindowTypes, DepthType
<1>2. w \in WindowState /\ RingClosed(w) /\ w.load = c.window.load + Bubbles(c)
  BY <1>1, CoreTypes, BubblesInserted
<1>3. window \in WindowState /\ RingClosed(window)
  <2>1. CASE c.access.type = "READ"
    <3>1. Bubbles(c) < Room(c)
      BY <2>1 DEF Sends
    <3>2. w.load < depth
      BY <1>2, <3>1, RoomFits, CoreTypes, WindowTypes, DepthType
    <3>3. Physical(k, c) \in Block /\ c.access.sectors \in SUBSET Nat
      BY PhysicalType, CoreTypes
    <3>4. QED
      BY <1>2, <2>1, <3>2, <3>3, ReadInserted
  <2>2. QED
    BY <1>2, <2>1
<1>4. /\ next.access \in Access /\ next.trace \in TraceState
      /\ Len(next.trace.pretrace_buffer) <= pretrace_buffer_size
  BY CoreTypes, TraceTaken
<1>5. c \in CoreState
  BY DEF CoreOK
<1>6. Issue(k, c) = Count(d, Bubbles(c) + 1)
  BY DEF Issue
<1> HIDE DEF window, next
<1>7. d \in CoreState /\ d.window = window /\ d.trace = next.trace
  BY <1>3, <1>4, <1>5 DEF CoreState
<1> HIDE DEF d
<1>8. CoreOK(d)
  BY <1>3, <1>4, <1>7 DEF CoreOK
<1>9. Bubbles(c) + 1 \in Nat
  BY <1>1
<1>10. QED
  BY <1>6, <1>7, <1>8, <1>9, Counted DEF window

\* The youngest instruction is a read that waits for what was asked.
Asking(v, m, asked) == ~Ready(v, m) /\ {Reads(v, m)} \X Needs(Left(v, m)) = asked

(***************************************************************************)
(* What a cycle makes of the window: the n oldest instructions leave it,   *)
(* the others stay in order, and behind them come at most ipc new ones,    *)
(* bubbles and then at most the read that was accepted.                    *)
(***************************************************************************)
LEMMA CycleOfWindow ==
  ASSUME NEW k \in Core, CoreOK(core[k]), core[k] \in CoreState, dynamicOn \in BOOLEAN,
         NEW n \in 0..ipc, n <= core[k].window.load, NEW accepted \in BOOLEAN
  PROVE  LET w == core[k].window
             v == Ticked(k, n, accepted).window
         IN  /\ CoreOK(Ticked(k, n, accepted))
             /\ w.load - n <= v.load /\ v.load <= w.load - n + ipc /\ v.load <= depth
             /\ \A m \in 0..(w.load - n - 1) : Same(v, m, w, n + m)
             /\ \A m \in (w.load - n)..(v.load - 1) :
                  Bubble(v, m) \/ Asking(v, m, Asked(k, n, accepted))
<1> DEFINE w == core[k].window
           u == retire(w, n)
           c == [core[k] EXCEPT !.window = u]
           x == insertBubbles(u, Bubbles(c))
           d == Ticked(k, n, accepted)
           v == d.window
           asked == Asked(k, n, accepted)
<1>1. /\ w \in WindowState /\ RingClosed(w) /\ w.load \in Nat /\ w.load <= depth
      /\ n \in Nat /\ n <= ipc /\ ipc \in Nat /\ depth \in Nat
  BY CoreTypes, WindowTypes, DepthType
<1>2. /\ u \in WindowState /\ RingClosed(u) /\ u.load = w.load - n
      /\ \A m \in 0..(w.load - n - 1) : Same(u, m, w, n + m)
  BY <1>1, Retired
<1>3. d = IF Stopped(c) THEN c
          ELSE IF Sends(c) /\ accepted THEN Issue(k, c) ELSE IssueBubbles(c)
  BY DEF Ticked
<1>4. asked = IF Sends(c) /\ accepted /\ c.access.type = "READ"
              THEN {Physical(k, c)} \X Needs(c.access.sectors) ELSE {}
  BY DEF Asked
<1> HIDE DEF u, d, asked
<1>5. c \in CoreState /\ c.window = u /\ c.trace = core[k].trace
  BY <1>2 DEF CoreState
<1> HIDE DEF w, c
<1>6. CoreOK(c)
  BY <1>2, <1>5, CoreTypes DEF CoreOK
<1>7. /\ Bubbles(c) \in Nat /\ Bubbles(c) <= ipc /\ u.load + Bubbles(c) <= depth
      /\ u.load \in Nat
  BY <1>1, <1>5, <1>6, <1>2, RoomFits, WindowTypes
<1>8. /\ x \in WindowState /\ RingClosed(x) /\ x.load = u.load + Bubbles(c)
      /\ \A m \in 0..(u.load - 1) : Same(x, m, u, m)
      /\ \A m \in u.load..(u.load + Bubbles(c) - 1) : Bubble(x, m)
  BY <1>2, <1>7, BubblesInserted
<1> HIDE DEF x
<1>9. \A y : (\A m \in 0..(u.load - 1) : Same(y, m, u, m))
               => \A m \in 0..(w.load - n - 1) : Same(y, m, w, n + m)
  BY <1>2 DEF Same
<1>10. \A m \in (w.load - n)..(x.load - 1) : Bubble(x, m)
  <2>1. w.load - n = u.load /\ x.load - 1 = u.load + Bubbles(c) - 1
    BY <1>1, <1>2, <1>7, <1>8
  <2>2. QED
    BY <1>8, <2>1
<1>11. CASE Stopped(c)
  <2>1. v = u /\ d = c
    BY <1>3, <1>5, <1>11
  <2>2. (w.load - n)..(v.load - 1) = {}
    BY <1>1, <1>2, <2>1
  <2>3. QED
    BY <1>1, <1>2, <1>6, <2>1, <2>2 DEF w, d
<1>12. CASE ~Stopped(c) /\ ~(Sends(c) /\ accepted)
  <2>1. v = x /\ CoreOK(d)
    BY <1>3, <1>5, <1>6, <1>12, BubblesIssued DEF x
  <2>2. v.load <= w.load - n + ipc /\ w.load - n <= v.load /\ v.load <= depth
    BY <1>1, <1>2, <1>7, <1>8, <2>1
  <2>3. \A m \in (w.load - n)..(v.load - 1) : Bubble(v, m)
    BY <1>10, <2>1
  <2>4. QED
    BY <1>8, <1>9, <2>1, <2>2, <2>3 DEF w, d
<1>13. CASE ~Stopped(c) /\ Sends(c) /\ accepted /\ c.access.type # "READ"
  <2>1. v = x /\ CoreOK(d)
    BY <1>3, <1>5, <1>6, <1>13, Issued DEF x
  <2>2. v.load <= w.load - n + ipc /\ w.load - n <= v.load /\ v.load <= depth
    BY <1>1, <1>2, <1>7, <1>8, <2>1
  <2>3. \A m \in (w.load - n)..(v.load - 1) : Bubble(v, m)
    BY <1>10, <2>1
  <2>4. QED
    BY <1>8, <1>9, <2>1, <2>2, <2>3 DEF w, d
<1>14. CASE ~Stopped(c) /\ Sends(c) /\ accepted /\ c.access.type = "READ"
  <2>1. v = insertRead(x, Physical(k, c), c.access.sectors) /\ CoreOK(d)
    BY <1>3, <1>5, <1>6, <1>14, Issued DEF x
  <2>2. Bubbles(c) < Room(c)
    BY <1>14 DEF Sends
  <2>3. x.load < depth /\ x.load + 1 <= u.load + ipc
    BY <1>1, <1>5, <1>6, <1>7, <1>8, <2>2, RoomFits
  <2>4. Physical(k, c) \in Block /\ c.access.sectors \in SUBSET Nat
    BY <1>6, PhysicalType, CoreTypes
  <2>5. /\ v.load = x.load + 1
        /\ \A m \in 0..(x.load - 1) : Same(v, m, x, m)
        /\ ~Ready(v, x.load) /\ Reads(v, x.load) = Physical(k, c) /\ Left(v, x.load) = c.access.sectors
    BY <1>8, <2>1, <2>3, <2>4, ReadInserted
  <2>6. v.load <= w.load - n + ipc /\ w.load - n <= v.load /\ v.load <= depth
    BY <1>1, <1>2, <1>7, <1>8, <2>3, <2>5
  <2>7. \A m \in 0..(u.load - 1) : Same(v, m, u, m)
    <3>1. \A m \in 0..(u.load - 1) : m \in 0..(x.load - 1)
      BY <1>7, <1>8
    <3>2. QED
      BY <1>8, <2>5, <3>1 DEF Same
  <2>8. Asking(v, x.load, asked)
    BY <1>4, <1>14, <2>5 DEF Asking
  <2>9. \A m \in u.load..(x.load - 1) : Bubble(v, m)
    <3>1. \A m \in u.load..(x.load - 1) : m \in 0..(x.load - 1)
                                          /\ m \in u.load..(u.load + Bubbles(c) - 1)
      BY <1>7, <1>8
    <3>2. QED
      BY <1>8, <2>5, <3>1 DEF Same, Bubble
  <2>10. \A m \in (w.load - n)..(v.load - 1) : Bubble(v, m) \/ Asking(v, m, asked)
    <3>1. \A m \in (w.load - n)..(v.load - 1) : m \in u.load..(x.load - 1) \/ m = x.load
      BY <1>2, <1>7, <1>8, <2>5
    <3>2. QED
      BY <2>8, <2>9, <3>1
  <2>11. QED
    BY <1>9, <2>1, <2>6, <2>7, <2>10 DEF w, d, asked
<1>15. QED
  BY <1>11, <1>12, <1>13, <1>14

-----------------------------------------------------------------------------
(***************************************************************************)
(* The properties by order of age, and the queue of the abstract window.   *)
(***************************************************************************)
LEMMA ServedByAge ==
  ASSUME NEW w, NEW o
  PROVE  Served(w, o) <=> \A m \in 0..(w.load - 1) :
                            ~Ready(w, m) => {Reads(w, m)} \X Needs(Left(w, m)) \subseteq o
BY DEF Served, Live, Ready, Reads, Left

LEMMA CompleteByAge ==
  ASSUME NEW w
  PROVE  Complete(w) <=> \A m \in 0..(w.load - 1) : Ready(w, m) => Left(w, m) = {}
BY DEF Complete, Live, Ready, Left

LEMMA WaitingByAge ==
  ASSUME NEW w, w.load \in Nat
  PROVE  /\ Len(Waiting(w)) = w.load
         /\ \A m \in 1..w.load : /\ Waiting(w)[m].ready = Ready(w, m - 1)
                                 /\ Waiting(w)[m].left = Left(w, m - 1)
                                 /\ Waiting(w)[m] = [ready |-> Ready(w, m - 1), left |-> Left(w, m - 1)]
BY DEF Waiting, Ready, Left

(***************************************************************************)
(* A tick of the processor.                                                *)
(***************************************************************************)
LEMMA WindowTicks ==
  ASSUME WindowInv, NEW n \in [Core -> 0..ipc], NEW accepted \in [Core -> BOOLEAN],
         NEW k \in Core, Retires(core[k].window, n[k])
  PROVE  LET w == core[k].window
             v == Ticked(k, n[k], accepted[k]).window
         IN  /\ CoreOK(Ticked(k, n[k], accepted[k]))
             /\ \A o : Served(w, owed) /\ owed \subseteq o /\ Asked(k, n[k], accepted[k]) \subseteq o
                         => Served(v, o)
             /\ Complete(v)
             /\ n[k] <= Len(Waiting(w)) /\ Queue!Cycled(Waiting(w), Waiting(v), n[k])
<1> DEFINE w == core[k].window
           v == Ticked(k, n[k], accepted[k]).window
           asked == Asked(k, n[k], accepted[k])
           m == n[k]
<1>1. /\ CoreOK(core[k]) /\ core[k] \in CoreState /\ dynamicOn \in BOOLEAN
      /\ Complete(w)
      /\ m \in 0..ipc /\ accepted[k] \in BOOLEAN /\ m <= w.load
  BY DEF WindowInv, Retires
<1>2. /\ CoreOK(Ticked(k, n[k], accepted[k]))
      /\ w.load - m <= v.load /\ v.load <= w.load - m + ipc /\ v.load <= depth
      /\ \A j \in 0..(w.load - m - 1) : Same(v, j, w, m + j)
      /\ \A j \in (w.load - m)..(v.load - 1) : Bubble(v, j) \/ Asking(v, j, asked)
  BY <1>1, CycleOfWindow
<1>3. w.load \in Nat /\ v.load \in Nat /\ m \in Nat /\ depth \in Nat /\ ipc \in Nat
  BY <1>1, <1>2, CoreTypes, WindowTypes, DepthType
<1>4. \A j \in 0..(m - 1) : Ready(w, j)
  BY DEF Retires, Ready
<1> HIDE DEF w, v, asked, m
<1>5. ASSUME NEW j \in 0..(v.load - 1)
      PROVE  \/ j \in 0..(w.load - m - 1) /\ m + j \in 0..(w.load - 1)
             \/ j \in (w.load - m)..(v.load - 1)
  BY <1>3
<1>6. ASSUME NEW o, Served(w, owed), owed \subseteq o, asked \subseteq o
      PROVE  Served(v, o)
  <2> SUFFICES ASSUME NEW j \in 0..(v.load - 1), ~Ready(v, j)
               PROVE  {Reads(v, j)} \X Needs(Left(v, j)) \subseteq o
    BY ServedByAge
  <2>1. CASE j \in 0..(w.load - m - 1) /\ m + j \in 0..(w.load - 1)
    <3>1. Same(v, j, w, m + j)
      BY <1>2, <2>1
    <3>2. {Reads(w, m + j)} \X Needs(Left(w, m + j)) \subseteq owed
      BY <1>6, <2>1, <3>1, ServedByAge DEF Same
    <3>3. QED
      BY <1>6, <3>1, <3>2 DEF Same
  <2>2. CASE j \in (w.load - m)..(v.load - 1)
    <3>1. Asking(v, j, asked)
      BY <1>2, <2>2 DEF Bubble
    <3>2. QED
      BY <1>6, <3>1 DEF Asking
  <2>3. QED
    BY <1>5, <2>1, <2>2
<1>7. Complete(v)
  <2> SUFFICES ASSUME NEW j \in 0..(v.load - 1), Ready(v, j)
               PROVE  Left(v, j) = {}
    BY CompleteByAge
  <2>1. CASE j \in 0..(w.load - m - 1) /\ m + j \in 0..(w.load - 1)
    <3>1. Same(v, j, w, m + j)
      BY <1>2, <2>1
    <3>2. QED
      BY <1>1, <2>1, <3>1, CompleteByAge DEF Same
  <2>2. CASE j \in (w.load - m)..(v.load - 1)
    BY <1>2, <2>2 DEF Bubble, Asking
  <2>3. QED
    BY <1>5, <2>1, <2>2
<1>8. Queue!Cycled(Waiting(w), Waiting(v), m)
  <2>1. Len(Waiting(w)) = w.load /\ Len(Waiting(v)) = v.load
    BY <1>3, WaitingByAge
  <2>2. ASSUME NEW j \in 1..m
        PROVE  Waiting(w)[j].ready
    <3>1. j \in 1..w.load /\ j - 1 \in 0..(m - 1)
      BY <1>1, <1>3
    <3>2. QED
      BY <1>3, <1>4, <3>1, WaitingByAge
  <2>3. ASSUME NEW j \in 1..(w.load - m)
        PROVE  Waiting(v)[j] = Waiting(w)[j + m]
    <3>1. /\ j \in 1..v.load /\ j + m \in 1..w.load
          /\ j - 1 \in 0..(w.load - m - 1) /\ m + (j - 1) = j + m - 1
      BY <1>2, <1>3
    <3>2. Same(v, j - 1, w, j + m - 1)
      BY <1>2, <3>1
    <3>3. Waiting(v)[j] = [ready |-> Ready(v, j - 1), left |-> Left(v, j - 1)]
      BY <1>3, <3>1, WaitingByAge
    <3>4. Waiting(w)[j + m] = [ready |-> Ready(w, j + m - 1), left |-> Left(w, j + m - 1)]
      BY <1>3, <3>1, WaitingByAge
    <3>5. QED
      BY <3>2, <3>3, <3>4 DEF Same
  <2>4. QED
    BY <1>2, <1>3, <2>1, <2>2, <2>3 DEF Queue!Cycled
<1>9. m <= Len(Waiting(w))
  BY <1>1, <1>3, WaitingByAge
<1>10. QED
  BY <1>2, <1>6, <1>7, <1>8, <1>9 DEF w, v, asked, m

LEMMA ProcTickKeeps ==
  ASSUME WindowInv, NEW accepted \in [Core -> BOOLEAN], ProcTick(accepted)
  PROVE  WindowInv' /\ Queue!Cycle
<1>1. PICK n \in [Core -> 0..ipc] :
        /\ \A k \in Core : Retires(core[k].window, n[k])
        /\ core' = [k \in Core |-> Ticked(k, n[k], accepted[k])]
        /\ Port!Accept(UNION {Asked(k, n[k], accepted[k]) : k \in Core})
        /\ UNCHANGED dynamicOn
  BY DEF ProcTick
<1>2. \A k \in Core : core'[k] = Ticked(k, n[k], accepted[k])
  BY <1>1
<1>3. /\ owed \subseteq owed'
      /\ \A k \in Core : Asked(k, n[k], accepted[k]) \subseteq owed'
  BY <1>1 DEF Port!Accept
<1>4. ASSUME NEW k \in Core
      PROVE  /\ CoreOK(core'[k]) /\ Served(core'[k].window, owed') /\ Complete(core'[k].window)
             /\ n[k] \in 0..ipc /\ n[k] <= Len(Waiting(core[k].window))
             /\ Queue!Cycled(Waiting(core[k].window), Waiting(core'[k].window), n[k])
  <2>1. Served(core[k].window, owed)
    BY DEF WindowInv
  <2>2. QED
    BY <1>1, <1>2, <1>3, <2>1, WindowTicks
<1>5. WindowInv'
  <2>1. core' \in [Core -> CoreState]
    <3>1. DOMAIN core' = Core /\ core' = [k \in Core |-> core'[k]]
      BY <1>1
    <3>2. \A k \in Core : core'[k] \in CoreState
      BY <1>4 DEF CoreOK
    <3>3. QED
      BY <3>1, <3>2
  <2>2. QED
    BY <1>1, <1>4, <2>1 DEF WindowInv, CoreOK, Served, Complete, Live, PlaceOf, RingClosed
<1>6. Queue!Cycle
  BY <1>4 DEF Queue!Cycle
<1>7. QED
  BY <1>5, <1>6

(***************************************************************************)
(* An answer.                                                              *)
(***************************************************************************)
LEMMA WindowAnswered ==
  ASSUME NEW c, CoreOK(c), Served(c.window, owed), Complete(c.window), NEW b \in Block, NEW parts
  PROVE  LET w == c.window
             v == set_ready(w, b, parts)
             q == Waiting(w)
             r == Waiting(v)
         IN  /\ CoreOK([c EXCEPT !.window = v])
             /\ Served(v, owed \ ({b} \X parts)) /\ Complete(v)
             /\ Len(r) = Len(q)
             /\ \A j \in 1..Len(q) : /\ r[j].left \subseteq q[j].left
                                     /\ q[j].ready => r[j].ready
                                     /\ r[j].ready => q[j].ready \/ r[j].left = {}
<1> DEFINE w == c.window
           v == set_ready(w, b, parts)
           o == owed \ ({b} \X parts)
<1>1. /\ w \in WindowState /\ RingClosed(w) /\ w.load \in Nat
  BY CoreTypes, WindowTypes, DepthType
<1>2. /\ v \in WindowState /\ RingClosed(v) /\ v.load = w.load
      /\ \A m \in 0..(w.load - 1) :
           IF Reads(w, m) = b
           THEN /\ Ready(v, m) <=> Left(w, m) \ parts = {} \/ Ready(w, m)
                /\ Reads(v, m) = b /\ Left(v, m) = Left(w, m) \ parts
           ELSE Same(v, m, w, m)
  BY <1>1, Woken
<1> HIDE DEF w, v
<1>3. CoreOK([c EXCEPT !.window = v])
  BY <1>2, CoreTypes DEF CoreOK, CoreState
<1>4. Served(v, o)
  <2> SUFFICES ASSUME NEW m \in 0..(w.load - 1), ~Ready(v, m)
               PROVE  {Reads(v, m)} \X Needs(Left(v, m)) \subseteq o
    BY <1>2, ServedByAge
  <2>1. ~Ready(w, m) => {Reads(w, m)} \X Needs(Left(w, m)) \subseteq owed
    BY ServedByAge DEF w
  <2>2. CASE Reads(w, m) = b
    <3>1. /\ ~Ready(w, m) /\ Left(w, m) \ parts # {}
          /\ Reads(v, m) = b /\ Left(v, m) = Left(w, m) \ parts
      BY <1>2, <2>2
    <3>2. Needs(Left(w, m)) = Left(w, m) /\ Needs(Left(v, m)) = Left(w, m) \ parts
      BY <3>1 DEF Needs
    <3>3. {b} \X Left(w, m) \subseteq owed
      BY <2>1, <2>2, <3>1, <3>2
    <3>4. QED
      BY <3>1, <3>2, <3>3
  <2>3. CASE Reads(w, m) # b
    <3>1. ~Ready(w, m) /\ Reads(v, m) = Reads(w, m) /\ Left(v, m) = Left(w, m)
      BY <1>2, <2>3 DEF Same
    <3>2. QED
      BY <2>1, <2>3, <3>1
  <2>4. QED
    BY <2>2, <2>3
<1>5. Complete(v)
  <2> SUFFICES ASSUME NEW m \in 0..(w.load - 1), Ready(v, m)
               PROVE  Left(v, m) = {}
    BY <1>2, CompleteByAge
  <2>1. Ready(w, m) => Left(w, m) = {}
    BY CompleteByAge DEF w
  <2>2. QED
    BY <1>2, <2>1 DEF Same
<1>6. Len(Waiting(w)) = w.load /\ Len(Waiting(v)) = w.load
  BY <1>1, <1>2, WaitingByAge
<1>7. ASSUME NEW j \in 1..w.load
      PROVE  /\ Waiting(v)[j].left \subseteq Waiting(w)[j].left
             /\ Waiting(w)[j].ready => Waiting(v)[j].ready
             /\ Waiting(v)[j].ready => Waiting(w)[j].ready \/ Waiting(v)[j].left = {}
  <2>1. j - 1 \in 0..(w.load - 1)
    BY <1>1
  <2>2. /\ Waiting(v)[j].ready = Ready(v, j - 1) /\ Waiting(v)[j].left = Left(v, j - 1)
        /\ Waiting(w)[j].ready = Ready(w, j - 1) /\ Waiting(w)[j].left = Left(w, j - 1)
    BY <1>1, <1>2, WaitingByAge
  <2>3. /\ Left(v, j - 1) \subseteq Left(w, j - 1)
        /\ Ready(w, j - 1) => Ready(v, j - 1)
        /\ Ready(v, j - 1) => Ready(w, j - 1) \/ Left(v, j - 1) = {}
    BY <1>2, <2>1 DEF Same
  <2>4. QED
    BY <2>2, <2>3
<1>8. QED
  BY <1>3, <1>4, <1>5, <1>6, <1>7 DEF w, v

LEMMA ReceiveKeeps ==
  ASSUME WindowInv, NEW b \in Block, NEW parts, receive(b, parts)
  PROVE  WindowInv' /\ Queue!Answer
<1>1. /\ owed' = owed \ ({b} \X parts) /\ dynamicOn' = dynamicOn
      /\ core' = [k \in Core |-> [core[k] EXCEPT !.window = set_ready(@, b, parts)]]
  BY DEF receive, Port!Answer
<1>2. ASSUME NEW k \in Core
      PROVE  /\ core'[k] = [core[k] EXCEPT !.window = set_ready(@, b, parts)]
             /\ core'[k].window = set_ready(core[k].window, b, parts)
  BY <1>1 DEF WindowInv, CoreState
<1>3. ASSUME NEW k \in Core
      PROVE  LET q == Waiting(core[k].window)
                 r == Waiting(core'[k].window)
             IN  /\ CoreOK(core'[k])
                 /\ Served(core'[k].window, owed') /\ Complete(core'[k].window)
                 /\ Len(r) = Len(q)
                 /\ \A j \in 1..Len(q) : /\ r[j].left \subseteq q[j].left
                                         /\ q[j].ready => r[j].ready
                                         /\ r[j].ready => q[j].ready \/ r[j].left = {}
  <2>1. CoreOK(core[k]) /\ Served(core[k].window, owed) /\ Complete(core[k].window)
    BY DEF WindowInv
  <2>2. QED
    <3> DEFINE c == core[k]
               v == set_ready(c.window, b, parts)
    <3>1. core'[k] = [c EXCEPT !.window = v] /\ core'[k].window = v /\ owed' = owed \ ({b} \X parts)
      BY <1>1, <1>2
    <3>2. /\ CoreOK([c EXCEPT !.window = v])
          /\ Served(v, owed \ ({b} \X parts)) /\ Complete(v)
          /\ Len(Waiting(v)) = Len(Waiting(c.window))
          /\ \A j \in 1..Len(Waiting(c.window)) :
               /\ Waiting(v)[j].left \subseteq Waiting(c.window)[j].left
               /\ Waiting(c.window)[j].ready => Waiting(v)[j].ready
               /\ Waiting(v)[j].ready => Waiting(c.window)[j].ready \/ Waiting(v)[j].left = {}
      BY <2>1, WindowAnswered
    <3> HIDE DEF v
    <3>3. QED
      BY <3>1, <3>2
<1>4. WindowInv'
  <2>1. core' \in [Core -> CoreState]
    <3>1. DOMAIN core' = Core /\ core' = [k \in Core |-> core'[k]]
      BY <1>1
    <3>2. \A k \in Core : core'[k] \in CoreState
      BY <1>3 DEF CoreOK
    <3>3. QED
      BY <3>1, <3>2
  <2>2. dynamicOn' \in BOOLEAN
    BY <1>1 DEF WindowInv
  <2>3. QED
    BY <1>3, <2>1, <2>2 DEF WindowInv, CoreOK, Served, Complete, Live, PlaceOf, RingClosed
<1>5. Queue!Answer
  BY <1>3 DEF Queue!Answer
<1>6. QED
  BY <1>4, <1>5

-----------------------------------------------------------------------------
(***************************************************************************)
(* The other steps leave the windows and what is owed alone.               *)
(***************************************************************************)
LEMMA QueueKept ==
  ASSUME WindowInv, core' \in [Core -> CoreState],
         \A k \in Core : core'[k].window = core[k].window
  PROVE  UNCHANGED [k \in Core |-> Waiting(core[k].window)]
BY DEF WindowInv

LEMMA OnlyCountersMove ==
  ASSUME WindowInv, UNCHANGED owed, dynamicOn' \in BOOLEAN, UNCHANGED core \/ reset_stats
  PROVE  WindowInv' /\ UNCHANGED [k \in Core |-> Waiting(core[k].window)]
<1>1. CASE UNCHANGED core
  BY <1>1 DEF WindowInv, CoreOK, Served, Complete, Live, PlaceOf, RingClosed
<1>2. CASE reset_stats
  <2>1. core' = [k \in Core |-> [core[k] EXCEPT !.cpu_inst = 0]]
    BY <1>2 DEF reset_stats
  <2>2. ASSUME NEW k \in Core
        PROVE  /\ core'[k] \in CoreState /\ CoreOK(core'[k])
               /\ core'[k].window = core[k].window
               /\ Served(core'[k].window, owed') /\ Complete(core'[k].window)
    <3>1. core'[k] = [core[k] EXCEPT !.cpu_inst = 0]
      BY <2>1
    <3>2. CoreOK(core[k]) /\ core[k] \in CoreState /\ 0 \in 0..InstBound
      BY BoundType DEF WindowInv
    <3>3. /\ core'[k] \in CoreState /\ core'[k].window = core[k].window
          /\ core'[k].trace = core[k].trace
      BY <3>1, <3>2 DEF CoreState
    <3>4. Served(core[k].window, owed') /\ Complete(core[k].window)
      BY DEF WindowInv
    <3>5. QED
      BY <3>2, <3>3, <3>4 DEF CoreOK
  <2>3. core' \in [Core -> CoreState]
    <3>1. DOMAIN core' = Core /\ core' = [k \in Core |-> core'[k]]
      BY <2>1
    <3>2. QED
      BY <2>2, <3>1
  <2>4. WindowInv'
    BY <2>2, <2>3 DEF WindowInv, CoreOK, Served, Complete, Live, PlaceOf, RingClosed
  <2>5. QED
    BY <2>2, <2>3, <2>4, QueueKept
<1>3. QED
  BY <1>1, <1>2

LEMMA EmptyWindowType ==
  /\ EmptyWindow \in WindowState /\ EmptyWindow.load = 0 /\ RingClosed(EmptyWindow)
<1>1. 0 \in Place /\ 0 \in 0..depth /\ (0 + 0) % depth = 0
  BY DepthType DEF Place
<1>2. QED
  BY <1>1 DEF EmptyWindow, WindowState, RingClosed

LEMMA InitHolds ==
  ASSUME Init
  PROVE  WindowInv /\ Queue!Init
<1> DEFINE t == [read |-> 0, pretrace_buffer |-> << >>]
           first == get_unfiltered_request(t, FALSE)
           window == EmptyWindow
<1>1. core = [k \in Core |-> NewCore] /\ dynamicOn = ~dynamic_policy
  BY DEF Init, ProcInit
<1>2. t \in TraceState /\ Len(t.pretrace_buffer) <= pretrace_buffer_size
  <2>1. << >> \in Seq(Access) /\ Len(<< >>) = 0
    BY EmptySeq
  <2>2. QED
    BY <2>1, PieceTypes, LineTypes DEF TraceState
<1>3. /\ first.access \in Access /\ first.trace \in TraceState
      /\ Len(first.trace.pretrace_buffer) <= pretrace_buffer_size
  BY <1>2, TraceTaken
<1>4. NewCore = [trace |-> first.trace, access |-> first.access, window |-> EmptyWindow,
                 cpu_inst |-> 0, reached_limit |-> FALSE]
  BY DEF NewCore
<1> HIDE DEF first, t
<1>5. NewCore \in CoreState /\ NewCore.window = EmptyWindow /\ NewCore.trace = first.trace
  BY <1>3, <1>4, EmptyWindowType, BoundType DEF CoreState
<1>6. CoreOK(NewCore)
  BY <1>3, <1>5, EmptyWindowType DEF CoreOK
<1>7. 0..(EmptyWindow.load - 1) = {}
  BY EmptyWindowType
<1>8. Served(NewCore.window, owed) /\ Complete(NewCore.window)
  BY <1>5, <1>7, ServedByAge, CompleteByAge
<1>9. dynamicOn \in BOOLEAN
  BY <1>1, ProcessorAssumption
<1>10. WindowInv
  BY <1>1, <1>5, <1>6, <1>8, <1>9 DEF WindowInv
<1>11. Waiting(EmptyWindow) = << >>
  BY <1>7, EmptyWindowType DEF Waiting
<1>12. Queue!Init
  BY <1>1, <1>5, <1>11 DEF Queue!Init
<1>13. QED
  BY <1>10, <1>12

-----------------------------------------------------------------------------
(***************************************************************************)
(* Every step of the simulation.                                           *)
(***************************************************************************)
LEMMA StepKeeps ==
  ASSUME WindowInv, [Next]_vars
  PROVE  WindowInv' /\ [Queue!Next]_[k \in Core |-> Waiting(core[k].window)]
<1>1. CASE \E accepted \in [Core -> BOOLEAN] : TickProcessor(accepted)
  BY <1>1, ProcTickKeeps DEF TickProcessor, Queue!Next
<1>2. CASE \E b \in Block, parts \in SUBSET Part : parts # {} /\ Receive(b, parts)
  BY <1>2, ReceiveKeeps DEF Receive, Queue!Next
<1>3. CASE SkipProcessor \/ End \/ NextIteration \/ Ended \/ UNCHANGED vars
  <2>1. UNCHANGED <<core, owed, dynamicOn>>
    BY <1>3 DEF SkipProcessor, End, NextIteration, Ended, vars
  <2>2. QED
    BY <2>1, OnlyCountersMove DEF WindowInv
<1>4. CASE TickMemory
  <2>1. UNCHANGED <<core, owed>> /\ dynamicOn' \in BOOLEAN
    BY <1>4 DEF TickMemory, turnSectorDRAM, pvars, WindowInv
  <2>2. QED
    BY <2>1, OnlyCountersMove
<1>5. CASE EndWarmup
  <2>1. reset_stats /\ UNCHANGED <<owed, dynamicOn>>
    BY <1>5 DEF EndWarmup, reset_stats
  <2>2. QED
    BY <2>1, OnlyCountersMove DEF WindowInv
<1>6. QED
  BY <1>1, <1>2, <1>3, <1>4, <1>5 DEF Next, Loop

\* A core, its window, its access and its trace buffer always have their types, the
\* ring is closed, and the two properties below hold together.
THEOREM WindowInvariant == Spec => []WindowInv
<1>1. Init => WindowInv
  BY InitHolds
<1>2. WindowInv /\ [Next]_vars => WindowInv'
  BY StepKeeps
<1>3. QED
  BY <1>1, <1>2, PTL DEF Spec

\* Whatever the caches refuse and in whatever order answers come (Processor::receive
\* and Window::set_ready), what an instruction in a window waits for is owed.
THEOREM WaitingIsAlwaysOwed == Spec => []WaitingIsOwed
<1>1. WindowInv => WaitingIsOwed
  BY DEF WindowInv, WaitingIsOwed, Served
<1>2. QED
  BY <1>1, WindowInvariant, PTL

\* No instruction becomes ready while one of its sectors is missing (Window::set_ready).
THEOREM ReadyIsAlwaysComplete == Spec => []ReadyIsComplete
<1>1. WindowInv => ReadyIsComplete
  BY DEF WindowInv, ReadyIsComplete, Complete
<1>2. QED
  BY <1>1, WindowInvariant, PTL

\* An access wants no sector beyond its block, so that the asserts on sector bits hold
\* (Processor.cpp:663, 677, 700), and every sector of its block that its line touches
\* (Processor.cpp:693), if the line is aligned or crosses the end of a block; for any sizes
\* of block and sector.
THEOREM AccessesCoverTheirLine == Spec => []AccessCoversLine
<1>1. ASSUME WindowInv, NEW k \in Core
      PROVE  core[k].access.sectors \subseteq Sector /\ Covers(core[k].access)
  <2>1. core[k].access \in AccessRecord /\ Covers(core[k].access)
    BY <1>1 DEF WindowInv, CoreState, Access
  <2>2. core[k].access.sectors \in SUBSET Sector
    BY <2>1 DEF AccessRecord
  <2>3. QED
    BY <2>1, <2>2
<1>2. WindowInv => AccessCoversLine
  BY <1>1 DEF AccessCoversLine, Covers
<1>3. QED
  BY <1>2, WindowInvariant, PTL

\* The rings of the cores (class Window) implement queues that retire in order, with
\* the initial states mapped to initial states and every step to a step or a stutter.
THEOREM WindowRefines == Spec => WindowInOrder
<1>1. Init => Queue!Init
  BY InitHolds
<1>2. WindowInv /\ [Next]_vars => [Queue!Next]_[k \in Core |-> Waiting(core[k].window)]
  BY StepKeeps
<1>3. QED
  BY <1>1, <1>2, WindowInvariant, PTL DEF Spec, WindowInOrder, Queue!Spec


-----------------------------------------------------------------------------
(***************************************************************************)
(* The two clocks.                                                         *)
(***************************************************************************)
LEMMA TickTypes == /\ cpu_tick \in Nat /\ cpu_tick > 0 /\ mem_tick \in Nat /\ mem_tick > 0
                   /\ warmup_insts \in Nat
BY SimulationAssumption, BoundType

\* p is the first multiple of m from n on.
FirstFrom(p, m, n) == p \in Nat /\ n <= p /\ p < n + m /\ \E a \in Nat : p = a * m

LEMMA FirstIsMultiple ==
  ASSUME NEW m \in Nat, m > 0, NEW a \in Nat, NEW p, FirstFrom(p, m, a * m)
  PROVE  p = a * m
<1>1. PICK b \in Nat : p = b * m
  BY DEF FirstFrom
<1>2. a * m <= b * m /\ b * m < a * m + m
  BY <1>1 DEF FirstFrom
<1>3. a = b
  BY <1>2, SameMultiple
<1>4. QED
  BY <1>1, <1>3

LEMMA FirstMoves ==
  ASSUME NEW m \in Nat, m > 0, NEW n \in Nat, NEW p, FirstFrom(p, m, n), n % m = 0
  PROVE  p = n /\ FirstFrom(p + m, m, n + 1)
<1> DEFINE a == n \div m
<1>1. a \in Nat /\ n = a * m
  BY DivisionParts
<1> HIDE DEF a
<1>2. p = n
  BY <1>1, FirstIsMultiple
<1>3. (a + 1) * m = a * m + m
  BY <1>1
<1>4. p + m = (a + 1) * m
  BY <1>1, <1>2, <1>3
<1>5. QED
  BY <1>1, <1>2, <1>4 DEF FirstFrom

LEMMA FirstStays ==
  ASSUME NEW m \in Nat, m > 0, NEW n \in Nat, NEW p, FirstFrom(p, m, n), n % m # 0
  PROVE  FirstFrom(p, m, n + 1)
<1>1. PICK a \in Nat : p = a * m
  BY DEF FirstFrom
<1>2. p # n
  <2>1. SUFFICES ASSUME p = n PROVE FALSE
    OBVIOUS
  <2> DEFINE b == n \div m
             r == n % m
  <2>2. b \in Nat /\ n = b * m + r /\ r \in 0..(m - 1) /\ r # 0
    BY DivisionParts
  <2> HIDE DEF b, r
  <2>3. b * m \in Nat /\ a * m \in Nat
    BY <1>1, <2>2
  <2>4. a * m = b * m + r
    BY <1>1, <2>1, <2>2
  <2>5. b * m <= a * m /\ a * m < b * m + m
    BY <2>2, <2>3, <2>4
  <2>6. a = b
    BY <1>1, <2>2, <2>5, SameMultiple
  <2>7. QED
    BY <2>2, <2>3, <2>4, <2>6
<1>3. QED
  BY <1>1, <1>2 DEF FirstFrom


(***************************************************************************)
(* Where the clocks stand.  In the warm-up the memory catches up at the    *)
(* end of a period.  In the measured simulation each clock has gone to the *)
(* first multiple of its tick that the iterations so far require, the      *)
(* memory's of this iteration being still due.                             *)
(***************************************************************************)
WarmupClock ==
  /\ i < cpu_tick
  /\ pc = "proc" => drift = i * mem_tick
  /\ pc = "memory" =>
       \/ i + 1 < cpu_tick /\ due = 0 /\ drift = (i + 1) * mem_tick
       \/ i + 1 = cpu_tick /\ due <= mem_tick /\ drift = due * cpu_tick

RunClock ==
  /\ i < tick_mult
  /\ \E p, q \in Nat :
       /\ drift = p - q
       /\ FirstFrom(p, mem_tick, IF pc = "memory" THEN i + 1 ELSE i)
       /\ FirstFrom(q, cpu_tick, IF pc = "memory" /\ due = 0 THEN i + 1 ELSE i)
       /\ pc = "memory" /\ due # 0 => due = 1 /\ i % cpu_tick = 0

ClockInv ==
  /\ i \in Nat /\ due \in Nat /\ drift \in Int
  /\ pc \in {"proc", "memory"}
  /\ \/ phase = "warmup" /\ WarmupClock
     \/ phase = "run" /\ RunClock
     \/ phase = "ended" /\ ClocksInStep

LEMMA TickMult ==
  /\ tick_mult \in Nat /\ tick_mult = mem_tick * cpu_tick /\ tick_mult = cpu_tick * mem_tick
  /\ mem_tick <= tick_mult /\ cpu_tick <= tick_mult /\ tick_mult > 0
<1>1. cpu_tick * mem_tick \in Nat /\ cpu_tick * mem_tick = mem_tick * cpu_tick
  BY TickTypes
<1>2. 1 * mem_tick <= cpu_tick * mem_tick /\ 1 * mem_tick = mem_tick
  BY TickTypes, ProductKeepsOrder
<1>3. 1 * cpu_tick <= mem_tick * cpu_tick /\ 1 * cpu_tick = cpu_tick
  BY TickTypes, ProductKeepsOrder
<1>4. QED
  BY <1>1, <1>2, <1>3, TickTypes DEF tick_mult

LEMMA WarmupInStep ==
  ASSUME i \in Nat, due \in Nat, pc \in {"proc", "memory"}, WarmupClock
  PROVE  drift \in Int /\ ClocksInStep
<1>1. \A n \in 0..cpu_tick : n * mem_tick \in 0..tick_mult
  <2> TAKE n \in 0..cpu_tick
  <2>1. n * mem_tick <= cpu_tick * mem_tick
    BY TickTypes, ProductKeepsOrder
  <2>2. n * mem_tick \in Nat
    BY TickTypes
  <2>3. QED
    BY <2>1, <2>2, TickMult
<1>2. \A n \in 0..mem_tick : n * cpu_tick \in 0..tick_mult
  <2> TAKE n \in 0..mem_tick
  <2>1. n * cpu_tick <= mem_tick * cpu_tick
    BY TickTypes, ProductKeepsOrder
  <2>2. n * cpu_tick \in Nat
    BY TickTypes
  <2>3. QED
    BY <2>1, <2>2, TickMult
<1>3. drift \in 0..tick_mult
  <2>1. CASE pc = "proc"
    BY <1>1, <2>1, TickTypes DEF WarmupClock
  <2>2. CASE pc = "memory"
    <3>1. i + 1 \in 0..cpu_tick
      BY TickTypes DEF WarmupClock
    <3>2. CASE drift = (i + 1) * mem_tick
      BY <1>1, <3>1, <3>2
    <3>3. CASE due <= mem_tick /\ drift = due * cpu_tick
      <4>1. due \in 0..mem_tick
        BY <3>3, TickTypes
      <4>2. QED
        BY <1>2, <3>3, <4>1
    <3>4. QED
      BY <2>2, <3>2, <3>3 DEF WarmupClock
  <2>3. QED
    BY <2>1, <2>2
<1>4. QED
  BY <1>3, TickMult DEF ClocksInStep

LEMMA RunInStep ==
  ASSUME i \in Nat, due \in Nat, RunClock
  PROVE  drift \in Int /\ ClocksInStep
<1>1. PICK p, q \in Nat :
        /\ drift = p - q
        /\ FirstFrom(p, mem_tick, IF pc = "memory" THEN i + 1 ELSE i)
        /\ FirstFrom(q, cpu_tick, IF pc = "memory" /\ due = 0 THEN i + 1 ELSE i)
  BY DEF RunClock
<1>2. i <= p /\ p <= i + mem_tick /\ i <= q /\ q <= i + cpu_tick
  BY <1>1, TickTypes DEF FirstFrom
<1>3. QED
  BY <1>1, <1>2, TickTypes, TickMult DEF ClocksInStep

LEMMA ClockInStep == ClockInv => ClocksInStep
BY WarmupInStep, RunInStep DEF ClockInv

LEMMA ClockInit == Init => ClockInv
<1> SUFFICES ASSUME Init PROVE ClockInv
  OBVIOUS
<1>1. i = 0 /\ pc = "proc" /\ due = 0 /\ drift = 0 /\ phase \in {"run", "warmup"}
  BY DEF Init
<1>2. WarmupClock
  BY <1>1, TickTypes DEF WarmupClock
<1>3. FirstFrom(0, mem_tick, 0) /\ FirstFrom(0, cpu_tick, 0)
  BY TickTypes DEF FirstFrom
<1>4. RunClock
  BY <1>1, <1>3, TickMult DEF RunClock
<1>5. QED
  BY <1>1, <1>2, <1>4 DEF ClockInv

\* The processor's half in the warm-up
LEMMA WarmupProcessor ==
  ASSUME ClockInv, phase = "warmup", phase' = "warmup", i' = i, pc = "proc", pc' = "memory",
         due' = MemoryDue, drift' = drift + mem_tick
  PROVE  ClockInv'
<1>1. i \in Nat /\ i < cpu_tick /\ drift = i * mem_tick /\ i * mem_tick \in Nat
  BY TickTypes DEF ClockInv, WarmupClock
<1>2. i % cpu_tick = i
  BY <1>1, TickTypes
<1>3. drift' = (i + 1) * mem_tick /\ drift' \in Nat
  <2>1. (i + 1) * mem_tick = i * mem_tick + mem_tick
    BY <1>1, TickTypes
  <2>2. QED
    BY <1>1, <2>1, TickTypes
<1>4. CASE i + 1 = cpu_tick
  <2>1. due' = mem_tick
    BY <1>1, <1>2, <1>4, TickTypes DEF MemoryDue
  <2>2. drift' = due' * cpu_tick
    BY <1>3, <1>4, <2>1, TickMult
  <2>3. WarmupClock'
    BY <1>1, <1>4, <2>1, <2>2, TickTypes DEF WarmupClock
  <2>4. QED
    BY <1>1, <1>3, <2>1, <2>3, TickTypes DEF ClockInv
<1>5. CASE i + 1 # cpu_tick
  <2>1. due' = 0 /\ i + 1 < cpu_tick
    BY <1>1, <1>2, <1>5, TickTypes DEF MemoryDue
  <2>2. WarmupClock'
    BY <1>1, <1>3, <2>1 DEF WarmupClock
  <2>3. QED
    BY <1>1, <1>3, <2>1, <2>2 DEF ClockInv
<1>6. QED
  BY <1>4, <1>5

\* The processor's half in the measured simulation
LEMMA RunProcessor ==
  ASSUME ClockInv, phase = "run", phase' = "run", i' = i, pc = "proc", pc' = "memory",
         due' = MemoryDue,
         \/ (i % tick_mult) % mem_tick = 0 /\ drift' = drift + mem_tick
         \/ (i % tick_mult) % mem_tick # 0 /\ drift' = drift
  PROVE  ClockInv'
<1>1. PICK p, q \in Nat : /\ drift = p - q /\ FirstFrom(p, mem_tick, i) /\ FirstFrom(q, cpu_tick, i)
  BY DEF ClockInv, RunClock
<1>2. i \in Nat /\ i < tick_mult /\ i % tick_mult = i
  BY TickMult DEF ClockInv, RunClock
<1>3. \E p1 \in Nat : drift' = p1 - q /\ FirstFrom(p1, mem_tick, i + 1)
  <2>1. CASE i % mem_tick = 0
    <3>1. FirstFrom(p + mem_tick, mem_tick, i + 1)
      BY <1>1, <1>2, <2>1, FirstMoves, TickTypes
    <3>2. drift' = (p + mem_tick) - q /\ p + mem_tick \in Nat
      BY <1>1, <1>2, <2>1, TickTypes
    <3>3. QED
      BY <3>1, <3>2
  <2>2. CASE i % mem_tick # 0
    <3>1. FirstFrom(p, mem_tick, i + 1)
      BY <1>1, <1>2, <2>2, FirstStays, TickTypes
    <3>2. QED
      BY <1>1, <1>2, <2>2, <3>1
  <2>3. QED
    BY <2>1, <2>2
<1>4. due' = IF i % cpu_tick = 0 THEN 1 ELSE 0
  BY <1>2 DEF MemoryDue
<1>5. FirstFrom(q, cpu_tick, IF due' = 0 THEN i + 1 ELSE i)
  <2>1. CASE i % cpu_tick = 0
    BY <1>1, <1>4, <2>1
  <2>2. CASE i % cpu_tick # 0
    <3>1. FirstFrom(q, cpu_tick, i + 1)
      BY <1>1, <1>2, <2>2, FirstStays, TickTypes
    <3>2. QED
      BY <1>4, <2>2, <3>1
  <2>3. QED
    BY <2>1, <2>2
<1>6. RunClock'
  BY <1>2, <1>3, <1>4, <1>5 DEF RunClock, tick_mult
<1>7. due' \in Nat /\ drift' \in Int
  BY <1>1, <1>3, <1>4
<1>8. QED
  BY <1>2, <1>6, <1>7 DEF ClockInv

LEMMA MemoryTicks ==
  ASSUME ClockInv, phase \in {"warmup", "run"}, UNCHANGED <<phase, i, pc>>, pc = "memory", due > 0,
         due' = due - 1, drift' = drift - cpu_tick
  PROVE  ClockInv'
<1>1. due \in Nat /\ due' \in Nat /\ i \in Nat /\ drift \in Int /\ drift' \in Int
  BY TickTypes DEF ClockInv
<1>2. CASE phase = "warmup"
  <2>1. i < cpu_tick /\ i + 1 = cpu_tick /\ due <= mem_tick /\ drift = due * cpu_tick
    BY <1>1, <1>2 DEF ClockInv, WarmupClock
  <2>2. (due - 1) * cpu_tick = due * cpu_tick - cpu_tick
    BY <1>1, TickTypes
  <2>3. drift' = due' * cpu_tick
    BY <2>1, <2>2
  <2>4. due' <= mem_tick
    BY <1>1, <2>1, TickTypes
  <2>5. WarmupClock'
    BY <2>1, <2>3, <2>4 DEF WarmupClock
  <2>6. QED
    BY <1>1, <1>2, <2>5 DEF ClockInv
<1>3. CASE phase = "run"
  <2>1. PICK p, q \in Nat : /\ drift = p - q /\ FirstFrom(p, mem_tick, i + 1)
                            /\ FirstFrom(q, cpu_tick, i)
                            /\ due = 1 /\ i % cpu_tick = 0
    BY <1>1, <1>3 DEF ClockInv, RunClock
  <2>2. FirstFrom(q + cpu_tick, cpu_tick, i + 1)
    BY <1>1, <2>1, FirstMoves, TickTypes
  <2>3. drift' = p - (q + cpu_tick) /\ q + cpu_tick \in Nat /\ due' = 0
    BY <2>1, TickTypes
  <2>4. i < tick_mult
    BY <1>3 DEF ClockInv, RunClock
  <2>5. RunClock'
    BY <2>1, <2>2, <2>3, <2>4 DEF RunClock, tick_mult
  <2>6. QED
    BY <1>1, <1>3, <2>5 DEF ClockInv
<1>4. QED
  BY <1>2, <1>3

LEMMA IterationMoves ==
  ASSUME ClockInv, phase \in {"warmup", "run"}, phase' = phase, pc = "memory", due = 0,
         i' = (i + 1) % Period, pc' = "proc", UNCHANGED <<due, drift>>
  PROVE  ClockInv'
<1>1. i \in Nat /\ drift \in Int /\ due' \in Nat /\ drift' \in Int
  BY DEF ClockInv
<1>2. CASE phase = "warmup"
  <2>1. i < cpu_tick /\ i' = (i + 1) % cpu_tick
    BY <1>2 DEF ClockInv, WarmupClock, Period
  <2>2. CASE i + 1 < cpu_tick /\ drift = (i + 1) * mem_tick
    <3>1. i' = i + 1
      BY <1>1, <2>1, <2>2, TickTypes
    <3>2. WarmupClock'
      BY <2>2, <3>1 DEF WarmupClock
    <3>3. QED
      BY <1>1, <1>2, <3>1, <3>2 DEF ClockInv
  <2>3. CASE i + 1 = cpu_tick /\ drift = 0 * cpu_tick
    <3>1. i' = 0 /\ drift' = 0 /\ 0 * mem_tick = 0
      BY <1>1, <2>1, <2>3, TickTypes
    <3>2. WarmupClock'
      BY <3>1, TickTypes DEF WarmupClock
    <3>3. QED
      BY <1>1, <1>2, <3>1, <3>2 DEF ClockInv
  <2>4. QED
    BY <1>2, <2>2, <2>3 DEF ClockInv, WarmupClock
<1>3. CASE phase = "run"
  <2>1. PICK p, q \in Nat : /\ drift = p - q /\ FirstFrom(p, mem_tick, i + 1)
                            /\ FirstFrom(q, cpu_tick, i + 1)
    BY <1>3 DEF ClockInv, RunClock
  <2>2. i < tick_mult /\ i' = (i + 1) % tick_mult
    BY <1>3 DEF ClockInv, RunClock, Period
  <2>3. CASE i + 1 < tick_mult
    <3>1. i' = i + 1
      BY <1>1, <2>2, <2>3, TickMult
    <3>2. RunClock'
      BY <2>1, <2>3, <3>1 DEF RunClock, tick_mult
    <3>3. QED
      BY <1>1, <1>3, <3>1, <3>2 DEF ClockInv
  <2>4. CASE i + 1 = tick_mult
    <3>1. i' = 0
      BY <2>2, <2>4, TickMult
    <3>2. p = tick_mult
      <4>1. FirstFrom(p, mem_tick, cpu_tick * mem_tick)
        BY <2>1, <2>4, TickMult
      <4>2. QED
        BY <4>1, FirstIsMultiple, TickTypes, TickMult
    <3>3. q = tick_mult
      <4>1. FirstFrom(q, cpu_tick, mem_tick * cpu_tick)
        BY <2>1, <2>4, TickMult
      <4>2. QED
        BY <4>1, FirstIsMultiple, TickTypes, TickMult
    <3>4. drift' = 0 - 0
      BY <2>1, <3>2, <3>3
    <3>5. FirstFrom(0, mem_tick, 0) /\ FirstFrom(0, cpu_tick, 0)
      BY TickTypes DEF FirstFrom
    <3>6. RunClock'
      BY <3>1, <3>4, <3>5, TickMult DEF RunClock, tick_mult
    <3>7. QED
      BY <1>1, <1>3, <3>1, <3>6 DEF ClockInv
  <2>5. QED
    BY <1>1, <2>2, <2>3, <2>4, TickMult
<1>4. QED
  BY <1>2, <1>3

LEMMA StepClocks ==
  ASSUME ClockInv, [Next]_vars
  PROVE  ClockInv'
<1>0. phase \in {"warmup", "run", "ended"}
  BY DEF ClockInv
<1>1. ASSUME NEW accepted, TickProcessor(accepted)
      PROVE  ClockInv'
  <2>1. /\ phase # "ended" /\ phase' = phase /\ i' = i /\ pc = "proc" /\ pc' = "memory"
        /\ due' = MemoryDue /\ drift' = drift + mem_tick /\ ProcDue
    BY <1>1 DEF TickProcessor
  <2>2. CASE phase = "warmup"
    BY <2>1, <2>2, WarmupProcessor
  <2>3. CASE phase = "run"
    <3>1. (i % tick_mult) % mem_tick = 0
      BY <2>1, <2>3 DEF ProcDue
    <3>2. QED
      BY <2>1, <2>3, <3>1, RunProcessor
  <2>4. QED
    BY <1>0, <2>1, <2>2, <2>3
<1>2. CASE SkipProcessor
  <2>1. /\ phase # "ended" /\ phase' = phase /\ i' = i /\ pc = "proc" /\ pc' = "memory"
        /\ due' = MemoryDue /\ drift' = drift /\ ~ProcDue
    BY <1>2 DEF SkipProcessor
  <2>2. phase = "run" /\ (i % tick_mult) % mem_tick # 0
    BY <1>0, <2>1 DEF ProcDue
  <2>3. QED
    BY <2>1, <2>2, RunProcessor
<1>3. CASE End
  <2>1. phase' = "ended" /\ UNCHANGED <<i, pc, due, drift>>
    BY <1>3 DEF End
  <2>2. ClocksInStep
    BY ClockInStep
  <2>3. ClocksInStep'
    BY <2>1, <2>2 DEF ClocksInStep, tick_mult
  <2>4. QED
    BY <2>1, <2>3 DEF ClockInv
<1>4. CASE TickMemory
  <2>1. /\ phase # "ended" /\ UNCHANGED <<phase, i, pc>> /\ pc = "memory" /\ due > 0
        /\ due' = due - 1 /\ drift' = drift - cpu_tick
    BY <1>4 DEF TickMemory
  <2>2. QED
    BY <1>0, <2>1, MemoryTicks
<1>5. CASE NextIteration
  <2>1. /\ phase # "ended" /\ phase' = phase /\ pc = "memory" /\ due = 0
        /\ i' = (i + 1) % Period /\ pc' = "proc" /\ UNCHANGED <<due, drift>>
    BY <1>5 DEF NextIteration
  <2>2. QED
    BY <1>0, <2>1, IterationMoves
<1>6. CASE EndWarmup
  <2>1. phase' = "run" /\ i' = 0 /\ pc' = "proc" /\ due' = 0 /\ drift' = 0
    BY <1>6 DEF EndWarmup
  <2>2. FirstFrom(0, mem_tick, 0) /\ FirstFrom(0, cpu_tick, 0)
    BY TickTypes DEF FirstFrom
  <2>3. RunClock'
    BY <2>1, <2>2, TickMult DEF RunClock, tick_mult
  <2>4. QED
    BY <2>1, <2>3 DEF ClockInv
<1>7. ASSUME UNCHANGED loop
      PROVE  ClockInv'
  BY <1>7 DEF loop, ClockInv, WarmupClock, RunClock, ClocksInStep, tick_mult
<1>8. ASSUME Ended \/ UNCHANGED vars
      PROVE  UNCHANGED loop
  BY <1>8 DEF Ended, vars, loop
<1>9. ASSUME NEW b, NEW parts, Receive(b, parts)
      PROVE  UNCHANGED loop
  BY <1>9 DEF Receive
<1>10. QED
  BY <1>1, <1>2, <1>3, <1>4, <1>5, <1>6, <1>7, <1>8, <1>9 DEF Next, Loop

(***************************************************************************)
(* In both loops the processor gets cpu_tick cycles for every mem_tick     *)
(* cycles of the memory (run_cputrace, Main.cpp): neither clock runs ahead *)
(* of the other by more than a period, for any two tick counts, whether or *)
(* not they have a common divisor.                                         *)
(***************************************************************************)
THEOREM ClocksStayInStep == Spec => []ClocksInStep
<1>1. Init => ClockInv
  BY ClockInit
<1>2. ClockInv /\ [Next]_vars => ClockInv'
  BY StepClocks
<1>3. ClockInv => ClocksInStep
  BY ClockInStep
<1>4. QED
  BY <1>1, <1>2, <1>3, PTL DEF Spec

=============================================================================
