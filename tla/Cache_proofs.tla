----------------------------- MODULE Cache_proofs -----------------------------
(***************************************************************************)
(* Proofs about Cache: any number of cores, caches of any number of ways   *)
(* and MSHRs, any accesses and any predictions.  CacheChain_proofs goes on *)
(* with what holds of one core.                                            *)
(***************************************************************************)
EXTENDS Cache, FiniteSetTheorems, SequenceTheorems, WellFoundedInduction, TLAPS

\* Induction over the natural numbers, for a set.
LEMMA Induction ==
  ASSUME NEW S \in SUBSET Nat, 0 \in S, \A n \in S : n + 1 \in S
  PROVE  S = Nat
<1> SUFFICES ASSUME Nat \ S # {}
             PROVE  FALSE
  OBVIOUS
<1> DEFINE Upto == {0..n : n \in Nat \ S}
           R == StrictSubsetOrdering(Nat)
<1>1. IsWellFoundedOn(R, FiniteSubsetsOf(Nat))
  BY FS_StrictSubsetOrderingWellFounded
<1>2. Upto # {} /\ Upto \subseteq FiniteSubsetsOf(Nat)
  <2>1. \A n \in Nat \ S : n \in Int /\ 0..n \in SUBSET Nat /\ IsFiniteSet(0..n)
    BY FS_Interval
  <2>2. QED
    BY <2>1 DEF FiniteSubsetsOf
<1> HIDE DEF R
<1>3. PICK n \in Nat \ S : \A m \in Nat \ S : <<0..m, 0..n>> \notin R
  <2>1. \E x \in Upto : \A y \in Upto : ~(<<y, x>> \in R)
    BY <1>1, <1>2, WFMin
  <2>2. QED
    BY <2>1
<1>4. n # 0 /\ n - 1 \in Nat \ S
  BY <1>3
<1>5. 0..(n - 1) \subseteq 0..n /\ n \in 0..n /\ n \notin 0..(n - 1)
      /\ 0..(n - 1) \subseteq Nat /\ 0..n \subseteq Nat
  BY <1>4
<1>6. <<0..(n - 1), 0..n>> \in R
  BY <1>5 DEF R, StrictSubsetOrdering
<1>7. QED
  BY <1>3, <1>4, <1>6

\* The least number of a set
LEMMA MinIs ==
  ASSUME NEW S \in SUBSET Nat, S # {}
  PROVE  Min(S) \in S /\ \A y \in S : Min(S) <= y
<1> DEFINE Below == {n \in Nat : \A y \in S : n <= y}
<1>1. \E x \in S : \A y \in S : x <= y
  <2> SUFFICES ASSUME \A x \in S : \E y \in S : ~(x <= y)
               PROVE  FALSE
    OBVIOUS
  <2>1. 0 \in Below
    OBVIOUS
  <2>2. \A n \in Below : n + 1 \in Below
    <3> SUFFICES ASSUME NEW n \in Below, NEW y \in S
                 PROVE  n + 1 <= y
      OBVIOUS
    <3>1. n \in Nat /\ y \in Nat /\ n <= y
      OBVIOUS
    <3>2. n # y
      OBVIOUS
    <3>3. QED
      BY <3>1, <3>2
  <2>3. Below = Nat
    <3>1. Below \in SUBSET Nat
      OBVIOUS
    <3> HIDE DEF Below
    <3>2. QED
      BY <2>1, <2>2, <3>1, Induction
  <2>4. PICK y \in S : TRUE
    OBVIOUS
  <2>5. y \in Nat /\ y + 1 \in Below
    BY <2>3
  <2>6. QED
    BY <2>5
<1>2. QED
  BY <1>1 DEF Min

-----------------------------------------------------------------------------
(***************************************************************************)
(* One set of n ways.                                                      *)
(***************************************************************************)
Tag == Block \cup {0}

\* "MRU bits should never be all one", so a victim is found.
SomeUnused(s) == \E i \in DOMAIN s : ~s[i].mru

\* Of the ways with one tag only the first is in use.
OneInUse(s) ==
  \A i, j \in DOMAIN s : i < j /\ s[i].tag = s[j].tag => ~s[j].valid /\ ~s[j].busy

\* "More sectors used than brought" is never true.
UsedArePresent(s) == \A i \in DOMAIN s : s[i].usedSectors \subseteq s[i].sectorValids

SetOK(n, s) == s \in [1..n -> Way] /\ SomeUnused(s) /\ OneInUse(s) /\ UsedArePresent(s)

\* What the sets before and after a call may differ in when all ways stay in use as they are
SameUse(n, s, t) ==
  \A i \in 1..n : t[i].tag = s[i].tag /\ t[i].valid = s[i].valid /\ t[i].busy = s[i].busy

Keeps(s, t) ==
  \A b \in Tag : /\ isBusy(t, b) <=> isBusy(s, b)
                 /\ isValid(t, b) <=> isValid(s, b)
                 /\ HasTag(t, b) <=> HasTag(s, b)

LEMMA WaysAre ==
  ASSUME NEW n \in Nat, NEW s \in [1..n -> Way]
  PROVE  Ways(s) = 1..n /\ DOMAIN s = 1..n
<1>1. s \in Seq(Way) /\ Len(s) = n
  OBVIOUS
<1>2. QED
  BY <1>1 DEF Ways

LEMMA WayFields ==
  ASSUME NEW w \in Way
  PROVE  /\ w.tag \in Tag /\ w.sectorValids \subseteq Sector /\ w.usedSectors \subseteq Sector
         /\ w.dirtySectors \subseteq Sector
BY DEF Way, Tag

LEMMA FirstWay ==
  ASSUME NEW n \in Nat, NEW s \in [1..n -> Way], NEW b, HasTag(s, b)
  PROVE  /\ findWayIdx(s, b) \in 1..n /\ s[findWayIdx(s, b)].tag = b
         /\ \A j \in 1..n : s[j].tag = b => findWayIdx(s, b) <= j
<1> DEFINE S == {i \in Ways(s) : s[i].tag = b}
<1>1. Ways(s) = 1..n
  BY WaysAre
<1>2. S \in SUBSET Nat /\ S # {}
  BY <1>1 DEF HasTag
<1>3. findWayIdx(s, b) = Min(S)
  BY DEF findWayIdx
<1>4. Min(S) \in S /\ \A y \in S : Min(S) <= y
  BY <1>2, MinIs
<1>5. QED
  BY <1>1, <1>3, <1>4

\* Whether a block is in use, without the order of the ways
LEMMA InUse ==
  ASSUME NEW n \in Nat, NEW s \in [1..n -> Way], OneInUse(s), NEW b
  PROVE  /\ HasTag(s, b) <=> \E i \in 1..n : s[i].tag = b
         /\ isBusy(s, b) <=> \E i \in 1..n : s[i].tag = b /\ s[i].busy
         /\ isValid(s, b) <=> \E i \in 1..n : s[i].tag = b /\ s[i].valid
<1>1. Ways(s) = 1..n /\ DOMAIN s = 1..n
  BY WaysAre
<1>2. HasTag(s, b) <=> \E i \in 1..n : s[i].tag = b
  BY <1>1 DEF HasTag
<1>3. ASSUME NEW i \in 1..n, s[i].tag = b, s[i].busy \/ s[i].valid
      PROVE  i = findWayIdx(s, b) /\ HasTag(s, b)
  <2>1. HasTag(s, b)
    BY <1>2, <1>3
  <2>2. findWayIdx(s, b) \in 1..n /\ s[findWayIdx(s, b)].tag = b /\ findWayIdx(s, b) <= i
    BY <1>3, <2>1, FirstWay
  <2>3. ~(findWayIdx(s, b) < i)
    BY <1>1, <1>3, <2>2 DEF OneInUse
  <2>4. QED
    BY <2>1, <2>2, <2>3
<1>4. HasTag(s, b) => findWayIdx(s, b) \in 1..n /\ s[findWayIdx(s, b)].tag = b
  BY FirstWay
<1>5. isBusy(s, b) <=> \E i \in 1..n : s[i].tag = b /\ s[i].busy
  BY <1>3, <1>4 DEF isBusy
<1>6. isValid(s, b) <=> \E i \in 1..n : s[i].tag = b /\ s[i].valid
  BY <1>3, <1>4 DEF isValid
<1>7. QED
  BY <1>2, <1>5, <1>6

LEMMA SameUseKeeps ==
  ASSUME NEW n \in Nat, NEW s \in [1..n -> Way], NEW t \in [1..n -> Way], OneInUse(s),
         SameUse(n, s, t)
  PROVE  OneInUse(t) /\ Keeps(s, t)
<1>1. DOMAIN s = 1..n /\ DOMAIN t = 1..n
  BY WaysAre
<1>2. OneInUse(t)
  BY <1>1 DEF OneInUse, SameUse
<1>3. ASSUME NEW b \in Tag
      PROVE  /\ isBusy(t, b) <=> isBusy(s, b)
             /\ isValid(t, b) <=> isValid(s, b)
             /\ HasTag(t, b) <=> HasTag(s, b)
  <2>1. /\ HasTag(s, b) <=> \E i \in 1..n : s[i].tag = b
        /\ isBusy(s, b) <=> \E i \in 1..n : s[i].tag = b /\ s[i].busy
        /\ isValid(s, b) <=> \E i \in 1..n : s[i].tag = b /\ s[i].valid
    BY InUse
  <2>2. /\ HasTag(t, b) <=> \E i \in 1..n : t[i].tag = b
        /\ isBusy(t, b) <=> \E i \in 1..n : t[i].tag = b /\ t[i].busy
        /\ isValid(t, b) <=> \E i \in 1..n : t[i].tag = b /\ t[i].valid
    BY <1>2, InUse
  <2>3. QED
    BY <2>1, <2>2 DEF SameUse
<1>4. QED
  BY <1>2, <1>3 DEF Keeps

(***************************************************************************)
(* The calls that leave the ways in use as they are.                       *)
(***************************************************************************)
LEMMA WayTouched ==
  ASSUME NEW n \in Nat, n > 1, NEW s \in [1..n -> Way], SomeUnused(s), NEW i
  PROVE  LET t == Touch(s, i)
         IN  /\ t \in [1..n -> Way] /\ SameUse(n, s, t) /\ SomeUnused(t)
             /\ UsedArePresent(s) => UsedArePresent(t)
<1> DEFINE t == Touch(s, i)
<1>1. Ways(s) = 1..n /\ DOMAIN s = 1..n
  BY WaysAre
<1>2. CASE \A j \in 1..n \ {i} : s[j].mru
  <2>1. t = [j \in 1..n |-> [s[j] EXCEPT !.mru = (j = i)]]
    BY <1>1, <1>2 DEF Touch
  <2>2. ASSUME NEW j \in 1..n
        PROVE  /\ t[j] \in Way /\ (t[j].mru <=> j = i) /\ t[j].tag = s[j].tag
               /\ t[j].valid = s[j].valid /\ t[j].busy = s[j].busy
               /\ t[j].sectorValids = s[j].sectorValids /\ t[j].usedSectors = s[j].usedSectors
    <3>1. t[j] = [s[j] EXCEPT !.mru = (j = i)] /\ s[j] \in Way
      BY <2>1
    <3>2. (j = i) \in BOOLEAN
      OBVIOUS
    <3> HIDE DEF t
    <3>3. QED
      BY <3>1, <3>2 DEF Way
  <2>3. DOMAIN t = 1..n
    BY <2>1
  <2>4. t \in [1..n -> Way]
    BY <2>1, <2>2
  <2> HIDE DEF t
  <2>5. SomeUnused(t)
    <3>1. PICK j \in 1..n : j # i
      OBVIOUS
    <3>2. QED
      BY <2>2, <2>3, <3>1 DEF SomeUnused
  <2>6. SameUse(n, s, t)
    BY <2>2 DEF SameUse
  <2>7. UsedArePresent(s) => UsedArePresent(t)
    BY <1>1, <2>2, <2>3 DEF UsedArePresent
  <2>8. QED
    BY <2>4, <2>5, <2>6, <2>7 DEF t
<1>3. CASE ~(\A j \in 1..n \ {i} : s[j].mru)
  <2>1. t = [s EXCEPT ![i].mru = TRUE]
    BY <1>1, <1>3 DEF Touch
  <2>2. ASSUME NEW j \in 1..n
        PROVE  /\ t[j] \in Way /\ (j # i => t[j].mru = s[j].mru) /\ t[j].tag = s[j].tag
               /\ t[j].valid = s[j].valid /\ t[j].busy = s[j].busy
               /\ t[j].sectorValids = s[j].sectorValids /\ t[j].usedSectors = s[j].usedSectors
    <3>1. t[j] = IF j = i THEN [s[j] EXCEPT !.mru = TRUE] ELSE s[j]
      BY <1>1, <2>1
    <3>2. s[j] \in Way
      OBVIOUS
    <3> HIDE DEF t
    <3>3. QED
      BY <3>1, <3>2 DEF Way
  <2>3. DOMAIN t = 1..n
    BY <1>1, <2>1
  <2>4. t = [j \in 1..n |-> t[j]]
    BY <1>1, <2>1
  <2> HIDE DEF t
  <2>5. t \in [1..n -> Way]
    BY <2>2, <2>4
  <2>6. SomeUnused(t)
    BY <1>3, <2>2, <2>3 DEF SomeUnused
  <2>7. SameUse(n, s, t)
    BY <2>2 DEF SameUse
  <2>8. UsedArePresent(s) => UsedArePresent(t)
    BY <1>1, <2>2, <2>3 DEF UsedArePresent
  <2>9. QED
    BY <2>5, <2>6, <2>7, <2>8 DEF t
<1>4. QED
  BY <1>2, <1>3

LEMMA UseComposes ==
  ASSUME NEW n, NEW s, NEW t, NEW u, SameUse(n, s, t), SameUse(n, t, u)
  PROVE  SameUse(n, s, u)
BY DEF SameUse

\* A call that gives a way, if there is one at i, other sectors or makes it dirty
LEMMA WayEdited ==
  ASSUME NEW n \in Nat, NEW s, SetOK(n, s), NEW t, NEW i,
         t \in [1..n -> Way], \A j \in 1..n : j # i => t[j] = s[j],
         i \in 1..n => /\ t[i].tag = s[i].tag /\ t[i].valid = s[i].valid /\ t[i].busy = s[i].busy
                       /\ t[i].mru = s[i].mru /\ t[i].usedSectors \subseteq t[i].sectorValids
  PROVE  SetOK(n, t) /\ SameUse(n, s, t)
<1>1. DOMAIN s = 1..n /\ DOMAIN t = 1..n /\ s \in [1..n -> Way]
  BY WaysAre DEF SetOK
<1>2. SameUse(n, s, t)
  BY DEF SameUse
<1>3. OneInUse(t)
  BY <1>1, <1>2, SameUseKeeps DEF SetOK
<1>4. SomeUnused(t)
  BY <1>1 DEF SetOK, SomeUnused
<1>5. UsedArePresent(t)
  BY <1>1 DEF SetOK, UsedArePresent
<1>6. QED
  BY <1>2, <1>3, <1>4, <1>5 DEF SetOK

LEMMA AccessKeeps ==
  ASSUME NEW n \in Nat, n > 1, NEW s, SetOK(n, s), NEW b \in Tag,
         NEW sectors \in SUBSET Sector, NEW isWrite \in BOOLEAN, accessAsserts(s, b, sectors)
  PROVE  SetOK(n, access(s, b, sectors, isWrite)) /\ Keeps(s, access(s, b, sectors, isWrite))
<1> DEFINE i == findWayIdx(s, b)
           u == s[i].usedSectors \cup sectors
           d == IF isWrite THEN s[i].dirtySectors \cup sectors ELSE s[i].dirtySectors
           t == [s EXCEPT ![i] = [s[i] EXCEPT !.usedSectors = u, !.dirtySectors = d]]
<1>0. s \in [1..n -> Way] /\ DOMAIN s = 1..n
  BY WaysAre DEF SetOK
<1>1. HasTag(s, b) /\ i \in 1..n /\ s[i] \in Way
  BY <1>0, FirstWay DEF accessAsserts
<1>2. sectors \subseteq s[i].sectorValids
  BY <1>1 DEF accessAsserts, getSectorBits
<1>3. access(s, b, sectors, isWrite) = Touch(t, i)
  BY <1>0, <1>1 DEF access, Way
<1>4. s[i].usedSectors \subseteq s[i].sectorValids
  BY <1>0, <1>1 DEF SetOK, UsedArePresent
<1>5. u \in SUBSET Sector /\ d \in SUBSET Sector /\ u \subseteq s[i].sectorValids
  BY <1>1, <1>2, <1>4, WayFields
<1> HIDE DEF i, u, d
<1>6. /\ t[i] \in Way /\ t[i].tag = s[i].tag /\ t[i].valid = s[i].valid /\ t[i].busy = s[i].busy
      /\ t[i].mru = s[i].mru /\ t[i].usedSectors \subseteq t[i].sectorValids
  BY <1>0, <1>1, <1>5 DEF Way
<1>7. t \in [1..n -> Way] /\ \A j \in 1..n : j # i => t[j] = s[j]
  BY <1>0, <1>1, <1>6
<1> HIDE DEF t
<1>8. SetOK(n, t) /\ SameUse(n, s, t)
  BY <1>6, <1>7, WayEdited
<1>9. /\ Touch(t, i) \in [1..n -> Way] /\ SameUse(n, t, Touch(t, i)) /\ SomeUnused(Touch(t, i))
      /\ UsedArePresent(Touch(t, i))
  BY <1>8, WayTouched DEF SetOK
<1>10. SameUse(n, s, Touch(t, i))
  BY <1>8, <1>9, UseComposes
<1>11. OneInUse(Touch(t, i)) /\ Keeps(s, Touch(t, i))
  BY <1>0, <1>9, <1>10, SameUseKeeps DEF SetOK
<1>12. QED
  BY <1>3, <1>9, <1>11 DEF SetOK

LEMMA InsertSectorsKeeps ==
  ASSUME NEW n \in Nat, NEW s, SetOK(n, s), NEW b \in Tag, NEW sectors \in SUBSET Sector
  PROVE  SetOK(n, insertSectors(s, b, sectors)) /\ Keeps(s, insertSectors(s, b, sectors))
<1> DEFINE i == findWayIdx(s, b)
           t == insertSectors(s, b, sectors)
<1>0. s \in [1..n -> Way] /\ DOMAIN s = 1..n
  BY WaysAre DEF SetOK
<1>1. t = [s EXCEPT ![i].sectorValids = @ \cup sectors]
  BY DEF insertSectors
<1> HIDE DEF i
<1>2. ASSUME NEW j \in 1..n
      PROVE  /\ j # i => t[j] = s[j]
             /\ t[j] \in Way /\ t[j].tag = s[j].tag /\ t[j].valid = s[j].valid
             /\ t[j].busy = s[j].busy /\ t[j].mru = s[j].mru
             /\ t[j].usedSectors \subseteq t[j].sectorValids
  <2>1. s[j] \in Way /\ s[j].usedSectors \subseteq s[j].sectorValids
    BY <1>0 DEF SetOK, UsedArePresent
  <2>2. t[j] = IF j = i THEN [s[j] EXCEPT !.sectorValids = s[j].sectorValids \cup sectors] ELSE s[j]
    BY <1>0, <1>1
  <2> HIDE DEF t
  <2>3. QED
    BY <2>1, <2>2 DEF Way
<1>3. t \in [1..n -> Way]
  <2>1. t = [j \in 1..n |-> t[j]]
    BY <1>0, <1>1
  <2> HIDE DEF t
  <2>2. QED
    BY <1>2, <2>1
<1> HIDE DEF t
<1>4. SetOK(n, t) /\ SameUse(n, s, t)
  BY <1>2, <1>3, WayEdited
<1>5. QED
  BY <1>0, <1>3, <1>4, SameUseKeeps DEF t, SetOK

LEMMA MakeDirtyKeeps ==
  ASSUME NEW n \in Nat, NEW s, SetOK(n, s), NEW b \in Tag
  PROVE  SetOK(n, makeDirty(s, b)) /\ Keeps(s, makeDirty(s, b))
<1> DEFINE i == findWayIdx(s, b)
           t == makeDirty(s, b)
<1>0. s \in [1..n -> Way] /\ DOMAIN s = 1..n
  BY WaysAre DEF SetOK
<1>1. t = [s EXCEPT ![i].dirty = TRUE]
  BY DEF makeDirty
<1> HIDE DEF i
<1>2. ASSUME NEW j \in 1..n
      PROVE  /\ j # i => t[j] = s[j]
             /\ t[j] \in Way /\ t[j].tag = s[j].tag /\ t[j].valid = s[j].valid
             /\ t[j].busy = s[j].busy /\ t[j].mru = s[j].mru
             /\ t[j].usedSectors \subseteq t[j].sectorValids
  <2>1. s[j] \in Way /\ s[j].usedSectors \subseteq s[j].sectorValids
    BY <1>0 DEF SetOK, UsedArePresent
  <2>2. t[j] = IF j = i THEN [s[j] EXCEPT !.dirty = TRUE] ELSE s[j]
    BY <1>0, <1>1
  <2> HIDE DEF t
  <2>3. QED
    BY <2>1, <2>2 DEF Way
<1>3. t \in [1..n -> Way]
  <2>1. t = [j \in 1..n |-> t[j]]
    BY <1>0, <1>1
  <2> HIDE DEF t
  <2>2. QED
    BY <1>2, <2>1
<1> HIDE DEF t
<1>4. SetOK(n, t) /\ SameUse(n, s, t)
  BY <1>2, <1>3, WayEdited
<1>5. QED
  BY <1>0, <1>3, <1>4, SameUseKeeps DEF t, SetOK

-----------------------------------------------------------------------------
(***************************************************************************)
(* The calls that change what the first way with a tag is used for.        *)
(***************************************************************************)
\* The use of block b becomes `busy` and `valid`, that of other blocks stays.
Uses(s, t, b, busy, valid) ==
  \A x \in Tag : /\ HasTag(t, x) <=> HasTag(s, x)
                 /\ isBusy(t, x) <=> IF x = b THEN busy ELSE isBusy(s, x)
                 /\ isValid(t, x) <=> IF x = b THEN valid ELSE isValid(s, x)

LEMMA WayReplaced ==
  ASSUME NEW n \in Nat, NEW s, SetOK(n, s), NEW b \in Tag, HasTag(s, b), NEW w \in Way,
         w.tag = b, w.usedSectors \subseteq w.sectorValids,
         ~w.mru \/ w.mru = s[findWayIdx(s, b)].mru
  PROVE  LET t == [s EXCEPT ![findWayIdx(s, b)] = w]
         IN  SetOK(n, t) /\ Uses(s, t, b, w.busy, w.valid)
<1> DEFINE i == findWayIdx(s, b)
           t == [s EXCEPT ![i] = w]
<1>0. s \in [1..n -> Way] /\ DOMAIN s = 1..n
  BY WaysAre DEF SetOK
<1>1. i \in 1..n /\ s[i].tag = b /\ \A j \in 1..n : s[j].tag = b => i <= j
  BY <1>0, FirstWay
<1> HIDE DEF i
<1>2. t \in [1..n -> Way] /\ t[i] = w /\ \A j \in 1..n : j # i => t[j] = s[j]
  BY <1>0, <1>1
<1> HIDE DEF t
<1>3. DOMAIN t = 1..n
  BY <1>2
<1>4. \A j \in 1..n : t[j].tag = s[j].tag
  BY <1>1, <1>2
<1>5. OneInUse(t)
  <2> SUFFICES ASSUME NEW j \in 1..n, NEW k \in 1..n, j < k, t[j].tag = t[k].tag
               PROVE  ~t[k].valid /\ ~t[k].busy
    BY <1>3 DEF OneInUse
  <2>1. s[j].tag = s[k].tag
    BY <1>4
  <2>2. ~s[k].valid /\ ~s[k].busy
    BY <1>0, <2>1 DEF SetOK, OneInUse
  <2>3. k # i
    BY <1>1, <2>1
  <2>4. QED
    BY <1>2, <2>2, <2>3
<1>6. SomeUnused(t)
  <2>1. PICK j \in 1..n : ~s[j].mru
    BY <1>0 DEF SetOK, SomeUnused
  <2>2. ~t[j].mru
    BY <1>2, <2>1 DEF i
  <2>3. QED
    BY <1>3, <2>2 DEF SomeUnused
<1>7. UsedArePresent(t)
  BY <1>0, <1>2, <1>3 DEF SetOK, UsedArePresent
<1>8. ASSUME NEW x \in Tag
      PROVE  /\ HasTag(t, x) <=> HasTag(s, x)
             /\ isBusy(t, x) <=> IF x = b THEN w.busy ELSE isBusy(s, x)
             /\ isValid(t, x) <=> IF x = b THEN w.valid ELSE isValid(s, x)
  <2>1. /\ HasTag(s, x) <=> \E j \in 1..n : s[j].tag = x
        /\ isBusy(s, x) <=> \E j \in 1..n : s[j].tag = x /\ s[j].busy
        /\ isValid(s, x) <=> \E j \in 1..n : s[j].tag = x /\ s[j].valid
    BY <1>0, InUse DEF SetOK
  <2>2. /\ HasTag(t, x) <=> \E j \in 1..n : t[j].tag = x
        /\ isBusy(t, x) <=> \E j \in 1..n : t[j].tag = x /\ t[j].busy
        /\ isValid(t, x) <=> \E j \in 1..n : t[j].tag = x /\ t[j].valid
    BY <1>2, <1>5, InUse
  <2>3. HasTag(t, x) <=> HasTag(s, x)
    BY <1>4, <2>1, <2>2
  <2>4. CASE x = b
    <3>1. \A j \in 1..n : s[j].tag = x /\ j # i => ~t[j].busy /\ ~t[j].valid
      <4> SUFFICES ASSUME NEW j \in 1..n, s[j].tag = x, j # i
                   PROVE  ~t[j].busy /\ ~t[j].valid
        OBVIOUS
      <4>1. i < j /\ s[i].tag = s[j].tag
        BY <1>1, <2>4
      <4>2. ~s[j].busy /\ ~s[j].valid
        BY <1>0, <1>1, <4>1 DEF SetOK, OneInUse
      <4>3. QED
        BY <1>2, <4>2
    <3>2. isBusy(t, x) <=> w.busy
      BY <1>1, <1>2, <1>4, <2>2, <2>4, <3>1
    <3>3. isValid(t, x) <=> w.valid
      BY <1>1, <1>2, <1>4, <2>2, <2>4, <3>1
    <3>4. QED
      BY <2>3, <2>4, <3>2, <3>3
  <2>5. CASE x # b
    <3>1. \A j \in 1..n : t[j].tag = x => j # i /\ t[j] = s[j] /\ s[j].tag = x
      BY <1>1, <1>2, <1>4, <2>5
    <3>2. \A j \in 1..n : s[j].tag = x => j # i /\ t[j] = s[j] /\ t[j].tag = x
      BY <1>1, <1>2, <1>4, <2>5
    <3>3. isBusy(t, x) <=> isBusy(s, x)
      BY <2>1, <2>2, <3>1, <3>2
    <3>4. isValid(t, x) <=> isValid(s, x)
      BY <2>1, <2>2, <3>1, <3>2
    <3>5. QED
      BY <2>3, <2>5, <3>3, <3>4
  <2>6. QED
    BY <2>4, <2>5
<1>9. Uses(s, t, b, w.busy, w.valid)
  BY <1>8 DEF Uses
<1>10. QED
  BY <1>2, <1>5, <1>6, <1>7, <1>9 DEF SetOK, t, i

LEMMA UseIs ==
  ASSUME NEW s, NEW b, HasTag(s, b)
  PROVE  (isBusy(s, b) <=> s[findWayIdx(s, b)].busy) /\ (isValid(s, b) <=> s[findWayIdx(s, b)].valid)
BY DEF isBusy, isValid

LEMMA MakeBusyUses ==
  ASSUME NEW n \in Nat, NEW s, SetOK(n, s), NEW b \in Tag, HasTag(s, b)
  PROVE  SetOK(n, makeBusy(s, b)) /\ Uses(s, makeBusy(s, b), b, TRUE, isValid(s, b))
<1> DEFINE i == findWayIdx(s, b)
           w == [s[i] EXCEPT !.busy = TRUE]
<1>1. s \in [1..n -> Way] /\ i \in 1..n /\ s[i].tag = b
  BY FirstWay DEF SetOK
<1>2. s[i] \in Way /\ s[i].usedSectors \subseteq s[i].sectorValids
  BY <1>1 DEF SetOK, UsedArePresent
<1>3. makeBusy(s, b) = [s EXCEPT ![i] = w]
  BY <1>1 DEF makeBusy
<1> HIDE DEF i
<1>4. /\ w \in Way /\ w.tag = b /\ w.usedSectors \subseteq w.sectorValids /\ w.mru = s[i].mru
      /\ w.busy = TRUE /\ w.valid = s[i].valid
  BY <1>1, <1>2 DEF Way
<1> HIDE DEF w
<1>5. SetOK(n, [s EXCEPT ![i] = w]) /\ Uses(s, [s EXCEPT ![i] = w], b, w.busy, w.valid)
  BY <1>4, WayReplaced DEF i
<1>6. w.valid <=> isValid(s, b)
  BY <1>4, UseIs DEF i
<1>7. QED
  BY <1>3, <1>4, <1>5, <1>6 DEF Uses

\* A block that was fetched is there.
LEMMA SettledIs ==
  ASSUME NEW n \in Nat, NEW s \in [1..n -> Way], NEW b \in Tag, HasTag(s, b)
  PROVE  LET i == findWayIdx(s, b)
         IN  validate(makeIdle(s, b), b) = [s EXCEPT ![i] = [s[i] EXCEPT !.busy = FALSE, !.valid = TRUE]]
<1> DEFINE i == findWayIdx(s, b)
           v == [s[i] EXCEPT !.busy = FALSE]
           u == [s EXCEPT ![i] = v]
           w == [s[i] EXCEPT !.busy = FALSE, !.valid = TRUE]
<1>1. s \in [1..n -> Way] /\ DOMAIN s = 1..n /\ i \in 1..n /\ s[i].tag = b
  BY WaysAre, FirstWay
<1>2. s[i] \in Way
  BY <1>1
<1>3. makeIdle(s, b) = u
  BY <1>1 DEF makeIdle
<1>4. findWayIdx(u, b) = i
  <2> HIDE DEF i
  <2>1. v \in Way /\ v.tag = b
    BY <1>1, <1>2 DEF Way
  <2> HIDE DEF v
  <2>2. u \in [1..n -> Way] /\ \A j \in 1..n : u[j].tag = s[j].tag
    BY <1>1, <2>1
  <2> HIDE DEF u
  <2>3. Ways(u) = Ways(s) /\ Ways(s) = 1..n
    BY <1>1, <2>2, WaysAre
  <2>4. {j \in Ways(u) : u[j].tag = b} = {j \in Ways(s) : s[j].tag = b}
    BY <2>2, <2>3
  <2>5. QED
    BY <2>4 DEF findWayIdx, i
<1>5. validate(u, b) = [u EXCEPT ![i].valid = TRUE]
  BY <1>4 DEF validate
<1> HIDE DEF i
<1>6. [u EXCEPT ![i].valid = TRUE] = [s EXCEPT ![i] = w]
  BY <1>1, <1>2 DEF Way
<1>7. QED
  BY <1>3, <1>5, <1>6 DEF i, u, w

LEMMA SettledUses ==
  ASSUME NEW n \in Nat, NEW s, SetOK(n, s), NEW b \in Tag, HasTag(s, b)
  PROVE  LET t == validate(makeIdle(s, b), b) IN SetOK(n, t) /\ Uses(s, t, b, FALSE, TRUE)
<1> DEFINE i == findWayIdx(s, b)
           w == [s[i] EXCEPT !.busy = FALSE, !.valid = TRUE]
<1>1. s \in [1..n -> Way] /\ DOMAIN s = 1..n /\ i \in 1..n /\ s[i].tag = b
  BY WaysAre, FirstWay DEF SetOK
<1>2. s[i] \in Way /\ s[i].usedSectors \subseteq s[i].sectorValids
  BY <1>1 DEF SetOK, UsedArePresent
<1>3. validate(makeIdle(s, b), b) = [s EXCEPT ![i] = w]
  BY <1>1, SettledIs, Zenon
<1>4. /\ w \in Way /\ w.tag = b /\ w.usedSectors \subseteq w.sectorValids /\ w.mru = s[i].mru
      /\ w.busy = FALSE /\ w.valid = TRUE
  BY <1>1, <1>2 DEF Way
<1> HIDE DEF w
<1>5. SetOK(n, [s EXCEPT ![i] = w]) /\ Uses(s, [s EXCEPT ![i] = w], b, w.busy, w.valid)
  BY <1>4, WayReplaced
<1>6. QED
  BY <1>3, <1>4, <1>5

LEMMA EvictWayUses ==
  ASSUME NEW n \in Nat, NEW s, SetOK(n, s), NEW b \in Tag, HasTag(s, b)
  PROVE  SetOK(n, evictWay(s, b)) /\ Uses(s, evictWay(s, b), b, FALSE, FALSE)
<1> DEFINE i == findWayIdx(s, b)
           w == [EmptyWay EXCEPT !.tag = b]
<1>1. evictWay(s, b) = [s EXCEPT ![i] = w]
  BY DEF evictWay
<1>2. /\ w \in Way /\ w.tag = b /\ w.usedSectors \subseteq w.sectorValids /\ ~w.mru
      /\ w.busy = FALSE /\ w.valid = FALSE
  BY DEF EmptyWay, Way, Tag
<1> HIDE DEF w
<1>3. SetOK(n, [s EXCEPT ![i] = w]) /\ Uses(s, [s EXCEPT ![i] = w], b, w.busy, w.valid)
  BY <1>2, WayReplaced
<1>4. QED
  BY <1>1, <1>2, <1>3

\* The way of a block out of use becomes the way of a new block, which is fetched.
LEMMA InsertUses ==
  ASSUME NEW n \in Nat, n > 1, NEW s, SetOK(n, s), NEW old \in Tag, HasTag(s, old),
         ~isBusy(s, old), ~isValid(s, old), NEW b \in Tag, ~isBusy(s, b), ~isValid(s, b)
  PROVE  LET t == makeBusy(insert(s, old, b), b)
         IN  /\ SetOK(n, t)
             /\ \A x \in Tag : /\ isBusy(t, x) <=> x = b \/ isBusy(s, x)
                               /\ isValid(t, x) <=> isValid(s, x)
<1> DEFINE i == findWayIdx(s, old)
           w == [s[i] EXCEPT !.tag = b, !.sectorValids = {}, !.usedSectors = {}, !.dirtySectors = {}]
           u == [s EXCEPT ![i] = w]
           v == Touch(u, i)
<1>0. s \in [1..n -> Way] /\ DOMAIN s = 1..n
  BY WaysAre DEF SetOK
<1>1. i \in 1..n /\ s[i].tag = old /\ s[i] \in Way
  BY <1>0, FirstWay
<1>2. insert(s, old, b) = v
  BY <1>0, <1>1 DEF insert, Way
<1>3. ~s[i].busy /\ ~s[i].valid
  BY UseIs
<1> HIDE DEF i
<1>4. w \in Way /\ w.tag = b /\ ~w.busy /\ ~w.valid /\ w.mru = s[i].mru
      /\ w.usedSectors \subseteq w.sectorValids
  BY <1>1, <1>3 DEF Way, Tag
<1> HIDE DEF w
<1>5. u \in [1..n -> Way] /\ DOMAIN u = 1..n /\ u[i] = w /\ \A j \in 1..n : j # i => u[j] = s[j]
  BY <1>0, <1>1, <1>4
<1> HIDE DEF u
<1>6. \A j \in 1..n : s[j].tag = b => ~s[j].busy /\ ~s[j].valid
  BY <1>0, InUse DEF SetOK
<1>7. OneInUse(u)
  <2> SUFFICES ASSUME NEW j \in 1..n, NEW k \in 1..n, j < k, u[j].tag = u[k].tag
               PROVE  ~u[k].valid /\ ~u[k].busy
    BY <1>5 DEF OneInUse
  <2>1. CASE k = i
    BY <1>4, <1>5, <2>1
  <2>2. CASE k # i /\ j = i
    BY <1>4, <1>5, <1>6, <2>2
  <2>3. CASE k # i /\ j # i
    BY <1>0, <1>5, <2>3 DEF SetOK, OneInUse
  <2>4. QED
    BY <2>1, <2>2, <2>3
<1>8. SomeUnused(u)
  BY <1>0, <1>4, <1>5 DEF SetOK, SomeUnused
<1>9. UsedArePresent(u)
  BY <1>0, <1>4, <1>5 DEF SetOK, UsedArePresent
<1>10. v \in [1..n -> Way] /\ SameUse(n, u, v) /\ SomeUnused(v) /\ UsedArePresent(v)
  BY <1>5, <1>8, <1>9, WayTouched
<1> HIDE DEF v
<1>11. OneInUse(v) /\ Keeps(u, v)
  BY <1>5, <1>7, <1>10, SameUseKeeps
<1>12. SetOK(n, v)
  BY <1>10, <1>11 DEF SetOK
<1>13. ASSUME NEW x \in Tag
       PROVE  (isBusy(v, x) <=> isBusy(s, x)) /\ (isValid(v, x) <=> isValid(s, x))
  <2>1. /\ isBusy(s, x) <=> \E j \in 1..n : s[j].tag = x /\ s[j].busy
        /\ isValid(s, x) <=> \E j \in 1..n : s[j].tag = x /\ s[j].valid
    BY <1>0, InUse DEF SetOK
  <2>2. /\ isBusy(u, x) <=> \E j \in 1..n : u[j].tag = x /\ u[j].busy
        /\ isValid(u, x) <=> \E j \in 1..n : u[j].tag = x /\ u[j].valid
    BY <1>5, <1>7, InUse
  <2>3. \A j \in 1..n : (u[j].tag = x /\ u[j].busy) <=> (s[j].tag = x /\ s[j].busy)
    BY <1>1, <1>3, <1>4, <1>5
  <2>4. \A j \in 1..n : (u[j].tag = x /\ u[j].valid) <=> (s[j].tag = x /\ s[j].valid)
    BY <1>1, <1>3, <1>4, <1>5
  <2>5. (isBusy(u, x) <=> isBusy(s, x)) /\ (isValid(u, x) <=> isValid(s, x))
    BY <2>1, <2>2, <2>3, <2>4
  <2>6. QED
    BY <1>11, <2>5 DEF Keeps
<1>14. HasTag(v, b)
  <2>1. HasTag(u, b)
    BY <1>1, <1>4, <1>5, <1>7, InUse
  <2>2. QED
    BY <1>11, <2>1 DEF Keeps
<1>15. SetOK(n, makeBusy(v, b)) /\ Uses(v, makeBusy(v, b), b, TRUE, isValid(v, b))
  BY <1>12, <1>14, MakeBusyUses
<1>16. ASSUME NEW x \in Tag
       PROVE  /\ isBusy(makeBusy(v, b), x) <=> x = b \/ isBusy(s, x)
              /\ isValid(makeBusy(v, b), x) <=> isValid(s, x)
  BY <1>13, <1>15 DEF Uses
<1>17. QED
  BY <1>2, <1>15, <1>16 DEF v

-----------------------------------------------------------------------------
(***************************************************************************)
(* The hierarchy.  Typed says what holds of every state of it and Matched  *)
(* what holds between calls.                                               *)
(***************************************************************************)
\* The asserts that caches of several cores may make fail
Excusable ==
  {"UnexistingSector", "NonExistentBlock",
   "DirtyWithNoDirtySectors"}

HState ==
  [sets : [Caches -> Seq(Way)], mshr : [Caches -> Seq(mshr_entry_type)],
   retry : [Caches -> Seq(Request)], wait : SUBSET Request, hit : Seq(Request),
   asserts : SUBSET Excusable]

\* What cache c asks of the level below
Demand(c, r) == r \in Request /\ r.block \in Block /\ r.bits[level[c] + 1] # {}

Demands(c, q) == \A i \in 1..Len(q) : Demand(c, q[i])

Typed(h) ==
  /\ h \in HState
  /\ \A c \in Caches : /\ SetOK(nWays[c], h.sets[c])
                       /\ Len(h.mshr[c]) <= mshr_entry_num[c]
                       /\ Demands(c, h.retry[c])

Waited(m, b) == \E i \in 1..Len(m) : m[i].block = b

Matched(s, m) == \A b \in Tag : isBusy(s, b) <=> Waited(m, b)

HOK(h) == Typed(h) /\ \A c \in Caches : Matched(h.sets[c], h.mshr[c])

\* A call that leaves all blocks in use as they are
Same(h, g) == g.mshr = h.mshr /\ \A c \in Caches : Keeps(h.sets[c], g.sets[c])

\* A call that may evict blocks that are not busy
Less(s, t) ==
  \A b \in Tag : /\ isBusy(t, b) <=> isBusy(s, b)
                 /\ isValid(t, b) => isValid(s, b)
                 /\ HasTag(t, b) <=> HasTag(s, b)

Shrunk(h, g) == g.mshr = h.mshr /\ \A c \in Caches : Less(h.sets[c], g.sets[c])

LEMMA Numbers ==
  ASSUME NEW c \in Caches
  PROVE  /\ nWays[c] \in Nat /\ nWays[c] > 1 /\ mshr_entry_num[c] \in Nat
         /\ level[c] \in 0..2 /\ level[c] + 1 \in 0..3 /\ level[c] \in 0..3
         /\ level[c] # 2 => lower[c] \in Caches /\ level[lower[c]] = level[c] + 1 /\ lower[c] # c
<1>1. nWays[c] \in Nat \ {0, 1} /\ mshr_entry_num[c] \in Nat /\ level[c] \in 0..2
      /\ lower[c] \in Caches \cup {"memory"}
  BY HierarchyAssumption
<1>2. IF level[c] = 2 THEN lower[c] = "memory"
      ELSE lower[c] \in Caches /\ level[lower[c]] = level[c] + 1
  BY HierarchyAssumption
<1>3. nWays[c] \in Nat /\ nWays[c] > 1
  BY <1>1
<1>4. /\ level[c] \in 0..2 /\ level[c] + 1 \in 0..3 /\ level[c] \in 0..3
  BY <1>1
<1>5. level[c] # 2 => lower[c] # c
  BY <1>1, <1>2
<1>6. QED
  BY <1>1, <1>2, <1>3, <1>4, <1>5

LEMMA Fields ==
  ASSUME NEW h, Typed(h), NEW c \in Caches
  PROVE  /\ h.sets \in [Caches -> Seq(Way)] /\ h.mshr \in [Caches -> Seq(mshr_entry_type)]
         /\ h.retry \in [Caches -> Seq(Request)] /\ h.wait \in SUBSET Request
         /\ h.hit \in Seq(Request) /\ h.asserts \in SUBSET Excusable
         /\ SetOK(nWays[c], h.sets[c]) /\ Len(h.mshr[c]) <= mshr_entry_num[c]
         /\ h.mshr[c] \in Seq(mshr_entry_type) /\ h.retry[c] \in Seq(Request)
         /\ Demands(c, h.retry[c])
<1>1. h \in HState
  BY DEF Typed
<1>2. /\ h.sets \in [Caches -> Seq(Way)] /\ h.mshr \in [Caches -> Seq(mshr_entry_type)]
      /\ h.retry \in [Caches -> Seq(Request)] /\ h.wait \in SUBSET Request
      /\ h.hit \in Seq(Request) /\ h.asserts \in SUBSET Excusable
  BY <1>1 DEF HState
<1>3. h.mshr[c] \in Seq(mshr_entry_type) /\ h.retry[c] \in Seq(Request)
  BY <1>2
<1>4. QED
  BY <1>2, <1>3 DEF Typed

LEMMA PutSet ==
  ASSUME NEW h, Typed(h), NEW c \in Caches, NEW t, SetOK(nWays[c], t)
  PROVE  LET g == [h EXCEPT !.sets[c] = t]
         IN  /\ Typed(g) /\ g.sets = [h.sets EXCEPT ![c] = t] /\ g.mshr = h.mshr
             /\ g.retry = h.retry /\ g.wait = h.wait /\ g.hit = h.hit /\ g.asserts = h.asserts
<1> DEFINE S == [h.sets EXCEPT ![c] = t]
           g == [h EXCEPT !.sets = S]
<1>1. h \in HState /\ h.sets \in [Caches -> Seq(Way)]
  BY Fields DEF Typed
<1>2. [h EXCEPT !.sets[c] = t] = g
  OBVIOUS
<1>3. t \in Seq(Way)
  <2>1. t \in [1..nWays[c] -> Way] /\ nWays[c] \in Nat
    BY Numbers DEF SetOK
  <2>2. QED
    BY <2>1
<1>4. S \in [Caches -> Seq(Way)]
  BY <1>1, <1>3
<1>5. \A x \in Caches : SetOK(nWays[x], S[x])
  BY <1>1 DEF Typed
<1> HIDE DEF S
<1>6. g \in HState /\ g.sets = S /\ g.mshr = h.mshr
      /\ g.retry = h.retry /\ g.wait = h.wait /\ g.hit = h.hit /\ g.asserts = h.asserts
  BY <1>1, <1>4 DEF HState
<1> HIDE DEF g
<1>7. Typed(g)
  BY <1>5, <1>6 DEF Typed
<1>8. QED
  BY <1>2, <1>6, <1>7 DEF S

LEMMA KeptSet ==
  ASSUME NEW h, Typed(h), NEW c \in Caches, NEW t, SetOK(nWays[c], t), Keeps(h.sets[c], t)
  PROVE  Typed([h EXCEPT !.sets[c] = t]) /\ Same(h, [h EXCEPT !.sets[c] = t])
<1> DEFINE g == [h EXCEPT !.sets[c] = t]
<1>1. Typed(g) /\ g.sets = [h.sets EXCEPT ![c] = t] /\ g.mshr = h.mshr
  BY PutSet
<1>2. h.sets \in [Caches -> Seq(Way)]
  BY Fields
<1> HIDE DEF g
<1>3. \A x \in Caches : g.sets[x] = IF x = c THEN t ELSE h.sets[x]
  BY <1>1, <1>2
<1>4. \A x \in Caches : Keeps(h.sets[x], g.sets[x])
  BY <1>3 DEF Keeps
<1>5. QED
  BY <1>1, <1>4 DEF Same, g

LEMMA SameComposes ==
  ASSUME NEW f, NEW g, NEW h, Same(f, g), Same(g, h)
  PROVE  Same(f, h)
BY DEF Same, Keeps

LEMMA SameIsLess ==
  ASSUME NEW g, NEW h, Same(g, h)
  PROVE  Shrunk(g, h)
BY DEF Same, Keeps, Shrunk, Less

LEMMA ShrunkComposes ==
  ASSUME NEW f, NEW g, NEW h, Shrunk(f, g), Shrunk(g, h)
  PROVE  Shrunk(f, h)
BY DEF Shrunk, Less

LEMMA ShrunkMatches ==
  ASSUME NEW g, NEW h, HOK(g), Typed(h), Shrunk(g, h)
  PROVE  HOK(h)
BY DEF HOK, Shrunk, Less, Matched

LEMMA SameItself ==
  ASSUME NEW h
  PROVE  Same(h, h)
BY DEF Same, Keeps

\* An assert that fails, excusably
LEMMA Excused ==
  ASSUME NEW h, Typed(h), NEW holds \in BOOLEAN, NEW what, ~holds => what \in Excusable
  PROVE  LET g == Asserting(h, holds, what)
         IN  /\ Typed(g) /\ g.sets = h.sets /\ g.mshr = h.mshr /\ g.retry = h.retry
             /\ g.wait = h.wait /\ g.hit = h.hit /\ Same(h, g)
<1> DEFINE g == Asserting(h, holds, what)
<1>1. CASE holds
  <2>1. g = h
    BY <1>1 DEF Asserting
  <2>2. Same(h, h)
    BY SameItself
  <2> HIDE DEF g
  <2>3. Typed(g) /\ g.sets = h.sets /\ g.mshr = h.mshr /\ g.retry = h.retry
        /\ g.wait = h.wait /\ g.hit = h.hit /\ Same(h, g)
    BY <2>1, <2>2
  <2>4. QED
    BY <2>3 DEF g
<1>2. CASE ~holds
  <2> DEFINE A == h.asserts \cup {what}
  <2>1. h \in HState /\ A \in SUBSET Excusable
    <3>1. h \in HState
      BY DEF Typed
    <3>2. h.asserts \in SUBSET Excusable
      BY <3>1 DEF HState
    <3>3. QED
      BY <1>2, <3>1, <3>2
  <2>2. g = [h EXCEPT !.asserts = A]
    BY <1>2 DEF Asserting
  <2> HIDE DEF A, g
  <2>3. g \in HState /\ g.sets = h.sets /\ g.mshr = h.mshr /\ g.retry = h.retry
        /\ g.wait = h.wait /\ g.hit = h.hit
    BY <2>1, <2>2 DEF HState
  <2>4. Typed(g)
    BY <2>3 DEF Typed
  <2>5. Same(h, g)
    BY <2>3, SameItself DEF Same
  <2>6. QED
    BY <2>3, <2>4, <2>5 DEF g
<1>3. QED
  BY <1>1, <1>2

LEMMA AccessSame ==
  ASSUME NEW h, Typed(h), NEW c \in Caches, NEW b \in Tag, NEW sectors \in SUBSET Sector,
         NEW isWrite \in BOOLEAN
  PROVE  Typed(Access(h, c, b, sectors, isWrite)) /\ Same(h, Access(h, c, b, sectors, isWrite))
<1>1. nWays[c] \in Nat /\ nWays[c] > 1
  BY Numbers
<1>2. SetOK(nWays[c], h.sets[c])
  BY Fields
<1>3. CASE accessAsserts(h.sets[c], b, sectors)
  <2> DEFINE t == access(h.sets[c], b, sectors, isWrite)
  <2>1. SetOK(nWays[c], t) /\ Keeps(h.sets[c], t)
    BY <1>1, <1>2, <1>3, AccessKeeps
  <2>2. Access(h, c, b, sectors, isWrite) = [h EXCEPT !.sets[c] = t]
    BY <1>3 DEF Access
  <2> HIDE DEF t
  <2>3. QED
    BY <2>1, <2>2, KeptSet
<1>4. CASE ~accessAsserts(h.sets[c], b, sectors)
  <2>1. Access(h, c, b, sectors, isWrite) = Asserting(h, FALSE, "UnexistingSector")
    BY <1>4 DEF Access
  <2>2. "UnexistingSector" \in Excusable
    BY DEF Excusable
  <2>3. QED
    BY <2>1, <2>2, Excused
<1>5. QED
  BY <1>3, <1>4

LEMMA FillSame ==
  ASSUME NEW h, Typed(h), NEW c \in Caches, NEW b \in Tag, NEW sectors \in SUBSET Sector
  PROVE  Typed(Fill(h, c, b, sectors)) /\ Same(h, Fill(h, c, b, sectors))
<1>1. nWays[c] \in Nat
  BY Numbers
<1>2. SetOK(nWays[c], h.sets[c])
  BY Fields
<1> DEFINE t == insertSectors(h.sets[c], b, sectors)
<1>3. SetOK(nWays[c], t) /\ Keeps(h.sets[c], t)
  BY <1>1, <1>2, InsertSectorsKeeps
<1>4. Fill(h, c, b, sectors) = [h EXCEPT !.sets[c] = t]
  BY DEF Fill
<1> HIDE DEF t
<1>5. QED
  BY <1>3, <1>4, KeptSet

LEMMA SoilSame ==
  ASSUME NEW h, Typed(h), NEW c \in Caches, NEW b \in Tag
  PROVE  LET g == [h EXCEPT !.sets[c] = makeDirty(@, b)] IN Typed(g) /\ Same(h, g)
<1>1. nWays[c] \in Nat
  BY Numbers
<1>2. SetOK(nWays[c], h.sets[c])
  BY Fields
<1> DEFINE t == makeDirty(h.sets[c], b)
<1>3. SetOK(nWays[c], t) /\ Keeps(h.sets[c], t)
  BY <1>1, <1>2, MakeDirtyKeeps
<1>4. [h EXCEPT !.sets[c] = makeDirty(@, b)] = [h EXCEPT !.sets[c] = t]
  OBVIOUS
<1> HIDE DEF t
<1>5. QED
  BY <1>3, <1>4, KeptSet

LEMMA RequestFields ==
  ASSUME NEW r \in Request
  PROVE  /\ r.id \in 1..MaxSends /\ r.block \in Tag /\ r.actual \in SUBSET Sector
         /\ r.hit \in 0..3 /\ r.bits \in [0..3 -> SUBSET Sector]
         /\ \A l \in 0..3 : r.bits[l] \in SUBSET Sector
         /\ (r.type = "WRITE") \in BOOLEAN
<1>1. /\ r.id \in 1..MaxSends /\ r.block \in Tag /\ r.actual \in SUBSET Sector
      /\ r.hit \in 0..3 /\ r.bits \in [0..3 -> SUBSET Sector]
  BY DEF Request, Tag
<1>2. QED
  BY <1>1

LEMMA FillAccessSame ==
  ASSUME NEW h, Typed(h), NEW c \in Caches, NEW r \in Request
  PROVE  Typed(FillAccess(h, c, r)) /\ Same(h, FillAccess(h, c, r))
<1> DEFINE f == Fill(h, c, r.block, r.actual)
<1>1. r.block \in Tag /\ r.actual \in SUBSET Sector /\ (r.type = "WRITE") \in BOOLEAN
  BY RequestFields
<1>2. Typed(f) /\ Same(h, f)
  BY <1>1, FillSame
<1> HIDE DEF f
<1> DEFINE g == Access(f, c, r.block, r.actual, r.type = "WRITE")
<1>3. Typed(g) /\ Same(f, g)
  BY <1>1, <1>2, AccessSame
<1>4. FillAccess(h, c, r) = g
  BY DEF FillAccess, f
<1> HIDE DEF g
<1>5. QED
  BY <1>2, <1>3, <1>4, SameComposes

(***************************************************************************)
(* Eviction.                                                               *)
(***************************************************************************)
LEMMA UpdateSame ==
  ASSUME NEW h, Typed(h), NEW c \in Caches, NEW b \in Tag, NEW dirty \in BOOLEAN, NEW way \in Way
  PROVE  Typed(update(h, c, b, dirty, way)) /\ Same(h, update(h, c, b, dirty, way))
<1> DEFINE f == Fill(h, c, b, way.sectorValids)
           g == Access(f, c, b, way.usedSectors, FALSE)
           k == [g EXCEPT !.sets[c] = makeDirty(@, b)]
           m == Access(k, c, b, way.dirtySectors, TRUE)
           a == Asserting(h, FALSE, "NonExistentBlock")
<1>1. /\ way.sectorValids \in SUBSET Sector /\ way.usedSectors \in SUBSET Sector
      /\ way.dirtySectors \in SUBSET Sector
  BY WayFields
<1>2. Typed(f) /\ Same(h, f)
  BY <1>1, FillSame
<1> HIDE DEF f
<1>3. Typed(g) /\ Same(f, g)
  BY <1>1, <1>2, AccessSame
<1> HIDE DEF g
<1>4. Typed(k) /\ Same(g, k)
  BY <1>3, SoilSame
<1> HIDE DEF k
<1>5. Typed(m) /\ Same(k, m)
  BY <1>1, <1>4, AccessSame
<1> HIDE DEF m
<1>6. Typed(a) /\ Same(h, a)
  <2>1. "NonExistentBlock" \in Excusable
    BY DEF Excusable
  <2>2. QED
    BY <2>1, Excused
<1> HIDE DEF a
<1>7. Same(h, g) /\ Same(h, m)
  BY <1>2, <1>3, <1>4, <1>5, SameComposes
<1>8. \/ update(h, c, b, dirty, way) = a
      \/ update(h, c, b, dirty, way) = g
      \/ update(h, c, b, dirty, way) = m
  BY DEF update, a, m, k, g, f
<1>9. QED
  BY <1>3, <1>5, <1>6, <1>7, <1>8

\* The cache and its copies above, before and after one of them is evicted from
\* (e.dirty has no part in it)
LEMMA EvictFromShrinks ==
  ASSUME NEW e, Typed(e.h), e.dirty \in [Caches -> BOOLEAN], e = [h |-> e.h, dirty |-> e.dirty],
         NEW c \in Caches, NEW b \in Tag
  PROVE  LET f == EvictFrom(e, c, b)
         IN  /\ Typed(f.h) /\ Shrunk(e.h, f.h) /\ f = [h |-> f.h, dirty |-> f.dirty]
             /\ f.dirty \in [Caches -> BOOLEAN]
             /\ ~isBusy(e.h.sets[c], b) => ~isValid(f.h.sets[c], b)
<1> DEFINE set     == e.h.sets[c]
           above   == \E x \in Higher(c) : e.dirty[x]
           dirty   == above \/ isDirty(set, b)
           updated == IF level[c] = 2 THEN e.h
                      ELSE update(e.h, lower[c], b, dirty, set[findWayIdx(set, b)])
           checked == Asserting(updated, evictAsserts(set, b), "MoreUsedThanBrought")
           emptied == [checked EXCEPT !.sets[c] = evictWay(@, b)]
           f       == EvictFrom(e, c, b)
<1>1. f = IF isValid(set, b) /\ canEvict(set, b)
          THEN [h |-> emptied, dirty |-> [e.dirty EXCEPT ![c] = dirty]]
          ELSE [e EXCEPT !.dirty[c] = above]
  BY DEF EvictFrom
<1>2. above \in BOOLEAN /\ dirty \in BOOLEAN
  OBVIOUS
<1>3. SetOK(nWays[c], set) /\ nWays[c] \in Nat /\ nWays[c] > 1
  BY Fields, Numbers
<1> HIDE DEF above, dirty, f, set
<1>4. CASE isValid(set, b) /\ canEvict(set, b)
  <2>1. HasTag(set, b) /\ ~isBusy(set, b)
    BY <1>4 DEF isValid, canEvict
  <2>2. set \in [1..nWays[c] -> Way] /\ findWayIdx(set, b) \in 1..nWays[c]
    BY <1>3, <2>1, FirstWay DEF SetOK
  <2>3. Typed(updated) /\ Same(e.h, updated)
    <3>1. CASE level[c] = 2
      BY <3>1, SameItself
    <3>2. CASE level[c] # 2
      <4>1. lower[c] \in Caches
        BY <3>2, Numbers
      <4>2. set[findWayIdx(set, b)] \in Way
        BY <2>2
      <4>3. Typed(update(e.h, lower[c], b, dirty, set[findWayIdx(set, b)]))
            /\ Same(e.h, update(e.h, lower[c], b, dirty, set[findWayIdx(set, b)]))
        BY <1>2, <4>1, <4>2, UpdateSame
      <4>4. QED
        BY <3>2, <4>3
    <3>3. QED
      BY <3>1, <3>2
  <2> HIDE DEF updated
  <2>4. evictAsserts(set, b)
    <3>1. set[findWayIdx(set, b)].usedSectors \subseteq set[findWayIdx(set, b)].sectorValids
      BY <1>3, <2>2 DEF SetOK, UsedArePresent
    <3>2. QED
      BY <2>1, <3>1 DEF evictAsserts, getUsedSectors, getSectorBits
  <2>5. checked = updated
    BY <2>4 DEF Asserting
  <2> HIDE DEF checked
  <2> DEFINE s == updated.sets[c]
             t == evictWay(s, b)
  <2>6. Keeps(set, s) /\ SetOK(nWays[c], s)
    BY <2>3, Fields DEF Same, set
  <2>7. HasTag(s, b) /\ ~isBusy(s, b)
    BY <2>1, <2>6 DEF Keeps
  <2> HIDE DEF s
  <2>8. SetOK(nWays[c], t) /\ Uses(s, t, b, FALSE, FALSE)
    BY <1>3, <2>6, <2>7, EvictWayUses
  <2>9. emptied = [updated EXCEPT !.sets[c] = t]
    BY <2>5 DEF s
  <2> HIDE DEF t, emptied
  <2>10. Typed(emptied) /\ emptied.sets = [updated.sets EXCEPT ![c] = t] /\ emptied.mshr = updated.mshr
    BY <2>3, <2>8, <2>9, PutSet
  <2>11. updated.sets \in [Caches -> Seq(Way)]
    BY <2>3, Fields
  <2>12. \A x \in Caches : emptied.sets[x] = IF x = c THEN t ELSE updated.sets[x]
    BY <2>10, <2>11
  <2>13. Less(s, t)
    BY <2>7, <2>8 DEF Less, Uses
  <2>14. ASSUME NEW x \in Caches
         PROVE  Less(updated.sets[x], emptied.sets[x])
    <3>1. CASE x = c
      BY <2>12, <2>13, <3>1 DEF s
    <3>2. CASE x # c
      <4>1. emptied.sets[x] = updated.sets[x]
        BY <2>12, <3>2
      <4>2. QED
        BY <4>1 DEF Less
    <3>3. QED
      BY <3>1, <3>2
  <2>15. Shrunk(e.h, emptied)
    <3>1. Shrunk(updated, emptied)
      BY <2>10, <2>14 DEF Shrunk
    <3>2. Shrunk(e.h, updated)
      BY <2>3, SameIsLess
    <3>3. QED
      BY <3>1, <3>2, ShrunkComposes
  <2>16. f = [h |-> emptied, dirty |-> [e.dirty EXCEPT ![c] = dirty]]
    BY <1>1, <1>4
  <2>17. ~isValid(emptied.sets[c], b)
    BY <2>8, <2>12 DEF Uses
  <2>18. [e.dirty EXCEPT ![c] = dirty] \in [Caches -> BOOLEAN]
    BY <1>2
  <2>19. f.h = emptied /\ f.dirty = [e.dirty EXCEPT ![c] = dirty]
    BY <2>16
  <2>20. f = [h |-> f.h, dirty |-> f.dirty]
    BY <2>16, <2>19
  <2>21. Typed(f.h) /\ Shrunk(e.h, f.h) /\ f.dirty \in [Caches -> BOOLEAN]
         /\ ~isValid(f.h.sets[c], b)
    BY <2>10, <2>15, <2>17, <2>18, <2>19
  <2>22. QED
    BY <2>20, <2>21 DEF f
<1>5. CASE ~(isValid(set, b) /\ canEvict(set, b))
  <2>1. f = [e EXCEPT !.dirty[c] = above]
    BY <1>1, <1>5
  <2> DEFINE d == [e.dirty EXCEPT ![c] = above]
  <2>2. d \in [Caches -> BOOLEAN]
    BY <1>2
  <2>3. [e EXCEPT !.dirty[c] = above] = [e EXCEPT !.dirty = d]
    OBVIOUS
  <2> HIDE DEF d
  <2>4. f = [h |-> e.h, dirty |-> d]
    BY <2>1, <2>3
  <2>5. f.h = e.h /\ f.dirty = d /\ f = [h |-> f.h, dirty |-> f.dirty]
    BY <2>4
  <2>6. Shrunk(e.h, f.h)
    <3>1. Same(e.h, f.h)
      BY <2>5, SameItself
    <3>2. QED
      BY <3>1, SameIsLess
  <2>7. ~isBusy(set, b) => ~isValid(set, b)
    BY <1>5 DEF canEvict
  <2>8. ~isBusy(e.h.sets[c], b) => ~isValid(f.h.sets[c], b)
    BY <2>5, <2>7 DEF set
  <2>9. Typed(f.h) /\ f.dirty \in [Caches -> BOOLEAN]
    BY <2>2, <2>5
  <2>10. QED
    BY <2>5, <2>6, <2>8, <2>9 DEF f
<1>6. QED
  BY <1>4, <1>5

(***************************************************************************)
(* Recursion over the numbers up to n, with values in a set D that each    *)
(* step stays in: the function exists, and its values are in D.            *)
(***************************************************************************)
Iterated(f, n, x, F) == f = [i \in 0..n |-> IF i = 0 THEN x ELSE F[<<f[i - 1], i>>]]

LEMMA IterateExists ==
  ASSUME NEW n \in Nat, NEW D, NEW x \in D, NEW F \in [D \X (1..n) -> D]
  PROVE  \E f \in [0..n -> D] : Iterated(f, n, x, F)
<1> DEFINE Eq(f, k) == /\ f \in [0..k -> D] /\ f[0] = x
                       /\ \A i \in 1..k : f[i] = F[<<f[i - 1], i>>]
           Good == {k \in Nat : k <= n => \E f : Eq(f, k)}
<1>1. 0 \in Good
  <2> DEFINE f == [i \in 0..0 |-> x]
  <2>1. f \in [0..0 -> D] /\ f[0] = x /\ 1..0 = {}
    OBVIOUS
  <2>2. Eq(f, 0)
    BY <2>1
  <2>3. QED
    BY <2>2
<1>2. ASSUME NEW k \in Good
      PROVE  k + 1 \in Good
  <2>1. k \in Nat /\ k + 1 \in Nat
    OBVIOUS
  <2>2. SUFFICES ASSUME k + 1 <= n
                 PROVE  \E f : Eq(f, k + 1)
    BY <2>1
  <2>3. PICK g : Eq(g, k)
    BY <2>1, <2>2
  <2> DEFINE f == [i \in 0..(k + 1) |-> IF i = k + 1 THEN F[<<g[k], k + 1>>] ELSE g[i]]
  <2>4. g[k] \in D /\ k + 1 \in 1..n
    BY <2>1, <2>2, <2>3
  <2>5. F[<<g[k], k + 1>>] \in D
    BY <2>4
  <2>6. f \in [0..(k + 1) -> D]
    BY <2>1, <2>3, <2>5
  <2>7. f[k + 1] = F[<<g[k], k + 1>>] /\ \A i \in 0..k : f[i] = g[i]
    BY <2>1
  <2> HIDE DEF f
  <2>8. f[0] = x
    BY <2>1, <2>3, <2>7
  <2>9. ASSUME NEW i \in 1..(k + 1)
        PROVE  f[i] = F[<<f[i - 1], i>>]
    <3>1. CASE i = k + 1
      <4>1. i - 1 = k /\ k \in 0..k
        BY <2>1, <3>1
      <4>2. f[i - 1] = g[k]
        BY <2>7, <4>1
      <4>3. QED
        BY <2>7, <3>1, <4>2
    <3>2. CASE i # k + 1
      <4>1. i \in 1..k /\ i \in 0..k /\ i - 1 \in 0..k
        BY <2>1, <3>2
      <4>2. g[i] = F[<<g[i - 1], i>>]
        BY <2>3, <4>1
      <4>3. QED
        BY <2>7, <4>1, <4>2
    <3>3. QED
      BY <3>1, <3>2
  <2>10. Eq(f, k + 1)
    BY <2>6, <2>8, <2>9
  <2>11. QED
    BY <2>10
<1>3. n \in Good
  <2>1. Good \in SUBSET Nat
    OBVIOUS
  <2> HIDE DEF Good
  <2>2. QED
    BY <1>1, <1>2, <2>1, Induction
<1>4. PICK f : Eq(f, n)
  BY <1>3
<1>5. f = [i \in 0..n |-> f[i]]
  BY <1>4
<1>6. \A i \in 0..n : f[i] = IF i = 0 THEN x ELSE F[<<f[i - 1], i>>]
  BY <1>4
<1>7. Iterated(f, n, x, F)
  BY <1>5, <1>6 DEF Iterated
<1>8. QED
  BY <1>4, <1>7

LEMMA IterateIn ==
  ASSUME NEW n \in Nat, NEW D, NEW f, f[0] \in D,
         \A i \in 1..n : f[i - 1] \in D => f[i] \in D
  PROVE  \A i \in 0..n : f[i] \in D
<1> DEFINE Good == {k \in Nat : k <= n => f[k] \in D}
<1>1. 0 \in Good
  OBVIOUS
<1>2. ASSUME NEW k \in Good
      PROVE  k + 1 \in Good
  <2>1. k \in Nat /\ k + 1 \in Nat /\ (k + 1) - 1 = k
    OBVIOUS
  <2>2. ASSUME k + 1 <= n
        PROVE  f[k + 1] \in D
    <3>1. k + 1 \in 1..n /\ k <= n
      BY <2>1, <2>2
    <3>2. f[k] \in D
      BY <3>1
    <3>3. QED
      BY <2>1, <3>1, <3>2
  <2>3. QED
    BY <2>1, <2>2
<1>3. Good = Nat
  <2>1. Good \in SUBSET Nat
    OBVIOUS
  <2> HIDE DEF Good
  <2>2. QED
    BY <1>1, <1>2, <2>1, Induction
<1>4. QED
  BY <1>3

-----------------------------------------------------------------------------
(***************************************************************************)
(* evictBlock.                                                             *)
(***************************************************************************)
Evicting(h) ==
  {e \in [h : HState, dirty : [Caches -> BOOLEAN]] : Typed(e.h) /\ Shrunk(h, e.h)}

LEMMA EvictingStep ==
  ASSUME NEW h, NEW e \in Evicting(h), NEW c \in Caches, NEW b \in Tag
  PROVE  EvictFrom(e, c, b) \in Evicting(h)
<1> DEFINE f == EvictFrom(e, c, b)
<1>1. Typed(e.h) /\ e.dirty \in [Caches -> BOOLEAN] /\ e = [h |-> e.h, dirty |-> e.dirty]
      /\ Shrunk(h, e.h)
  BY DEF Evicting
<1>2. /\ Typed(f.h) /\ Shrunk(e.h, f.h) /\ f = [h |-> f.h, dirty |-> f.dirty]
      /\ f.dirty \in [Caches -> BOOLEAN]
  BY <1>1, EvictFromShrinks
<1> HIDE DEF f
<1>3. Shrunk(h, f.h) /\ f.h \in HState
  BY <1>1, <1>2, ShrunkComposes DEF Typed
<1>4. f \in [h : HState, dirty : [Caches -> BOOLEAN]]
  BY <1>2, <1>3
<1>5. QED
  BY <1>2, <1>3, <1>4 DEF f, Evicting

LEMMA CacheAt ==
  Len(caches) \in Nat /\ (\A i \in 1..Len(caches) : caches[i] \in Caches)
  /\ \A c \in Caches : \E i \in 1..Len(caches) : caches[i] = c
BY HierarchyAssumption, LenProperties DEF Caches

EvictedUpTo(e, h, c, b) ==
  e = [i \in 0..Len(caches) |->
         IF i = 0 THEN [h |-> h, dirty |-> [x \in Caches |-> FALSE]]
         ELSE IF caches[i] \in Tree(c) THEN EvictFrom(e[i - 1], caches[i], b)
         ELSE e[i - 1]]

LEMMA EvictedExists ==
  ASSUME NEW h, Typed(h), NEW c \in Caches, NEW b \in Tag
  PROVE  \E e : EvictedUpTo(e, h, c, b)
<1> DEFINE D == Evicting(h)
           n == Len(caches)
           x0 == [h |-> h, dirty |-> [x \in Caches |-> FALSE]]
           F == [p \in D \X (1..n) |->
                   IF caches[p[2]] \in Tree(c) THEN EvictFrom(p[1], caches[p[2]], b) ELSE p[1]]
<1>1. n \in Nat /\ \A i \in 1..n : caches[i] \in Caches
  BY CacheAt
<1>2. x0 \in D
  <2>1. h \in HState /\ Shrunk(h, h)
    BY SameItself, SameIsLess DEF Typed
  <2>2. x0.h = h /\ x0 \in [h : HState, dirty : [Caches -> BOOLEAN]]
    BY <2>1
  <2>3. QED
    BY <2>1, <2>2 DEF Evicting
<1> HIDE DEF n
<1>3. F \in [D \X (1..n) -> D]
  <2> SUFFICES ASSUME NEW p \in D \X (1..n)
               PROVE  (IF caches[p[2]] \in Tree(c) THEN EvictFrom(p[1], caches[p[2]], b) ELSE p[1]) \in D
    OBVIOUS
  <2>1. p[1] \in D /\ p[2] \in 1..n
    OBVIOUS
  <2> HIDE DEF D
  <2>2. EvictFrom(p[1], caches[p[2]], b) \in D
    BY <1>1, <2>1, EvictingStep DEF D
  <2>3. QED
    BY <2>1, <2>2
<1> HIDE DEF D, x0
<1>4. PICK f \in [0..n -> D] : Iterated(f, n, x0, F)
  BY <1>1, <1>2, <1>3, IterateExists
<1>5. ASSUME NEW i \in 0..n
      PROVE  f[i] = IF i = 0 THEN x0
                    ELSE IF caches[i] \in Tree(c) THEN EvictFrom(f[i - 1], caches[i], b)
                    ELSE f[i - 1]
  <2>1. f[i] = IF i = 0 THEN x0 ELSE F[<<f[i - 1], i>>]
    BY <1>4 DEF Iterated
  <2>2. CASE i = 0
    BY <2>1, <2>2
  <2>3. CASE i # 0
    <3>1. i \in 1..n /\ i - 1 \in 0..n
      BY <1>1, <2>3
    <3>2. f[i - 1] \in D
      BY <1>4, <3>1
    <3>3. <<f[i - 1], i>> \in D \X (1..n)
      BY <3>1, <3>2
    <3>4. F[<<f[i - 1], i>>] = IF caches[i] \in Tree(c) THEN EvictFrom(f[i - 1], caches[i], b)
                              ELSE f[i - 1]
      BY <3>3
    <3>5. QED
      BY <2>1, <2>3, <3>4
  <2>4. QED
    BY <2>2, <2>3
<1>6. f = [i \in 0..n |-> f[i]]
  BY <1>4
<1>7. EvictedUpTo(f, h, c, b)
  BY <1>5, <1>6 DEF EvictedUpTo, n, x0
<1>8. QED
  BY <1>7

LEMMA EvictedStep ==
  ASSUME NEW e, NEW h, NEW c, NEW b, EvictedUpTo(e, h, c, b), NEW i \in 0..Len(caches)
  PROVE  e[i] = IF i = 0 THEN [h |-> h, dirty |-> [x \in Caches |-> FALSE]]
                ELSE IF caches[i] \in Tree(c) THEN EvictFrom(e[i - 1], caches[i], b)
                ELSE e[i - 1]
BY DEF EvictedUpTo

LEMMA EvictBlockShrinks ==
  ASSUME NEW h, Typed(h), NEW c \in Caches, NEW b \in Tag
  PROVE  LET e == evictBlock(h, c, b)
         IN  /\ Typed(e.h) /\ Shrunk(h, e.h)
             /\ ~isBusy(h.sets[c], b) => ~isValid(e.h.sets[c], b)
<1> DEFINE e == CHOOSE e : EvictedUpTo(e, h, c, b)
           n == Len(caches)
           x0 == [h |-> h, dirty |-> [x \in Caches |-> FALSE]]
<1>1. n \in Nat /\ (\A i \in 1..n : caches[i] \in Caches) /\ \E k \in 1..n : caches[k] = c
  BY CacheAt
<1>2. evictBlock(h, c, b) = e[n]
  BY DEF evictBlock, EvictedUpTo
<1>3. EvictedUpTo(e, h, c, b)
  BY EvictedExists
<1> HIDE DEF e
<1>4. ASSUME NEW i \in 0..n
      PROVE  e[i] = IF i = 0 THEN x0
                    ELSE IF caches[i] \in Tree(c) THEN EvictFrom(e[i - 1], caches[i], b)
                    ELSE e[i - 1]
  BY <1>3, EvictedStep
<1>5. x0 \in Evicting(h)
  <2>1. h \in HState /\ Shrunk(h, h)
    BY SameItself, SameIsLess DEF Typed
  <2>2. x0.h = h /\ x0 \in [h : HState, dirty : [Caches -> BOOLEAN]]
    BY <2>1
  <2>3. QED
    BY <2>1, <2>2 DEF Evicting
<1> HIDE DEF n, x0
<1>6. \A i \in 0..n : e[i] \in Evicting(h)
  <2>1. e[0] \in Evicting(h)
    BY <1>1, <1>4, <1>5
  <2>2. ASSUME NEW i \in 1..n, e[i - 1] \in Evicting(h)
        PROVE  e[i] \in Evicting(h)
    <3>1. caches[i] \in Caches /\ i \in 0..n /\ i # 0
      BY <1>1
    <3>2. EvictFrom(e[i - 1], caches[i], b) \in Evicting(h)
      BY <2>2, <3>1, EvictingStep
    <3>3. QED
      BY <1>4, <2>2, <3>1, <3>2
  <2>3. QED
    BY <1>1, <2>1, <2>2, IterateIn
<1>7. ASSUME ~isBusy(h.sets[c], b)
      PROVE  ~isValid(e[n].h.sets[c], b)
  <2>1. PICK k \in 1..n : caches[k] = c
    BY <1>1
  <2> DEFINE Good == {j \in Nat : k + j <= n => ~isValid(e[k + j].h.sets[c], b)}
  <2>2. ASSUME NEW i \in 0..n
        PROVE  /\ Typed(e[i].h) /\ e[i].dirty \in [Caches -> BOOLEAN]
               /\ e[i] = [h |-> e[i].h, dirty |-> e[i].dirty]
               /\ \A x \in Caches : Less(h.sets[x], e[i].h.sets[x])
    BY <1>6 DEF Evicting, Shrunk
  <2>3. 0 \in Good
    <3>1. k \in 0..n /\ k - 1 \in 0..n /\ k # 0
      BY <1>1
    <3>2. caches[k] \in Tree(c)
      BY <2>1 DEF Tree
    <3>3. e[k] = EvictFrom(e[k - 1], c, b)
      BY <1>4, <2>1, <3>1, <3>2
    <3>4. ~isBusy(e[k - 1].h.sets[c], b)
      BY <1>7, <2>2, <3>1 DEF Less
    <3>5. ~isValid(EvictFrom(e[k - 1], c, b).h.sets[c], b)
      <4>1. /\ Typed(e[k - 1].h) /\ e[k - 1].dirty \in [Caches -> BOOLEAN]
            /\ e[k - 1] = [h |-> e[k - 1].h, dirty |-> e[k - 1].dirty]
        BY <2>2, <3>1
      <4> DEFINE d == e[k - 1]
      <4>2. Typed(d.h) /\ d.dirty \in [Caches -> BOOLEAN] /\ d = [h |-> d.h, dirty |-> d.dirty]
            /\ ~isBusy(d.h.sets[c], b)
        BY <3>4, <4>1
      <4> HIDE DEF d
      <4>3. ~isValid(EvictFrom(d, c, b).h.sets[c], b)
        BY <4>2, EvictFromShrinks
      <4>4. QED
        BY <4>3 DEF d
    <3>6. k + 0 = k
      BY <3>1
    <3>7. QED
      BY <3>3, <3>5, <3>6
  <2>4. ASSUME NEW j \in Good
        PROVE  j + 1 \in Good
    <3>1. j \in Nat /\ j + 1 \in Nat /\ k \in Nat /\ (k + (j + 1)) - 1 = k + j
      BY <1>1
    <3>2. SUFFICES ASSUME k + (j + 1) <= n
                   PROVE  ~isValid(e[k + (j + 1)].h.sets[c], b)
      BY <3>1
    <3> DEFINE m == k + (j + 1)
    <3>3. m \in 0..n /\ m # 0 /\ m \in 1..n /\ m - 1 \in 0..n /\ k + j <= n /\ m - 1 = k + j
      BY <1>1, <3>1, <3>2
    <3>4. ~isValid(e[m - 1].h.sets[c], b)
      BY <3>3
    <3> HIDE DEF m
    <3>5. e[m] = e[m - 1] \/ e[m] = EvictFrom(e[m - 1], caches[m], b)
      BY <1>4, <3>3
    <3>6. CASE e[m] = e[m - 1]
      BY <3>4, <3>6 DEF m
    <3>7. CASE e[m] = EvictFrom(e[m - 1], caches[m], b)
      <4> DEFINE d == e[m - 1]
      <4>1. Typed(d.h) /\ d.dirty \in [Caches -> BOOLEAN] /\ d = [h |-> d.h, dirty |-> d.dirty]
        BY <2>2, <3>3
      <4>2. caches[m] \in Caches
        BY <1>1, <3>3
      <4>3. e[m] = EvictFrom(d, caches[m], b) /\ ~isValid(d.h.sets[c], b)
        BY <3>4, <3>7
      <4> HIDE DEF d
      <4>4. Shrunk(d.h, EvictFrom(d, caches[m], b).h)
        BY <4>1, <4>2, EvictFromShrinks
      <4>5. ~isValid(e[m].h.sets[c], b)
        BY <4>3, <4>4 DEF Shrunk, Less
      <4>6. QED
        BY <4>5 DEF m
    <3>8. QED
      BY <3>5, <3>6, <3>7
  <2>5. Good = Nat
    <3>1. Good \in SUBSET Nat
      OBVIOUS
    <3> HIDE DEF Good
    <3>2. QED
      BY <2>3, <2>4, <3>1, Induction
  <2>6. n - k \in Nat /\ k + (n - k) = n
    BY <1>1
  <2>7. QED
    BY <2>5, <2>6
<1>8. Typed(e[n].h) /\ Shrunk(h, e[n].h)
  <2>1. e[n] \in Evicting(h)
    BY <1>1, <1>6
  <2>2. QED
    BY <2>1 DEF Evicting
<1>9. QED
  BY <1>2, <1>7, <1>8

\* Another request for the memory
LEMMA PutWait ==
  ASSUME NEW h, Typed(h), NEW R \in SUBSET Request
  PROVE  LET g == [h EXCEPT !.wait = @ \cup R]
         IN  Typed(g) /\ Same(h, g) /\ g.retry = h.retry /\ g.hit = h.hit /\ g.wait = h.wait \cup R
             /\ g.sets = h.sets /\ g.mshr = h.mshr
<1> DEFINE W == h.wait \cup R
           g == [h EXCEPT !.wait = W]
<1>1. h \in HState
  BY DEF Typed
<1>2. W \in SUBSET Request
  BY <1>1 DEF HState
<1>3. [h EXCEPT !.wait = @ \cup R] = g
  OBVIOUS
<1> HIDE DEF W
<1>4. g \in HState /\ g.sets = h.sets /\ g.mshr = h.mshr /\ g.retry = h.retry /\ g.hit = h.hit
      /\ g.wait = W
  BY <1>1, <1>2 DEF HState
<1> HIDE DEF g
<1>5. Typed(g)
  BY <1>4 DEF Typed
<1>6. Same(h, g)
  BY <1>4, SameItself DEF Same
<1>7. QED
  BY <1>3, <1>4, <1>5, <1>6 DEF W

LEMMA DirtySectors ==
  ASSUME NEW h, Typed(h), NEW c \in Caches, NEW b \in Tag
  PROVE  getDirtySectors(h.sets[c], b) \in SUBSET Sector
<1>1. h.sets[c] \in [1..nWays[c] -> Way] /\ nWays[c] \in Nat
  BY Fields, Numbers DEF SetOK
<1>2. CASE HasTag(h.sets[c], b)
  <2>1. h.sets[c][findWayIdx(h.sets[c], b)] \in Way
    BY <1>1, <1>2, FirstWay
  <2>2. QED
    BY <1>2, <2>1, WayFields DEF getDirtySectors
<1>3. QED
  BY <1>2 DEF getDirtySectors

LEMMA EvictShrinks ==
  ASSUME NEW h, Typed(h), NEW c \in Caches, NEW b \in Tag, NEW id \in 1..MaxSends
  PROVE  LET g == evict(h, c, b, id)
         IN  /\ Typed(g) /\ Shrunk(h, g)
             /\ ~isBusy(h.sets[c], b) => ~isValid(g.sets[c], b)
<1> DEFINE sectors == UNION {getDirtySectors(h.sets[x], b) : x \in Tree(c)}
           e       == evictBlock(h, c, b)
           checked == Asserting(e.h, sectors # {}, "DirtyWithNoDirtySectors")
           g       == evict(h, c, b, id)
<1>1. sectors \in SUBSET Sector
  <2>1. \A x \in Tree(c) : x \in Caches
    BY DEF Tree, Higher
  <2>2. QED
    BY <2>1, DirtySectors
<1>2. /\ Typed(e.h) /\ Shrunk(h, e.h)
      /\ ~isBusy(h.sets[c], b) => ~isValid(e.h.sets[c], b)
  BY EvictBlockShrinks
<1>3. g = IF level[c] = 2 /\ e.dirty[c]
          THEN [checked EXCEPT !.wait = @ \cup {WriteBack(id, b, sectors)}] ELSE e.h
  BY DEF evict, WriteDirty
<1> HIDE DEF sectors, e, g
<1>4. Typed(checked) /\ checked.sets = e.h.sets /\ Same(e.h, checked)
  <2>1. "DirtyWithNoDirtySectors" \in Excusable
    BY DEF Excusable
  <2>2. (sectors # {}) \in BOOLEAN
    OBVIOUS
  <2>3. QED
    BY <1>2, <2>1, <2>2, Excused
<1> HIDE DEF checked
<1>5. WriteBack(id, b, sectors) \in Request
  <2>1. [l \in 0..3 |-> IF l = 3 THEN sectors ELSE {}] \in [0..3 -> SUBSET Sector]
    BY <1>1
  <2>2. 3 \in 0..3 /\ "WRITE" \in {"READ", "WRITE"} /\ {} \in SUBSET Sector /\ b \in Block \cup {0}
    BY DEF Tag
  <2> DEFINE bits == [l \in 0..3 |-> IF l = 3 THEN sectors ELSE {}]
  <2>3. WriteBack(id, b, sectors) = [id |-> id, type |-> "WRITE", block |-> b, actual |-> {},
                                     hit |-> 3, bits |-> bits]
    BY DEF WriteBack
  <2> HIDE DEF bits
  <2>4. bits \in [0..3 -> SUBSET Sector]
    BY <2>1 DEF bits
  <2>5. QED
    BY <2>2, <2>3, <2>4 DEF Request
<1> DEFINE R == {WriteBack(id, b, sectors)}
           k == [checked EXCEPT !.wait = @ \cup R]
<1>6. Typed(k) /\ Same(checked, k) /\ k.sets = checked.sets
  <2>1. R \in SUBSET Request
    BY <1>5
  <2> HIDE DEF R
  <2>2. QED
    BY <1>4, <2>1, PutWait
<1>7. g = k \/ g = e.h
  BY <1>3
<1> HIDE DEF k, R
<1>8. Shrunk(h, k)
  BY <1>2, <1>4, <1>6, SameIsLess, ShrunkComposes
<1>9. k.sets = e.h.sets
  BY <1>4, <1>6
<1>10. CASE g = k
  <2>1. Typed(g) /\ Shrunk(h, g) /\ (~isBusy(h.sets[c], b) => ~isValid(g.sets[c], b))
    BY <1>2, <1>6, <1>8, <1>9, <1>10
  <2>2. QED
    BY <2>1 DEF g
<1>11. CASE g = e.h
  <2>1. Typed(g) /\ Shrunk(h, g) /\ (~isBusy(h.sets[c], b) => ~isValid(g.sets[c], b))
    BY <1>2, <1>11
  <2>2. QED
    BY <2>1 DEF g
<1>12. QED
  BY <1>7, <1>10, <1>11

-----------------------------------------------------------------------------
(***************************************************************************)
(* send at one cache.                                                      *)
(***************************************************************************)
LEMMA PutMshr ==
  ASSUME NEW h, Typed(h), NEW c \in Caches, NEW m \in Seq(mshr_entry_type),
         Len(m) <= mshr_entry_num[c]
  PROVE  LET g == [h EXCEPT !.mshr[c] = m]
         IN  /\ Typed(g) /\ g.mshr = [h.mshr EXCEPT ![c] = m] /\ g.sets = h.sets
             /\ g.retry = h.retry /\ g.wait = h.wait /\ g.hit = h.hit /\ g.asserts = h.asserts
<1> DEFINE M == [h.mshr EXCEPT ![c] = m]
           g == [h EXCEPT !.mshr = M]
<1>1. h \in HState /\ h.mshr \in [Caches -> Seq(mshr_entry_type)]
  BY Fields DEF Typed
<1>2. [h EXCEPT !.mshr[c] = m] = g
  OBVIOUS
<1>3. M \in [Caches -> Seq(mshr_entry_type)]
  BY <1>1
<1>4. \A x \in Caches : Len(M[x]) <= mshr_entry_num[x]
  BY <1>1 DEF Typed
<1> HIDE DEF M
<1>5. g \in HState /\ g.mshr = M /\ g.sets = h.sets
      /\ g.retry = h.retry /\ g.wait = h.wait /\ g.hit = h.hit /\ g.asserts = h.asserts
  BY <1>1, <1>3 DEF HState
<1> HIDE DEF g
<1>6. Typed(g)
  BY <1>4, <1>5 DEF Typed
<1>7. QED
  BY <1>2, <1>5, <1>6 DEF M

\* MSHRs that wait for the same blocks as before
LEMMA MshrsReplaced ==
  ASSUME NEW h, HOK(h), NEW c \in Caches, NEW m \in Seq(mshr_entry_type),
         Len(m) = Len(h.mshr[c]), \A i \in 1..Len(m) : m[i].block = h.mshr[c][i].block
  PROVE  LET g == [h EXCEPT !.mshr[c] = m]
         IN  HOK(g) /\ g.sets = h.sets /\ g.mshr[c] = m
<1> DEFINE g == [h EXCEPT !.mshr[c] = m]
<1>1. Typed(h) /\ \A x \in Caches : Matched(h.sets[x], h.mshr[x])
  BY DEF HOK
<1>2. Len(h.mshr[c]) <= mshr_entry_num[c] /\ h.mshr \in [Caches -> Seq(mshr_entry_type)]
  BY <1>1, Fields
<1>3. Typed(g) /\ g.mshr = [h.mshr EXCEPT ![c] = m] /\ g.sets = h.sets
  BY <1>1, <1>2, PutMshr
<1> HIDE DEF g
<1>4. \A x \in Caches : g.mshr[x] = IF x = c THEN m ELSE h.mshr[x]
  BY <1>2, <1>3
<1>5. \A b : Waited(m, b) <=> Waited(h.mshr[c], b)
  BY DEF Waited
<1>6. \A x \in Caches : Matched(g.sets[x], g.mshr[x])
  BY <1>1, <1>3, <1>4, <1>5 DEF Matched
<1>7. QED
  BY <1>3, <1>4, <1>6 DEF HOK, g

LEMMA MshrsMarked ==
  ASSUME NEW h, HOK(h), NEW c \in Caches, NEW r \in Request
  PROVE  LET g == MarkMshrs(h, c, r)
         IN  /\ HOK(g) /\ g.sets = h.sets
             /\ Matching(g, c, r.block) = Matching(h, c, r.block)
             /\ MshrFull(g, c) <=> MshrFull(h, c)
<1> DEFINE covers == {i \in Matching(h, c, r.block) : Wanted(c, r) \subseteq h.mshr[c][i].sectors}
           reached == {i \in Matching(h, c, r.block) : \A j \in covers : i <= j}
           write  == r.type = "WRITE"
           added == IF write THEN r.actual ELSE {}
           mark(m) == [m EXCEPT !.dirty = @ \/ write,
                                !.will_be_dirty = @ \cup added,
                                !.will_be_used = @ \cup r.actual]
           q == h.mshr[c]
           m == [i \in 1..Len(q) |-> IF i \in reached THEN mark(q[i]) ELSE q[i]]
           g == MarkMshrs(h, c, r)
<1>1. g = [h EXCEPT !.mshr[c] = m]
  BY DEF MarkMshrs
<1>2. q \in Seq(mshr_entry_type)
  BY Fields DEF HOK
<1>3. write \in BOOLEAN /\ added \in SUBSET Sector /\ r.actual \in SUBSET Sector
  BY RequestFields
<1> HIDE DEF write, added, reached, covers, g
<1>4. ASSUME NEW i \in 1..Len(q)
      PROVE  mark(q[i]) \in mshr_entry_type /\ mark(q[i]).block = q[i].block
             /\ q[i] \in mshr_entry_type
  <2>1. q[i] \in mshr_entry_type
    BY <1>2
  <2> DEFINE w == q[i]
  <2>2. w \in mshr_entry_type
    BY <2>1
  <2> HIDE DEF w
  <2>3. /\ (w.dirty \/ write) \in BOOLEAN /\ w.will_be_dirty \cup added \in SUBSET Sector
        /\ w.will_be_used \cup r.actual \in SUBSET Sector
    BY <1>3, <2>2 DEF mshr_entry_type
  <2>4. mark(w) \in mshr_entry_type /\ mark(w).block = w.block
    BY <2>2, <2>3 DEF mshr_entry_type
  <2>5. QED
    BY <2>2, <2>4 DEF w
<1> HIDE DEF mark
<1>5. Len(q) \in Nat
  BY <1>2
<1>6. m \in Seq(mshr_entry_type) /\ Len(m) = Len(q)
      /\ \A i \in 1..Len(m) : m[i].block = q[i].block
  BY <1>4, <1>5
<1> HIDE DEF m
<1>7. HOK(g) /\ g.sets = h.sets /\ g.mshr[c] = m
  BY <1>1, <1>6, MshrsReplaced
<1>8. Matching(g, c, r.block) = Matching(h, c, r.block)
  BY <1>6, <1>7 DEF Matching
<1>9. MshrFull(g, c) <=> MshrFull(h, c)
  BY <1>6, <1>7 DEF MshrFull
<1>10. QED
  BY <1>7, <1>8, <1>9 DEF g

LEMMA HitSame ==
  ASSUME NEW h, Typed(h), NEW c \in Caches, NEW r \in Request
  PROVE  Typed(HitAt(h, c, r)) /\ Same(h, HitAt(h, c, r))
<1> DEFINE k == [r EXCEPT !.hit = level[c]]
           H == Append(h.hit, k)
           g == [h EXCEPT !.hit = H]
<1>1. level[c] \in 0..3
  BY Numbers
<1>2. k \in Request
  BY <1>1 DEF Request
<1>3. h \in HState /\ h.hit \in Seq(Request)
  BY Fields DEF Typed
<1>4. H \in Seq(Request)
  BY <1>2, <1>3
<1>5. HitAt(h, c, r) = g
  BY DEF HitAt
<1> HIDE DEF H
<1>6. g \in HState /\ g.sets = h.sets /\ g.mshr = h.mshr /\ g.retry = h.retry
  BY <1>3, <1>4 DEF HState
<1> HIDE DEF g
<1>7. Typed(g)
  BY <1>6 DEF Typed
<1>8. Same(h, g)
  BY <1>6, SameItself DEF Same
<1>9. QED
  BY <1>5, <1>7, <1>8

\* What a call of send leaves: a good state, and a request for the level below at most
SentOK(c, res) ==
  /\ res = [h |-> res.h, ok |-> res.ok, ask |-> res.ask]
  /\ res.ok \in BOOLEAN
  /\ HOK(res.h)
  /\ res.ask = << >> \/ \E q \in Request : res.ask = <<q>> /\ Demand(c, q)

LEMMA AcceptedOK ==
  ASSUME NEW h, HOK(h), NEW c
  PROVE  SentOK(c, Accept(h)) /\ SentOK(c, Refuse(h))
BY DEF SentOK, Accept, Refuse

\* The new MSHR is the one that makes r.block busy, if it was not.
LEMMA FetchedOK ==
  ASSUME NEW h, Typed(h), NEW c \in Caches, NEW r \in Request, r.block \in Block,
         \A x \in Caches : x # c => Matched(h.sets[x], h.mshr[x]),
         \A b \in Tag : isBusy(h.sets[c], b) <=> b = r.block \/ Waited(h.mshr[c], b),
         ~MshrFull(h, c), NEW sectors \in SUBSET Sector, sectors # {},
         NEW predicted \in SUBSET Sector, NEW dirty \in BOOLEAN,
         NEW will_be_dirty \in SUBSET Sector
  PROVE  SentOK(c, Fetch(h, c, r, sectors, predicted, dirty, will_be_dirty))
<1> DEFINE entry == [block |-> r.block, sectors |-> sectors, dirty |-> dirty,
                     will_be_used |-> {}, will_be_dirty |-> will_be_dirty]
           asked == [r EXCEPT !.bits[level[c] + 1] = sectors,
                              !.bits[0] = @ \cup predicted,
                              !.type = "READ"]
           q == h.mshr[c]
           m == Append(q, entry)
           g == [h EXCEPT !.mshr[c] = m]
           res == Fetch(h, c, r, sectors, predicted, dirty, will_be_dirty)
<1>1. res = [h |-> g, ok |-> TRUE, ask |-> <<asked>>]
  BY DEF Fetch, Asserting
<1>2. q \in Seq(mshr_entry_type) /\ Len(q) <= mshr_entry_num[c] /\ mshr_entry_num[c] \in Nat
      /\ h.mshr \in [Caches -> Seq(mshr_entry_type)]
  BY Fields, Numbers
<1>3. entry \in mshr_entry_type /\ entry.block = r.block
  BY DEF mshr_entry_type
<1>4. Demand(c, asked) /\ asked \in Request
  <2> DEFINE l == level[c] + 1
             old == [r.bits EXCEPT ![l] = sectors]
             bits == [old EXCEPT ![0] = r.bits[0] \cup predicted]
  <2>1. l \in 0..3 /\ l # 0 /\ 0 \in 0..3
    BY Numbers
  <2>2. asked = [r EXCEPT !.bits = bits, !.type = "READ"]
    <3> DEFINE k == [r EXCEPT !.bits[l] = sectors]
    <3>1. k = [r EXCEPT !.bits = old] /\ r \in Request
      OBVIOUS
    <3> HIDE DEF old
    <3>2. k = [k EXCEPT !.bits = old] /\ k.bits = old
      BY <3>1 DEF Request
    <3>3. asked = [k EXCEPT !.bits[0] = r.bits[0] \cup predicted, !.type = "READ"]
      OBVIOUS
    <3> HIDE DEF k, asked
    <3>4. asked = [k EXCEPT !.bits = bits, !.type = "READ"]
      BY <3>2, <3>3
    <3>5. QED
      BY <3>1, <3>4 DEF Request
  <2> HIDE DEF l
  <2>3. r.bits \in [0..3 -> SUBSET Sector]
    BY RequestFields
  <2>4. old \in [0..3 -> SUBSET Sector] /\ old[l] = sectors
    BY <2>1, <2>3
  <2> HIDE DEF old
  <2>5. bits \in [0..3 -> SUBSET Sector] /\ bits[l] = sectors
    BY <2>1, <2>3, <2>4
  <2> HIDE DEF bits
  <2>6. asked \in Request /\ asked.block = r.block /\ asked.bits = bits
    BY <2>2, <2>5 DEF Request
  <2>7. QED
    BY <2>5, <2>6 DEF Demand, l
<1> HIDE DEF entry, asked, q, res
<1>5. m \in Seq(mshr_entry_type) /\ Len(m) = Len(q) + 1 /\ Len(q) \in Nat
      /\ m[Len(q) + 1] = entry /\ \A i \in 1..Len(q) : m[i] = q[i]
  BY <1>2, <1>3
<1>6. Len(m) <= mshr_entry_num[c]
  <2>1. Len(q) # mshr_entry_num[c]
    BY DEF MshrFull, q
  <2>2. QED
    BY <1>2, <1>5, <2>1
<1> HIDE DEF m
<1>7. Typed(g) /\ g.mshr = [h.mshr EXCEPT ![c] = m] /\ g.sets = h.sets
  BY <1>5, <1>6, PutMshr
<1> HIDE DEF g
<1>8. \A x \in Caches : g.mshr[x] = IF x = c THEN m ELSE h.mshr[x]
  BY <1>2, <1>7
<1>9. \A b : Waited(m, b) <=> b = r.block \/ Waited(q, b)
  <2> SUFFICES ASSUME NEW b
               PROVE  Waited(m, b) <=> b = r.block \/ Waited(q, b)
    OBVIOUS
  <2>1. Waited(m, b) => b = r.block \/ Waited(q, b)
    BY <1>3, <1>5 DEF Waited
  <2>2. b = r.block => Waited(m, b)
    <3>1. Len(q) + 1 \in 1..Len(m)
      BY <1>5
    <3>2. QED
      BY <1>3, <1>5, <3>1 DEF Waited
  <2>3. Waited(q, b) => Waited(m, b)
    BY <1>5 DEF Waited
  <2>4. QED
    BY <2>1, <2>2, <2>3
<1>10. ASSUME NEW x \in Caches
       PROVE  Matched(g.sets[x], g.mshr[x])
  <2>1. CASE x = c
    BY <1>7, <1>8, <1>9, <2>1 DEF Matched, q
  <2>2. CASE x # c
    BY <1>7, <1>8, <2>2
  <2>3. QED
    BY <2>1, <2>2
<1>11. HOK(g)
  BY <1>7, <1>10 DEF HOK
<1>12. res.h = g /\ res.ok = TRUE /\ res.ask = <<asked>>
  BY <1>1
<1>13. SentOK(c, res)
  BY <1>1, <1>4, <1>11, <1>12 DEF SentOK
<1>14. QED
  BY <1>13 DEF res

LEMMA WantedIn ==
  ASSUME NEW h, NEW c \in Caches, NEW r \in Request
  PROVE  /\ Wanted(c, r) \in SUBSET Sector /\ Remaining(h, c, r) \in SUBSET Sector
         /\ \A s : findMissingSectors(s, r.block, Remaining(h, c, r)) \in SUBSET Sector
<1>1. level[c] \in 0..3 /\ \A l \in 0..3 : r.bits[l] \in SUBSET Sector
  BY Numbers, RequestFields
<1>2. Wanted(c, r) \in SUBSET Sector
  BY <1>1 DEF Wanted
<1>3. Remaining(h, c, r) \in SUBSET Sector
  BY <1>2 DEF Remaining
<1>4. QED
  BY <1>2, <1>3 DEF findMissingSectors

LEMMA SameOK ==
  ASSUME NEW h, NEW g, HOK(h), Typed(g), Same(h, g)
  PROVE  HOK(g)
<1>1. Shrunk(h, g)
  BY SameIsLess
<1>2. QED
  BY <1>1, ShrunkMatches

LEMMA MissWithMshrOK ==
  ASSUME NEW h, HOK(h), NEW c \in Caches, NEW r \in Request, r.block \in Block,
         Matching(h, c, r.block) # {}, NEW predicted \in SUBSET Sector
  PROVE  SentOK(c, MissWithMshr(h, c, r, predicted))
<1> DEFINE filtered == findMissingSectors(h.sets[c], r.block, Remaining(h, c, r))
           res == MissWithMshr(h, c, r, predicted)
<1>1. res = IF r.type = "WRITE" THEN Accept(FillAccess(h, c, r))
            ELSE IF filtered = {} THEN Accept(HitAt(h, c, r))
            ELSE IF MshrFull(h, c) THEN Refuse(h)
            ELSE Fetch(h, c, r, filtered \cup predicted, predicted, FALSE, {})
  BY DEF MissWithMshr
<1>2. Typed(h) /\ \A x \in Caches : Matched(h.sets[x], h.mshr[x])
  BY DEF HOK
<1>3. filtered \in SUBSET Sector
  BY WantedIn
<1> HIDE DEF filtered, res
<1>4. SentOK(c, Accept(FillAccess(h, c, r)))
  BY <1>2, FillAccessSame, SameOK, AcceptedOK
<1>5. SentOK(c, Accept(HitAt(h, c, r)))
  BY <1>2, HitSame, SameOK, AcceptedOK
<1>6. SentOK(c, Refuse(h))
  BY AcceptedOK
<1>7. ASSUME filtered # {}, ~MshrFull(h, c)
      PROVE  SentOK(c, Fetch(h, c, r, filtered \cup predicted, predicted, FALSE, {}))
  <2>1. filtered \cup predicted # {} /\ filtered \cup predicted \in SUBSET Sector
        /\ FALSE \in BOOLEAN /\ {} \in SUBSET Sector
    BY <1>3, <1>7
  <2>2. Waited(h.mshr[c], r.block)
    BY DEF Matching, Waited
  <2>3. \A b \in Tag : isBusy(h.sets[c], b) <=> b = r.block \/ Waited(h.mshr[c], b)
    BY <1>2, <2>2 DEF Matched
  <2> DEFINE S == filtered \cup predicted
  <2>4. S # {} /\ S \in SUBSET Sector
    BY <2>1
  <2> HIDE DEF S
  <2>5. SentOK(c, Fetch(h, c, r, S, predicted, FALSE, {}))
    BY <1>2, <1>7, <2>1, <2>3, <2>4, FetchedOK
  <2>6. QED
    BY <2>5 DEF S
<1>8. SentOK(c, res)
  BY <1>1, <1>4, <1>5, <1>6, <1>7
<1>9. QED
  BY <1>8 DEF res

\* The victim is the tag of a way.
LEMMA VictimIs ==
  ASSUME NEW n \in Nat, NEW s, SetOK(n, s)
  PROVE  findVictim(s) \in Tag /\ HasTag(s, findVictim(s))
<1> DEFINE S == {i \in Ways(s) : ~s[i].mru}
<1>1. s \in [1..n -> Way] /\ DOMAIN s = 1..n /\ Ways(s) = 1..n
  BY WaysAre DEF SetOK
<1>2. S \in SUBSET Nat /\ S # {}
  BY <1>1 DEF SetOK, SomeUnused
<1>3. Min(S) \in S
  BY <1>2, MinIs
<1>4. findVictim(s) = s[Min(S)].tag
  BY DEF findVictim
<1> DEFINE k == Min(S)
<1>5. k \in 1..n
  BY <1>1, <1>3
<1> HIDE DEF k
<1>6. s[k] \in Way
  BY <1>1, <1>5
<1>7. findVictim(s) \in Tag
  BY <1>4, <1>6, WayFields DEF k
<1>8. HasTag(s, findVictim(s))
  BY <1>1, <1>4, <1>5 DEF HasTag, k
<1>9. QED
  BY <1>7, <1>8

\* A way is freed and given to the block, which is busy from then on.
LEMMA PlacedIs ==
  ASSUME NEW h, HOK(h), NEW c \in Caches, NEW r \in Request, r.block \in Block,
         ~Waited(h.mshr[c], r.block), ~isValid(h.sets[c], r.block),
         NEW freed, Typed(freed), Shrunk(h, freed), NEW victim \in Tag,
         HasTag(h.sets[c], victim), ~isBusy(h.sets[c], victim), ~isValid(freed.sets[c], victim)
  PROVE  LET placed == [freed EXCEPT !.sets[c] = makeBusy(insert(@, victim, r.block), r.block)]
         IN  /\ Typed(placed) /\ placed.mshr = h.mshr
             /\ \A x \in Caches : x # c => Matched(placed.sets[x], placed.mshr[x])
             /\ \A b \in Tag : isBusy(placed.sets[c], b) <=> b = r.block \/ Waited(placed.mshr[c], b)
             /\ ~isValid(placed.sets[c], r.block)
<1> DEFINE s == freed.sets[c]
           t == makeBusy(insert(s, victim, r.block), r.block)
           placed == [freed EXCEPT !.sets[c] = makeBusy(insert(@, victim, r.block), r.block)]
<1>1. Typed(h) /\ \A x \in Caches : Matched(h.sets[x], h.mshr[x])
  BY DEF HOK
<1>2. nWays[c] \in Nat /\ nWays[c] > 1 /\ SetOK(nWays[c], s)
  BY Fields, Numbers
<1>3. r.block \in Tag
  BY DEF Tag
<1>4. ~isBusy(h.sets[c], r.block)
  BY <1>1, <1>3 DEF Matched
<1>5. Less(h.sets[c], s)
  BY DEF Shrunk
<1>6. HasTag(s, victim) /\ ~isBusy(s, victim) /\ ~isBusy(s, r.block) /\ ~isValid(s, r.block)
      /\ ~isValid(s, victim)
  BY <1>3, <1>4, <1>5 DEF Less
<1>7. freed.mshr = h.mshr
  BY DEF Shrunk
<1>8. placed = [freed EXCEPT !.sets[c] = t]
  OBVIOUS
<1> HIDE DEF s
<1>9. SetOK(nWays[c], t) /\ \A b \in Tag : /\ isBusy(t, b) <=> b = r.block \/ isBusy(s, b)
                                           /\ isValid(t, b) <=> isValid(s, b)
  BY <1>2, <1>3, <1>6, InsertUses
<1> HIDE DEF t, placed
<1>10. Typed(placed) /\ placed.sets = [freed.sets EXCEPT ![c] = t] /\ placed.mshr = freed.mshr
  BY <1>8, <1>9, PutSet
<1>11. freed.sets \in [Caches -> Seq(Way)]
  BY Fields
<1>12. \A x \in Caches : placed.sets[x] = IF x = c THEN t ELSE freed.sets[x]
  BY <1>10, <1>11
<1>13. ASSUME NEW x \in Caches, x # c
       PROVE  Matched(placed.sets[x], placed.mshr[x])
  <2>1. Less(h.sets[x], freed.sets[x])
    BY DEF Shrunk
  <2>2. Matched(h.sets[x], h.mshr[x])
    BY <1>1
  <2>3. placed.sets[x] = freed.sets[x] /\ placed.mshr[x] = h.mshr[x]
    BY <1>7, <1>10, <1>12, <1>13
  <2>4. QED
    BY <2>1, <2>2, <2>3 DEF Less, Matched
<1>14. ASSUME NEW b \in Tag
       PROVE  isBusy(placed.sets[c], b) <=> b = r.block \/ Waited(placed.mshr[c], b)
  <2>1. isBusy(s, b) <=> isBusy(h.sets[c], b)
    BY <1>5 DEF Less
  <2>2. isBusy(h.sets[c], b) <=> Waited(h.mshr[c], b)
    BY <1>1 DEF Matched
  <2>3. placed.sets[c] = t /\ placed.mshr[c] = h.mshr[c]
    BY <1>7, <1>10, <1>12
  <2>4. QED
    BY <1>9, <2>1, <2>2, <2>3
<1>15. ~isValid(placed.sets[c], r.block)
  BY <1>3, <1>6, <1>9, <1>12
<1>16. placed.mshr = h.mshr
  BY <1>7, <1>10
<1>17. QED
  BY <1>10, <1>13, <1>14, <1>15, <1>16 DEF placed

LEMMA MissWithoutMshrOK ==
  ASSUME NEW h, HOK(h), NEW c \in Caches, NEW r \in Request, r.block \in Block,
         Matching(h, c, r.block) = {}, ~isValid(h.sets[c], r.block),
         Wanted(c, r) # {}, NEW predicted \in SUBSET Sector
  PROVE  SentOK(c, MissWithoutMshr(h, c, r, predicted))
<1> DEFINE set      == h.sets[c]
           victim   == findVictim(set)
           empty    == ~isValid(set, victim) /\ ~isBusy(set, victim)
           mayEvict == evictable(h, c, victim) /\ ~isBusy(set, victim)
           freed    == IF empty THEN h ELSE evict(h, c, victim, r.id)
           placed   == [freed EXCEPT !.sets[c] = makeBusy(insert(@, victim, r.block), r.block)]
           checked  == Asserting(placed, ~isValid(placed.sets[c], r.block)
                                           /\ isBusy(placed.sets[c], r.block),
                                 "NotValidAndBusyExpected")
           sectors  == Wanted(c, r) \cup predicted
           will     == sectors \cap r.actual
           res      == MissWithoutMshr(h, c, r, predicted)
<1>1. Typed(h) /\ \A x \in Caches : Matched(h.sets[x], h.mshr[x])
  BY DEF HOK
<1>2. r.block \in Tag /\ ~Waited(h.mshr[c], r.block)
  BY DEF Tag, Matching, Waited
<1>3. ~isBusy(set, r.block)
  BY <1>1, <1>2 DEF Matched
<1>4. res = IF ~(empty \/ mayEvict) \/ MshrFull(h, c) THEN Refuse(h)
            ELSE Fetch(checked, c, r, sectors, predicted, r.type = "WRITE", will)
  BY <1>3 DEF MissWithoutMshr, Placed
<1>5. SentOK(c, Refuse(h))
  BY AcceptedOK
<1>6. ASSUME empty \/ mayEvict, ~MshrFull(h, c)
      PROVE  SentOK(c, Fetch(checked, c, r, sectors, predicted, r.type = "WRITE", will))
  <2>1. nWays[c] \in Nat /\ SetOK(nWays[c], set)
    BY <1>1, Fields, Numbers
  <2>2. victim \in Tag /\ HasTag(set, victim)
    BY <2>1, VictimIs
  <2>3. ~isBusy(set, victim)
    BY <1>6
  <2> HIDE DEF victim
  <2>4. Typed(freed) /\ Shrunk(h, freed) /\ ~isValid(freed.sets[c], victim)
    <3>1. CASE empty
      BY <1>1, <3>1, SameItself, SameIsLess
    <3>2. CASE ~empty
      <4>1. r.id \in 1..MaxSends
        BY RequestFields
      <4> DEFINE g == evict(h, c, victim, r.id)
      <4>2. Typed(g) /\ Shrunk(h, g) /\ (~isBusy(h.sets[c], victim) => ~isValid(g.sets[c], victim))
        BY <1>1, <2>2, <4>1, EvictShrinks
      <4>3. freed = g
        BY <3>2
      <4> HIDE DEF g, freed
      <4>4. QED
        BY <2>3, <4>2, <4>3
    <3>3. QED
      BY <3>1, <3>2
  <2> HIDE DEF freed
  <2>5. /\ Typed(placed) /\ placed.mshr = h.mshr
        /\ \A x \in Caches : x # c => Matched(placed.sets[x], placed.mshr[x])
        /\ \A b \in Tag : isBusy(placed.sets[c], b) <=> b = r.block \/ Waited(placed.mshr[c], b)
        /\ ~isValid(placed.sets[c], r.block)
    BY <1>2, <2>2, <2>3, <2>4, PlacedIs
  <2> HIDE DEF placed
  <2>6. checked = placed
    BY <1>2, <2>5 DEF Asserting
  <2> HIDE DEF checked
  <2>7. ~MshrFull(placed, c)
    BY <1>6, <2>5 DEF MshrFull
  <2>8. sectors \in SUBSET Sector /\ sectors # {} /\ will \in SUBSET Sector
    BY WantedIn
  <2> HIDE DEF sectors, will
  <2>9. (r.type = "WRITE") \in BOOLEAN
    OBVIOUS
  <2> DEFINE dirty == r.type = "WRITE"
  <2>10. dirty \in BOOLEAN
    OBVIOUS
  <2> HIDE DEF dirty
  <2>11. SentOK(c, Fetch(placed, c, r, sectors, predicted, dirty, will))
    BY <2>5, <2>7, <2>8, <2>10, FetchedOK
  <2>12. QED
    BY <2>6, <2>11 DEF dirty
<1> HIDE DEF empty, mayEvict, checked, sectors, will, res
<1>7. SentOK(c, res)
  BY <1>4, <1>5, <1>6
<1>8. QED
  BY <1>7 DEF res

LEMMA BlockMissOK ==
  ASSUME NEW h, HOK(h), NEW c \in Caches, NEW r \in Request, r.block \in Block,
         ~isValid(h.sets[c], r.block), Wanted(c, r) # {}, NEW predicted \in SUBSET Sector
  PROVE  SentOK(c, BlockMiss(h, c, r, predicted))
<1> DEFINE g == MarkMshrs(h, c, r)
           res == BlockMiss(h, c, r, predicted)
<1>1. HOK(g) /\ Matching(g, c, r.block) = Matching(h, c, r.block)
  BY MshrsMarked
<1>2. res = IF CoveredByMshrs(h, c, r) THEN Accept(g)
            ELSE IF Matching(h, c, r.block) # {} THEN MissWithMshr(g, c, r, predicted)
            ELSE MissWithoutMshr(h, c, r, predicted)
  BY DEF BlockMiss
<1> HIDE DEF g, res
<1>3. SentOK(c, Accept(g))
  BY <1>1, AcceptedOK
<1>4. ASSUME Matching(h, c, r.block) # {}
      PROVE  SentOK(c, MissWithMshr(g, c, r, predicted))
  BY <1>1, <1>4, MissWithMshrOK
<1>5. ASSUME Matching(h, c, r.block) = {}
      PROVE  SentOK(c, MissWithoutMshr(h, c, r, predicted))
  BY <1>5, MissWithoutMshrOK
<1>6. SentOK(c, res)
  BY <1>2, <1>3, <1>4, <1>5
<1>7. QED
  BY <1>6 DEF res

LEMMA SectorHitOK ==
  ASSUME NEW h, HOK(h), NEW c \in Caches, NEW r \in Request
  PROVE  SentOK(c, SectorHit(h, c, r))
<1> DEFINE S == r.actual \cap Wanted(c, r)
           w == r.type = "WRITE"
           g == Access(h, c, r.block, S, w)
<1>1. Typed(h) /\ r.block \in Tag /\ S \in SUBSET Sector /\ w \in BOOLEAN
  BY RequestFields, WantedIn DEF HOK
<1>2. SectorHit(h, c, r) = Accept(HitAt(g, c, r))
  BY DEF SectorHit
<1> HIDE DEF S, w
<1>3. Typed(g) /\ Same(h, g)
  BY <1>1, AccessSame
<1> HIDE DEF g
<1>4. Typed(HitAt(g, c, r)) /\ Same(g, HitAt(g, c, r))
  BY <1>3, HitSame
<1>5. HOK(HitAt(g, c, r))
  BY <1>3, <1>4, SameOK
<1>6. QED
  BY <1>2, <1>5, AcceptedOK

LEMMA SectorMissOK ==
  ASSUME NEW h, HOK(h), NEW c \in Caches, NEW r \in Request, r.block \in Block,
         isValid(h.sets[c], r.block), NEW predicted \in SUBSET Sector
  PROVE  SentOK(c, SectorMiss(h, c, r, predicted))
<1> DEFINE filtered == findMissingSectors(h.sets[c], r.block, Remaining(h, c, r))
           busy     == [h EXCEPT !.sets[c] = makeBusy(@, r.block)]
           f        == FillAccess(h, c, r)
           S        == filtered \cup predicted
           res      == SectorMiss(h, c, r, predicted)
<1>1. Typed(h) /\ \A x \in Caches : Matched(h.sets[x], h.mshr[x])
  BY DEF HOK
<1>2. res = IF r.type = "WRITE" \/ CoveredByMshrs(h, c, r) THEN Accept(f)
            ELSE IF MshrFull(h, c) THEN Refuse(h)
            ELSE IF filtered = {} THEN Accept(HitAt(f, c, r))
            ELSE Fetch(busy, c, r, S, predicted, FALSE, {})
  BY DEF SectorMiss
<1>3. filtered \in SUBSET Sector
  BY WantedIn
<1> HIDE DEF filtered, res
<1>4. Typed(f) /\ Same(h, f) /\ HOK(f)
  BY <1>1, FillAccessSame, SameOK
<1> HIDE DEF f
<1>5. SentOK(c, Accept(f)) /\ SentOK(c, Refuse(h))
  BY <1>4, AcceptedOK
<1>6. SentOK(c, Accept(HitAt(f, c, r)))
  BY <1>4, HitSame, SameOK, AcceptedOK
<1>7. ASSUME filtered # {}, ~MshrFull(h, c)
      PROVE  SentOK(c, Fetch(busy, c, r, S, predicted, FALSE, {}))
  <2> DEFINE s == h.sets[c]
             t == makeBusy(s, r.block)
  <2>1. nWays[c] \in Nat /\ SetOK(nWays[c], s) /\ r.block \in Tag /\ HasTag(s, r.block)
    BY <1>1, Fields, Numbers DEF isValid, Tag
  <2>2. busy = [h EXCEPT !.sets[c] = t]
    OBVIOUS
  <2>3. h.sets \in [Caches -> Seq(Way)]
    BY <1>1, Fields
  <2>4. SetOK(nWays[c], t) /\ Uses(s, t, r.block, TRUE, isValid(s, r.block))
    BY <2>1, MakeBusyUses
  <2> HIDE DEF t, busy
  <2>5. Typed(busy) /\ busy.sets = [h.sets EXCEPT ![c] = t] /\ busy.mshr = h.mshr
    BY <1>1, <2>2, <2>4, PutSet
  <2>6. \A x \in Caches : busy.sets[x] = IF x = c THEN t ELSE h.sets[x]
    BY <2>3, <2>5
  <2>7. \A x \in Caches : x # c => Matched(busy.sets[x], busy.mshr[x])
    BY <1>1, <2>5, <2>6
  <2>8. \A b \in Tag : isBusy(busy.sets[c], b) <=> b = r.block \/ Waited(busy.mshr[c], b)
    <3> SUFFICES ASSUME NEW b \in Tag
                 PROVE  isBusy(busy.sets[c], b) <=> b = r.block \/ Waited(busy.mshr[c], b)
      OBVIOUS
    <3>1. isBusy(t, b) <=> IF b = r.block THEN TRUE ELSE isBusy(s, b)
      BY <2>4 DEF Uses
    <3>2. isBusy(s, b) <=> Waited(h.mshr[c], b)
      BY <1>1 DEF Matched
    <3>3. busy.sets[c] = t /\ busy.mshr[c] = h.mshr[c]
      BY <2>5, <2>6
    <3> HIDE DEF s
    <3>4. CASE b = r.block
      <4>1. isBusy(t, b)
        BY <3>1, <3>4
      <4>2. QED
        BY <3>3, <3>4, <4>1
    <3>5. CASE b # r.block
      <4>1. isBusy(t, b) <=> Waited(h.mshr[c], b)
        BY <3>1, <3>2, <3>5
      <4>2. QED
        BY <3>3, <3>5, <4>1
    <3>6. QED
      BY <3>4, <3>5
  <2>9. ~MshrFull(busy, c)
    BY <1>7, <2>5 DEF MshrFull
  <2>10. S \in SUBSET Sector /\ S # {} /\ FALSE \in BOOLEAN /\ {} \in SUBSET Sector
    BY <1>3, <1>7
  <2> HIDE DEF S
  <2>11. QED
    BY <2>5, <2>7, <2>8, <2>9, <2>10, FetchedOK
<1> HIDE DEF S, busy
<1>8. SentOK(c, res)
  BY <1>2, <1>5, <1>6, <1>7
<1>9. QED
  BY <1>8 DEF res

LEMMA SendHereOK ==
  ASSUME NEW h, HOK(h), NEW c \in Caches, NEW r \in Request, r.block \in Block,
         Wanted(c, r) # {}, NEW predicted \in SUBSET Sector
  PROVE  SentOK(c, sendHere(h, c, r, predicted))
<1>1. CASE ~isValid(h.sets[c], r.block)
  BY <1>1, BlockMissOK DEF sendHere
<1>2. CASE isValid(h.sets[c], r.block)
  <2>1. SentOK(c, SectorHit(h, c, r))
    BY SectorHitOK
  <2>2. SentOK(c, SectorMiss(h, c, r, predicted))
    BY <1>2, SectorMissOK
  <2>3. sendHere(h, c, r, predicted) = SectorHit(h, c, r)
        \/ sendHere(h, c, r, predicted) = SectorMiss(h, c, r, predicted)
    BY <1>2 DEF sendHere
  <2>4. QED
    BY <2>1, <2>2, <2>3
<1>3. QED
  BY <1>1, <1>2

-----------------------------------------------------------------------------
(***************************************************************************)
(* send down the levels.                                                   *)
(***************************************************************************)
\* What is left of a call when the levels below have had their part
DoneOK(res) == res.ok \in BOOLEAN /\ HOK(res.h)

LEMMA SendLastOK ==
  ASSUME NEW h, HOK(h), NEW c \in Caches, NEW r \in Request, r.block \in Block,
         Wanted(c, r) # {}, NEW predicted \in SUBSET Sector
  PROVE  DoneOK(sendLast(h, c, r, predicted))
<1> DEFINE here == sendHere(h, c, r, predicted)
           R == {here.ask[i] : i \in 1..Len(here.ask)}
           g == [here.h EXCEPT !.wait = @ \cup R]
           res == sendLast(h, c, r, predicted)
<1>1. SentOK(c, here)
  BY SendHereOK
<1>2. res = [here EXCEPT !.h = g]
  BY DEF sendLast, ToMemory
<1> HIDE DEF here, res
<1>3. R \in SUBSET Request
  BY <1>1 DEF SentOK
<1> HIDE DEF R
<1>4. HOK(here.h) /\ Typed(here.h)
  BY <1>1 DEF SentOK, HOK
<1>5. Typed(g) /\ Same(here.h, g)
  BY <1>3, <1>4, PutWait
<1> HIDE DEF g
<1>6. HOK(g)
  BY <1>4, <1>5, SameOK
<1>7. here = [h |-> here.h, ok |-> here.ok, ask |-> here.ask] /\ here.ok \in BOOLEAN
  BY <1>1 DEF SentOK
<1>8. res = [h |-> g, ok |-> here.ok, ask |-> here.ask]
  BY <1>2, <1>7
<1>9. DoneOK(res)
  BY <1>6, <1>7, <1>8 DEF DoneOK
<1>10. QED
  BY <1>9 DEF res

\* Requests that join the retry list
LEMMA PutRetry ==
  ASSUME NEW h, HOK(h), NEW c \in Caches, NEW q \in Seq(Request), Demands(c, q)
  PROVE  HOK([h EXCEPT !.retry[c] = q])
<1> DEFINE Q == [h.retry EXCEPT ![c] = q]
           g == [h EXCEPT !.retry = Q]
<1>1. h \in HState /\ h.retry \in [Caches -> Seq(Request)] /\ Typed(h)
  BY Fields DEF HOK, Typed
<1>2. [h EXCEPT !.retry[c] = q] = g
  OBVIOUS
<1>3. Q \in [Caches -> Seq(Request)] /\ \A x \in Caches : Demands(x, Q[x])
  BY <1>1 DEF Typed
<1> HIDE DEF Q
<1>4. g \in HState /\ g.sets = h.sets /\ g.mshr = h.mshr /\ g.retry = Q
  BY <1>1, <1>3 DEF HState
<1> HIDE DEF g
<1>5. Typed(g)
  BY <1>1, <1>3, <1>4 DEF Typed
<1>6. HOK(g)
  BY <1>4, <1>5 DEF HOK
<1>7. QED
  BY <1>2, <1>6

LEMMA SentBelowOK ==
  ASSUME NEW c \in Caches, NEW here, SentOK(c, here), NEW below,
         here.ask # << >> => DoneOK(below)
  PROVE  DoneOK(SentBelow(here, c, below))
<1> DEFINE q == below.h.retry[c] \o here.ask
           g == [below.h EXCEPT !.retry[c] = @ \o here.ask]
           res == SentBelow(here, c, below)
<1>1. here = [h |-> here.h, ok |-> here.ok, ask |-> here.ask] /\ here.ok \in BOOLEAN
      /\ HOK(here.h)
      /\ (here.ask = << >> \/ \E a \in Request : here.ask = <<a>> /\ Demand(c, a))
  BY DEF SentOK
<1>2. CASE here.ask = << >>
  <2>1. res = here
    BY <1>2 DEF SentBelow
  <2>2. QED
    BY <1>1, <2>1 DEF DoneOK
<1>3. CASE here.ask # << >>
  <2>1. PICK a \in Request : here.ask = <<a>> /\ Demand(c, a)
    BY <1>1, <1>3
  <2>2. HOK(below.h) /\ below.ok \in BOOLEAN
    BY <1>3 DEF DoneOK
  <2>3. res = IF below.ok THEN [here EXCEPT !.h = below.h] ELSE [here EXCEPT !.h = g]
    BY <1>3 DEF SentBelow
  <2>4. below.h.retry[c] \in Seq(Request) /\ Demands(c, below.h.retry[c])
    BY <2>2, Fields DEF HOK
  <2>5. q \in Seq(Request) /\ Demands(c, q)
    <3> DEFINE p == below.h.retry[c]
    <3>1. p \in Seq(Request) /\ Demands(c, p)
      BY <2>4
    <3> HIDE DEF p
    <3>2. p \o <<a>> \in Seq(Request) /\ Len(p \o <<a>>) = Len(p) + 1 /\ Len(p) \in Nat
          /\ (p \o <<a>>)[Len(p) + 1] = a /\ \A i \in 1..Len(p) : (p \o <<a>>)[i] = p[i]
      BY <3>1
    <3>3. Demands(c, p \o <<a>>)
      BY <2>1, <3>1, <3>2 DEF Demands
    <3>4. QED
      BY <2>1, <3>2, <3>3 DEF p
  <2>6. g = [below.h EXCEPT !.retry[c] = q]
    OBVIOUS
  <2> HIDE DEF q, g, res
  <2>7. HOK(g)
    BY <2>2, <2>5, <2>6, PutRetry
  <2>8. res.ok = here.ok /\ (res.h = below.h \/ res.h = g)
    BY <1>1, <2>3
  <2>9. DoneOK(res)
    BY <1>1, <2>2, <2>7, <2>8 DEF DoneOK
  <2>10. QED
    BY <2>9 DEF res
<1>4. QED
  BY <1>2, <1>3

\* What cache c asks for, the cache below it can be sent.
LEMMA AskedBelow ==
  ASSUME NEW c \in Caches, level[c] # 2, NEW here, SentOK(c, here), here.ask # << >>
  PROVE  /\ lower[c] \in Caches /\ here.ask[1] \in Request /\ here.ask[1].block \in Block
         /\ Wanted(lower[c], here.ask[1]) # {}
<1>1. PICK a \in Request : here.ask = <<a>> /\ Demand(c, a)
  BY DEF SentOK
<1>2. here.ask[1] = a
  BY <1>1
<1>3. lower[c] \in Caches /\ level[lower[c]] = level[c] + 1
  BY Numbers
<1>4. QED
  BY <1>1, <1>2, <1>3 DEF Demand, Wanted

LEMMA SendMiddleOK ==
  ASSUME NEW h, HOK(h), NEW c \in Caches, level[c] # 2, NEW r \in Request, r.block \in Block,
         Wanted(c, r) # {}, NEW predicted \in SUBSET Sector
  PROVE  DoneOK(sendMiddle(h, c, r, predicted))
<1> DEFINE here == sendHere(h, c, r, predicted)
           below == sendLast(here.h, lower[c], here.ask[1], {})
<1>1. SentOK(c, here)
  BY SendHereOK
<1>2. sendMiddle(h, c, r, predicted) = SentBelow(here, c, below)
  BY DEF sendMiddle, AskLast
<1> HIDE DEF here
<1>3. ASSUME here.ask # << >>
      PROVE  DoneOK(below)
  <2>1. /\ lower[c] \in Caches /\ here.ask[1] \in Request /\ here.ask[1].block \in Block
        /\ Wanted(lower[c], here.ask[1]) # {}
    BY <1>1, <1>3, AskedBelow
  <2>2. HOK(here.h) /\ {} \in SUBSET Sector
    BY <1>1 DEF SentOK
  <2>3. QED
    BY <2>1, <2>2, SendLastOK
<1> HIDE DEF below
<1>4. QED
  BY <1>1, <1>2, <1>3, SentBelowOK

LEMMA SendFirstOK ==
  ASSUME NEW h, HOK(h), NEW c \in Caches, level[c] = 0, NEW r \in Request, r.block \in Block,
         Wanted(c, r) # {}, NEW predicted \in SUBSET Sector
  PROVE  DoneOK(sendFirst(h, c, r, predicted))
<1> DEFINE here == sendHere(h, c, r, predicted)
           below == sendMiddle(here.h, lower[c], here.ask[1], {})
<1>1. SentOK(c, here)
  BY SendHereOK
<1>2. sendFirst(h, c, r, predicted) = SentBelow(here, c, below)
  BY DEF sendFirst, AskMiddle
<1> HIDE DEF here
<1>3. ASSUME here.ask # << >>
      PROVE  DoneOK(below)
  <2>1. /\ lower[c] \in Caches /\ here.ask[1] \in Request /\ here.ask[1].block \in Block
        /\ Wanted(lower[c], here.ask[1]) # {}
    BY <1>1, <1>3, AskedBelow
  <2>2. HOK(here.h) /\ {} \in SUBSET Sector
    BY <1>1 DEF SentOK
  <2>3. level[lower[c]] # 2
    BY Numbers
  <2>4. QED
    BY <2>1, <2>2, <2>3, SendMiddleOK
<1> HIDE DEF below
<1>4. QED
  BY <1>1, <1>2, <1>3, SentBelowOK

LEMMA SendOK ==
  ASSUME NEW h, HOK(h), NEW c \in Caches, NEW r \in Request, r.block \in Block,
         Wanted(c, r) # {}, NEW predicted \in SUBSET Sector
  PROVE  DoneOK(send(h, c, r, predicted))
<1>1. level[c] \in 0..2
  BY Numbers
<1>2. CASE level[c] = 0
  BY <1>2, SendFirstOK DEF send
<1>3. CASE level[c] = 1
  BY <1>3, SendMiddleOK DEF send
<1>4. CASE level[c] = 2
  BY <1>4, SendLastOK DEF send
<1>5. QED
  BY <1>1, <1>2, <1>3, <1>4

-----------------------------------------------------------------------------
(***************************************************************************)
(* The retry lists.                                                        *)
(***************************************************************************)
LEMMA Removed ==
  ASSUME NEW D, NEW q \in Seq(D), NEW i \in 1..Len(q)
  PROVE  RemoveAt(q, i) \in Seq(D)
<1>1. Len(q) \in Nat
  BY LenProperties
<1>2. \A m, n \in Int : (\A k \in m..n : k \in 1..Len(q)) => SubSeq(q, m, n) \in Seq(D)
  BY <1>1
<1>3. /\ 1 \in Int /\ i - 1 \in Int /\ i + 1 \in Int /\ Len(q) \in Int
      /\ \A k \in 1..(i - 1) : k \in 1..Len(q)
      /\ \A k \in (i + 1)..Len(q) : k \in 1..Len(q)
  BY <1>1
<1>4. SubSeq(q, 1, i - 1) \in Seq(D) /\ SubSeq(q, i + 1, Len(q)) \in Seq(D)
  BY <1>2, <1>3
<1>5. QED
  BY <1>4, ConcatProperties DEF RemoveAt

LEMMA RemovedDemands ==
  ASSUME NEW c, NEW q \in Seq(Request), Demands(c, q), NEW i \in 1..Len(q)
  PROVE  RemoveAt(q, i) \in Seq(Request) /\ Demands(c, RemoveAt(q, i))
<1> DEFINE D == {r \in Request : Demand(c, r)}
<1>1. q \in Seq(D)
  <2>1. Len(q) \in Nat /\ \A j \in 1..Len(q) : q[j] \in D
    BY LenProperties DEF Demands
  <2>2. q = [j \in 1..Len(q) |-> q[j]]
    OBVIOUS
  <2> HIDE DEF D
  <2>3. QED
    BY <2>1, <2>2, IsASeq
<1>2. \A r \in D : r \in Request /\ Demand(c, r)
  OBVIOUS
<1> HIDE DEF D
<1> DEFINE p == RemoveAt(q, i)
<1>3. p \in Seq(D)
  BY <1>1, Removed
<1> HIDE DEF p
<1>4. p \in Seq(Request)
  BY <1>2, <1>3
<1>5. \A j \in 1..Len(p) : p[j] \in D
  BY <1>3
<1>6. Demands(c, p)
  BY <1>2, <1>5 DEF Demands
<1>7. QED
  BY <1>4, <1>6 DEF p

Retrying == {l \in [h : HState, i : Nat \ {0}] : HOK(l.h)}

LEMMA RetryingStep ==
  ASSUME NEW l \in Retrying, NEW c \in Caches, level[c] # 2
  PROVE  RetryStep(l, c) \in Retrying
<1> DEFINE list == l.h.retry[c]
           sent == send(l.h, lower[c], list[l.i], {})
           rest == RemoveAt(list, l.i)
           next == [sent.h EXCEPT !.retry[c] = rest]
           again == IF l.i > Len(rest) THEN 1 ELSE l.i + 1
           res == RetryStep(l, c)
<1>1. HOK(l.h) /\ l.i \in Nat \ {0} /\ l \in [h : HState, i : Nat \ {0}]
  BY DEF Retrying
<1>2. list \in Seq(Request) /\ Demands(c, list)
  BY <1>1, Fields DEF HOK
<1>3. lower[c] \in Caches /\ level[lower[c]] = level[c] + 1
  BY Numbers
<1>4. CASE l.i > Len(list)
  BY <1>4 DEF RetryStep, Tried
<1>5. CASE ~(l.i > Len(list))
  <2>1. l.i \in 1..Len(list) /\ Len(list) \in Nat
    BY <1>1, <1>2, <1>5, LenProperties
  <2>2. list[l.i] \in Request /\ list[l.i].block \in Block /\ Wanted(lower[c], list[l.i]) # {}
    BY <1>2, <1>3, <2>1 DEF Demands, Demand, Wanted
  <2>3. {} \in SUBSET Sector
    OBVIOUS
  <2>4. res = IF ~sent.ok THEN [h |-> sent.h, i |-> l.i + 1] ELSE [h |-> next, i |-> again]
    BY <1>5 DEF RetryStep, Tried
  <2>5. rest \in Seq(Request) /\ Demands(c, rest)
    BY <1>2, <2>1, RemovedDemands
  <2> HIDE DEF rest, list, res
  <2>6. HOK(sent.h)
    BY <1>1, <1>3, <2>2, <2>3, SendOK DEF DoneOK
  <2> HIDE DEF sent
  <2>7. HOK(next)
    BY <2>5, <2>6, PutRetry
  <2> HIDE DEF next
  <2>8. sent.h \in HState /\ next \in HState
    BY <2>6, <2>7 DEF HOK, Typed
  <2>9. again \in Nat \ {0} /\ l.i + 1 \in Nat \ {0}
    BY <1>1
  <2> HIDE DEF again
  <2>10. res \in Retrying
    BY <2>4, <2>6, <2>7, <2>8, <2>9 DEF Retrying
  <2>11. QED
    BY <2>10 DEF res
<1>6. QED
  BY <1>4, <1>5

RetriedUpTo(f, h, c, n) ==
  f = [m \in 0..n |-> IF m = 0 THEN [h |-> h, i |-> 1] ELSE RetryStep(f[m - 1], c)]

LEMMA RetriedExists ==
  ASSUME NEW h, HOK(h), NEW c \in Caches, level[c] # 2, NEW n \in Nat
  PROVE  /\ \E f : RetriedUpTo(f, h, c, n)
         /\ \A f : RetriedUpTo(f, h, c, n) => \A m \in 0..n : f[m] \in Retrying
<1> DEFINE x0 == [h |-> h, i |-> 1]
           F == [p \in Retrying \X (1..n) |-> RetryStep(p[1], c)]
<1>1. x0 \in Retrying
  BY DEF Retrying, HOK, Typed
<1>2. F \in [Retrying \X (1..n) -> Retrying]
  BY RetryingStep
<1> HIDE DEF x0
<1>3. PICK f \in [0..n -> Retrying] : Iterated(f, n, x0, F)
  BY <1>1, <1>2, IterateExists
<1>4. ASSUME NEW m \in 0..n
      PROVE  f[m] = IF m = 0 THEN x0 ELSE RetryStep(f[m - 1], c)
  <2>1. f[m] = IF m = 0 THEN x0 ELSE F[<<f[m - 1], m>>]
    BY <1>3 DEF Iterated
  <2>2. ASSUME m # 0
        PROVE  F[<<f[m - 1], m>>] = RetryStep(f[m - 1], c)
    <3>1. m \in 1..n /\ m - 1 \in 0..n
      BY <2>2
    <3>2. <<f[m - 1], m>> \in Retrying \X (1..n)
      BY <1>3, <3>1
    <3>3. QED
      BY <3>2
  <2> HIDE DEF F
  <2>3. QED
    BY <2>1, <2>2
<1>5. f = [m \in 0..n |-> f[m]]
  BY <1>3
<1>6. RetriedUpTo(f, h, c, n)
  BY <1>4, <1>5 DEF RetriedUpTo, x0
<1>7. ASSUME NEW g, RetriedUpTo(g, h, c, n)
      PROVE  \A m \in 0..n : g[m] \in Retrying
  <2>1. ASSUME NEW m \in 0..n
        PROVE  g[m] = IF m = 0 THEN x0 ELSE RetryStep(g[m - 1], c)
    BY <1>7 DEF RetriedUpTo, x0
  <2>2. g[0] \in Retrying
    BY <1>1, <2>1
  <2>3. ASSUME NEW m \in 1..n, g[m - 1] \in Retrying
        PROVE  g[m] \in Retrying
    <3>1. g[m] = RetryStep(g[m - 1], c)
      BY <2>1
    <3>2. RetryStep(g[m - 1], c) \in Retrying
      BY <2>3, RetryingStep
    <3>3. QED
      BY <3>1, <3>2
  <2>4. QED
    BY <2>2, <2>3, IterateIn
<1>8. QED
  BY <1>6, <1>7

LEMMA RetryOK ==
  ASSUME NEW h, HOK(h), NEW c \in Caches, level[c] # 2
  PROVE  HOK(Retry(h, c))
<1> DEFINE k == Len(h.retry[c]) + 1
           most == k * k
           f == CHOOSE f : RetriedUpTo(f, h, c, most)
<1>1. k \in Nat
  <2>1. h.retry[c] \in Seq(Request)
    BY Fields DEF HOK
  <2>2. QED
    BY <2>1, LenProperties
<1>2. Retry(h, c) = f[most].h
  BY DEF Retry, RetryLoop, RetriedUpTo
<1> HIDE DEF k
<1>3. most \in Nat
  BY <1>1
<1> HIDE DEF most
<1>4. RetriedUpTo(f, h, c, most)
  BY <1>3, RetriedExists
<1> HIDE DEF f
<1>5. f[most] \in Retrying
  BY <1>3, <1>4, RetriedExists
<1>6. QED
  BY <1>2, <1>5 DEF Retrying

LEMMA TickOK ==
  ASSUME NEW h, HOK(h), NEW c \in Caches, level[c] = 0
  PROVE  HOK(tick(h, c))
<1>1. lower[c] \in Caches /\ level[lower[c]] = level[c] + 1
  BY Numbers
<1>2. HOK(Retry(h, lower[c]))
  BY <1>1, RetryOK
<1>3. HOK(Retry(Retry(h, lower[c]), c))
  BY <1>2, RetryOK
<1>4. QED
  BY <1>3 DEF tick

-----------------------------------------------------------------------------
(***************************************************************************)
(* callback.                                                               *)
(***************************************************************************)
KeptUpTo(k, entries, gone) ==
  k = [i \in 0..Len(entries) |->
         IF i = 0 THEN << >> ELSE IF i \in gone THEN k[i - 1] ELSE Append(k[i - 1], entries[i])]

LEMMA KeptExists ==
  ASSUME NEW D, NEW entries \in Seq(D), NEW gone
  PROVE  \E k : KeptUpTo(k, entries, gone)
<1> DEFINE n == Len(entries)
           F == [p \in Seq(D) \X (1..n) |-> IF p[2] \in gone THEN p[1] ELSE Append(p[1], entries[p[2]])]
<1>1. n \in Nat /\ << >> \in Seq(D) /\ \A i \in 1..n : entries[i] \in D
  BY LenProperties
<1> HIDE DEF n
<1>2. F \in [Seq(D) \X (1..n) -> Seq(D)]
  <2> SUFFICES ASSUME NEW p \in Seq(D) \X (1..n)
               PROVE  (IF p[2] \in gone THEN p[1] ELSE Append(p[1], entries[p[2]])) \in Seq(D)
    OBVIOUS
  <2>1. p[1] \in Seq(D) /\ p[2] \in 1..n
    OBVIOUS
  <2>2. entries[p[2]] \in D
    BY <1>1, <2>1
  <2>3. Append(p[1], entries[p[2]]) \in Seq(D)
    BY <2>1, <2>2, AppendProperties
  <2>4. QED
    BY <2>1, <2>3
<1>3. PICK f \in [0..n -> Seq(D)] : Iterated(f, n, << >>, F)
  BY <1>1, <1>2, IterateExists
<1>4. ASSUME NEW i \in 0..n
      PROVE  f[i] = IF i = 0 THEN << >>
                    ELSE IF i \in gone THEN f[i - 1] ELSE Append(f[i - 1], entries[i])
  <2>1. f[i] = IF i = 0 THEN << >> ELSE F[<<f[i - 1], i>>]
    BY <1>3 DEF Iterated
  <2>2. ASSUME i # 0
        PROVE  F[<<f[i - 1], i>>] = IF i \in gone THEN f[i - 1] ELSE Append(f[i - 1], entries[i])
    <3>1. i \in 1..n /\ i - 1 \in 0..n
      BY <1>1, <2>2
    <3>2. <<f[i - 1], i>> \in Seq(D) \X (1..n)
      BY <1>3, <3>1
    <3>3. QED
      BY <3>2
  <2> HIDE DEF F
  <2>3. QED
    BY <2>1, <2>2
<1>5. f = [i \in 0..n |-> f[i]]
  BY <1>3
<1>6. KeptUpTo(f, entries, gone)
  BY <1>4, <1>5 DEF KeptUpTo, n
<1>7. QED
  BY <1>6

\* The entries that are not erased, and only they, are still there.
LEMMA ErasedIs ==
  ASSUME NEW entries \in Seq(mshr_entry_type), NEW gone
  PROVE  /\ Erase(entries, gone) \in Seq(mshr_entry_type)
         /\ Len(Erase(entries, gone)) <= Len(entries)
         /\ \A b : Waited(Erase(entries, gone), b) <=>
                     \E j \in 1..Len(entries) : j \notin gone /\ entries[j].block = b
<1> DEFINE n == Len(entries)
           k == CHOOSE k : KeptUpTo(k, entries, gone)
           Inv(q, i) == /\ q \in Seq(mshr_entry_type) /\ Len(q) <= i
                        /\ \A b : Waited(q, b) <=> \E j \in 1..i : j \notin gone /\ entries[j].block = b
           Good == {i \in Nat : i <= n => Inv(k[i], i)}
<1>1. n \in Nat /\ \A i \in 1..n : entries[i] \in mshr_entry_type
  BY LenProperties
<1>2. Erase(entries, gone) = k[n]
  BY DEF Erase, KeptUpTo
<1>3. KeptUpTo(k, entries, gone)
  BY KeptExists
<1> HIDE DEF k
<1>4. ASSUME NEW i \in 0..n
      PROVE  k[i] = IF i = 0 THEN << >>
                    ELSE IF i \in gone THEN k[i - 1] ELSE Append(k[i - 1], entries[i])
  BY <1>3 DEF KeptUpTo
<1> HIDE DEF n
<1>5. 0 \in Good
  <2>1. k[0] = << >>
    BY <1>1, <1>4
  <2>2. << >> \in Seq(mshr_entry_type) /\ Len(<< >>) = 0 /\ 1..0 = {}
    BY EmptySeq
  <2>3. Inv(<< >>, 0)
    BY <2>2 DEF Waited
  <2>4. QED
    BY <2>1, <2>3
<1>6. ASSUME NEW i \in Good
      PROVE  i + 1 \in Good
  <2>1. i \in Nat /\ i + 1 \in Nat /\ (i + 1) - 1 = i
    OBVIOUS
  <2>2. SUFFICES ASSUME i + 1 <= n
                 PROVE  Inv(k[i + 1], i + 1)
    BY <2>1
  <2> DEFINE q == k[i]
             x == entries[i + 1]
             p == Append(q, x)
  <2>3. i + 1 \in 0..n /\ i + 1 \in 1..n /\ i + 1 # 0 /\ i <= n
    BY <1>1, <2>1, <2>2
  <2>4. /\ q \in Seq(mshr_entry_type) /\ Len(q) <= i
        /\ \A b : Waited(q, b) <=> \E j \in 1..i : j \notin gone /\ entries[j].block = b
    BY <2>3
  <2>5. k[i + 1] = IF i + 1 \in gone THEN q ELSE p
    BY <1>4, <2>1, <2>3
  <2>6. x \in mshr_entry_type /\ x.block = entries[i + 1].block
    BY <1>1, <2>3
  <2>7. \A j \in 1..(i + 1) : j = i + 1 \/ j \in 1..i
    BY <2>1
  <2>8. \A j \in 1..i : j \in 1..(i + 1)
    BY <2>1
  <2>9. i + 1 \in 1..(i + 1)
    BY <2>1
  <2> HIDE DEF q, x
  <2>10. CASE i + 1 \in gone
    <3>1. Len(q) <= i + 1
      BY <2>1, <2>4, LenProperties
    <3>2. \A b : Waited(q, b) <=> \E j \in 1..(i + 1) : j \notin gone /\ entries[j].block = b
      BY <2>4, <2>7, <2>8, <2>10
    <3>3. Inv(q, i + 1)
      BY <2>4, <3>1, <3>2
    <3>4. QED
      BY <2>5, <2>10, <3>3
  <2>11. CASE i + 1 \notin gone
    <3>1. p \in Seq(mshr_entry_type) /\ Len(p) = Len(q) + 1 /\ Len(q) \in Nat
          /\ p[Len(q) + 1] = x /\ \A j \in 1..Len(q) : p[j] = q[j]
      BY <2>4, <2>6, AppendProperties, LenProperties
    <3> HIDE DEF p
    <3>2. \A j \in 1..Len(p) : j = Len(q) + 1 \/ j \in 1..Len(q)
      BY <3>1
    <3>3. Len(q) + 1 \in 1..Len(p) /\ \A j \in 1..Len(q) : j \in 1..Len(p)
      BY <3>1
    <3>4. \A b : Waited(p, b) <=> x.block = b \/ Waited(q, b)
      BY <3>1, <3>2, <3>3 DEF Waited
    <3>5. \A b : (\E j \in 1..(i + 1) : j \notin gone /\ entries[j].block = b)
                   <=> x.block = b \/ \E j \in 1..i : j \notin gone /\ entries[j].block = b
      BY <2>6, <2>7, <2>8, <2>9, <2>11
    <3>6. \A b : Waited(p, b) <=> \E j \in 1..(i + 1) : j \notin gone /\ entries[j].block = b
      BY <2>4, <3>4, <3>5
    <3>7. Len(p) <= i + 1
      BY <2>1, <2>4, <3>1
    <3>8. Inv(p, i + 1)
      BY <3>1, <3>6, <3>7
    <3>9. QED
      BY <2>5, <2>11, <3>8
  <2>12. QED
    BY <2>10, <2>11
<1>7. n \in Good
  <2>1. Good \in SUBSET Nat
    OBVIOUS
  <2> HIDE DEF Good
  <2>2. Good = Nat
    BY <1>5, <1>6, <2>1, Induction
  <2>3. QED
    BY <1>1, <2>2
<1>8. Inv(k[n], n)
  BY <1>1, <1>7
<1>9. QED
  BY <1>2, <1>8 DEF n

LEMMA ArrivedSame ==
  ASSUME NEW h, Typed(h), NEW c \in Caches, NEW r \in Request, isBusy(h.sets[c], r.block),
         NEW m \in mshr_entry_type
  PROVE  Typed(Arrived(h, c, r, m)) /\ Same(h, Arrived(h, c, r, m))
<1> DEFINE got     == r.bits[level[c] + 1]
           checked == Asserting(h, isBusy(h.sets[c], r.block), "DataToIdleBlock")
           soiled  == IF m.dirty THEN [checked EXCEPT !.sets[c] = makeDirty(@, r.block)] ELSE checked
           filled  == Fill(soiled, c, r.block, got \cup m.will_be_used)
           used    == Access(filled, c, r.block, (r.actual \cap got) \cup m.will_be_used, FALSE)
           written == Access(used, c, r.block, m.will_be_dirty, TRUE)
           res     == Arrived(h, c, r, m)
<1>1. res = IF m.dirty THEN written ELSE used
  BY DEF Arrived
<1>2. r.block \in Tag /\ got \in SUBSET Sector /\ r.actual \in SUBSET Sector
  BY RequestFields, Numbers
<1>3. m.will_be_used \in SUBSET Sector /\ m.will_be_dirty \in SUBSET Sector
  BY DEF mshr_entry_type
<1>4. got \cup m.will_be_used \in SUBSET Sector
      /\ (r.actual \cap got) \cup m.will_be_used \in SUBSET Sector
      /\ TRUE \in BOOLEAN /\ FALSE \in BOOLEAN
  BY <1>2, <1>3
<1>5. checked = h
  BY DEF Asserting
<1> HIDE DEF checked, got, res
<1>6. Typed(soiled) /\ Same(h, soiled)
  <2>1. Typed([h EXCEPT !.sets[c] = makeDirty(@, r.block)])
        /\ Same(h, [h EXCEPT !.sets[c] = makeDirty(@, r.block)])
    BY <1>2, SoilSame
  <2>2. CASE m.dirty
    BY <1>5, <2>1, <2>2
  <2>3. CASE ~m.dirty
    BY <1>5, <2>3, SameItself
  <2>4. QED
    BY <2>2, <2>3
<1> HIDE DEF soiled
<1>7. Typed(filled) /\ Same(soiled, filled)
  BY <1>2, <1>4, <1>6, FillSame
<1> HIDE DEF filled
<1>8. Typed(used) /\ Same(filled, used)
  BY <1>2, <1>4, <1>7, AccessSame
<1> HIDE DEF used
<1>9. Typed(written) /\ Same(used, written)
  BY <1>2, <1>3, <1>4, <1>8, AccessSame
<1> HIDE DEF written
<1>10. Same(h, used)
  BY <1>6, <1>7, <1>8, SameComposes
<1>11. Same(h, written)
  BY <1>9, <1>10, SameComposes
<1>12. Typed(res) /\ Same(h, res)
  BY <1>1, <1>8, <1>9, <1>10, <1>11
<1>13. QED
  BY <1>12 DEF res

\* The state while the MSHRs bring their sectors
Filling(g) == {k \in HState : Typed(k) /\ Same(g, k)}

FilledUpTo(f, g, c, r, entries, cleared) ==
  f = [i \in 0..Len(entries) |->
         IF i = 0 THEN g
         ELSE IF i \in cleared THEN Arrived(f[i - 1], c, r, entries[i]) ELSE f[i - 1]]

LEMMA FilledExists ==
  ASSUME NEW g, Typed(g), NEW c \in Caches, NEW r \in Request, NEW entries \in Seq(mshr_entry_type),
         NEW cleared, cleared # {} => isBusy(g.sets[c], r.block)
  PROVE  /\ \E f : FilledUpTo(f, g, c, r, entries, cleared)
         /\ \A f : FilledUpTo(f, g, c, r, entries, cleared) =>
                     Typed(f[Len(entries)]) /\ Same(g, f[Len(entries)])
<1> DEFINE n == Len(entries)
           D == Filling(g)
           F == [p \in D \X (1..n) |->
                   IF p[2] \in cleared THEN Arrived(p[1], c, r, entries[p[2]]) ELSE p[1]]
<1>1. n \in Nat /\ \A i \in 1..n : entries[i] \in mshr_entry_type
  BY LenProperties
<1>2. g \in D
  BY SameItself DEF Filling, Typed
<1> HIDE DEF n
<1>3. ASSUME NEW k \in D, NEW i \in 1..n, i \in cleared
      PROVE  Arrived(k, c, r, entries[i]) \in D
  <2>1. Typed(k) /\ Same(g, k)
    BY DEF Filling
  <2>2. r.block \in Tag
    BY RequestFields
  <2>3. isBusy(k.sets[c], r.block)
    BY <1>3, <2>1, <2>2 DEF Same, Keeps
  <2>4. entries[i] \in mshr_entry_type
    BY <1>1
  <2> DEFINE a == Arrived(k, c, r, entries[i])
  <2>5. Typed(a) /\ Same(k, a)
    BY <2>1, <2>3, <2>4, ArrivedSame
  <2> HIDE DEF a
  <2>6. Same(g, a) /\ a \in HState
    BY <2>1, <2>5, SameComposes DEF Typed
  <2>7. QED
    BY <2>5, <2>6 DEF Filling, a
<1> HIDE DEF D
<1>4. F \in [D \X (1..n) -> D]
  <2> SUFFICES ASSUME NEW p \in D \X (1..n)
               PROVE  (IF p[2] \in cleared THEN Arrived(p[1], c, r, entries[p[2]]) ELSE p[1]) \in D
    OBVIOUS
  <2>1. p[1] \in D /\ p[2] \in 1..n
    OBVIOUS
  <2>2. p[2] \in cleared => Arrived(p[1], c, r, entries[p[2]]) \in D
    BY <1>3, <2>1
  <2>3. QED
    BY <2>1, <2>2
<1>5. PICK f \in [0..n -> D] : Iterated(f, n, g, F)
  BY <1>1, <1>2, <1>4, IterateExists
<1>6. ASSUME NEW i \in 0..n
      PROVE  f[i] = IF i = 0 THEN g
                    ELSE IF i \in cleared THEN Arrived(f[i - 1], c, r, entries[i]) ELSE f[i - 1]
  <2>1. f[i] = IF i = 0 THEN g ELSE F[<<f[i - 1], i>>]
    BY <1>5 DEF Iterated
  <2>2. ASSUME i # 0
        PROVE  F[<<f[i - 1], i>>] =
                 IF i \in cleared THEN Arrived(f[i - 1], c, r, entries[i]) ELSE f[i - 1]
    <3>1. i \in 1..n /\ i - 1 \in 0..n
      BY <1>1, <2>2
    <3>2. <<f[i - 1], i>> \in D \X (1..n)
      BY <1>5, <3>1
    <3>3. QED
      BY <3>2
  <2> HIDE DEF F
  <2>3. QED
    BY <2>1, <2>2
<1>7. f = [i \in 0..n |-> f[i]]
  BY <1>5
<1>8. FilledUpTo(f, g, c, r, entries, cleared)
  BY <1>6, <1>7 DEF FilledUpTo, n
<1>9. ASSUME NEW k, FilledUpTo(k, g, c, r, entries, cleared)
      PROVE  Typed(k[n]) /\ Same(g, k[n])
  <2>1. ASSUME NEW i \in 0..n
        PROVE  k[i] = IF i = 0 THEN g
                      ELSE IF i \in cleared THEN Arrived(k[i - 1], c, r, entries[i]) ELSE k[i - 1]
    BY <1>9 DEF FilledUpTo, n
  <2>2. k[0] \in D
    BY <1>1, <1>2, <2>1
  <2>3. ASSUME NEW i \in 1..n, k[i - 1] \in D
        PROVE  k[i] \in D
    <3>1. k[i] = IF i \in cleared THEN Arrived(k[i - 1], c, r, entries[i]) ELSE k[i - 1]
      BY <1>1, <2>1
    <3>2. i \in cleared => Arrived(k[i - 1], c, r, entries[i]) \in D
      BY <1>3, <2>3
    <3>3. QED
      BY <2>3, <3>1, <3>2
  <2>4. k[n] \in D
    <3>1. \A i \in 0..n : k[i] \in D
      BY <1>1, <2>2, <2>3, IterateIn
    <3>2. QED
      BY <1>1, <3>1
  <2>5. QED
    BY <2>4 DEF D, Filling
<1>10. QED
  BY <1>8, <1>9 DEF n

\* One cache hears of an answer: the MSHRs that have all they waited for are gone,
\* and the block is idle when the last of them is.
LEMMA CallbackAtOK ==
  ASSUME NEW h, HOK(h), NEW c \in Caches, NEW r \in Request
  PROVE  HOK(CallbackAt(h, c, r))
<1> DEFINE entries == h.mshr[c]
           mine    == Matching(h, c, r.block)
           left(i) == entries[i].sectors \ r.bits[level[c] + 1]
           cleared == {i \in mine : left(i) = {}}
           shrunk  == [i \in 1..Len(entries) |->
                         IF i \in mine THEN [entries[i] EXCEPT !.sectors = left(i)] ELSE entries[i]]
           remains == Erase(shrunk, cleared)
           g       == [h EXCEPT !.mshr[c] = remains]
           f       == CHOOSE f : FilledUpTo(f, g, c, r, entries, cleared)
           last    == f[Len(entries)]
           res     == CallbackAt(h, c, r)
           b       == r.block
<1>1. res = IF r.hit <= level[c] THEN h ELSE IF cleared = {} THEN last ELSE Settle(last, c, b)
  BY DEF CallbackAt, FilledUpTo
<1>2. Typed(h) /\ \A x \in Caches : Matched(h.sets[x], h.mshr[x])
  BY DEF HOK
<1>3. entries \in Seq(mshr_entry_type) /\ Len(entries) <= mshr_entry_num[c]
      /\ mshr_entry_num[c] \in Nat /\ h.mshr \in [Caches -> Seq(mshr_entry_type)]
  BY <1>2, Fields, Numbers
<1>4. Len(entries) \in Nat /\ \A i \in 1..Len(entries) : entries[i] \in mshr_entry_type
  BY <1>3, LenProperties
<1>5. b \in Tag /\ \A i \in mine : i \in 1..Len(entries) /\ entries[i].block = b
  BY RequestFields DEF Matching
<1>6. \A i \in 1..Len(entries) : entries[i].block = b => i \in mine
  BY DEF Matching
<1>7. cleared \subseteq mine
  OBVIOUS
<1>8. ASSUME NEW i \in 1..Len(entries)
      PROVE  shrunk[i] \in mshr_entry_type /\ shrunk[i].block = entries[i].block
  <2> DEFINE S == left(i)
  <2>1. entries[i] \in mshr_entry_type
    BY <1>4
  <2>2. S \in SUBSET Sector
    BY <2>1 DEF mshr_entry_type
  <2>3. shrunk[i] = IF i \in mine THEN [entries[i] EXCEPT !.sectors = S] ELSE entries[i]
    OBVIOUS
  <2> HIDE DEF S, shrunk, mine, entries
  <2>4. QED
    BY <2>1, <2>2, <2>3 DEF mshr_entry_type
<1>9. shrunk \in Seq(mshr_entry_type) /\ Len(shrunk) = Len(entries)
  <2>1. shrunk = [i \in 1..Len(entries) |-> shrunk[i]]
    OBVIOUS
  <2> HIDE DEF shrunk, entries
  <2>2. QED
    BY <1>4, <1>8, <2>1
<1> HIDE DEF entries, mine, cleared, shrunk, res
<1>10. /\ remains \in Seq(mshr_entry_type) /\ Len(remains) <= Len(shrunk)
       /\ \A x : Waited(remains, x) <=>
                   \E j \in 1..Len(shrunk) : j \notin cleared /\ shrunk[j].block = x
  BY <1>9, ErasedIs
<1> HIDE DEF remains
<1>11. \A x : Waited(remains, x) <=>
                \E j \in 1..Len(entries) : j \notin cleared /\ entries[j].block = x
  BY <1>8, <1>9, <1>10
<1>12. Len(remains) <= mshr_entry_num[c]
  <2>1. Len(remains) \in Nat
    BY <1>10, LenProperties
  <2>2. QED
    BY <1>3, <1>4, <1>9, <1>10, <2>1
<1>13. Typed(g) /\ g.mshr = [h.mshr EXCEPT ![c] = remains] /\ g.sets = h.sets
  BY <1>2, <1>10, <1>12, PutMshr
<1> HIDE DEF g
<1>14. \A x \in Caches : g.mshr[x] = IF x = c THEN remains ELSE h.mshr[x]
  BY <1>3, <1>13
<1>15. \A x \in Tag : isBusy(h.sets[c], x) <=> Waited(entries, x)
  BY <1>2 DEF Matched, entries
<1>16. ASSUME cleared # {}
       PROVE  isBusy(h.sets[c], b)
  <2>1. PICK i \in cleared : TRUE
    BY <1>16
  <2>2. i \in 1..Len(entries) /\ entries[i].block = b
    BY <1>5, <1>7
  <2>3. Waited(entries, b)
    BY <2>2 DEF Waited
  <2>4. QED
    BY <1>5, <1>15, <2>3
<1>17. Typed(last) /\ Same(g, last)
  <2>1. cleared # {} => isBusy(g.sets[c], r.block)
    BY <1>13, <1>16
  <2>2. FilledUpTo(f, g, c, r, entries, cleared)
    BY <1>3, <1>13, <2>1, FilledExists
  <2> HIDE DEF f
  <2>3. QED
    BY <1>3, <1>13, <2>1, <2>2, FilledExists
<1> HIDE DEF last
<1>18. last.mshr = g.mshr
       /\ \A x \in Caches, y \in Tag : isBusy(last.sets[x], y) <=> isBusy(h.sets[x], y)
  BY <1>13, <1>17 DEF Same, Keeps
<1>19. \A x \in Caches : x # c => Matched(last.sets[x], last.mshr[x])
  <2> SUFFICES ASSUME NEW x \in Caches, x # c
               PROVE  Matched(last.sets[x], last.mshr[x])
    OBVIOUS
  <2>1. last.mshr[x] = h.mshr[x]
    BY <1>14, <1>18
  <2>2. QED
    BY <1>2, <1>18, <2>1 DEF Matched
<1>20. last.mshr[c] = remains
  BY <1>14, <1>18
<1>21. \A y \in Tag : y # b => (isBusy(last.sets[c], y) <=> Waited(remains, y))
  <2> SUFFICES ASSUME NEW y \in Tag, y # b
               PROVE  isBusy(last.sets[c], y) <=> Waited(remains, y)
    OBVIOUS
  <2>1. isBusy(last.sets[c], y) <=> Waited(entries, y)
    BY <1>15, <1>18
  <2>2. Waited(remains, y) <=> Waited(entries, y)
    BY <1>5, <1>7, <1>11 DEF Waited
  <2>3. QED
    BY <2>1, <2>2
<1>22. CASE cleared = {}
  <2>1. Waited(remains, b) <=> Waited(entries, b)
    BY <1>11, <1>22 DEF Waited
  <2>2. isBusy(last.sets[c], b) <=> Waited(remains, b)
    BY <1>5, <1>15, <1>18, <2>1
  <2>3. Matched(last.sets[c], last.mshr[c])
    BY <1>20, <1>21, <2>2 DEF Matched
  <2>4. HOK(last)
    BY <1>17, <1>19, <2>3 DEF HOK
  <2>5. HOK(res)
    BY <1>1, <1>22, <2>4
  <2>6. QED
    BY <2>5 DEF res
<1>23. CASE cleared # {}
  <2>1. isBusy(last.sets[c], b)
    BY <1>5, <1>16, <1>18, <1>23
  <2>2. HOK(Settle(last, c, b))
    <3>1. Matching(last, c, b) # {} <=> Waited(remains, b)
      BY <1>20 DEF Matching, Waited
    <3>2. CASE Matching(last, c, b) # {}
      <4>1. Matched(last.sets[c], last.mshr[c])
        BY <1>20, <1>21, <2>1, <3>1, <3>2 DEF Matched
      <4>2. HOK(last)
        BY <1>17, <1>19, <4>1 DEF HOK
      <4>3. QED
        BY <3>2, <4>2 DEF Settle
    <3>3. CASE Matching(last, c, b) = {}
      <4> DEFINE s == last.sets[c]
                 t == validate(makeIdle(s, b), b)
                 k == [last EXCEPT !.sets[c] = t]
      <4>1. Settle(last, c, b) = k
        BY <3>3 DEF Settle
      <4>2. HasTag(s, b) /\ SetOK(nWays[c], s) /\ nWays[c] \in Nat
        BY <1>17, <2>1, Fields, Numbers DEF isBusy
      <4> HIDE DEF s
      <4>3. SetOK(nWays[c], t) /\ Uses(s, t, b, FALSE, TRUE)
        BY <1>5, <4>2, SettledUses
      <4> HIDE DEF t
      <4>4. Typed(k) /\ k.sets = [last.sets EXCEPT ![c] = t] /\ k.mshr = last.mshr
        BY <1>17, <4>3, PutSet
      <4>5. last.sets \in [Caches -> Seq(Way)]
        BY <1>17, Fields
      <4> HIDE DEF k
      <4>6. \A x \in Caches : k.sets[x] = IF x = c THEN t ELSE last.sets[x]
        BY <4>4, <4>5
      <4>7. ASSUME NEW y \in Tag
            PROVE  isBusy(t, y) <=> Waited(remains, y)
        <5>1. isBusy(t, y) <=> IF y = b THEN FALSE ELSE isBusy(s, y)
          BY <4>3 DEF Uses
        <5>2. y # b => (isBusy(s, y) <=> Waited(remains, y))
          BY <1>21 DEF s
        <5>3. ~Waited(remains, b)
          BY <3>1, <3>3
        <5>4. CASE y = b
          BY <5>1, <5>3, <5>4
        <5>5. CASE y # b
          BY <5>1, <5>2, <5>5
        <5>6. QED
          BY <5>4, <5>5
      <4>8. ASSUME NEW x \in Caches
            PROVE  Matched(k.sets[x], k.mshr[x])
        <5>1. CASE x = c
          <6>1. k.sets[x] = t /\ k.mshr[x] = remains
            BY <1>20, <4>4, <4>6, <5>1
          <6>2. QED
            BY <4>7, <6>1 DEF Matched
        <5>2. CASE x # c
          BY <1>19, <4>4, <4>6, <5>2
        <5>3. QED
          BY <5>1, <5>2
      <4>9. HOK(k)
        BY <4>4, <4>8 DEF HOK
      <4>10. QED
        BY <4>1, <4>9
    <3>4. QED
      BY <3>2, <3>3
  <2>3. HOK(res)
    BY <1>1, <1>23, <2>2
  <2>4. QED
    BY <2>3 DEF res
<1>24. QED
  BY <1>22, <1>23

CalledUpTo(f, h, r) ==
  f = [i \in 0..Len(caches) |-> IF i = 0 THEN h ELSE CallbackAt(f[i - 1], caches[i], r)]

Good == {h \in HState : HOK(h)}

LEMMA CalledExists ==
  ASSUME NEW h, HOK(h), NEW r \in Request
  PROVE  /\ \E f : CalledUpTo(f, h, r)
         /\ \A f : CalledUpTo(f, h, r) => HOK(f[Len(caches)])
<1> DEFINE n == Len(caches)
           F == [p \in Good \X (1..n) |-> CallbackAt(p[1], caches[p[2]], r)]
<1>1. n \in Nat /\ \A i \in 1..n : caches[i] \in Caches
  BY CacheAt
<1>2. \A g : g \in Good <=> HOK(g)
  BY DEF Good, HOK, Typed
<1> HIDE DEF n
<1>3. ASSUME NEW g \in Good, NEW i \in 1..n
      PROVE  CallbackAt(g, caches[i], r) \in Good
  BY <1>1, <1>2, CallbackAtOK
<1>4. F \in [Good \X (1..n) -> Good]
  <2> SUFFICES ASSUME NEW p \in Good \X (1..n)
               PROVE  CallbackAt(p[1], caches[p[2]], r) \in Good
    OBVIOUS
  <2>1. p[1] \in Good /\ p[2] \in 1..n
    OBVIOUS
  <2>2. QED
    BY <1>3, <2>1
<1>5. h \in Good
  BY <1>2
<1>6. PICK f \in [0..n -> Good] : Iterated(f, n, h, F)
  BY <1>1, <1>4, <1>5, IterateExists
<1>7. ASSUME NEW i \in 0..n
      PROVE  f[i] = IF i = 0 THEN h ELSE CallbackAt(f[i - 1], caches[i], r)
  <2>1. f[i] = IF i = 0 THEN h ELSE F[<<f[i - 1], i>>]
    BY <1>6 DEF Iterated
  <2>2. ASSUME i # 0
        PROVE  F[<<f[i - 1], i>>] = CallbackAt(f[i - 1], caches[i], r)
    <3>1. i \in 1..n /\ i - 1 \in 0..n
      BY <1>1, <2>2
    <3>2. <<f[i - 1], i>> \in Good \X (1..n)
      BY <1>6, <3>1
    <3>3. QED
      BY <3>2
  <2> HIDE DEF F
  <2>3. QED
    BY <2>1, <2>2
<1>8. f = [i \in 0..n |-> f[i]]
  BY <1>6
<1>9. CalledUpTo(f, h, r)
  BY <1>7, <1>8 DEF CalledUpTo, n
<1>10. ASSUME NEW g, CalledUpTo(g, h, r)
       PROVE  HOK(g[n])
  <2>1. ASSUME NEW i \in 0..n
        PROVE  g[i] = IF i = 0 THEN h ELSE CallbackAt(g[i - 1], caches[i], r)
    BY <1>10 DEF CalledUpTo, n
  <2>2. g[0] \in Good
    BY <1>1, <1>5, <2>1
  <2>3. ASSUME NEW i \in 1..n, g[i - 1] \in Good
        PROVE  g[i] \in Good
    <3>1. g[i] = CallbackAt(g[i - 1], caches[i], r)
      BY <1>1, <2>1
    <3>2. QED
      BY <1>3, <2>3, <3>1
  <2>4. \A i \in 0..n : g[i] \in Good
    BY <1>1, <2>2, <2>3, IterateIn
  <2>5. QED
    BY <1>1, <1>2, <2>4
<1>11. QED
  BY <1>9, <1>10 DEF n

LEMMA CallbackOK ==
  ASSUME NEW h, HOK(h), NEW r \in Request
  PROVE  HOK(callback(h, r))
<1> DEFINE f == CHOOSE f : CalledUpTo(f, h, r)
<1>1. callback(h, r) = f[Len(caches)]
  BY DEF callback, CalledUpTo
<1>2. CalledUpTo(f, h, r)
  BY CalledExists
<1> HIDE DEF f
<1>3. QED
  BY <1>1, <1>2, CalledExists

-----------------------------------------------------------------------------
(***************************************************************************)
(* The specification.                                                      *)
(***************************************************************************)
WindowEntry == [id : Nat, block : Block, left : SUBSET Sector]

\* The inductive invariant: the hierarchy between two calls, and what is around it
Inv ==
  /\ HOK(Hierarchy)
  /\ inflight \subseteq Request
  /\ window \subseteq WindowEntry
  /\ sends \in 0..MaxSends
  /\ unsaved \in [Block -> SUBSET Sector]

LEMMA InitHolds ==
  ASSUME Init
  PROVE  Inv
<1> DEFINE h == Hierarchy
<1>1. /\ h.sets = sets /\ h.mshr = mshr /\ h.retry = retry_list /\ h.wait = wait_list
      /\ h.hit = hit_list /\ h.asserts = asserts
      /\ h = [sets |-> h.sets, mshr |-> h.mshr, retry |-> h.retry, wait |-> h.wait, hit |-> h.hit,
              asserts |-> h.asserts]
  BY DEF Hierarchy
<1> HIDE DEF h
<1>2. ASSUME NEW c \in Caches
      PROVE  /\ sets[c] = [i \in 1..nWays[c] |-> EmptyWay] /\ mshr[c] = << >>
             /\ retry_list[c] = << >>
  BY DEF Init
<1>3. EmptyWay \in Way
  BY DEF EmptyWay, Way
<1>4. ASSUME NEW c \in Caches
      PROVE  SetOK(nWays[c], sets[c]) /\ sets[c] \in Seq(Way) /\ Matched(sets[c], mshr[c])
  <2> DEFINE s == sets[c]
             n == nWays[c]
  <2>1. n \in Nat /\ n > 1
    BY Numbers
  <2> HIDE DEF n
  <2>2. s = [i \in 1..n |-> EmptyWay]
    BY <1>2 DEF n
  <2> HIDE DEF s
  <2>3. s \in [1..n -> Way] /\ DOMAIN s = 1..n /\ \A i \in 1..n : s[i] = EmptyWay
    BY <1>3, <2>2
  <2>4. ~EmptyWay.mru /\ ~EmptyWay.valid /\ ~EmptyWay.busy
        /\ EmptyWay.usedSectors \subseteq EmptyWay.sectorValids
    BY DEF EmptyWay
  <2>5. SomeUnused(s)
    <3>1. 1 \in 1..n
      BY <2>1
    <3>2. QED
      BY <2>3, <2>4, <3>1 DEF SomeUnused
  <2>6. OneInUse(s)
    BY <2>3, <2>4 DEF OneInUse
  <2>7. UsedArePresent(s)
    BY <2>3, <2>4 DEF UsedArePresent
  <2>8. \A b \in Tag : ~isBusy(s, b)
    BY <2>1, <2>3, <2>4, <2>6, InUse
  <2>9. Matched(s, mshr[c])
    <3>1. mshr[c] = << >>
      BY <1>2
    <3>2. \A b : ~Waited(<< >>, b)
      BY EmptySeq DEF Waited
    <3>3. QED
      BY <2>8, <3>1, <3>2 DEF Matched
  <2>10. s \in Seq(Way)
    BY <2>1, <2>3
  <2>11. QED
    BY <2>3, <2>5, <2>6, <2>7, <2>9, <2>10 DEF SetOK, s, n
<1>5. ASSUME NEW c \in Caches
      PROVE  /\ mshr[c] \in Seq(mshr_entry_type) /\ Len(mshr[c]) <= mshr_entry_num[c]
             /\ retry_list[c] \in Seq(Request) /\ Demands(c, retry_list[c])
  <2>1. mshr_entry_num[c] \in Nat
    BY Numbers
  <2>2. << >> \in Seq(mshr_entry_type) /\ << >> \in Seq(Request) /\ Len(<< >>) = 0 /\ 1..0 = {}
    BY EmptySeq
  <2>3. mshr[c] = << >> /\ retry_list[c] = << >>
    BY <1>2
  <2>4. Demands(c, << >>)
    BY <2>2 DEF Demands
  <2>5. Len(<< >>) <= mshr_entry_num[c]
    BY <2>1, <2>2
  <2>6. QED
    BY <2>2, <2>3, <2>4, <2>5
<1>6. /\ sets \in [Caches -> Seq(Way)] /\ mshr \in [Caches -> Seq(mshr_entry_type)]
      /\ retry_list \in [Caches -> Seq(Request)]
  <2>1. DOMAIN sets = Caches /\ sets = [c \in Caches |-> sets[c]]
        /\ mshr = [c \in Caches |-> mshr[c]] /\ retry_list = [c \in Caches |-> retry_list[c]]
    BY DEF Init
  <2>2. QED
    BY <1>4, <1>5, <2>1
<1>7. wait_list \in SUBSET Request /\ hit_list \in Seq(Request) /\ asserts \in SUBSET Excusable
  BY DEF Init
<1>8. h \in HState
  BY <1>1, <1>6, <1>7 DEF HState
<1>9. HOK(h)
  BY <1>1, <1>4, <1>5, <1>8 DEF HOK, Typed
<1>10. /\ inflight \subseteq Request /\ window \subseteq WindowEntry
       /\ unsaved \in [Block -> SUBSET Sector]
  BY DEF Init
<1>11. sends \in 0..MaxSends
  BY AccessAssumption DEF Init
<1>12. QED
  BY <1>9, <1>10, <1>11 DEF Inv, h

LEMMA HierarchyIs ==
  ASSUME Inv
  PROVE  HOK(Hierarchy) /\ sets = Hierarchy.sets /\ mshr = Hierarchy.mshr
         /\ retry_list = Hierarchy.retry /\ wait_list = Hierarchy.wait
         /\ hit_list = Hierarchy.hit /\ asserts = Hierarchy.asserts
BY DEF Inv, Hierarchy

LEMMA BecomeHolds ==
  ASSUME NEW h, HOK(h), NEW left \in [Block -> SUBSET Sector], Become(h, left)
  PROVE  HOK(Hierarchy)' /\ unsaved' \in [Block -> SUBSET Sector]
<1>1. h \in HState
  BY DEF HOK, Typed
<1>2. h = [sets |-> h.sets, mshr |-> h.mshr, retry |-> h.retry, wait |-> h.wait, hit |-> h.hit,
           asserts |-> h.asserts]
  BY <1>1 DEF HState
<1>3. Hierarchy' = h
  BY <1>2 DEF Become, Hierarchy
<1>4. HOK(Hierarchy')
  BY <1>3
<1>5. unsaved' \in [Block -> SUBSET Sector]
  BY DEF Become
<1>6. QED
  BY <1>4, <1>5

LEMMA AccessIs ==
  ASSUME NEW k \in Core, NEW shape \in Shape, sends \in 0..MaxSends, sends < MaxSends
  PROVE  /\ L1[k] \in Caches /\ level[L1[k]] = 0
         /\ NewRequest(shape) \in Request /\ NewRequest(shape).block \in Block
         /\ Wanted(L1[k], NewRequest(shape)) # {}
         /\ shape.block \in Block /\ shape.sectors \in SUBSET Sector
         /\ shape.actual \in SUBSET Sector
<1>1. L1[k] \in Caches /\ level[L1[k]] = 0
  BY HierarchyAssumption
<1>2. shape \in [type : {"READ", "WRITE"}, block : Block,
                 sectors : SUBSET Sector, actual : (SUBSET Sector) \ {{}}]
      /\ shape.actual \subseteq shape.sectors
  BY AccessAssumption
<1>3. /\ shape.type \in {"READ", "WRITE"} /\ shape.block \in Block
      /\ shape.sectors \in SUBSET Sector /\ shape.actual \in SUBSET Sector
      /\ shape.sectors # {}
  BY <1>2
<1> DEFINE bits == [l \in 0..3 |-> IF l = 3 THEN {} ELSE shape.sectors]
           r == NewRequest(shape)
<1>4. bits \in [0..3 -> SUBSET Sector] /\ bits[0] = shape.sectors
  BY <1>3
<1>5. r = [id |-> sends + 1, type |-> shape.type, block |-> shape.block, bits |-> bits,
           actual |-> shape.actual, hit |-> 3]
  BY DEF NewRequest
<1> HIDE DEF bits, r
<1>6. sends + 1 \in 1..MaxSends /\ 3 \in 0..3
  BY AccessAssumption
<1>7. r \in Request
  BY <1>3, <1>4, <1>5, <1>6 DEF Request
<1>8. r.block \in Block /\ Wanted(L1[k], r) # {}
  BY <1>1, <1>3, <1>4, <1>5 DEF Wanted
<1>9. QED
  BY <1>1, <1>3, <1>7, <1>8 DEF r

LEMMA SetReadyTyped ==
  ASSUME window \subseteq WindowEntry, NEW r \in Request
  PROVE  set_ready(r) \subseteq WindowEntry
<1> SUFFICES ASSUME NEW w \in set_ready(r)
             PROVE  w \in WindowEntry
  OBVIOUS
<1>1. PICK v \in window : w = [v EXCEPT !.left = IF v.block = r.block THEN v.left \ r.bits[0] ELSE v.left]
  BY DEF set_ready
<1>2. v \in WindowEntry
  OBVIOUS
<1> DEFINE S == IF v.block = r.block THEN v.left \ r.bits[0] ELSE v.left
<1>3. S \in SUBSET Sector
  BY <1>2 DEF WindowEntry
<1>4. w = [v EXCEPT !.left = S]
  BY <1>1
<1> HIDE DEF S
<1>5. QED
  BY <1>2, <1>3, <1>4 DEF WindowEntry

LEMMA CoreSendHolds ==
  ASSUME Inv, NEW k \in Core, NEW shape \in Shape, NEW p \in Prediction, CoreSend(k, shape, p)
  PROVE  Inv'
<1> DEFINE res == send(Hierarchy, L1[k], NewRequest(shape), p)
           added == IF shape.type = "READ"
                    THEN {[id |-> sends + 1, block |-> shape.block, left |-> shape.sectors]} ELSE {}
           left == IF shape.type = "WRITE"
                   THEN [unsaved EXCEPT ![shape.block] = @ \cup shape.actual] ELSE unsaved
<1>1. /\ sends < MaxSends
      /\ \/ /\ res.ok /\ sends' = sends + 1 /\ window' = window \cup added
            /\ Become(res.h, left)
         \/ /\ Become(res.h, unsaved) /\ sends' = sends /\ window' = window
      /\ inflight' = inflight
  BY DEF CoreSend, Sent
<1>2. /\ HOK(Hierarchy) /\ inflight \subseteq Request /\ window \subseteq WindowEntry
      /\ sends \in 0..MaxSends /\ unsaved \in [Block -> SUBSET Sector] /\ MaxSends \in Nat
  BY AccessAssumption DEF Inv
<1>3. /\ L1[k] \in Caches /\ level[L1[k]] = 0
      /\ NewRequest(shape) \in Request /\ NewRequest(shape).block \in Block
      /\ Wanted(L1[k], NewRequest(shape)) # {}
      /\ shape.block \in Block /\ shape.sectors \in SUBSET Sector
      /\ shape.actual \in SUBSET Sector
  BY <1>1, <1>2, AccessIs
<1>4. p \in SUBSET Sector
  BY AccessAssumption
<1>5. HOK(res.h)
  BY <1>2, <1>3, <1>4, SendOK DEF DoneOK
<1>6. left \in [Block -> SUBSET Sector]
  BY <1>2, <1>3
<1>7. added \subseteq WindowEntry
  BY <1>2, <1>3 DEF WindowEntry
<1> HIDE DEF res, left, added
<1>8. HOK(Hierarchy)' /\ unsaved' \in [Block -> SUBSET Sector]
  BY <1>1, <1>2, <1>5, <1>6, BecomeHolds
<1>9. window' \subseteq WindowEntry /\ sends' \in 0..MaxSends
  BY <1>1, <1>2, <1>7
<1>10. QED
  BY <1>1, <1>2, <1>8, <1>9 DEF Inv

LEMMA CacheTickHolds ==
  ASSUME Inv, NEW k \in Core, CacheTick(k)
  PROVE  Inv'
<1>1. L1[k] \in Caches /\ level[L1[k]] = 0
  BY HierarchyAssumption
<1>2. HOK(tick(Hierarchy, L1[k]))
  BY <1>1, TickOK DEF Inv
<1>3. Become(tick(Hierarchy, L1[k]), unsaved) /\ UNCHANGED <<inflight, window, sends>>
  BY DEF CacheTick
<1>4. HOK(Hierarchy)' /\ unsaved' \in [Block -> SUBSET Sector]
  BY <1>2, <1>3, BecomeHolds DEF Inv
<1>5. QED
  BY <1>3, <1>4 DEF Inv

LEMMA SendMemoryHolds ==
  ASSUME Inv, NEW r \in wait_list, SendMemory(r)
  PROVE  Inv'
<1> DEFINE h == Hierarchy
           W == wait_list \ {r}
           g == [h EXCEPT !.wait = W]
<1>1. HOK(h) /\ h \in HState /\ Typed(h) /\ h.wait = wait_list
  BY HierarchyIs DEF HOK, Typed
<1>2. wait_list \in SUBSET Request /\ W \in SUBSET Request
  BY <1>1 DEF HState
<1>3. Hierarchy' = g
  BY DEF SendMemory, Hierarchy
<1> HIDE DEF h, W
<1>4. g \in HState /\ g.sets = h.sets /\ g.mshr = h.mshr /\ g.retry = h.retry
  BY <1>1, <1>2 DEF HState
<1> HIDE DEF g
<1>5. HOK(g)
  BY <1>1, <1>4 DEF HOK, Typed
<1>6. HOK(Hierarchy')
  BY <1>3, <1>5
<1>7. inflight' \subseteq Request /\ UNCHANGED <<window, sends, unsaved>>
  BY <1>2 DEF SendMemory, Inv
<1>8. QED
  BY <1>6, <1>7 DEF Inv

LEMMA AnswerHolds ==
  ASSUME Inv, NEW r \in inflight, Answer(r)
  PROVE  Inv'
<1>1. r \in Request /\ HOK(Hierarchy) /\ window \subseteq WindowEntry
  BY DEF Inv
<1>2. HOK(callback(Hierarchy, r))
  BY <1>1, CallbackOK
<1>3. Become(callback(Hierarchy, r), unsaved) /\ inflight' \subseteq inflight
      /\ window' = set_ready(r) /\ UNCHANGED sends
  BY DEF Answer
<1>4. HOK(Hierarchy)' /\ unsaved' \in [Block -> SUBSET Sector]
  BY <1>2, <1>3, BecomeHolds DEF Inv
<1>5. window' \subseteq WindowEntry
  BY <1>1, <1>3, SetReadyTyped
<1>6. inflight' \subseteq Request
  BY <1>3 DEF Inv
<1>7. QED
  BY <1>3, <1>4, <1>5, <1>6 DEF Inv

LEMMA HitDoneHolds ==
  ASSUME Inv, NEW i \in 1..Len(hit_list), HitDone(i)
  PROVE  Inv'
<1> DEFINE h == Hierarchy
           r == hit_list[i]
           H == RemoveAt(h.hit, i)
           g == [h EXCEPT !.hit = H]
<1>1. HOK(h) /\ h \in HState /\ Typed(h) /\ h.hit = hit_list
  BY HierarchyIs DEF HOK, Typed
<1>2. hit_list \in Seq(Request)
  BY <1>1 DEF HState
<1>3. r \in Request
  BY <1>2
<1>4. H \in Seq(Request)
  BY <1>1, <1>2, Removed
<1>5. Become(callback(g, r), unsaved) /\ window' = set_ready(r) /\ UNCHANGED <<inflight, sends>>
  BY DEF HitDone
<1> HIDE DEF h, r, H
<1>6. g \in HState /\ g.sets = h.sets /\ g.mshr = h.mshr /\ g.retry = h.retry
  BY <1>1, <1>4 DEF HState
<1> HIDE DEF g
<1>7. HOK(g)
  BY <1>1, <1>6 DEF HOK, Typed
<1>8. HOK(callback(g, r))
  BY <1>3, <1>7, CallbackOK
<1>9. HOK(Hierarchy)' /\ unsaved' \in [Block -> SUBSET Sector]
  BY <1>5, <1>8, BecomeHolds DEF Inv
<1>10. window' \subseteq WindowEntry
  BY <1>3, <1>5, SetReadyTyped DEF Inv
<1>11. QED
  BY <1>5, <1>9, <1>10 DEF Inv

LEMMA NextHolds ==
  ASSUME Inv, [Next]_vars
  PROVE  Inv'
<1>1. ASSUME NEW k \in Core, NEW shape \in Shape, NEW p \in Prediction, CoreSend(k, shape, p)
      PROVE  Inv'
  BY <1>1, CoreSendHolds
<1>2. ASSUME NEW k \in Core, CacheTick(k)
      PROVE  Inv'
  BY <1>2, CacheTickHolds
<1>3. ASSUME NEW r \in wait_list, SendMemory(r)
      PROVE  Inv'
  BY <1>3, SendMemoryHolds
<1>4. ASSUME NEW r \in inflight, Answer(r)
      PROVE  Inv'
  BY <1>4, AnswerHolds
<1>5. ASSUME NEW i \in 1..Len(hit_list), HitDone(i)
      PROVE  Inv'
  BY <1>5, HitDoneHolds
<1>6. CASE Finished \/ UNCHANGED vars
  <2>1. UNCHANGED vars
    BY <1>6 DEF Finished
  <2>2. Hierarchy' = Hierarchy
    BY <2>1 DEF vars, Hierarchy
  <2>3. UNCHANGED <<inflight, window, sends, unsaved>>
    BY <2>1 DEF vars
  <2>4. HOK(Hierarchy')
    BY <2>2 DEF Inv
  <2>5. QED
    BY <2>3, <2>4 DEF Inv
<1>7. QED
  BY <1>1, <1>2, <1>3, <1>4, <1>5, <1>6 DEF Next

LEMMA Invariant == Spec => []Inv
<1>1. Init => Inv
  BY InitHolds
<1>2. Inv /\ [Next]_vars => Inv'
  BY NextHolds
<1>3. QED
  BY <1>1, <1>2, PTL DEF Spec

(***************************************************************************)
(* The theorems.                                                           *)
(***************************************************************************)
\* Whatever is refused, retried, merged or answered early, no cache gets more
\* MSHRs than it has and every request, way and MSHR keeps its type (Cache.h:
\* 71-95, CacheSet.h).
THEOREM TypesHold == Spec => []TypeOK
<1>1. ASSUME Inv
      PROVE  TypeOK
  <2> DEFINE h == Hierarchy
  <2>1. HOK(h) /\ Typed(h) /\ sets = h.sets /\ mshr = h.mshr /\ retry_list = h.retry
        /\ wait_list = h.wait /\ hit_list = h.hit
    BY <1>1, HierarchyIs DEF HOK
  <2> HIDE DEF h
  <2>2. ASSUME NEW c \in Caches
        PROVE  /\ sets[c] \in [1..nWays[c] -> Way]
               /\ Len(mshr[c]) <= mshr_entry_num[c]
               /\ \A i \in 1..Len(mshr[c]) : mshr[c][i] \in mshr_entry_type
               /\ \A i \in 1..Len(retry_list[c]) : retry_list[c][i] \in Request
    <3>1. /\ SetOK(nWays[c], h.sets[c]) /\ Len(h.mshr[c]) <= mshr_entry_num[c]
          /\ h.mshr[c] \in Seq(mshr_entry_type) /\ Demands(c, h.retry[c])
      BY <2>1, Fields
    <3>2. \A i \in 1..Len(mshr[c]) : mshr[c][i] \in mshr_entry_type
      BY <2>1, <3>1
    <3>3. \A i \in 1..Len(retry_list[c]) : retry_list[c][i] \in Request
      BY <2>1, <3>1 DEF Demands, Demand
    <3>4. QED
      BY <2>1, <3>1, <3>2, <3>3 DEF SetOK
  <2>3. h.wait \in SUBSET Request /\ h.hit \in Seq(Request)
    <3>1. h \in HState
      BY <2>1 DEF Typed
    <3>2. QED
      BY <3>1 DEF HState
  <2>4. wait_list \cup inflight \subseteq Request
    BY <1>1, <2>1, <2>3 DEF Inv
  <2>5. \A i \in 1..Len(hit_list) : hit_list[i] \in Request
    BY <2>1, <2>3
  <2>6. \A w \in window : w.block \in Block /\ w.left \subseteq Sector
    BY <1>1 DEF Inv, WindowEntry
  <2>7. unsaved \in [Block -> SUBSET Sector]
    BY <1>1 DEF Inv
  <2>8. QED
    BY <2>2, <2>4, <2>5, <2>6, <2>7 DEF TypeOK
<1>2. QED
  BY <1>1, Invariant, PTL

\* A block is busy in a cache exactly while one of its MSHRs waits for it, with any
\* number of cores that share blocks (Cache.cpp:234-776, 1048-1176): also after
\* an assert has failed.
THEOREM BusyIsMatched == Spec => []BusyMatchesMshr
<1>1. ASSUME Inv
      PROVE  BusyMatchesMshr
  <2>1. HOK(Hierarchy) /\ sets = Hierarchy.sets /\ mshr = Hierarchy.mshr
    BY <1>1, HierarchyIs
  <2>2. \A c \in Caches : Matched(sets[c], mshr[c])
    BY <2>1 DEF HOK
  <2>3. \A b \in Block : b \in Tag
    BY DEF Tag
  <2>4. QED
    BY <2>2, <2>3 DEF BusyMatchesMshr, Matched, Waited
<1>2. QED
  BY <1>1, Invariant, PTL

\* Five of the eight asserts never fail, however many cores there are: no block is
\* busy without an MSHR, no MSHR brings data to an idle block, a cache never demands
\* zero sectors, a block it makes room for is not valid, and no block that is evicted
\* had more sectors used than brought.
OnlyExcusable == asserts \subseteq Excusable

THEOREM OtherAssertsHold == Spec => []OnlyExcusable
<1>1. ASSUME Inv
      PROVE  OnlyExcusable
  <2> DEFINE h == Hierarchy
  <2>1. h \in HState /\ asserts = h.asserts
    BY <1>1, HierarchyIs DEF HOK, Typed
  <2> HIDE DEF h
  <2>2. QED
    BY <2>1 DEF HState, OnlyExcusable
<1>2. QED
  BY <1>1, Invariant, PTL

(***************************************************************************)
(* The port of the cores.                                                  *)
(***************************************************************************)
Owed(W) == UNION {{w.block} \X w.left : w \in W}

LEMMA OwedIs ==
  ASSUME NEW W, NEW b, NEW s
  PROVE  <<b, s>> \in Owed(W) <=> \E w \in W : w.block = b /\ s \in w.left
BY DEF Owed

LEMMA OwedPairs ==
  ASSUME NEW W \in SUBSET WindowEntry
  PROVE  Owed(W) \in SUBSET (Block \X Sector)
BY DEF Owed, WindowEntry

\* An answer takes the sectors of its block from all windows, and nothing else.
LEMMA SetReadyOwes ==
  ASSUME window \subseteq WindowEntry, NEW r \in Request
  PROVE  Owed(set_ready(r)) = Owed(window) \ ({r.block} \X r.bits[0])
<1> DEFINE rest(v) == IF v.block = r.block THEN v.left \ r.bits[0] ELSE v.left
           after == set_ready(r)
<1>1. ASSUME NEW v \in window
      PROVE  /\ [v EXCEPT !.left = rest(v)].block = v.block
             /\ [v EXCEPT !.left = rest(v)].left = rest(v)
  <2>1. v \in WindowEntry
    OBVIOUS
  <2> HIDE DEF rest
  <2>2. QED
    BY <2>1 DEF WindowEntry
<1>2. \A w : w \in after <=> w.left # {} /\ \E v \in window : w = [v EXCEPT !.left = rest(v)]
  BY DEF set_ready
<1> HIDE DEF after
<1>3. ASSUME NEW b, NEW s
      PROVE  <<b, s>> \in Owed(after) <=>
               <<b, s>> \in Owed(window) /\ ~(b = r.block /\ s \in r.bits[0])
  <2>1. <<b, s>> \in Owed(after) <=> \E w \in after : w.block = b /\ s \in w.left
    BY OwedIs
  <2>2. <<b, s>> \in Owed(window) <=> \E w \in window : w.block = b /\ s \in w.left
    BY OwedIs
  <2>3. ASSUME NEW w \in after, w.block = b, s \in w.left
        PROVE  <<b, s>> \in Owed(window) /\ ~(b = r.block /\ s \in r.bits[0])
    <3>1. PICK v \in window : w = [v EXCEPT !.left = rest(v)]
      BY <1>2
    <3>2. v.block = b /\ s \in rest(v)
      BY <1>1, <2>3, <3>1
    <3>3. QED
      BY <2>2, <3>2
  <2>4. ASSUME NEW v \in window, v.block = b, s \in v.left, ~(b = r.block /\ s \in r.bits[0])
        PROVE  <<b, s>> \in Owed(after)
    <3> DEFINE w == [v EXCEPT !.left = rest(v)]
    <3>1. s \in rest(v)
      BY <2>4
    <3>2. w.block = b /\ s \in w.left /\ w.left # {}
      BY <1>1, <2>4, <3>1
    <3>3. w \in after
      BY <1>2, <3>2
    <3>4. QED
      BY <2>1, <3>2, <3>3
  <2>5. QED
    BY <2>1, <2>2, <2>3, <2>4
<1>4. after \subseteq WindowEntry
  BY SetReadyTyped DEF after
<1>5. Owed(after) \in SUBSET (Block \X Sector) /\ Owed(window) \in SUBSET (Block \X Sector)
  BY <1>4, OwedPairs
<1>6. \A x : x \in Owed(after) <=> x \in Owed(window) /\ x \notin {r.block} \X r.bits[0]
  <2> SUFFICES ASSUME NEW x
               PROVE  x \in Owed(after) <=> x \in Owed(window) /\ x \notin {r.block} \X r.bits[0]
    OBVIOUS
  <2>1. CASE x \in Block \X Sector
    <3>1. PICK b \in Block, s \in Sector : x = <<b, s>>
      BY <2>1
    <3>2. x \in {r.block} \X r.bits[0] <=> b = r.block /\ s \in r.bits[0]
      BY <3>1
    <3>3. QED
      BY <1>3, <3>1, <3>2
  <2>2. CASE x \notin Block \X Sector
    BY <1>5, <2>2
  <2>3. QED
    BY <2>1, <2>2
<1>7. Owed(after) = Owed(window) \ ({r.block} \X r.bits[0])
  BY <1>6
<1>8. QED
  BY <1>7 DEF after

LEMMA ReadyStep ==
  ASSUME window \subseteq WindowEntry, NEW r \in Request, window' = set_ready(r)
  PROVE  [Port!Next]_(Owed(window))
<1>1. Owed(window') = Owed(window) \ ({r.block} \X r.bits[0])
  BY SetReadyOwes
<1>2. r.bits[0] \in SUBSET Sector
  BY RequestFields
<1>3. CASE r.block \in Block
  <2>1. Port!Answer(r.block, r.bits[0])
    BY <1>1 DEF Port!Answer, Owed
  <2>2. QED
    BY <1>2, <1>3, <2>1 DEF Port!Next, Owed
<1>4. CASE r.block \notin Block
  <2>1. Owed(window) \in SUBSET (Block \X Sector)
    BY OwedPairs
  <2>2. Owed(window') = Owed(window)
    BY <1>1, <1>4, <2>1
  <2>3. QED
    BY <2>2
<1>5. QED
  BY <1>3, <1>4

LEMMA PortStep ==
  ASSUME Inv, [Next]_vars
  PROVE  [Port!Next]_(Owed(window))
<1>1. window \subseteq WindowEntry /\ sends \in 0..MaxSends
  BY DEF Inv
<1>2. ASSUME NEW k \in Core, NEW shape \in Shape, NEW p \in Prediction, CoreSend(k, shape, p)
      PROVE  [Port!Next]_(Owed(window))
  <2> DEFINE entry == [id |-> sends + 1, block |-> shape.block, left |-> shape.sectors]
  <2>1. window' = window \/ window' = window \cup {entry}
    BY <1>2 DEF CoreSend, Sent
  <2>2. sends < MaxSends
    BY <1>2 DEF CoreSend
  <2>3. shape.block \in Block /\ shape.sectors \in SUBSET Sector
    BY <1>1, <2>2, AccessIs
  <2>4. entry.block = shape.block /\ entry.left = shape.sectors
    OBVIOUS
  <2> HIDE DEF entry
  <2>5. CASE window' = window \cup {entry}
    <3> DEFINE wanted == {shape.block} \X shape.sectors
    <3>1. Owed(window') = Owed(window) \cup wanted
      BY <2>4, <2>5 DEF Owed
    <3>2. wanted \in SUBSET (Block \X Sector)
      BY <2>3
    <3> HIDE DEF wanted
    <3>3. Port!Accept(wanted)
      BY <3>1, <3>2 DEF Port!Accept, Owed
    <3>4. QED
      BY <3>2, <3>3 DEF Port!Next, Owed
  <2>6. CASE window' = window
    BY <2>6 DEF Owed
  <2>7. QED
    BY <2>1, <2>5, <2>6
<1>3. ASSUME NEW r \in inflight, Answer(r)
      PROVE  [Port!Next]_(Owed(window))
  <2>1. r \in Request /\ window' = set_ready(r)
    BY <1>3 DEF Inv, Answer
  <2>2. QED
    BY <1>1, <2>1, ReadyStep
<1>4. ASSUME NEW i \in 1..Len(hit_list), HitDone(i)
      PROVE  [Port!Next]_(Owed(window))
  <2> DEFINE h == Hierarchy
  <2>1. h \in HState /\ hit_list = h.hit
    BY HierarchyIs DEF HOK, Typed
  <2> HIDE DEF h
  <2>2. hit_list \in Seq(Request)
    BY <2>1 DEF HState
  <2>3. hit_list[i] \in Request
    BY <2>2
  <2>4. window' = set_ready(hit_list[i])
    BY <1>4 DEF HitDone
  <2>5. QED
    BY <1>1, <2>3, <2>4, ReadyStep
<1>5. ASSUME window' = window
      PROVE  [Port!Next]_(Owed(window))
  BY <1>5 DEF Owed
<1>6. ASSUME NEW k \in Core, CacheTick(k)
      PROVE  window' = window
  BY <1>6 DEF CacheTick
<1>7. ASSUME NEW r \in wait_list, SendMemory(r)
      PROVE  window' = window
  BY <1>7 DEF SendMemory
<1>8. Finished \/ UNCHANGED vars => window' = window
  BY DEF Finished, vars
<1>9. QED
  BY <1>2, <1>3, <1>4, <1>5, <1>6, <1>7, <1>8 DEF Next

\* The safety half of ImplementsPort: what the cores see of the hierarchy is what
\* CachePort says, whole accesses owed and answers that take one block from all
\* windows (Processor.cpp:560-576), for any number of cores that share blocks.
THEOREM PortIsKept == Spec => Port!Spec
<1>1. Init => Port!Init
  BY DEF Init, Port!Init
<1>2. Inv /\ [Next]_vars => [Port!Next]_(UNION {{w.block} \X w.left : w \in window})
  BY PortStep DEF Owed
<1>3. QED
  BY <1>1, <1>2, Invariant, PTL DEF Spec, Port!Spec

=============================================================================
