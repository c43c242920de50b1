-------------------------- MODULE CacheChain_proofs --------------------------
(***************************************************************************)
(* Theorems about the caches of one core, an L1, an L2 and the L3 on top   *)
(* of each other, without predictions: no assert fails, the hierarchy is   *)
(* inclusive, and every read a core waits for is brought by a request      *)
(* under way.  With two cores or with predictions they do not hold.  They  *)
(* hold for every number of blocks, sectors, ways, MSHRs and accesses.     *)
(*                                                                         *)
(* The argument: a read on its way down, refused or waiting for the memory *)
(* or for the latency of a hit, is a job.  The MSHRs of each cache are     *)
(* those of the jobs that have passed it, one for each, and jobs for one   *)
(* block ask for different sectors.  So an answer clears one MSHR in each  *)
(* cache it passes, which is why it finds the blocks busy, and what a      *)
(* merged read waits for is brought by the jobs it was merged with.        *)
(***************************************************************************)
EXTENDS Cache_proofs

-----------------------------------------------------------------------------
(***************************************************************************)
(* Honest sets: what is written is used, and a dirty way has sectors to    *)
(* write back.                                                             *)
(***************************************************************************)
\* What is written is used, a dirty way (but for those with a tag in X) has dirty
\* sectors, and a way that is not in use is clean.
Honest(s, X) ==
  \A i \in DOMAIN s : /\ s[i].dirtySectors \subseteq s[i].usedSectors
                      /\ s[i].dirty /\ s[i].tag \notin X => s[i].dirtySectors # {}
                      /\ ~s[i].valid /\ ~s[i].busy => ~s[i].dirty

\* A block is there or on its way.
Held(s, b) == isValid(s, b) \/ isBusy(s, b)

\* The sectors of all ways are the same.
SameContents(n, s, t) ==
  \A j \in 1..n : /\ t[j].dirty = s[j].dirty /\ t[j].sectorValids = s[j].sectorValids
                  /\ t[j].usedSectors = s[j].usedSectors /\ t[j].dirtySectors = s[j].dirtySectors

\* Replacement bits are not contents.
LEMMA TouchedContents ==
  ASSUME NEW n \in Nat, NEW s \in [1..n -> Way], NEW i
  PROVE  SameContents(n, s, Touch(s, i))
<1> DEFINE t == Touch(s, i)
<1>1. Ways(s) = 1..n /\ DOMAIN s = 1..n
  BY WaysAre
<1>2. ASSUME NEW j \in 1..n
      PROVE  /\ t[j].dirty = s[j].dirty /\ t[j].sectorValids = s[j].sectorValids
             /\ t[j].usedSectors = s[j].usedSectors /\ t[j].dirtySectors = s[j].dirtySectors
  <2>1. s[j] \in Way
    OBVIOUS
  <2>2. CASE \A k \in 1..n \ {i} : s[k].mru
    <3>1. t[j] = [s[j] EXCEPT !.mru = (j = i)]
      BY <1>1, <2>2 DEF Touch
    <3> HIDE DEF t
    <3>2. QED
      BY <2>1, <3>1 DEF Way
  <2>3. CASE ~(\A k \in 1..n \ {i} : s[k].mru)
    <3>1. t = [s EXCEPT ![i].mru = TRUE]
      BY <1>1, <2>3 DEF Touch
    <3>2. t[j] = IF j = i THEN [s[j] EXCEPT !.mru = TRUE] ELSE s[j]
      BY <1>1, <3>1, Zenon
    <3> HIDE DEF t
    <3>3. QED
      BY <2>1, <3>2 DEF Way
  <2>4. QED
    BY <2>2, <2>3
<1>3. QED
  BY <1>2 DEF SameContents

\* Ways are found by their tags alone.
LEMMA SameTags ==
  ASSUME NEW n \in Nat, NEW s \in [1..n -> Way], NEW t \in [1..n -> Way],
         \A j \in 1..n : t[j].tag = s[j].tag, NEW x
  PROVE  findWayIdx(t, x) = findWayIdx(s, x) /\ (HasTag(t, x) <=> HasTag(s, x))
<1>1. Ways(s) = 1..n /\ Ways(t) = 1..n
  BY WaysAre
<1>2. {i \in Ways(t) : t[i].tag = x} = {i \in Ways(s) : s[i].tag = x}
  BY <1>1
<1>3. QED
  BY <1>1, <1>2, Zenon DEF findWayIdx, HasTag

\* What is read of a set by a tag stays.
SameReads(s, t) ==
  \A x : /\ isDirty(t, x) <=> isDirty(s, x)
         /\ getSectorBits(t, x) = getSectorBits(s, x)
         /\ getDirtySectors(t, x) = getDirtySectors(s, x)

\* Sets with the same ways in use and the same contents read the same.
LEMMA ContentsRead ==
  ASSUME NEW n \in Nat, NEW s \in [1..n -> Way], NEW t \in [1..n -> Way],
         \A j \in 1..n : t[j].tag = s[j].tag, SameContents(n, s, t)
  PROVE  SameReads(s, t)
<1>1. ASSUME NEW x
      PROVE  /\ isDirty(t, x) <=> isDirty(s, x)
             /\ getSectorBits(t, x) = getSectorBits(s, x)
             /\ getDirtySectors(t, x) = getDirtySectors(s, x)
  <2>1. findWayIdx(t, x) = findWayIdx(s, x) /\ (HasTag(t, x) <=> HasTag(s, x))
    BY SameTags, Zenon
  <2>2. HasTag(s, x) => findWayIdx(s, x) \in 1..n
    BY FirstWay
  <2>3. HasTag(s, x) => /\ t[findWayIdx(s, x)].dirty = s[findWayIdx(s, x)].dirty
                        /\ t[findWayIdx(s, x)].sectorValids = s[findWayIdx(s, x)].sectorValids
                        /\ t[findWayIdx(s, x)].dirtySectors = s[findWayIdx(s, x)].dirtySectors
    BY <2>2 DEF SameContents
  <2>4. QED
    BY <2>1, <2>3 DEF isDirty, getSectorBits, getDirtySectors
<1>2. QED
  BY <1>1 DEF SameReads

\* What is read of a set when the first way with tag b becomes w
LEMMA WayRead ==
  ASSUME NEW n \in Nat, NEW s \in [1..n -> Way], NEW b, HasTag(s, b), NEW w \in Way, w.tag = b,
         NEW t \in [1..n -> Way], t[findWayIdx(s, b)] = w,
         \A j \in 1..n : j # findWayIdx(s, b) => t[j] = s[j]
  PROVE  /\ HasTag(t, b) /\ (isDirty(t, b) <=> w.dirty)
         /\ getSectorBits(t, b) = w.sectorValids /\ getDirtySectors(t, b) = w.dirtySectors
         /\ \A x : x # b => /\ isDirty(t, x) <=> isDirty(s, x)
                            /\ getSectorBits(t, x) = getSectorBits(s, x)
                            /\ getDirtySectors(t, x) = getDirtySectors(s, x)
<1> DEFINE i == findWayIdx(s, b)
<1>1. i \in 1..n /\ s[i].tag = b
  BY FirstWay
<1>2. t[i] = w /\ \A j \in 1..n : j # i => t[j] = s[j]
  OBVIOUS
<1>3. \A j \in 1..n : t[j].tag = s[j].tag
  BY <1>1, <1>2
<1>4. \A x : findWayIdx(t, x) = findWayIdx(s, x) /\ (HasTag(t, x) <=> HasTag(s, x))
  BY <1>2, <1>3, SameTags
<1>5. \A x : HasTag(s, x) => findWayIdx(s, x) \in 1..n /\ s[findWayIdx(s, x)].tag = x
  BY FirstWay
<1>6. \A x : HasTag(s, x) /\ x # b => t[findWayIdx(s, x)] = s[findWayIdx(s, x)]
  BY <1>1, <1>2, <1>5
<1>7. ASSUME NEW x, x # b
      PROVE  /\ isDirty(t, x) <=> isDirty(s, x)
             /\ getSectorBits(t, x) = getSectorBits(s, x)
             /\ getDirtySectors(t, x) = getDirtySectors(s, x)
  <2>1. HasTag(t, x) <=> HasTag(s, x)
    BY <1>4
  <2>2. HasTag(s, x) => t[findWayIdx(t, x)] = s[findWayIdx(s, x)]
    BY <1>4, <1>6, <1>7
  <2>3. QED
    BY <2>1, <2>2 DEF isDirty, getSectorBits, getDirtySectors
<1>8. HasTag(t, b) /\ findWayIdx(t, b) = i
  BY <1>4
<1>9. t[findWayIdx(t, b)] = w
  BY <1>2, <1>8
<1>10. (isDirty(t, b) <=> w.dirty) /\ getSectorBits(t, b) = w.sectorValids
       /\ getDirtySectors(t, b) = w.dirtySectors
  <2>1. w.dirty \in BOOLEAN
    BY DEF Way
  <2>2. isDirty(t, b) <=> w.dirty
    BY <1>8, <1>9, <2>1 DEF isDirty
  <2>3. getSectorBits(t, b) = w.sectorValids
    BY <1>8, <1>9 DEF getSectorBits
  <2>4. getDirtySectors(t, b) = w.dirtySectors
    BY <1>8, <1>9 DEF getDirtySectors
  <2>5. QED
    BY <2>2, <2>3, <2>4
<1>11. QED
  BY <1>2, <1>7, <1>8, <1>10

\* An access sets what it reads or writes, and no more (CacheSet.cpp:111-145).
LEMMA AccessHonest ==
  ASSUME NEW n \in Nat, n > 1, NEW s, SetOK(n, s), NEW b \in Tag, NEW sectors \in SUBSET Sector,
         NEW isWrite \in BOOLEAN, accessAsserts(s, b, sectors), NEW X, Honest(s, X)
  PROVE  LET t == access(s, b, sectors, isWrite)
         IN  /\ Honest(t, X)
             /\ isWrite /\ sectors # {} /\ X = {b} => Honest(t, {})
             /\ \A x : (isDirty(t, x) <=> isDirty(s, x)) /\ getSectorBits(t, x) = getSectorBits(s, x)
             /\ \A x : getDirtySectors(t, x) = IF x = b /\ isWrite THEN getDirtySectors(s, x) \cup sectors
                                               ELSE getDirtySectors(s, x)
<1> DEFINE i == findWayIdx(s, b)
           u == s[i].usedSectors \cup sectors
           d == IF isWrite THEN s[i].dirtySectors \cup sectors ELSE s[i].dirtySectors
           w == [s[i] EXCEPT !.usedSectors = u, !.dirtySectors = d]
           t == [s EXCEPT ![i] = w]
           v == Touch(t, i)
<1>0. s \in [1..n -> Way] /\ DOMAIN s = 1..n
  BY WaysAre DEF SetOK
<1>1. HasTag(s, b) /\ i \in 1..n /\ s[i] \in Way /\ s[i].tag = b
      /\ \A j \in 1..n : s[j].tag = b => i <= j
  BY <1>0, FirstWay DEF accessAsserts
<1>2. access(s, b, sectors, isWrite) = v
  BY <1>0, <1>1, Zenon DEF access, Way
<1>3. u \in SUBSET Sector /\ d \in SUBSET Sector
  BY <1>1, WayFields
<1>4. /\ s[i].dirtySectors \subseteq s[i].usedSectors
      /\ s[i].dirty /\ s[i].tag \notin X => s[i].dirtySectors # {}
      /\ ~s[i].valid /\ ~s[i].busy => ~s[i].dirty
  BY <1>0, <1>1 DEF Honest
<1>5. d \subseteq u /\ (s[i].dirtySectors # {} => d # {}) /\ (isWrite /\ sectors # {} => d # {})
  BY <1>4
<1>6. \A j \in 1..n : j # i /\ s[j].tag = b => ~s[j].valid /\ ~s[j].busy
  BY <1>0, <1>1 DEF SetOK, OneInUse
<1> HIDE DEF i, u, d
<1>7. /\ w \in Way /\ w.tag = s[i].tag /\ w.valid = s[i].valid /\ w.busy = s[i].busy
      /\ w.dirty = s[i].dirty /\ w.sectorValids = s[i].sectorValids
      /\ w.usedSectors = u /\ w.dirtySectors = d /\ w.mru = s[i].mru
  BY <1>1, <1>3, Zenon DEF Way
<1> HIDE DEF w
<1>8. t \in [1..n -> Way] /\ t[i] = w /\ \A j \in 1..n : j # i => t[j] = s[j]
  BY <1>0, <1>1, <1>7
<1> HIDE DEF t
<1>9. SomeUnused(t)
  <2>1. DOMAIN t = 1..n
    BY <1>8
  <2>2. QED
    BY <1>0, <1>7, <1>8, <2>1 DEF SetOK, SomeUnused
<1>10. v \in [1..n -> Way] /\ SameUse(n, t, v) /\ SameContents(n, t, v) /\ DOMAIN v = 1..n
  BY <1>8, <1>9, WayTouched, TouchedContents
<1> HIDE DEF v
<1>11. ASSUME NEW j \in 1..n
       PROVE  /\ v[j].dirtySectors \subseteq v[j].usedSectors
              /\ v[j].dirty /\ v[j].tag \notin X => v[j].dirtySectors # {}
              /\ ~v[j].valid /\ ~v[j].busy => ~v[j].dirty
              /\ isWrite /\ sectors # {} /\ X = {b} /\ v[j].dirty => v[j].dirtySectors # {}
  <2>1. /\ v[j].tag = t[j].tag /\ v[j].valid = t[j].valid /\ v[j].busy = t[j].busy
        /\ v[j].dirty = t[j].dirty /\ v[j].usedSectors = t[j].usedSectors
        /\ v[j].dirtySectors = t[j].dirtySectors
    BY <1>10 DEF SameUse, SameContents
  <2>2. CASE j = i
    BY <1>4, <1>5, <1>7, <1>8, <2>1, <2>2
  <2>3. CASE j # i
    <3>1. t[j] = s[j]
      BY <1>8, <2>3
    <3>2. /\ s[j].dirtySectors \subseteq s[j].usedSectors
          /\ s[j].dirty /\ s[j].tag \notin X => s[j].dirtySectors # {}
          /\ ~s[j].valid /\ ~s[j].busy => ~s[j].dirty
      BY <1>0 DEF Honest
    <3>3. X = {b} /\ s[j].dirty => s[j].tag \notin X
      BY <1>6, <2>3, <3>2
    <3>4. QED
      BY <2>1, <3>1, <3>2, <3>3
  <2>4. QED
    BY <2>2, <2>3
<1>12. Honest(v, X) /\ (isWrite /\ sectors # {} /\ X = {b} => Honest(v, {}))
  BY <1>10, <1>11 DEF Honest
<1>13. SameReads(t, v)
  BY <1>8, <1>10, ContentsRead, Zenon DEF SameUse
<1>14. /\ getSectorBits(s, b) = s[i].sectorValids /\ getDirtySectors(s, b) = s[i].dirtySectors
       /\ isDirty(s, b) <=> s[i].dirty
  <2>1. s[i].dirty \in BOOLEAN
    BY <1>1 DEF Way
  <2>2. isDirty(s, b) <=> s[i].dirty
    BY <1>1, <2>1 DEF isDirty, i
  <2>3. QED
    BY <1>1, <2>2 DEF getSectorBits, getDirtySectors, i
<1>15. /\ isDirty(t, b) <=> w.dirty
       /\ getSectorBits(t, b) = w.sectorValids /\ getDirtySectors(t, b) = w.dirtySectors
       /\ \A x : x # b => /\ isDirty(t, x) <=> isDirty(s, x)
                          /\ getSectorBits(t, x) = getSectorBits(s, x)
                          /\ getDirtySectors(t, x) = getDirtySectors(s, x)
  <2>1. t \in [1..n -> Way] /\ t[findWayIdx(s, b)] = w
        /\ \A j \in 1..n : j # findWayIdx(s, b) => t[j] = s[j]
    BY <1>8 DEF i
  <2>2. w.tag = b /\ w \in Way /\ HasTag(s, b) /\ s \in [1..n -> Way]
    BY <1>0, <1>1, <1>7
  <2>3. QED
    BY <2>1, <2>2, WayRead
<1>16. d = IF isWrite THEN s[i].dirtySectors \cup sectors ELSE s[i].dirtySectors
  BY DEF d
<1>17. ASSUME NEW x
       PROVE  /\ isDirty(v, x) <=> isDirty(s, x)
              /\ getSectorBits(v, x) = getSectorBits(s, x)
              /\ getDirtySectors(v, x) = IF x = b /\ isWrite THEN getDirtySectors(s, x) \cup sectors
                                         ELSE getDirtySectors(s, x)
  <2>1. /\ isDirty(v, x) <=> isDirty(t, x)
        /\ getSectorBits(v, x) = getSectorBits(t, x)
        /\ getDirtySectors(v, x) = getDirtySectors(t, x)
    BY <1>13 DEF SameReads
  <2>2. CASE x = b
    BY <1>7, <1>14, <1>15, <1>16, <2>1, <2>2
  <2>3. CASE x # b
    BY <1>15, <2>1, <2>3
  <2>4. QED
    BY <2>2, <2>3
<1>18. QED
  BY <1>2, <1>12, <1>17

\* The first way with tag b gets another content.
Edited(s, t, b, w) ==
  t[findWayIdx(s, b)] = w /\ \A j \in DOMAIN s : j # findWayIdx(s, b) => t[j] = s[j]

\* A change of one way leaves the set honest if the way is.
LEMMA WayHonest ==
  ASSUME NEW n \in Nat, NEW s \in [1..n -> Way], NEW t \in [1..n -> Way], NEW b, NEW w \in Way,
         Edited(s, t, b, w), NEW X, NEW Y, Honest(s, X), X \subseteq Y,
         w.dirtySectors \subseteq w.usedSectors,
         w.dirty /\ w.tag \notin Y => w.dirtySectors # {}, ~w.valid /\ ~w.busy => ~w.dirty
  PROVE  Honest(t, Y)
<1> DEFINE i == findWayIdx(s, b)
<1>1. DOMAIN s = 1..n /\ DOMAIN t = 1..n
  BY WaysAre
<1>2. t[i] = w /\ \A j \in 1..n : j # i => t[j] = s[j]
  BY <1>1 DEF Edited
<1> HIDE DEF i
<1>3. ASSUME NEW j \in 1..n
      PROVE  /\ t[j].dirtySectors \subseteq t[j].usedSectors
             /\ t[j].dirty /\ t[j].tag \notin Y => t[j].dirtySectors # {}
             /\ ~t[j].valid /\ ~t[j].busy => ~t[j].dirty
  <2>1. CASE j = i
    BY <1>2, <2>1
  <2>2. CASE j # i
    BY <1>1, <1>2, <2>2 DEF Honest
  <2>3. QED
    BY <2>1, <2>2
<1>4. QED
  BY <1>1, <1>3 DEF Honest

\* A way that is not in use has no dirty sectors to lose.
LEMMA WayClean ==
  ASSUME NEW n \in Nat, NEW s \in [1..n -> Way], NEW t \in [1..n -> Way], NEW b, NEW w \in Way,
         Edited(s, t, b, w), Honest(s, {}),
         w.dirtySectors \subseteq w.usedSectors,
         w.dirty => w.dirtySectors # {}, ~w.valid /\ ~w.busy => ~w.dirty
  PROVE  Honest(t, {})
<1>1. PICK X : X = {}
  OBVIOUS
<1>2. Honest(s, X) /\ X \subseteq X
  BY <1>1
<1>3. Honest(t, X)
  BY <1>2, WayHonest
<1>4. QED
  BY <1>1, <1>3

\* What a cache knows of the first way with a tag
LEMMA FirstHonest ==
  ASSUME NEW n \in Nat, NEW s \in [1..n -> Way], NEW b, HasTag(s, b), NEW X, Honest(s, X)
  PROVE  LET w == s[findWayIdx(s, b)] IN
         /\ w \in Way /\ w.tag = b /\ w.dirtySectors \subseteq w.usedSectors
         /\ w.dirty /\ b \notin X => w.dirtySectors # {}
         /\ ~w.valid /\ ~w.busy => ~w.dirty
         /\ (isBusy(s, b) <=> w.busy) /\ (isValid(s, b) <=> w.valid) /\ (isDirty(s, b) <=> w.dirty)
         /\ getSectorBits(s, b) = w.sectorValids /\ getDirtySectors(s, b) = w.dirtySectors
         /\ getUsedSectors(s, b) = w.usedSectors
<1> DEFINE w == s[findWayIdx(s, b)]
<1>1. findWayIdx(s, b) \in 1..n /\ s[findWayIdx(s, b)].tag = b /\ DOMAIN s = 1..n
  BY FirstWay, WaysAre
<1>2. w \in Way /\ w.tag = b
  BY <1>1
<1>3. /\ w.dirtySectors \subseteq w.usedSectors
      /\ w.dirty /\ b \notin X => w.dirtySectors # {}
      /\ ~w.valid /\ ~w.busy => ~w.dirty
  BY <1>1 DEF Honest
<1>4. (isBusy(s, b) <=> w.busy) /\ (isValid(s, b) <=> w.valid)
  BY UseIs
<1>5. w.dirty \in BOOLEAN
  BY <1>2 DEF Way
<1>6. isDirty(s, b) <=> w.dirty
  BY <1>5 DEF isDirty
<1>7. /\ getSectorBits(s, b) = w.sectorValids /\ getDirtySectors(s, b) = w.dirtySectors
      /\ getUsedSectors(s, b) = w.usedSectors
  BY DEF getSectorBits, getDirtySectors, getUsedSectors
<1>8. QED
  BY <1>2, <1>3, <1>4, <1>6, <1>7

\* insertSectors brings sectors and soils none.
LEMMA InsertSectorsHonest ==
  ASSUME NEW n \in Nat, NEW s, SetOK(n, s), NEW b \in Tag, NEW sectors \in SUBSET Sector,
         HasTag(s, b), NEW X, Honest(s, X)
  PROVE  LET t == insertSectors(s, b, sectors)
         IN  /\ Honest(t, X) /\ HasTag(t, b)
             /\ getSectorBits(t, b) = getSectorBits(s, b) \cup sectors
             /\ \A x : /\ isDirty(t, x) <=> isDirty(s, x)
                       /\ getSectorBits(s, x) \subseteq getSectorBits(t, x)
                       /\ getDirtySectors(t, x) = getDirtySectors(s, x)
<1> DEFINE i == findWayIdx(s, b)
           v == s[i]
           u == v.sectorValids \cup sectors
           w == [v EXCEPT !.sectorValids = u]
           t == insertSectors(s, b, sectors)
<1>0. s \in [1..n -> Way] /\ DOMAIN s = 1..n
  BY WaysAre DEF SetOK
<1>1. i \in 1..n
  BY <1>0, FirstWay
<1>2. /\ v \in Way /\ v.tag = b /\ v.dirtySectors \subseteq v.usedSectors
      /\ v.dirty /\ b \notin X => v.dirtySectors # {}
      /\ ~v.valid /\ ~v.busy => ~v.dirty
      /\ (isDirty(s, b) <=> v.dirty)
      /\ getSectorBits(s, b) = v.sectorValids /\ getDirtySectors(s, b) = v.dirtySectors
  BY <1>0, FirstHonest
<1>3. t = [s EXCEPT ![i] = w]
  BY <1>0, <1>1, <1>2 DEF insertSectors
<1>4. u \in SUBSET Sector
  BY <1>2, WayFields
<1>5. u = v.sectorValids \cup sectors
  OBVIOUS
<1> HIDE DEF u
<1>6. /\ w \in Way /\ w.tag = v.tag /\ w.valid = v.valid /\ w.busy = v.busy
      /\ w.dirty = v.dirty /\ w.sectorValids = u
      /\ w.usedSectors = v.usedSectors /\ w.dirtySectors = v.dirtySectors
  BY <1>2, <1>4 DEF Way
<1> HIDE DEF w, v, t
<1>7. t \in [1..n -> Way] /\ t[i] = w /\ \A j \in 1..n : j # i => t[j] = s[j]
  BY <1>0, <1>1, <1>3, <1>6
<1>8. /\ HasTag(t, b) /\ (isDirty(t, b) <=> w.dirty)
      /\ getSectorBits(t, b) = w.sectorValids /\ getDirtySectors(t, b) = w.dirtySectors
      /\ \A x : x # b => /\ isDirty(t, x) <=> isDirty(s, x)
                         /\ getSectorBits(t, x) = getSectorBits(s, x)
                         /\ getDirtySectors(t, x) = getDirtySectors(s, x)
  BY <1>0, <1>2, <1>6, <1>7, WayRead
<1>9. Honest(t, X)
  <2>1. Edited(s, t, b, w)
    BY <1>0, <1>7 DEF Edited
  <2>2. s \in [1..n -> Way] /\ t \in [1..n -> Way]
    BY <1>0, <1>7
  <2>3. /\ w \in Way /\ w.dirtySectors \subseteq w.usedSectors
        /\ w.dirty /\ w.tag \notin X => w.dirtySectors # {}
        /\ ~w.valid /\ ~w.busy => ~w.dirty
    BY <1>2, <1>6
  <2>4. QED
    BY <2>1, <2>2, <2>3, WayHonest
<1>10. ASSUME NEW x
       PROVE  /\ isDirty(t, x) <=> isDirty(s, x)
              /\ getSectorBits(s, x) \subseteq getSectorBits(t, x)
              /\ getDirtySectors(t, x) = getDirtySectors(s, x)
  BY <1>2, <1>5, <1>6, <1>8
<1>11. QED
  BY <1>2, <1>5, <1>6, <1>8, <1>9, <1>10 DEF t

\* makeDirty leaves one way dirty that has no dirty sectors yet.
LEMMA MakeDirtyHonest ==
  ASSUME NEW n \in Nat, NEW s, SetOK(n, s), NEW b \in Tag, Held(s, b), Honest(s, {})
  PROVE  LET t == makeDirty(s, b)
         IN  /\ Honest(t, {b}) /\ HasTag(t, b) /\ isDirty(t, b)
             /\ \A x : /\ getSectorBits(t, x) = getSectorBits(s, x)
                       /\ getDirtySectors(t, x) = getDirtySectors(s, x)
<1> DEFINE i == findWayIdx(s, b)
           v == s[i]
           w == [v EXCEPT !.dirty = TRUE]
           t == makeDirty(s, b)
<1>0. s \in [1..n -> Way] /\ DOMAIN s = 1..n /\ HasTag(s, b)
  BY WaysAre DEF SetOK, Held, isValid, isBusy
<1>1. i \in 1..n
  BY <1>0, FirstWay
<1>2. /\ v \in Way /\ v.tag = b /\ v.dirtySectors \subseteq v.usedSectors
      /\ (isBusy(s, b) <=> v.busy) /\ (isValid(s, b) <=> v.valid)
      /\ getSectorBits(s, b) = v.sectorValids /\ getDirtySectors(s, b) = v.dirtySectors
  BY <1>0, FirstHonest
<1>3. t = [s EXCEPT ![i] = w]
  BY <1>0, <1>1, <1>2 DEF makeDirty
<1>6. /\ w \in Way /\ w.tag = v.tag /\ w.valid = v.valid /\ w.busy = v.busy
      /\ w.dirty = TRUE /\ w.sectorValids = v.sectorValids
      /\ w.usedSectors = v.usedSectors /\ w.dirtySectors = v.dirtySectors
  BY <1>2, Zenon DEF Way
<1>4. w.valid \/ w.busy
  BY <1>2, <1>6 DEF Held
<1> HIDE DEF w, v, t
<1>7. t \in [1..n -> Way] /\ t[i] = w /\ \A j \in 1..n : j # i => t[j] = s[j]
  BY <1>0, <1>1, <1>3, <1>6
<1>8. /\ HasTag(t, b) /\ (isDirty(t, b) <=> w.dirty)
      /\ getSectorBits(t, b) = w.sectorValids /\ getDirtySectors(t, b) = w.dirtySectors
      /\ \A x : x # b => /\ isDirty(t, x) <=> isDirty(s, x)
                         /\ getSectorBits(t, x) = getSectorBits(s, x)
                         /\ getDirtySectors(t, x) = getDirtySectors(s, x)
  BY <1>0, <1>2, <1>6, <1>7, WayRead
<1>9. Honest(t, {b})
  <2>1. Edited(s, t, b, w)
    BY <1>0, <1>7 DEF Edited
  <2>2. s \in [1..n -> Way] /\ t \in [1..n -> Way]
    BY <1>0, <1>7
  <2>3. /\ w \in Way /\ w.dirtySectors \subseteq w.usedSectors
        /\ w.dirty /\ w.tag \notin {b} => w.dirtySectors # {}
        /\ ~w.valid /\ ~w.busy => ~w.dirty
    BY <1>2, <1>4, <1>6
  <2>4. QED
    BY <2>1, <2>2, <2>3, WayHonest
<1>10. ASSUME NEW x
       PROVE  /\ getSectorBits(s, x) = getSectorBits(t, x)
              /\ getDirtySectors(t, x) = getDirtySectors(s, x)
  BY <1>2, <1>6, <1>8
<1>11. QED
  BY <1>6, <1>8, <1>9, <1>10 DEF t

\* A block that is not in use gets a way, or one that is in use stays in use.
LEMMA MakeBusyHonest ==
  ASSUME NEW n \in Nat, NEW s \in [1..n -> Way], NEW b \in Tag, HasTag(s, b), Honest(s, {})
  PROVE  LET t == makeBusy(s, b)
         IN  Honest(t, {}) /\ SameReads(s, t)
<1> DEFINE i == findWayIdx(s, b)
           v == s[i]
           w == [v EXCEPT !.busy = TRUE]
           t == makeBusy(s, b)
<1>0. DOMAIN s = 1..n
  BY WaysAre
<1>1. i \in 1..n
  BY FirstWay
<1>2. /\ v \in Way /\ v.tag = b /\ v.dirtySectors \subseteq v.usedSectors
      /\ v.dirty => v.dirtySectors # {}
      /\ isDirty(s, b) <=> v.dirty
      /\ getSectorBits(s, b) = v.sectorValids /\ getDirtySectors(s, b) = v.dirtySectors
  BY FirstHonest
<1>3. t = [s EXCEPT ![i] = w]
  BY <1>0, <1>1, <1>2 DEF makeBusy
<1>6. /\ w \in Way /\ w.tag = v.tag /\ w.valid = v.valid /\ w.busy = TRUE
      /\ w.dirty = v.dirty /\ w.sectorValids = v.sectorValids
      /\ w.usedSectors = v.usedSectors /\ w.dirtySectors = v.dirtySectors
  BY <1>2, Zenon DEF Way
<1> HIDE DEF w, v, t
<1>7. t \in [1..n -> Way] /\ t[i] = w /\ \A j \in 1..n : j # i => t[j] = s[j]
  BY <1>0, <1>1, <1>3, <1>6
<1>8. /\ (isDirty(t, b) <=> w.dirty)
      /\ getSectorBits(t, b) = w.sectorValids /\ getDirtySectors(t, b) = w.dirtySectors
      /\ \A x : x # b => /\ isDirty(t, x) <=> isDirty(s, x)
                         /\ getSectorBits(t, x) = getSectorBits(s, x)
                         /\ getDirtySectors(t, x) = getDirtySectors(s, x)
  BY <1>2, <1>6, <1>7, WayRead
<1>9. Honest(t, {})
  <2>1. Edited(s, t, b, w)
    BY <1>0, <1>7 DEF Edited
  <2>2. s \in [1..n -> Way] /\ t \in [1..n -> Way]
    BY <1>0, <1>7
  <2>3. /\ w \in Way /\ w.dirtySectors \subseteq w.usedSectors
        /\ w.dirty => w.dirtySectors # {}
        /\ ~w.valid /\ ~w.busy => ~w.dirty
    BY <1>2, <1>6
  <2>4. QED
    BY <2>1, <2>2, <2>3, WayClean
<1>10. ASSUME NEW x
       PROVE  /\ isDirty(t, x) <=> isDirty(s, x)
              /\ getSectorBits(t, x) = getSectorBits(s, x)
              /\ getDirtySectors(t, x) = getDirtySectors(s, x)
  BY <1>2, <1>6, <1>8
<1>11. QED
  BY <1>9, <1>10 DEF t, SameReads

\* A block that arrives soils nothing.
LEMMA SettledHonest ==
  ASSUME NEW n \in Nat, NEW s \in [1..n -> Way], NEW b \in Tag, HasTag(s, b), Honest(s, {})
  PROVE  Honest(validate(makeIdle(s, b), b), {})
<1> DEFINE i == findWayIdx(s, b)
           v == s[i]
           w == [v EXCEPT !.busy = FALSE, !.valid = TRUE]
           t == validate(makeIdle(s, b), b)
<1>0. DOMAIN s = 1..n
  BY WaysAre
<1>1. i \in 1..n
  BY FirstWay
<1>2. /\ v \in Way /\ v.tag = b /\ v.dirtySectors \subseteq v.usedSectors
      /\ v.dirty => v.dirtySectors # {}
  BY FirstHonest
<1>3. t = [s EXCEPT ![i] = w]
  BY SettledIs, Zenon
<1>4. /\ w \in Way /\ w.tag = v.tag /\ w.valid = TRUE
      /\ w.dirty = v.dirty /\ w.usedSectors = v.usedSectors /\ w.dirtySectors = v.dirtySectors
  BY <1>2, Zenon DEF Way
<1> HIDE DEF w, v, t
<1>5. t \in [1..n -> Way] /\ t[i] = w /\ \A j \in 1..n : j # i => t[j] = s[j]
  BY <1>0, <1>1, <1>3, <1>4
<1>6. Honest(t, {})
  <2>1. Edited(s, t, b, w)
    BY <1>0, <1>5 DEF Edited
  <2>2. s \in [1..n -> Way] /\ t \in [1..n -> Way] /\ Honest(s, {})
    BY <1>5
  <2>3. /\ w \in Way /\ w.dirtySectors \subseteq w.usedSectors
        /\ w.dirty => w.dirtySectors # {}
        /\ ~w.valid /\ ~w.busy => ~w.dirty
    BY <1>2, <1>4, <1>5
  <2>4. QED
    BY <2>1, <2>2, <2>3, WayClean
<1>7. QED
  BY <1>6 DEF t

\* A way that was evicted is clean.
LEMMA EvictWayClean ==
  ASSUME NEW n \in Nat, NEW s \in [1..n -> Way], NEW b \in Tag, HasTag(s, b), Honest(s, {})
  PROVE  Honest(evictWay(s, b), {}) /\ getDirtySectors(evictWay(s, b), b) = {}
<1> DEFINE i == findWayIdx(s, b)
           w == [EmptyWay EXCEPT !.tag = b]
           t == evictWay(s, b)
<1>0. DOMAIN s = 1..n
  BY WaysAre
<1>1. i \in 1..n
  BY FirstWay
<1>3. t = [s EXCEPT ![i] = w]
  BY DEF evictWay
<1>4. /\ w \in Way /\ w.tag = b /\ w.dirty = FALSE /\ w.usedSectors = {} /\ w.dirtySectors = {}
  BY Zenon DEF EmptyWay, Way, Tag
<1> HIDE DEF w, t
<1>5. t \in [1..n -> Way] /\ t[i] = w /\ \A j \in 1..n : j # i => t[j] = s[j]
  BY <1>0, <1>1, <1>3, <1>4
<1>6. Honest(t, {})
  <2>1. Edited(s, t, b, w)
    BY <1>0, <1>5 DEF Edited
  <2>2. s \in [1..n -> Way] /\ t \in [1..n -> Way] /\ Honest(s, {})
    BY <1>5
  <2>3. /\ w \in Way /\ w.dirtySectors \subseteq w.usedSectors
        /\ w.dirty => w.dirtySectors # {}
        /\ ~w.valid /\ ~w.busy => ~w.dirty
    BY <1>4, <1>5
  <2>4. QED
    BY <2>1, <2>2, <2>3, WayClean
<1>7. getDirtySectors(t, b) = {}
  BY <1>4, <1>5, WayRead
<1>8. QED
  BY <1>6, <1>7 DEF t

\* Ways that are touched stay honest.
LEMMA TouchedHonest ==
  ASSUME NEW n \in Nat, n > 1, NEW s \in [1..n -> Way], SomeUnused(s), NEW X, Honest(s, X), NEW i
  PROVE  Honest(Touch(s, i), X)
<1> DEFINE t == Touch(s, i)
<1>1. t \in [1..n -> Way] /\ SameUse(n, s, t) /\ SameContents(n, s, t)
  BY WayTouched, TouchedContents
<1> HIDE DEF t
<1>2. DOMAIN s = 1..n /\ DOMAIN t = 1..n
  BY <1>1, WaysAre
<1>3. ASSUME NEW j \in 1..n
      PROVE  /\ t[j].dirtySectors \subseteq t[j].usedSectors
             /\ t[j].dirty /\ t[j].tag \notin X => t[j].dirtySectors # {}
             /\ ~t[j].valid /\ ~t[j].busy => ~t[j].dirty
  <2>1. /\ t[j].tag = s[j].tag /\ t[j].valid = s[j].valid /\ t[j].busy = s[j].busy
        /\ t[j].dirty = s[j].dirty /\ t[j].usedSectors = s[j].usedSectors
        /\ t[j].dirtySectors = s[j].dirtySectors
    BY <1>1 DEF SameUse, SameContents
  <2>2. /\ s[j].dirtySectors \subseteq s[j].usedSectors
        /\ s[j].dirty /\ s[j].tag \notin X => s[j].dirtySectors # {}
        /\ ~s[j].valid /\ ~s[j].busy => ~s[j].dirty
    BY <1>2 DEF Honest
  <2>3. QED
    BY <2>1, <2>2
<1>4. QED
  BY <1>2, <1>3 DEF Honest, t

\* The way of a block that is out of use is clean, and so is that of the block it
\* is given to.
LEMMA InsertHonest ==
  ASSUME NEW n \in Nat, n > 1, NEW s, SetOK(n, s), NEW old \in Tag, HasTag(s, old),
         ~isBusy(s, old), ~isValid(s, old), NEW b \in Tag, Honest(s, {})
  PROVE  Honest(makeBusy(insert(s, old, b), b), {})
<1> DEFINE i == findWayIdx(s, old)
           o == s[i]
           w == [o EXCEPT !.tag = b, !.sectorValids = {}, !.usedSectors = {}, !.dirtySectors = {}]
           u == [s EXCEPT ![i] = w]
           v == Touch(u, i)
<1>0. s \in [1..n -> Way] /\ DOMAIN s = 1..n
  BY WaysAre DEF SetOK
<1>1. i \in 1..n
  BY <1>0, FirstWay
<1>2. /\ o \in Way /\ ~o.dirty /\ o.tag = old
  BY <1>0, FirstHonest
<1>3. insert(s, old, b) = v
  BY <1>0, <1>1, <1>2, Zenon DEF insert, Way
<1>4. w \in Way /\ w.tag = b /\ w.mru = o.mru /\ w.usedSectors = {} /\ w.dirtySectors = {} /\ ~w.dirty
  BY <1>2, Zenon DEF Way, Tag
<1> HIDE DEF w
<1>5. u \in [1..n -> Way] /\ DOMAIN u = 1..n /\ u[i] = w /\ \A j \in 1..n : j # i => u[j] = s[j]
  BY <1>0, <1>1, <1>4
<1> HIDE DEF u
<1>6. Honest(u, {})
  <2>1. Edited(s, u, old, w)
    BY <1>0, <1>5 DEF Edited
  <2>2. s \in [1..n -> Way] /\ u \in [1..n -> Way] /\ Honest(s, {})
    BY <1>0, <1>5
  <2>3. /\ w \in Way /\ w.dirtySectors \subseteq w.usedSectors
        /\ w.dirty => w.dirtySectors # {}
        /\ ~w.valid /\ ~w.busy => ~w.dirty
    BY <1>0, <1>4, <1>5
  <2>4. QED
    BY <2>1, <2>2, <2>3, WayClean
<1>7. SomeUnused(u)
  BY <1>0, <1>4, <1>5 DEF SetOK, SomeUnused
<1>8. Honest(v, {}) /\ v \in [1..n -> Way] /\ SameUse(n, u, v)
  BY <1>5, <1>6, <1>7, TouchedHonest, WayTouched
<1> HIDE DEF v
<1>9. HasTag(v, b)
  <2>1. v[i].tag = b
    BY <1>1, <1>4, <1>5, <1>8 DEF SameUse
  <2>2. QED
    BY <1>1, <1>8, <2>1, WaysAre DEF HasTag
<1>10. QED
  BY <1>3, <1>8, <1>9, MakeBusyHonest DEF v

\* The caches of one core: an L1, an L2 and the L3.  The lower_cache of the L3
\* is named by a string that is no cache.
OneChain ==
  Len(caches) = 3 /\ (\A i \in 1..3 : level[caches[i]] = i - 1) /\ "memory" \notin Caches

\* The cache of level l
K(l) == caches[l + 1]

\* The hierarchy, written out
LEMMA Chain ==
  ASSUME OneChain
  PROVE  /\ K(0) \in Caches /\ K(1) \in Caches /\ K(2) \in Caches
         /\ K(0) # K(1) /\ K(0) # K(2) /\ K(1) # K(2)
         /\ level[K(0)] = 0 /\ level[K(1)] = 1 /\ level[K(2)] = 2
         /\ Caches = {K(0), K(1), K(2)} /\ lower[K(0)] = K(1) /\ lower[K(1)] = K(2)
         /\ Higher(K(0)) = {} /\ Higher(K(1)) = {K(0)} /\ Higher(K(2)) = {K(1)}
         /\ Tree(K(0)) = {K(0)} /\ Tree(K(1)) = {K(0), K(1)} /\ Tree(K(2)) = Caches
<1>1. K(0) = caches[1] /\ K(1) = caches[2] /\ K(2) = caches[3]
  BY DEF K
<1>2. level[caches[1]] = 0 /\ level[caches[2]] = 1 /\ level[caches[3]] = 2 /\ Len(caches) = 3
      /\ "memory" \notin Caches
  <2>1. \A i \in 1..3 : level[caches[i]] = i - 1
    BY DEF OneChain
  <2>2. level[caches[1]] = 1 - 1 /\ level[caches[2]] = 2 - 1 /\ level[caches[3]] = 3 - 1
    BY <2>1
  <2>3. QED
    BY <2>2 DEF OneChain
<1>3. Caches = {K(0), K(1), K(2)}
  <2>1. \A i \in 1..3 : i = 1 \/ i = 2 \/ i = 3
    OBVIOUS
  <2>2. QED
    BY <1>1, <1>2, <2>1 DEF Caches
<1>4. level[K(0)] = 0 /\ level[K(1)] = 1 /\ level[K(2)] = 2
  BY <1>1, <1>2
<1>5. "memory" \notin Caches
  BY <1>2
<1> HIDE DEF Caches, K
<1>6. lower[K(2)] = "memory" /\ lower[K(0)] \in Caches /\ level[lower[K(0)]] = 1
      /\ lower[K(1)] \in Caches /\ level[lower[K(1)]] = 2
  BY <1>3, <1>4, HierarchyAssumption
<1>7. lower[K(0)] = K(1) /\ lower[K(1)] = K(2)
  BY <1>3, <1>4, <1>6
<1>8. K(0) # K(1) /\ K(0) # K(2) /\ K(1) # K(2)
  BY <1>4
<1>9. K(0) # "memory" /\ K(1) # "memory" /\ K(2) # "memory"
  BY <1>3, <1>5
<1>10. Higher(K(0)) = {} /\ Higher(K(1)) = {K(0)} /\ Higher(K(2)) = {K(1)}
  BY <1>3, <1>6, <1>7, <1>8, <1>9 DEF Higher
<1>11. Tree(K(0)) = {K(0)} /\ Tree(K(1)) = {K(0), K(1)} /\ Tree(K(2)) = Caches
  BY <1>3, <1>10 DEF Tree
<1>12. QED
  BY <1>3, <1>4, <1>7, <1>8, <1>10, <1>11

-----------------------------------------------------------------------------
(***************************************************************************)
(* Calls on the set of one cache, when no assert has failed and all ways   *)
(* are honest.                                                             *)
(***************************************************************************)
\* A call that changes the set of cache c alone
OnlySet(h, g, c) ==
  /\ g.mshr = h.mshr /\ g.retry = h.retry /\ g.wait = h.wait /\ g.hit = h.hit
  /\ g.asserts = h.asserts /\ \A x \in Caches : x # c => g.sets[x] = h.sets[x]

\* A call that changes the set of one cache only
LEMMA PutOnlySet ==
  ASSUME NEW h, Typed(h), NEW c \in Caches, NEW t, SetOK(nWays[c], t)
  PROVE  LET g == [h EXCEPT !.sets[c] = t] IN Typed(g) /\ OnlySet(h, g, c) /\ g.sets[c] = t
<1> DEFINE g == [h EXCEPT !.sets[c] = t]
<1>1. Typed(g) /\ g.sets = [h.sets EXCEPT ![c] = t] /\ g.mshr = h.mshr
      /\ g.retry = h.retry /\ g.wait = h.wait /\ g.hit = h.hit /\ g.asserts = h.asserts
  BY PutSet
<1>2. h.sets \in [Caches -> Seq(Way)]
  BY Fields
<1> HIDE DEF g
<1>3. \A x \in Caches : g.sets[x] = IF x = c THEN t ELSE h.sets[x]
  BY <1>1, <1>2
<1>4. QED
  BY <1>1, <1>3 DEF OnlySet, g

LEMMA OnlySetComposes ==
  ASSUME NEW f, NEW g, NEW h, NEW c, OnlySet(f, g, c), OnlySet(g, h, c)
  PROVE  OnlySet(f, h, c)
BY DEF OnlySet

\* What a call that fills and accesses block b makes of a set that is honest
\* but for the blocks in X
Filled(s, t, b, fill, sectors, isWrite, X) ==
  /\ Keeps(s, t) /\ HasTag(t, b)
  /\ Honest(t, X)
  /\ isWrite /\ sectors # {} /\ X = {b} => Honest(t, {})
  /\ \A x : isDirty(t, x) <=> isDirty(s, x)
  /\ getSectorBits(t, b) = getSectorBits(s, b) \cup fill
  /\ \A x : getDirtySectors(t, x) = IF x = b /\ isWrite THEN getDirtySectors(s, x) \cup sectors
                                    ELSE getDirtySectors(s, x)

\* An access whose sectors are there makes no assert fail.
LEMMA AccessFills ==
  ASSUME NEW h, Typed(h), NEW c \in Caches, NEW b \in Tag, NEW sectors \in SUBSET Sector,
         NEW isWrite \in BOOLEAN, accessAsserts(h.sets[c], b, sectors), NEW X, Honest(h.sets[c], X)
  PROVE  LET g == Access(h, c, b, sectors, isWrite)
         IN  Typed(g) /\ OnlySet(h, g, c) /\ Filled(h.sets[c], g.sets[c], b, {}, sectors, isWrite, X)
<1> DEFINE s == h.sets[c]
           t == access(s, b, sectors, isWrite)
           g == Access(h, c, b, sectors, isWrite)
<1>1. nWays[c] \in Nat /\ nWays[c] > 1 /\ SetOK(nWays[c], s)
  BY Numbers, Fields
<1>2. accessAsserts(s, b, sectors) /\ HasTag(s, b) /\ Honest(s, X)
  BY DEF accessAsserts
<1>3. g = [h EXCEPT !.sets[c] = t]
  BY DEF Access
<1> HIDE DEF s, g
<1>4. SetOK(nWays[c], t) /\ Keeps(s, t)
  BY <1>1, <1>2, AccessKeeps
<1>5. /\ Honest(t, X)
      /\ isWrite /\ sectors # {} /\ X = {b} => Honest(t, {})
      /\ \A x : (isDirty(t, x) <=> isDirty(s, x)) /\ getSectorBits(t, x) = getSectorBits(s, x)
      /\ \A x : getDirtySectors(t, x) = IF x = b /\ isWrite THEN getDirtySectors(s, x) \cup sectors
                                        ELSE getDirtySectors(s, x)
  BY <1>1, <1>2, AccessHonest
<1> HIDE DEF t
<1>6. Typed(g) /\ OnlySet(h, g, c) /\ g.sets[c] = t
  BY <1>3, <1>4, PutOnlySet
<1>7. HasTag(t, b)
  BY <1>2, <1>4 DEF Keeps
<1>8. getSectorBits(t, b) = getSectorBits(s, b) \cup {}
  BY <1>5
<1>9. Filled(s, t, b, {}, sectors, isWrite, X)
  BY <1>4, <1>5, <1>7, <1>8 DEF Filled
<1>10. QED
  BY <1>6, <1>9 DEF s, g

\* insertSectors, on the hierarchy
LEMMA FillFills ==
  ASSUME NEW h, Typed(h), NEW c \in Caches, NEW b \in Tag, NEW sectors \in SUBSET Sector,
         HasTag(h.sets[c], b), NEW X, Honest(h.sets[c], X)
  PROVE  LET g == Fill(h, c, b, sectors)
         IN  Typed(g) /\ OnlySet(h, g, c) /\ Filled(h.sets[c], g.sets[c], b, sectors, {}, FALSE, X)
<1> DEFINE s == h.sets[c]
           t == insertSectors(s, b, sectors)
           g == Fill(h, c, b, sectors)
<1>1. nWays[c] \in Nat /\ nWays[c] > 1 /\ SetOK(nWays[c], s)
  BY Numbers, Fields
<1>2. HasTag(s, b) /\ Honest(s, X)
  OBVIOUS
<1>3. g = [h EXCEPT !.sets[c] = t]
  BY DEF Fill
<1> HIDE DEF s, g
<1>4. SetOK(nWays[c], t) /\ Keeps(s, t)
  BY <1>1, InsertSectorsKeeps
<1>5. /\ Honest(t, X) /\ HasTag(t, b)
      /\ getSectorBits(t, b) = getSectorBits(s, b) \cup sectors
      /\ \A x : /\ isDirty(t, x) <=> isDirty(s, x)
                /\ getDirtySectors(t, x) = getDirtySectors(s, x)
  BY <1>1, <1>2, InsertSectorsHonest
<1> HIDE DEF t
<1>6. Typed(g) /\ OnlySet(h, g, c) /\ g.sets[c] = t
  BY <1>3, <1>4, PutOnlySet, ZenonT(60)
<1>7. Filled(s, t, b, sectors, {}, FALSE, X)
  BY <1>4, <1>5 DEF Filled
<1>8. QED
  BY <1>6, <1>7, Zenon DEF s, g

\* Calls that fill one block one after the other fill it with all they bring.
LEMMA FilledComposes ==
  ASSUME NEW s, NEW t, NEW u, NEW b, NEW fill, NEW sectors, NEW isWrite, NEW X,
         Filled(s, t, b, fill, {}, FALSE, X), Filled(t, u, b, {}, sectors, isWrite, X)
  PROVE  Filled(s, u, b, fill, sectors, isWrite, X)
<1>1. Keeps(s, u)
  BY DEF Filled, Keeps
<1>2. getSectorBits(u, b) = getSectorBits(s, b) \cup fill
  BY DEF Filled
<1>3. \A x : getDirtySectors(t, x) = getDirtySectors(s, x)
  BY DEF Filled
<1>4. \A x : getDirtySectors(u, x) = IF x = b /\ isWrite THEN getDirtySectors(s, x) \cup sectors
                                    ELSE getDirtySectors(s, x)
  BY <1>3 DEF Filled
<1>5. QED
  BY <1>1, <1>2, <1>4 DEF Filled

\* Sectors that are filled in may be accessed.
LEMMA FillAccessFills ==
  ASSUME NEW h, Typed(h), NEW c \in Caches, NEW b \in Tag, NEW fill \in SUBSET Sector,
         NEW sectors \in SUBSET Sector, NEW isWrite \in BOOLEAN, HasTag(h.sets[c], b),
         sectors \subseteq getSectorBits(h.sets[c], b) \cup fill, NEW X, Honest(h.sets[c], X)
  PROVE  LET g == Access(Fill(h, c, b, fill), c, b, sectors, isWrite)
         IN  Typed(g) /\ OnlySet(h, g, c) /\ Filled(h.sets[c], g.sets[c], b, fill, sectors, isWrite, X)
<1> DEFINE f == Fill(h, c, b, fill)
           g == Access(f, c, b, sectors, isWrite)
<1>1. Typed(f) /\ OnlySet(h, f, c) /\ Filled(h.sets[c], f.sets[c], b, fill, {}, FALSE, X)
  BY FillFills, Zenon
<1> HIDE DEF f
<1>2. accessAsserts(f.sets[c], b, sectors) /\ Honest(f.sets[c], X)
  BY <1>1 DEF Filled, accessAsserts
<1>3. Typed(g) /\ OnlySet(f, g, c) /\ Filled(f.sets[c], g.sets[c], b, {}, sectors, isWrite, X)
  BY <1>1, <1>2, AccessFills, Zenon
<1> HIDE DEF g
<1>4. OnlySet(h, g, c) /\ Filled(h.sets[c], g.sets[c], b, fill, sectors, isWrite, X)
  BY <1>1, <1>3, OnlySetComposes, FilledComposes, Zenon
<1>5. QED
  BY <1>3, <1>4 DEF f, g

\* makeDirty, followed by the write it is called for, leaves the set honest.
LEMMA SoilFills ==
  ASSUME NEW h, Typed(h), NEW c \in Caches, NEW b \in Tag, Held(h.sets[c], b), Honest(h.sets[c], {})
  PROVE  LET g == [h EXCEPT !.sets[c] = makeDirty(@, b)]
         IN  /\ Typed(g) /\ OnlySet(h, g, c) /\ Keeps(h.sets[c], g.sets[c])
             /\ Honest(g.sets[c], {b}) /\ HasTag(g.sets[c], b) /\ isDirty(g.sets[c], b)
             /\ \A x : /\ getSectorBits(g.sets[c], x) = getSectorBits(h.sets[c], x)
                       /\ getDirtySectors(g.sets[c], x) = getDirtySectors(h.sets[c], x)
<1> DEFINE s == h.sets[c]
           t == makeDirty(s, b)
           g == [h EXCEPT !.sets[c] = makeDirty(@, b)]
<1>1. nWays[c] \in Nat /\ nWays[c] > 1 /\ SetOK(nWays[c], s)
  BY Numbers, Fields
<1>2. Held(s, b) /\ Honest(s, {})
  OBVIOUS
<1>3. g = [h EXCEPT !.sets[c] = t]
  OBVIOUS
<1> HIDE DEF s, g
<1>4. SetOK(nWays[c], t) /\ Keeps(s, t)
  BY <1>1, MakeDirtyKeeps
<1>5. /\ Honest(t, {b}) /\ HasTag(t, b) /\ isDirty(t, b)
      /\ \A x : /\ getSectorBits(t, x) = getSectorBits(s, x)
                /\ getDirtySectors(t, x) = getDirtySectors(s, x)
  BY <1>1, <1>2, MakeDirtyHonest, Zenon
<1> HIDE DEF t
<1>6. Typed(g) /\ OnlySet(h, g, c) /\ g.sets[c] = t
  BY <1>3, <1>4, PutOnlySet
<1>7. QED
  BY <1>4, <1>5, <1>6 DEF s, g

\* A copy that leaves a cache finds its block in the cache below.
LEMMA UpdateFills ==
  ASSUME NEW h, Typed(h), NEW c \in Caches, NEW b \in Tag, NEW dirty \in BOOLEAN, NEW way \in Way,
         Held(h.sets[c], b), Honest(h.sets[c], {}), way.usedSectors \subseteq way.sectorValids,
         way.dirtySectors \subseteq way.usedSectors, dirty => way.dirtySectors # {}
  PROVE  LET g == update(h, c, b, dirty, way)
         IN  /\ Typed(g) /\ OnlySet(h, g, c) /\ Keeps(h.sets[c], g.sets[c])
             /\ Honest(g.sets[c], {}) /\ (dirty => isDirty(g.sets[c], b))
             /\ getDirtySectors(g.sets[c], b) \subseteq getDirtySectors(h.sets[c], b) \cup way.dirtySectors
<1> DEFINE f == Access(Fill(h, c, b, way.sectorValids), c, b, way.usedSectors, FALSE)
           k == [f EXCEPT !.sets[c] = makeDirty(@, b)]
           m == Access(k, c, b, way.dirtySectors, TRUE)
           g == update(h, c, b, dirty, way)
<1>1. /\ way.sectorValids \in SUBSET Sector /\ way.usedSectors \in SUBSET Sector
      /\ way.dirtySectors \in SUBSET Sector
  BY WayFields
<1>2. isValid(h.sets[c], b) \/ isBusy(h.sets[c], b)
  BY DEF Held
<1>3. HasTag(h.sets[c], b)
  BY <1>2 DEF isValid, isBusy
<1>4. g = IF dirty THEN m ELSE f
  BY <1>2 DEF update
<1>5. Typed(f) /\ OnlySet(h, f, c)
      /\ Filled(h.sets[c], f.sets[c], b, way.sectorValids, way.usedSectors, FALSE, {})
  <2>1. way.usedSectors \subseteq getSectorBits(h.sets[c], b) \cup way.sectorValids
    OBVIOUS
  <2>2. QED
    BY <1>1, <1>3, <2>1, FillAccessFills, Zenon
<1> HIDE DEF f
<1>6. /\ Keeps(h.sets[c], f.sets[c]) /\ Honest(f.sets[c], {})
      /\ getDirtySectors(f.sets[c], b) = getDirtySectors(h.sets[c], b)
      /\ way.dirtySectors \subseteq getSectorBits(f.sets[c], b)
  BY <1>5 DEF Filled
<1>7. Held(f.sets[c], b)
  BY <1>2, <1>6 DEF Keeps, Held
<1>8. /\ Typed(k) /\ OnlySet(f, k, c) /\ Keeps(f.sets[c], k.sets[c])
      /\ Honest(k.sets[c], {b}) /\ HasTag(k.sets[c], b) /\ isDirty(k.sets[c], b)
      /\ getSectorBits(k.sets[c], b) = getSectorBits(f.sets[c], b)
      /\ getDirtySectors(k.sets[c], b) = getDirtySectors(f.sets[c], b)
  BY <1>5, <1>6, <1>7, SoilFills
<1> HIDE DEF k
<1>9. accessAsserts(k.sets[c], b, way.dirtySectors)
  BY <1>6, <1>8 DEF accessAsserts
<1>10. Typed(m) /\ OnlySet(k, m, c)
       /\ Filled(k.sets[c], m.sets[c], b, {}, way.dirtySectors, TRUE, {b})
  BY <1>1, <1>8, <1>9, AccessFills, Zenon
<1> HIDE DEF m
<1>11. CASE dirty
  <2>1. OnlySet(h, k, c)
    BY <1>5, <1>8, OnlySetComposes
  <2>2. OnlySet(h, m, c)
    BY <1>10, <2>1, OnlySetComposes
  <2>3. Keeps(k.sets[c], m.sets[c])
    BY <1>10 DEF Filled
  <2>4. Keeps(h.sets[c], m.sets[c])
    BY <1>6, <1>8, <2>3 DEF Keeps
  <2>5. Honest(m.sets[c], {}) /\ isDirty(m.sets[c], b)
        /\ getDirtySectors(m.sets[c], b) = getDirtySectors(k.sets[c], b) \cup way.dirtySectors
    BY <1>8, <1>10, <1>11, Zenon DEF Filled
  <2>6. getDirtySectors(m.sets[c], b) \subseteq getDirtySectors(h.sets[c], b) \cup way.dirtySectors
    BY <1>6, <1>8, <2>5
  <2>7. g = m
    BY <1>4, <1>11
  <2> HIDE DEF g
  <2>8. QED
    BY <1>10, <2>2, <2>4, <2>5, <2>6, <2>7 DEF g
<1>12. CASE ~dirty
  <2>1. g = f
    BY <1>4, <1>12
  <2> HIDE DEF g
  <2>2. QED
    BY <1>5, <1>6, <1>12, <2>1 DEF g
<1>13. QED
  BY <1>11, <1>12

-----------------------------------------------------------------------------
(***************************************************************************)
(* Eviction from a chain of caches.                                        *)
(***************************************************************************)
\* The lists and the MSHRs stay.
SameLists(h, g) ==
  g.mshr = h.mshr /\ g.retry = h.retry /\ g.wait = h.wait /\ g.hit = h.hit /\ g.asserts = h.asserts

\* The sets of all caches are honest.
AllHonest(h) == \A c \in Caches : Honest(h.sets[c], {})

\* A block that is valid leaves a set, all others stay.
Emptied(s, t, b) ==
  /\ ~isValid(t, b)
  /\ \A x \in Tag : /\ isBusy(t, x) <=> isBusy(s, x)
                    /\ HasTag(t, x) <=> HasTag(s, x)
                    /\ x # b => (isValid(t, x) <=> isValid(s, x))

\* Block b may leave cache c: no copy is busy, it is in the cache below, and what the
\* copies above wrote is recorded.
MayLeave(e, c, b) ==
  /\ e.dirty \in [Caches -> BOOLEAN] /\ e = [h |-> e.h, dirty |-> e.dirty]
  /\ Typed(e.h) /\ AllHonest(e.h)
  /\ ~isBusy(e.h.sets[c], b)
  /\ level[c] # 2 /\ isValid(e.h.sets[c], b) => Held(e.h.sets[lower[c]], b)
  /\ (\E x \in Higher(c) : e.dirty[x]) => isDirty(e.h.sets[c], b)

\* What EvictFrom leaves
HasLeft(e, f, c, b) ==
  /\ f.dirty \in [Caches -> BOOLEAN] /\ f = [h |-> f.h, dirty |-> f.dirty]
  /\ Typed(f.h) /\ AllHonest(f.h) /\ SameLists(e.h, f.h)
  /\ Emptied(e.h.sets[c], f.h.sets[c], b)
  /\ level[c] # 2 =>
        /\ Keeps(e.h.sets[lower[c]], f.h.sets[lower[c]])
        /\ f.dirty[c] => isDirty(f.h.sets[lower[c]], b)
        /\ getDirtySectors(f.h.sets[lower[c]], b) \subseteq
              getDirtySectors(e.h.sets[lower[c]], b) \cup getDirtySectors(e.h.sets[c], b)
  /\ f.dirty[c] => getDirtySectors(e.h.sets[c], b) # {}
  /\ \A x \in Caches : x # c => f.dirty[x] = e.dirty[x]
  /\ \A x \in Caches : x # c /\ x # lower[c] => f.h.sets[x] = e.h.sets[x]

\* One cache gives its copy of the block to the cache below (Cache.cpp:984-1030).
LEMMA CopyLeaves ==
  ASSUME OneChain, NEW c \in Caches, NEW b \in Tag, NEW e, MayLeave(e, c, b)
  PROVE  HasLeft(e, EvictFrom(e, c, b), c, b)
<1> DEFINE set     == e.h.sets[c]
           way     == set[findWayIdx(set, b)]
           above   == \E x \in Higher(c) : e.dirty[x]
           dirty   == above \/ isDirty(set, b)
           updated == IF level[c] = 2 THEN e.h ELSE update(e.h, lower[c], b, dirty, way)
           checked == Asserting(updated, evictAsserts(set, b), "MoreUsedThanBrought")
           emptied == [checked EXCEPT !.sets[c] = evictWay(@, b)]
           f       == EvictFrom(e, c, b)
<1>0. f = IF isValid(set, b) /\ canEvict(set, b)
          THEN [h |-> emptied, dirty |-> [e.dirty EXCEPT ![c] = dirty]]
          ELSE [e EXCEPT !.dirty[c] = above]
  BY DEF EvictFrom
<1>1. /\ e.dirty \in [Caches -> BOOLEAN] /\ e = [h |-> e.h, dirty |-> e.dirty]
      /\ Typed(e.h) /\ AllHonest(e.h) /\ ~isBusy(set, b)
      /\ level[c] # 2 /\ isValid(set, b) => Held(e.h.sets[lower[c]], b)
      /\ above => isDirty(set, b)
  BY DEF MayLeave
<1>2. /\ SetOK(nWays[c], set) /\ nWays[c] \in Nat /\ nWays[c] > 1 /\ Honest(set, {})
      /\ set \in [1..nWays[c] -> Way] /\ UsedArePresent(set)
  BY <1>1, Fields, Numbers DEF AllHonest, SetOK
<1>3. isDirty(set, b) => HasTag(set, b)
  BY SMTT(30) DEF isDirty
<1>4. HasTag(set, b) =>
        /\ way \in Way /\ way.tag = b /\ way.dirtySectors \subseteq way.usedSectors
        /\ way.dirty => way.dirtySectors # {}
        /\ ~way.valid /\ ~way.busy => ~way.dirty
        /\ (isBusy(set, b) <=> way.busy) /\ (isValid(set, b) <=> way.valid) /\ (isDirty(set, b) <=> way.dirty)
        /\ getSectorBits(set, b) = way.sectorValids /\ getDirtySectors(set, b) = way.dirtySectors
        /\ getUsedSectors(set, b) = way.usedSectors
  BY <1>2, FirstHonest
<1>5. HasTag(set, b) => way.usedSectors \subseteq way.sectorValids
  <2>1. HasTag(set, b) => findWayIdx(set, b) \in DOMAIN set
    BY <1>2, FirstWay, WaysAre, Zenon
  <2>2. QED
    BY <1>2, <2>1 DEF UsedArePresent
<1>6. dirty <=> isDirty(set, b)
  BY <1>1
<1>7. dirty \in BOOLEAN /\ above \in BOOLEAN
  OBVIOUS
<1>8. level[c] # 2 => lower[c] \in Caches /\ lower[c] # c
  BY Numbers
<1> HIDE DEF set, way, above, dirty, f
<1>9. CASE isValid(set, b)
  <2>1. HasTag(set, b) /\ canEvict(set, b)
    BY <1>1, <1>9 DEF isValid, canEvict
  <2>2. f = [h |-> emptied, dirty |-> [e.dirty EXCEPT ![c] = dirty]]
    BY <1>0, <1>9, <2>1
  <2>3. checked = updated
    BY <1>1, <1>4, <1>5, <2>1 DEF evictAsserts, Asserting
  <2>4. /\ Typed(updated) /\ SameLists(e.h, updated) /\ updated.sets[c] = set
        /\ level[c] # 2 =>
              /\ Keeps(e.h.sets[lower[c]], updated.sets[lower[c]])
              /\ Honest(updated.sets[lower[c]], {})
              /\ dirty => isDirty(updated.sets[lower[c]], b)
              /\ getDirtySectors(updated.sets[lower[c]], b) \subseteq
                    getDirtySectors(e.h.sets[lower[c]], b) \cup getDirtySectors(set, b)
        /\ \A x \in Caches : x # c /\ x # lower[c] => updated.sets[x] = e.h.sets[x]
    <3>1. CASE level[c] = 2
      <4>1. updated = e.h
        BY <3>1
      <4>2. QED
        BY <1>1, <3>1, <4>1 DEF SameLists, set
    <3>2. CASE level[c] # 2
      <4> DEFINE l == lower[c]
      <4>1. updated = update(e.h, l, b, dirty, way)
        BY <3>2
      <4> HIDE DEF updated
      <4>2. Held(e.h.sets[l], b) /\ Honest(e.h.sets[l], {}) /\ l \in Caches /\ l # c
        BY <1>1, <1>8, <1>9, <3>2 DEF AllHonest
      <4>3. /\ way \in Way /\ way.usedSectors \subseteq way.sectorValids
            /\ way.dirtySectors \subseteq way.usedSectors /\ (dirty => way.dirtySectors # {})
            /\ getDirtySectors(set, b) = way.dirtySectors
        BY <1>4, <1>5, <1>6, <2>1
      <4> HIDE DEF l
      <4>4. /\ Typed(updated) /\ OnlySet(e.h, updated, l) /\ Keeps(e.h.sets[l], updated.sets[l])
            /\ Honest(updated.sets[l], {}) /\ (dirty => isDirty(updated.sets[l], b))
            /\ getDirtySectors(updated.sets[l], b) \subseteq getDirtySectors(e.h.sets[l], b) \cup way.dirtySectors
        BY <1>1, <1>7, <4>1, <4>2, <4>3, UpdateFills
      <4>5. /\ SameLists(e.h, updated) /\ updated.sets[c] = set
            /\ \A x \in Caches : x # c /\ x # l => updated.sets[x] = e.h.sets[x]
        BY <4>2, <4>4 DEF OnlySet, SameLists, set
      <4>6. QED
        BY <4>3, <4>4, <4>5 DEF l
    <3>3. QED
      BY <3>1, <3>2
  <2> DEFINE t == evictWay(set, b)
  <2>5. emptied = [updated EXCEPT !.sets[c] = t]
    BY <2>3, <2>4
  <2> HIDE DEF checked, updated, emptied
  <2>6. SetOK(nWays[c], t) /\ Uses(set, t, b, FALSE, FALSE) /\ Honest(t, {})
    BY <1>2, <2>1, EvictWayUses, EvictWayClean, Zenon
  <2> HIDE DEF t
  <2>7. Typed(emptied) /\ OnlySet(updated, emptied, c) /\ emptied.sets[c] = t
    BY <2>4, <2>5, <2>6, PutOnlySet
  <2> DEFINE d == [e.dirty EXCEPT ![c] = dirty]
  <2> HIDE DEF d
  <2>8. f.h = emptied /\ f.dirty = d
    BY <2>2, Zenon DEF d
  <2>9. /\ f.dirty \in [Caches -> BOOLEAN] /\ f.dirty[c] = dirty
        /\ \A x \in Caches : x # c => f.dirty[x] = e.dirty[x]
    <3>1. d \in [Caches -> BOOLEAN]
      BY <1>1, <1>7, Zenon DEF d
    <3>2. d[c] = dirty /\ \A x \in Caches : x # c => d[x] = e.dirty[x]
      BY <1>1, Zenon DEF d
    <3>3. QED
      BY <2>8, <3>1, <3>2, Zenon
  <2>10. f = [h |-> f.h, dirty |-> f.dirty]
    <3>1. f = [h |-> emptied, dirty |-> d]
      BY <2>2 DEF d
    <3>2. QED
      BY <2>8, <3>1, Zenon
  <2>11. SameLists(e.h, emptied)
    BY <2>4, <2>7 DEF SameLists, OnlySet
  <2>12. Emptied(set, t, b)
    BY <1>1, <2>6 DEF Uses, Emptied
  <2>13. /\ \A x \in Caches : x # c /\ x # lower[c] => emptied.sets[x] = e.h.sets[x]
         /\ level[c] # 2 => emptied.sets[lower[c]] = updated.sets[lower[c]]
    BY <1>8, <2>4, <2>7 DEF OnlySet
  <2>14. AllHonest(emptied)
    <3> SUFFICES ASSUME NEW x \in Caches
                 PROVE  Honest(emptied.sets[x], {})
      BY DEF AllHonest
    <3>1. CASE x = c
      BY <2>6, <2>7, <3>1
    <3>2. CASE x # c /\ x = lower[c]
      <4>1. level[c] # 2
        <5>1. "memory" \notin Caches
          BY DEF OneChain
        <5>2. QED
          BY <3>2, <5>1, HierarchyAssumption
      <4>2. QED
        BY <2>4, <2>13, <3>2, <4>1
    <3>3. CASE x # c /\ x # lower[c]
      BY <1>1, <2>13, <3>3 DEF AllHonest
    <3>4. QED
      BY <3>1, <3>2, <3>3
  <2>15. dirty => getDirtySectors(set, b) # {}
    BY <1>4, <1>6, <2>1
  <2>16. level[c] # 2 =>
           /\ Keeps(e.h.sets[lower[c]], emptied.sets[lower[c]])
           /\ dirty => isDirty(emptied.sets[lower[c]], b)
           /\ getDirtySectors(emptied.sets[lower[c]], b) \subseteq
                 getDirtySectors(e.h.sets[lower[c]], b) \cup getDirtySectors(set, b)
    BY <2>4, <2>13
  <2>17. QED
    BY <2>7, <2>8, <2>9, <2>10, <2>11, <2>12, <2>13, <2>14, <2>15, <2>16 DEF HasLeft, set, f
<1>10. CASE ~isValid(set, b)
  <2>1. ~isDirty(set, b) /\ ~above
    BY <1>1, <1>3, <1>4, <1>10
  <2>2. f = [e EXCEPT !.dirty[c] = above]
    BY <1>0, <1>10
  <2> DEFINE d == [e.dirty EXCEPT ![c] = above]
  <2>3. d \in [Caches -> BOOLEAN] /\ d[c] = above /\ \A x \in Caches : x # c => d[x] = e.dirty[x]
    BY <1>1, <1>7
  <2>4. [e EXCEPT !.dirty[c] = above] = [e EXCEPT !.dirty = d]
    OBVIOUS
  <2> HIDE DEF d
  <2>5. f = [h |-> e.h, dirty |-> d]
    BY <1>1, <2>2, <2>4
  <2>6. f.h = e.h /\ f.dirty = d /\ f = [h |-> f.h, dirty |-> f.dirty]
    BY <2>5
  <2>7. SameLists(e.h, f.h) /\ Emptied(set, f.h.sets[c], b)
    BY <1>10, <2>6 DEF SameLists, Emptied, set
  <2>8. level[c] # 2 => Keeps(e.h.sets[lower[c]], f.h.sets[lower[c]])
    BY <2>6 DEF Keeps
  <2>9. ~f.dirty[c]
    BY <2>1, <2>3, <2>6
  <2>10. level[c] # 2 => getDirtySectors(f.h.sets[lower[c]], b) \subseteq
              getDirtySectors(e.h.sets[lower[c]], b) \cup getDirtySectors(set, b)
    BY <2>6
  <2>11. QED
    BY <1>1, <2>3, <2>6, <2>7, <2>8, <2>9, <2>10 DEF HasLeft, set, f
<1>11. QED
  BY <1>9, <1>10

\* The same by levels
LEMMA Level ==
  ASSUME OneChain, NEW l \in 0..2
  PROVE  /\ K(l) \in Caches /\ level[K(l)] = l
         /\ l # 2 => lower[K(l)] = K(l + 1) /\ K(l + 1) \in Caches
         /\ Higher(K(l)) = {K(k) : k \in {k \in 0..2 : k + 1 = l}}
         /\ Tree(K(l)) = {K(k) : k \in {k \in 0..2 : k <= l}}
         /\ \A k \in 0..2 : K(k) = K(l) => k = l
<1>1. l = 0 \/ l = 1 \/ l = 2
  OBVIOUS
<1>2. 0 \in 0..2 /\ 1 \in 0..2 /\ 2 \in 0..2 /\ \A k \in 0..2 : k = 0 \/ k = 1 \/ k = 2
  OBVIOUS
<1>3. /\ {k \in 0..2 : k + 1 = 0} = {} /\ {k \in 0..2 : k + 1 = 1} = {0} /\ {k \in 0..2 : k + 1 = 2} = {1}
      /\ {k \in 0..2 : k <= 0} = {0} /\ {k \in 0..2 : k <= 1} = {0, 1} /\ {k \in 0..2 : k <= 2} = {0, 1, 2}
  OBVIOUS
<1>4. 0 + 1 = 1 /\ 1 + 1 = 2
  OBVIOUS
<1>5. /\ K(0) \in Caches /\ K(1) \in Caches /\ K(2) \in Caches
      /\ K(0) # K(1) /\ K(0) # K(2) /\ K(1) # K(2)
      /\ level[K(0)] = 0 /\ level[K(1)] = 1 /\ level[K(2)] = 2
      /\ Caches = {K(0), K(1), K(2)} /\ lower[K(0)] = K(1) /\ lower[K(1)] = K(2)
      /\ Higher(K(0)) = {} /\ Higher(K(1)) = {K(0)} /\ Higher(K(2)) = {K(1)}
      /\ Tree(K(0)) = {K(0)} /\ Tree(K(1)) = {K(0), K(1)} /\ Tree(K(2)) = Caches
  BY Chain
<1>6. CASE l = 0
  <2>1. {K(k) : k \in {}} = {} /\ {K(k) : k \in {0}} = {K(0)}
    OBVIOUS
  <2>2. QED
    BY <1>2, <1>3, <1>4, <1>5, <1>6, <2>1
<1>7. CASE l = 1
  <2>1. {K(k) : k \in {0}} = {K(0)} /\ {K(k) : k \in {0, 1}} = {K(0), K(1)}
    OBVIOUS
  <2>2. QED
    BY <1>2, <1>3, <1>4, <1>5, <1>7, <2>1
<1>8. CASE l = 2
  <2>1. {K(k) : k \in {1}} = {K(1)} /\ {K(k) : k \in {0, 1, 2}} = {K(0), K(1), K(2)}
    OBVIOUS
  <2>2. QED
    BY <1>2, <1>3, <1>4, <1>5, <1>8, <2>1
<1>9. QED
  BY <1>1, <1>6, <1>7, <1>8

\* Every cache is the one of its level.
LEMMA EachIsALevel ==
  ASSUME OneChain, NEW c \in Caches
  PROVE  level[c] \in 0..2 /\ c = K(level[c])
<1>1. c = K(0) \/ c = K(1) \/ c = K(2)
  BY Chain
<1>2. 0 \in 0..2 /\ 1 \in 0..2 /\ 2 \in 0..2
  OBVIOUS
<1>3. QED
  BY <1>1, <1>2, Chain

\* A block that is valid in a cache is in use in the cache below.
Nested(h) ==
  \A l \in 0..1 : \A b \in Tag : isValid(h.sets[K(l)], b) => Held(h.sets[K(l + 1)], b)

\* The copies of block b have left the first n caches of the chain.
LeftUpTo(h, e, n, b) ==
  /\ e.dirty \in [Caches -> BOOLEAN] /\ e = [h |-> e.h, dirty |-> e.dirty]
  /\ Typed(e.h) /\ AllHonest(e.h) /\ SameLists(h, e.h)
  /\ \A j \in 0..2 : /\ j < n => Emptied(h.sets[K(j)], e.h.sets[K(j)], b)
                     /\ n <= j => Keeps(h.sets[K(j)], e.h.sets[K(j)]) /\ ~e.dirty[K(j)]
                     /\ n < j => e.h.sets[K(j)] = h.sets[K(j)]
                     /\ j = n => getDirtySectors(e.h.sets[K(j)], b) \subseteq
                                   UNION {getDirtySectors(h.sets[K(k)], b) : k \in {k \in 0..2 : k <= j}}
                     /\ j + 1 = n /\ e.dirty[K(j)] =>
                          /\ UNION {getDirtySectors(h.sets[K(k)], b) : k \in {k \in 0..2 : k <= j}} # {}
                          /\ n # 3 => isDirty(e.h.sets[K(n)], b)

\* evictBlock begins with no copy gone.
LEMMA LeftNone ==
  ASSUME OneChain, NEW h, Typed(h), AllHonest(h), NEW b \in Tag
  PROVE  LeftUpTo(h, [h |-> h, dirty |-> [x \in Caches |-> FALSE]], 0, b)
<1> DEFINE e == [h |-> h, dirty |-> [x \in Caches |-> FALSE]]
<1>1. e.h = h /\ e.dirty = [x \in Caches |-> FALSE] /\ e = [h |-> e.h, dirty |-> e.dirty]
  OBVIOUS
<1>2. e.dirty \in [Caches -> BOOLEAN] /\ \A x \in Caches : ~e.dirty[x]
  BY <1>1
<1>3. SameLists(h, e.h) /\ Typed(e.h) /\ AllHonest(e.h)
  BY <1>1 DEF SameLists
<1>4. \A j \in 0..2 : Keeps(h.sets[K(j)], e.h.sets[K(j)]) /\ e.h.sets[K(j)] = h.sets[K(j)]
  BY <1>1 DEF Keeps
<1> HIDE DEF e
<1>5. ASSUME NEW j \in 0..2
      PROVE  getDirtySectors(e.h.sets[K(j)], b) \subseteq
               UNION {getDirtySectors(h.sets[K(k)], b) : k \in {k \in 0..2 : k <= j}}
  <2>1. j \in {k \in 0..2 : k <= j}
    OBVIOUS
  <2>2. getDirtySectors(h.sets[K(j)], b) \subseteq
               UNION {getDirtySectors(h.sets[K(k)], b) : k \in {k \in 0..2 : k <= j}}
    BY <2>1
  <2>3. QED
    BY <1>4, <2>2
<1>6. \A j \in 0..2 : ~(j < 0) /\ ~(j + 1 = 0) /\ K(j) \in Caches
  BY Level
<1>7. LeftUpTo(h, e, 0, b)
  BY <1>1, <1>2, <1>3, <1>4, <1>5, <1>6 DEF LeftUpTo
<1>8. QED
  BY <1>7 DEF e

LEMMA KeepsComposes ==
  ASSUME NEW s, NEW t, NEW u, Keeps(s, t), Keeps(t, u)
  PROVE  Keeps(s, u)
BY DEF Keeps

\* Each cache of the chain in turn loses its copy.
LEMMA LeftStep ==
  ASSUME OneChain, NEW h, Nested(h), NEW n \in 0..2, NEW b \in Tag, ~isBusy(h.sets[K(n)], b),
         NEW e, LeftUpTo(h, e, n, b)
  PROVE  LeftUpTo(h, EvictFrom(e, K(n), b), n + 1, b)
<1> DEFINE c    == K(n)
           f    == EvictFrom(e, c, b)
           D(k) == getDirtySectors(h.sets[K(k)], b)
           U(j) == UNION {D(k) : k \in {k \in 0..2 : k <= j}}
<1>1. /\ c \in Caches /\ level[c] = n /\ (n # 2 => lower[c] = K(n + 1) /\ K(n + 1) \in Caches)
      /\ Higher(c) = {K(k) : k \in {k \in 0..2 : k + 1 = n}}
  BY Level
<1>2. /\ e.dirty \in [Caches -> BOOLEAN] /\ e = [h |-> e.h, dirty |-> e.dirty]
      /\ Typed(e.h) /\ AllHonest(e.h) /\ SameLists(h, e.h)
      /\ \A j \in 0..2 : /\ j < n => Emptied(h.sets[K(j)], e.h.sets[K(j)], b)
                         /\ n <= j => Keeps(h.sets[K(j)], e.h.sets[K(j)]) /\ ~e.dirty[K(j)]
                         /\ n < j => e.h.sets[K(j)] = h.sets[K(j)]
                         /\ j = n => getDirtySectors(e.h.sets[K(j)], b) \subseteq U(j)
                         /\ j + 1 = n /\ e.dirty[K(j)] => U(j) # {} /\ (n # 3 => isDirty(e.h.sets[K(n)], b))
  BY DEF LeftUpTo
<1>3. n <= n /\ n # 3 /\ n + 1 \in 1..3 /\ (n # 2 => n + 1 \in 0..2 /\ n \in 0..1 /\ n <= n + 1 /\ n < n + 1)
  OBVIOUS
<1>4. Keeps(h.sets[c], e.h.sets[c])
  BY <1>2, <1>3
<1>5. ~isBusy(e.h.sets[c], b)
  BY <1>4 DEF Keeps
<1>6. level[c] # 2 /\ isValid(e.h.sets[c], b) => Held(e.h.sets[lower[c]], b)
  <2>1. CASE n # 2
    <3>1. Keeps(h.sets[K(n + 1)], e.h.sets[K(n + 1)])
      BY <1>2, <1>3, <2>1
    <3>2. isValid(h.sets[c], b) => Held(h.sets[K(n + 1)], b)
      BY <1>3, <2>1 DEF Nested
    <3>3. QED
      BY <1>1, <1>4, <2>1, <3>1, <3>2 DEF Keeps, Held
  <2>2. QED
    BY <1>1, <2>1
<1>7. (\E x \in Higher(c) : e.dirty[x]) => isDirty(e.h.sets[c], b)
  <2> SUFFICES ASSUME NEW x \in Higher(c), e.dirty[x]
               PROVE  isDirty(e.h.sets[c], b)
    OBVIOUS
  <2>1. PICK k \in 0..2 : k + 1 = n /\ x = K(k)
    BY <1>1
  <2>2. QED
    BY <1>2, <1>3, <2>1
<1>8. MayLeave(e, c, b)
  BY <1>2, <1>5, <1>6, <1>7 DEF MayLeave
<1>9. HasLeft(e, f, c, b)
  BY <1>1, <1>8, CopyLeaves
<1>10. /\ f.dirty \in [Caches -> BOOLEAN] /\ f = [h |-> f.h, dirty |-> f.dirty]
       /\ Typed(f.h) /\ AllHonest(f.h) /\ SameLists(e.h, f.h)
       /\ Emptied(e.h.sets[c], f.h.sets[c], b)
       /\ n # 2 =>
             /\ Keeps(e.h.sets[K(n + 1)], f.h.sets[K(n + 1)])
             /\ f.dirty[c] => isDirty(f.h.sets[K(n + 1)], b)
             /\ getDirtySectors(f.h.sets[K(n + 1)], b) \subseteq
                   getDirtySectors(e.h.sets[K(n + 1)], b) \cup getDirtySectors(e.h.sets[c], b)
       /\ f.dirty[c] => getDirtySectors(e.h.sets[c], b) # {}
       /\ \A x \in Caches : x # c => f.dirty[x] = e.dirty[x]
       /\ \A x \in Caches : x # c /\ x # lower[c] => f.h.sets[x] = e.h.sets[x]
  BY <1>1, <1>9 DEF HasLeft
<1> HIDE DEF f
<1>11. SameLists(h, f.h)
  BY <1>2, <1>10 DEF SameLists
<1>12. getDirtySectors(e.h.sets[c], b) \subseteq U(n)
  BY <1>2
<1>13. ASSUME NEW j \in 0..2
       PROVE  /\ j < n + 1 => Emptied(h.sets[K(j)], f.h.sets[K(j)], b)
              /\ n + 1 <= j => Keeps(h.sets[K(j)], f.h.sets[K(j)]) /\ ~f.dirty[K(j)]
              /\ n + 1 < j => f.h.sets[K(j)] = h.sets[K(j)]
              /\ j = n + 1 => getDirtySectors(f.h.sets[K(j)], b) \subseteq U(j)
              /\ j + 1 = n + 1 /\ f.dirty[K(j)] =>
                   U(j) # {} /\ (n + 1 # 3 => isDirty(f.h.sets[K(n + 1)], b))
  <2>1. K(j) \in Caches /\ (K(j) = c => j = n) /\ (n # 2 /\ K(j) = lower[c] => j = n + 1)
    BY <1>1, <1>3, Level
  <2>2. n = 2 => lower[c] \notin Caches
    BY <1>1, HierarchyAssumption DEF OneChain
  <2>3. j # n /\ j # n + 1 => f.h.sets[K(j)] = e.h.sets[K(j)] /\ f.dirty[K(j)] = e.dirty[K(j)]
    BY <1>10, <2>1, <2>2
  <2>4. CASE j < n
    <3>1. Emptied(h.sets[K(j)], e.h.sets[K(j)], b) /\ j # n /\ j # n + 1
      BY <1>2, <2>4
    <3>2. f.h.sets[K(j)] = e.h.sets[K(j)]
      BY <2>3, <3>1
    <3>3. j < n + 1 /\ ~(n + 1 <= j) /\ ~(n + 1 < j) /\ j # n + 1 /\ j + 1 # n + 1
      BY <2>4
    <3>4. QED
      BY <3>1, <3>2, <3>3
  <2>5. CASE j = n
    <3>1. Emptied(h.sets[c], f.h.sets[c], b)
      BY <1>4, <1>10 DEF Emptied, Keeps
    <3>2. f.dirty[c] => U(n) # {} /\ (n + 1 # 3 => isDirty(f.h.sets[K(n + 1)], b))
      BY <1>3, <1>10, <1>12
    <3>3. j < n + 1 /\ ~(n + 1 <= j) /\ ~(n + 1 < j) /\ j # n + 1
      BY <2>5
    <3>4. QED
      BY <2>5, <3>1, <3>2, <3>3
  <2>6. CASE j = n + 1
    <3>1. n # 2 /\ n < j /\ n <= j /\ j # n
      BY <2>6
    <3>2. /\ Keeps(h.sets[K(j)], e.h.sets[K(j)]) /\ ~e.dirty[K(j)] /\ e.h.sets[K(j)] = h.sets[K(j)]
      BY <1>2, <3>1
    <3>3. Keeps(h.sets[K(j)], f.h.sets[K(j)])
      BY <1>10, <2>6, <3>1, <3>2, KeepsComposes
    <3>4. ~f.dirty[K(j)]
      BY <1>10, <2>1, <3>1, <3>2
    <3>5. D(j) \subseteq U(j) /\ U(n) \subseteq U(j)
      <4>1. j \in {k \in 0..2 : k <= j} /\ {k \in 0..2 : k <= n} \subseteq {k \in 0..2 : k <= j}
        BY <3>1
      <4>2. QED
        BY <4>1
    <3>6. getDirtySectors(f.h.sets[K(j)], b) \subseteq D(j) \cup U(n)
      BY <1>10, <1>12, <2>6, <3>1, <3>2
    <3>7. ~(j < n + 1) /\ ~(n + 1 < j) /\ j + 1 # n + 1
      BY <2>6
    <3> HIDE DEF U, D
    <3>8. QED
      BY <3>3, <3>4, <3>5, <3>6, <3>7
  <2>7. CASE n + 1 < j
    <3>1. n < j /\ n <= j /\ j # n /\ j # n + 1 /\ j + 1 # n + 1 /\ ~(j < n + 1)
      BY <2>7
    <3>2. QED
      BY <1>2, <2>3, <3>1
  <2>8. QED
    BY <2>4, <2>5, <2>6, <2>7
<1>14. LeftUpTo(h, f, n + 1, b)
  BY <1>10, <1>11, <1>13, Zenon DEF LeftUpTo
<1>15. QED
  BY <1>14 DEF f


\* What waits for the memory grows by write backs only.
WaitGrows(h, g) ==
  h.wait \subseteq g.wait /\ \A x \in g.wait \ h.wait : x.type = "WRITE" /\ x.bits[0] = {}

\* Block b has left cache K(l) and those above it; it was busy in none of them.
HasLeftFrom(h, g, l, b) ==
  /\ Typed(g) /\ AllHonest(g) /\ g.asserts = h.asserts
  /\ g.mshr = h.mshr /\ g.retry = h.retry /\ g.hit = h.hit /\ WaitGrows(h, g)
  /\ \A j \in 0..2 : /\ j <= l => Emptied(h.sets[K(j)], g.sets[K(j)], b)
                     /\ l < j => Keeps(h.sets[K(j)], g.sets[K(j)])

\* evictBlock takes the block from cache K(l) and all above it, and no other.
LEMMA BlockLeaves ==
  ASSUME OneChain, NEW h, Typed(h), AllHonest(h), Nested(h), NEW l \in 0..2, NEW b \in Tag,
         \A k \in 0..2 : k <= l => ~isBusy(h.sets[K(k)], b)
  PROVE  LeftUpTo(h, evictBlock(h, K(l), b), l + 1, b)
<1> DEFINE c  == K(l)
           e  == CHOOSE e : EvictedUpTo(e, h, c, b)
           x0 == [h |-> h, dirty |-> [x \in Caches |-> FALSE]]
<1>1. c \in Caches /\ Tree(c) = {K(k) : k \in {k \in 0..2 : k <= l}}
  BY Level
<1>2. Len(caches) = 3
  BY DEF OneChain
<1>3. evictBlock(h, c, b) = e[3]
  BY <1>2 DEF evictBlock, EvictedUpTo
<1>4. EvictedUpTo(e, h, c, b)
  BY <1>1, EvictedExists
<1> HIDE DEF e
<1>5. ASSUME NEW i \in 0..3
      PROVE  e[i] = IF i = 0 THEN x0
                    ELSE IF caches[i] \in Tree(c) THEN EvictFrom(e[i - 1], caches[i], b)
                    ELSE e[i - 1]
  BY <1>2, <1>4, EvictedStep
<1>6. LeftUpTo(h, e[0], 0, b)
  BY <1>5, LeftNone
<1>7. ASSUME NEW k \in 0..2
      PROVE  /\ k <= l => e[k + 1] = EvictFrom(e[k], K(k), b)
             /\ l < k => e[k + 1] = e[k]
  <2>1. k + 1 \in 0..3 /\ k + 1 # 0 /\ (k + 1) - 1 = k /\ caches[k + 1] = K(k)
    BY DEF K
  <2>2. e[k + 1] = IF K(k) \in Tree(c) THEN EvictFrom(e[k], K(k), b) ELSE e[k]
    BY <1>5, <2>1
  <2>3. K(k) \in Tree(c) <=> k <= l
    BY <1>1, Level
  <2>4. QED
    BY <2>2, <2>3
<1>8. ASSUME NEW k \in 0..2, k <= l, LeftUpTo(h, e[k], k, b)
      PROVE  LeftUpTo(h, e[k + 1], k + 1, b)
  BY <1>7, <1>8, LeftStep
<1> HIDE DEF c, x0
<1>9. 0 \in 0..2 /\ 1 \in 0..2 /\ 2 \in 0..2 /\ 0 + 1 = 1 /\ 1 + 1 = 2 /\ 2 + 1 = 3 /\ 0 <= l
  OBVIOUS
<1>10. LeftUpTo(h, e[1], 1, b)
  BY <1>6, <1>8, <1>9
<1>11. CASE l = 0
  <2>1. 0 < 1 /\ 0 < 2
    OBVIOUS
  <2>2. e[2] = e[1] /\ e[3] = e[2]
    BY <1>7, <1>9, <1>11, <2>1
  <2>3. QED
    BY <1>3, <1>9, <1>10, <1>11, <2>2 DEF c
<1>12. CASE l = 1
  <2>1. 1 <= 1 /\ 1 < 2
    OBVIOUS
  <2>2. LeftUpTo(h, e[2], 2, b)
    BY <1>8, <1>9, <1>10, <1>12, <2>1
  <2>3. e[3] = e[2]
    BY <1>7, <1>9, <1>12, <2>1
  <2>4. QED
    BY <1>3, <1>9, <1>12, <2>2, <2>3 DEF c
<1>13. CASE l = 2
  <2>1. 1 <= 2 /\ 2 <= 2
    OBVIOUS
  <2>2. LeftUpTo(h, e[2], 2, b)
    BY <1>8, <1>9, <1>10, <1>13, <2>1
  <2>3. LeftUpTo(h, e[3], 3, b)
    BY <1>8, <1>9, <1>13, <2>1, <2>2
  <2>4. QED
    BY <1>3, <1>9, <1>13, <2>3 DEF c
<1>14. QED
  BY <1>11, <1>12, <1>13

\* A block that may leave does so, and is written back if it is dirty: then some
\* copy has dirty sectors.
LEMMA EvictLeaves ==
  ASSUME OneChain, NEW h, Typed(h), AllHonest(h), Nested(h), NEW l \in 0..2, NEW b \in Tag,
         NEW id \in 1..MaxSends, \A k \in 0..2 : k <= l => ~isBusy(h.sets[K(k)], b)
  PROVE  HasLeftFrom(h, evict(h, K(l), b, id), l, b)
<1> DEFINE c       == K(l)
           e       == evictBlock(h, c, b)
           sectors == UNION {getDirtySectors(h.sets[x], b) : x \in Tree(c)}
           U       == UNION {getDirtySectors(h.sets[K(k)], b) : k \in {k \in 0..2 : k <= l}}
           g       == evict(h, c, b, id)
           checked == Asserting(e.h, sectors # {}, "DirtyWithNoDirtySectors")
           W       == {WriteBack(id, b, sectors)}
<1>1. c \in Caches /\ level[c] = l /\ Tree(c) = {K(k) : k \in {k \in 0..2 : k <= l}}
  BY Level
<1>2. LeftUpTo(h, e, l + 1, b)
  BY BlockLeaves
<1>3. Typed(g)
  BY <1>1, EvictShrinks
<1>4. g = IF level[c] = 2 /\ e.dirty[c] THEN [checked EXCEPT !.wait = @ \cup W] ELSE e.h
  BY DEF evict, WriteDirty
<1>5. sectors = U
  BY <1>1
<1>6. /\ Typed(e.h) /\ AllHonest(e.h) /\ SameLists(h, e.h)
      /\ \A j \in 0..2 : /\ j < l + 1 => Emptied(h.sets[K(j)], e.h.sets[K(j)], b)
                         /\ l + 1 <= j => Keeps(h.sets[K(j)], e.h.sets[K(j)])
                         /\ j + 1 = l + 1 /\ e.dirty[K(j)] =>
                              UNION {getDirtySectors(h.sets[K(k)], b) : k \in {k \in 0..2 : k <= j}} # {}
  BY <1>2, Zenon DEF LeftUpTo
<1>7. e.dirty[c] => U # {}
  BY <1>6, Zenon
<1> HIDE DEF e, g, sectors, U
<1>8. \A j \in 0..2 : /\ j <= l => Emptied(h.sets[K(j)], e.h.sets[K(j)], b)
                      /\ l < j => Keeps(h.sets[K(j)], e.h.sets[K(j)])
  <2>1. \A j \in 0..2 : (j <= l => j < l + 1) /\ (l < j => l + 1 <= j)
    OBVIOUS
  <2>2. QED
    BY <1>6, <2>1
<1>9. /\ e.h.mshr = h.mshr /\ e.h.retry = h.retry /\ e.h.wait = h.wait /\ e.h.hit = h.hit
      /\ e.h.asserts = h.asserts
  BY <1>6 DEF SameLists
<1>10. CASE level[c] = 2 /\ e.dirty[c]
  <2>1. checked = e.h
    BY <1>5, <1>7, <1>10 DEF Asserting
  <2>2. g = [e.h EXCEPT !.wait = e.h.wait \cup W]
    BY <1>4, <1>10, <2>1
  <2>3. W \in SUBSET Request
    <3>1. sectors \in SUBSET Sector
      BY <1>6, DirtySectors, <1>1, Level, <1>5, Fields DEF U
    <3>2. QED
      BY <3>1 DEF WriteBack, Request, Tag
  <2>4. \A x \in W : x.type = "WRITE" /\ x.bits[0] = {}
    <3>1. 0 \in 0..3 /\ 0 # 3
      OBVIOUS
    <3>2. QED
      BY <3>1 DEF WriteBack
  <2> HIDE DEF W
  <2>5. /\ g.sets = e.h.sets /\ g.mshr = e.h.mshr /\ g.retry = e.h.retry /\ g.hit = e.h.hit
        /\ g.wait = e.h.wait \cup W /\ g.asserts = e.h.asserts
    <3>1. e.h \in HState
      BY <1>6 DEF Typed
    <3>2. QED
      BY <2>2, <3>1 DEF HState
  <2>6. WaitGrows(h, g)
    BY <1>9, <2>4, <2>5 DEF WaitGrows
  <2>7. AllHonest(g)
    BY <1>6, <2>5 DEF AllHonest
  <2>8. QED
    BY <1>3, <1>8, <1>9, <2>5, <2>6, <2>7 DEF HasLeftFrom, g, c
<1>11. CASE ~(level[c] = 2 /\ e.dirty[c])
  <2>1. g = e.h
    BY <1>4, <1>11
  <2>2. WaitGrows(h, g)
    BY <1>9, <2>1 DEF WaitGrows
  <2>3. QED
    BY <1>3, <1>6, <1>8, <1>9, <2>1, <2>2 DEF HasLeftFrom, g, c
<1>12. QED
  BY <1>10, <1>11

\* What is left is nested as before.
LEMMA LeavesNested ==
  ASSUME OneChain, NEW h, Nested(h), NEW g, NEW l \in 0..2, NEW b \in Tag, HasLeftFrom(h, g, l, b)
  PROVE  Nested(g)
<1> SUFFICES ASSUME NEW k \in 0..1, NEW x \in Tag, isValid(g.sets[K(k)], x)
             PROVE  Held(g.sets[K(k + 1)], x)
  BY DEF Nested
<1>1. k \in 0..2 /\ k + 1 \in 0..2 /\ (~(k <= l) => l < k) /\ (~(k + 1 <= l) => l < k + 1)
      /\ (k + 1 <= l => k <= l)
  OBVIOUS
<1>2. \A j \in 0..2 : /\ j <= l => Emptied(h.sets[K(j)], g.sets[K(j)], b)
                      /\ l < j => Keeps(h.sets[K(j)], g.sets[K(j)])
  BY DEF HasLeftFrom
<1>3. isValid(h.sets[K(k)], x) /\ ~(k <= l /\ x = b)
  BY <1>1, <1>2 DEF Emptied, Keeps
<1>4. Held(h.sets[K(k + 1)], x)
  BY <1>3 DEF Nested
<1>5. ~(k + 1 <= l /\ x = b)
  BY <1>1, <1>3
<1>6. QED
  BY <1>1, <1>2, <1>4, <1>5 DEF Emptied, Keeps, Held

-----------------------------------------------------------------------------
(***************************************************************************)
(* send at one cache of a chain.                                           *)
(***************************************************************************)
\* An MSHR has the sectors it will access, and on behalf of a write one at least.
MarksOK(m) ==
  m.will_be_dirty \subseteq m.sectors \cup m.will_be_used /\ (m.dirty => m.will_be_dirty # {})

\* No assert has failed, and none is about to.
Calm(h) ==
  /\ Typed(h) /\ h.asserts = {} /\ AllHonest(h) /\ Nested(h)
  /\ \A c \in Caches : \A i \in 1..Len(h.mshr[c]) : MarksOK(h.mshr[c][i])

\* The hierarchy between two calls
Sound(h) == HOK(h) /\ Calm(h)

\* Two lists of MSHRs that wait for the same
SameWaits(m, n) ==
  Len(n) = Len(m) /\ \A i \in 1..Len(m) : n[i].block = m[i].block /\ n[i].sectors = m[i].sectors

\* n has one MSHR more, for sectors S of block b.
Joined(m, n, b, S) ==
  /\ Len(n) = Len(m) + 1
  /\ \A i \in 1..Len(m) : n[i].block = m[i].block /\ n[i].sectors = m[i].sectors
  /\ n[Len(m) + 1].block = b /\ n[Len(m) + 1].sectors = S

\* What is in use below a block that L1 waits for stays in use.
HeldStays(h, g) ==
  \A l \in 0..2, b \in Tag :
     Held(h.sets[K(l)], b) /\ isBusy(h.sets[K(0)], b) => Held(g.sets[K(l)], b)

\* A call that changes neither what MSHRs wait for nor the lists
Stays(h, g) ==
  /\ HeldStays(h, g) /\ (\A c \in Caches : SameWaits(h.mshr[c], g.mshr[c]))
  /\ g.retry = h.retry /\ g.wait = h.wait

\* The request r becomes when a cache asks for sectors S of level k
Below(r, k, S) == [r EXCEPT !.bits = [r.bits EXCEPT ![k] = S], !.type = "READ"]

\* The same request as Fetch makes it, without a prediction
AskFor(r, k, S) == [r EXCEPT !.bits[k] = S, !.bits[0] = @ \cup {}, !.type = "READ"]

LEMMA BelowIs ==
  ASSUME NEW r \in Request, NEW k \in 1..3, NEW S \in SUBSET Sector
  PROVE  LET q == Below(r, k, S)
         IN  /\ AskFor(r, k, S) = q
             /\ q \in Request /\ q.block = r.block /\ q.actual = r.actual /\ q.hit = r.hit
             /\ q.type = "READ" /\ q.bits[k] = S /\ \A j \in 0..3 : j # k => q.bits[j] = r.bits[j]
<1> DEFINE old  == [r.bits EXCEPT ![k] = S]
           bits == [old EXCEPT ![0] = r.bits[0] \cup {}]
           asked == [r EXCEPT !.bits[k] = S, !.bits[0] = @ \cup {}, !.type = "READ"]
<1>1. k \in 0..3 /\ k # 0 /\ 0 \in 0..3
  OBVIOUS
<1>2. asked = [r EXCEPT !.bits = bits, !.type = "READ"]
  <2> DEFINE q == [r EXCEPT !.bits[k] = S]
  <2>1. q = [r EXCEPT !.bits = old] /\ r \in Request
    OBVIOUS
  <2> HIDE DEF old
  <2>2. q = [q EXCEPT !.bits = old] /\ q.bits = old
    BY <2>1, Zenon DEF Request
  <2>3. asked = [q EXCEPT !.bits[0] = r.bits[0] \cup {}, !.type = "READ"]
    OBVIOUS
  <2> HIDE DEF q, asked
  <2>4. asked = [q EXCEPT !.bits = bits, !.type = "READ"]
    BY <2>2, <2>3
  <2>5. QED
    BY <2>1, <2>4, Zenon DEF Request
<1>3. r.bits \in [0..3 -> SUBSET Sector]
  BY RequestFields
<1>4. old \in [0..3 -> SUBSET Sector] /\ old[k] = S /\ \A j \in 0..3 : j # k => old[j] = r.bits[j]
  BY <1>1, <1>3
<1>5. bits = old
  <2>1. r.bits[0] \cup {} = old[0]
    BY <1>1, <1>4
  <2> HIDE DEF old
  <2>2. QED
    BY <1>1, <1>4, <2>1
<1>6. asked = Below(r, k, S)
  BY <1>2, <1>5, Zenon DEF Below
<1> DEFINE q == Below(r, k, S)
<1>7. q = [r EXCEPT !.bits = old, !.type = "READ"]
  BY DEF Below
<1> HIDE DEF old, q, asked, bits
<1>8. /\ q \in Request /\ q.block = r.block /\ q.actual = r.actual /\ q.hit = r.hit
      /\ q.type = "READ" /\ q.bits = old
  BY <1>4, <1>7, Zenon DEF Request
<1>9. QED
  BY <1>4, <1>6, <1>8 DEF asked, q, AskFor

\* A call that uses the set of one cache only
LEMMA OnlySetCalm ==
  ASSUME OneChain, NEW h, Calm(h), NEW c \in Caches, NEW g, Typed(g), OnlySet(h, g, c),
         Keeps(h.sets[c], g.sets[c]), Honest(g.sets[c], {})
  PROVE  /\ Calm(g) /\ Stays(h, g) /\ g.hit = h.hit /\ g.mshr = h.mshr
         /\ \A x \in Caches : Keeps(h.sets[x], g.sets[x])
<1>1. /\ g.mshr = h.mshr /\ g.retry = h.retry /\ g.wait = h.wait /\ g.hit = h.hit
      /\ g.asserts = h.asserts /\ \A x \in Caches : x # c => g.sets[x] = h.sets[x]
  BY DEF OnlySet
<1>2. \A x \in Caches : Keeps(h.sets[x], g.sets[x])
  BY <1>1 DEF Keeps
<1>3. \A x \in Caches : \A b \in Tag : /\ isValid(g.sets[x], b) <=> isValid(h.sets[x], b)
                                       /\ Held(g.sets[x], b) <=> Held(h.sets[x], b)
  BY <1>2 DEF Keeps, Held
<1>4. AllHonest(g)
  BY <1>1 DEF AllHonest, Calm
<1>5. Nested(g)
  <2>1. \A l \in 0..1 : K(l) \in Caches /\ K(l + 1) \in Caches
    BY Level
  <2>2. QED
    BY <1>3, <2>1 DEF Nested, Calm
<1>6. HeldStays(h, g)
  BY <1>3, Level DEF HeldStays
<1>7. \A x \in Caches : SameWaits(h.mshr[x], g.mshr[x])
  BY <1>1 DEF SameWaits
<1>8. QED
  BY <1>1, <1>2, <1>4, <1>5, <1>6, <1>7 DEF Calm, Stays

\* An access to sectors that are there leaves the hierarchy calm.
LEMMA AccessCalm ==
  ASSUME OneChain, NEW h, Calm(h), NEW c \in Caches, NEW b \in Tag, NEW sectors \in SUBSET Sector,
         NEW isWrite \in BOOLEAN, accessAsserts(h.sets[c], b, sectors)
  PROVE  LET g == Access(h, c, b, sectors, isWrite)
         IN  /\ Calm(g) /\ Stays(h, g) /\ g.hit = h.hit
             /\ \A x \in Caches : Keeps(h.sets[x], g.sets[x])
<1> DEFINE g == Access(h, c, b, sectors, isWrite)
<1>1. Typed(h) /\ Honest(h.sets[c], {})
  BY DEF Calm, AllHonest
<1>2. Typed(g) /\ OnlySet(h, g, c) /\ Filled(h.sets[c], g.sets[c], b, {}, sectors, isWrite, {})
  BY <1>1, AccessFills
<1> HIDE DEF g
<1>3. Keeps(h.sets[c], g.sets[c]) /\ Honest(g.sets[c], {})
  BY <1>2 DEF Filled
<1>4. QED
  BY <1>2, <1>3, OnlySetCalm DEF g

\* So does one that brings its sectors along,
LEMMA FillAccessCalm ==
  ASSUME OneChain, NEW h, Calm(h), NEW c \in Caches, NEW r \in Request, HasTag(h.sets[c], r.block)
  PROVE  LET g == FillAccess(h, c, r)
         IN  /\ Calm(g) /\ Stays(h, g) /\ g.hit = h.hit
             /\ \A x \in Caches : Keeps(h.sets[x], g.sets[x])
<1> DEFINE g == FillAccess(h, c, r)
           b == r.block
           S == r.actual
           w == r.type = "WRITE"
<1>1. Typed(h) /\ Honest(h.sets[c], {}) /\ b \in Tag /\ S \in SUBSET Sector /\ w \in BOOLEAN
  BY RequestFields DEF Calm, AllHonest
<1>2. g = Access(Fill(h, c, b, S), c, b, S, w)
  BY DEF FillAccess
<1> HIDE DEF g, w, S
<1>3. S \subseteq getSectorBits(h.sets[c], b) \cup S
  OBVIOUS
<1>4. Typed(g) /\ OnlySet(h, g, c) /\ Filled(h.sets[c], g.sets[c], b, S, S, w, {})
  BY <1>1, <1>2, <1>3, FillAccessFills, Zenon
<1>5. Keeps(h.sets[c], g.sets[c]) /\ Honest(g.sets[c], {})
  BY <1>4 DEF Filled
<1>6. QED
  BY <1>4, <1>5, OnlySetCalm DEF g

\* and a hit.
LEMMA HitCalm ==
  ASSUME OneChain, NEW h, Calm(h), NEW c \in Caches, NEW r \in Request
  PROVE  LET g == HitAt(h, c, r)
         IN  /\ Calm(g) /\ Stays(h, g) /\ g.sets = h.sets
             /\ g.hit = Append(h.hit, [r EXCEPT !.hit = level[c]])
<1> DEFINE g == HitAt(h, c, r)
           q == Append(h.hit, [r EXCEPT !.hit = level[c]])
<1>1. g = [h EXCEPT !.hit = q] /\ h \in HState
  BY DEF HitAt, Calm, Typed
<1>2. Typed(g)
  BY HitSame DEF Calm
<1> HIDE DEF g, q
<1>3. g.hit = q /\ g.sets = h.sets /\ g.mshr = h.mshr /\ g.retry = h.retry /\ g.wait = h.wait
      /\ g.asserts = h.asserts
  BY <1>1 DEF HState
<1>4. Calm(g)
  BY <1>2, <1>3 DEF Calm, AllHonest, Nested
<1>5. Stays(h, g)
  BY <1>3 DEF Stays, HeldStays, SameWaits
<1>6. QED
  BY <1>3, <1>4, <1>5 DEF g, q

LEMMA SameKeeps ==
  ASSUME NEW s
  PROVE  Keeps(s, s)
BY DEF Keeps

LEMMA StaysComposes ==
  ASSUME OneChain, NEW h, NEW g, NEW k, Stays(h, g), Stays(g, k), Keeps(h.sets[K(0)], g.sets[K(0)])
  PROVE  Stays(h, k)
<1>1. HeldStays(h, k)
  <2> SUFFICES ASSUME NEW l \in 0..2, NEW b \in Tag,
                      Held(h.sets[K(l)], b), isBusy(h.sets[K(0)], b)
               PROVE  Held(k.sets[K(l)], b)
    BY DEF HeldStays
  <2>1. Held(g.sets[K(l)], b) /\ isBusy(g.sets[K(0)], b)
    BY DEF Stays, HeldStays, Keeps
  <2>2. QED
    BY <2>1 DEF Stays, HeldStays
<1>2. ASSUME NEW c \in Caches
      PROVE  SameWaits(h.mshr[c], k.mshr[c])
  BY DEF Stays, SameWaits
<1>3. QED
  BY <1>1, <1>2 DEF Stays

\* MSHRs that are marked wait for the same.
LEMMA MarkCalm ==
  ASSUME OneChain, NEW h, Calm(h), NEW c \in Caches, NEW r \in Request,
         r.type = "WRITE" => r.actual # {}, HOK(h)
  PROVE  LET g == MarkMshrs(h, c, r)
         IN  /\ Calm(g) /\ Stays(h, g) /\ g.sets = h.sets /\ g.hit = h.hit
             /\ \A x \in Caches : x # c => g.mshr[x] = h.mshr[x]
<1> DEFINE covers == {i \in Matching(h, c, r.block) : Wanted(c, r) \subseteq h.mshr[c][i].sectors}
           reached == {i \in Matching(h, c, r.block) : \A j \in covers : i <= j}
           write  == r.type = "WRITE"
           added == IF write THEN r.actual ELSE {}
           mark(m) == [m EXCEPT !.dirty = @ \/ write,
                                !.will_be_dirty = @ \cup added,
                                !.will_be_used = @ \cup r.actual]
           q == h.mshr[c]
           m == [i \in 1..Len(q) |-> IF i \in reached THEN mark(q[i]) ELSE q[i]]
           g == MarkMshrs(h, c, r)
<1>1. g = [h EXCEPT !.mshr[c] = m]
  BY DEF MarkMshrs
<1>2. q \in Seq(mshr_entry_type) /\ Len(q) \in Nat /\ h.mshr \in [Caches -> Seq(mshr_entry_type)]
      /\ h \in HState
  BY Fields DEF HOK, Typed
<1>3. write \in BOOLEAN /\ added \in SUBSET Sector /\ r.actual \in SUBSET Sector
      /\ added \subseteq r.actual /\ (write => added # {})
  BY RequestFields
<1>4. HOK(g) /\ g.sets = h.sets
  BY MshrsMarked
<1>5. \A i \in 1..Len(q) : MarksOK(q[i])
  BY DEF Calm
<1> HIDE DEF write, added, reached, covers, g
<1>6. ASSUME NEW i \in 1..Len(q)
      PROVE  mark(q[i]).block = q[i].block /\ mark(q[i]).sectors = q[i].sectors /\ MarksOK(mark(q[i]))
  <2> DEFINE w == q[i]
             v == mark(w)
  <2>1. w \in mshr_entry_type /\ MarksOK(w)
    BY <1>2, <1>5
  <2> HIDE DEF w
  <2>2. /\ v.block = w.block /\ v.sectors = w.sectors /\ v.dirty = (w.dirty \/ write)
        /\ v.will_be_dirty = w.will_be_dirty \cup added /\ v.will_be_used = w.will_be_used \cup r.actual
    BY <2>1 DEF mshr_entry_type
  <2>3. w.will_be_dirty \subseteq w.sectors \cup w.will_be_used /\ (w.dirty => w.will_be_dirty # {})
    BY <2>1 DEF MarksOK
  <2> HIDE DEF v
  <2>4. MarksOK(v)
    BY <1>3, <2>2, <2>3 DEF MarksOK
  <2>5. QED
    BY <2>2, <2>4 DEF v, w
<1> HIDE DEF mark
<1>7. Len(m) = Len(q) /\ \A i \in 1..Len(q) :
         m[i].block = q[i].block /\ m[i].sectors = q[i].sectors /\ MarksOK(m[i])
  BY <1>2, <1>5, <1>6
<1> HIDE DEF m
<1>8. /\ g.mshr = [h.mshr EXCEPT ![c] = m] /\ g.retry = h.retry /\ g.wait = h.wait /\ g.hit = h.hit
      /\ g.asserts = h.asserts
  BY <1>1, <1>2 DEF HState
<1>9. g.mshr[c] = m /\ \A x \in Caches : x # c => g.mshr[x] = h.mshr[x]
  BY <1>2, <1>8
<1>10. Calm(g)
  <2>1. ASSUME NEW x \in Caches
        PROVE  \A i \in 1..Len(g.mshr[x]) : MarksOK(g.mshr[x][i])
    <3>1. CASE x = c
      BY <1>7, <1>9, <3>1
    <3>2. CASE x # c
      BY <1>9, <3>2 DEF Calm
    <3>3. QED
      BY <3>1, <3>2
  <2>2. QED
    BY <1>4, <1>8, <2>1 DEF Calm, AllHonest, Nested, HOK
<1>11. Stays(h, g)
  <2>1. ASSUME NEW x \in Caches
        PROVE  SameWaits(h.mshr[x], g.mshr[x])
    <3>1. CASE x = c
      BY <1>7, <1>9, <3>1 DEF SameWaits, q
    <3>2. CASE x # c
      BY <1>9, <3>2 DEF SameWaits
    <3>3. QED
      BY <3>1, <3>2
  <2>2. QED
    BY <1>4, <1>8, <2>1 DEF Stays, HeldStays
<1>12. QED
  BY <1>4, <1>8, <1>9, <1>10, <1>11 DEF g

\* What is wanted and waited for is the same while MSHRs wait for the same.
LEMMA SameRemaining ==
  ASSUME NEW h, NEW g, NEW c \in Caches, SameWaits(h.mshr[c], g.mshr[c]), NEW r
  PROVE  /\ Matching(g, c, r.block) = Matching(h, c, r.block)
         /\ Remaining(g, c, r) = Remaining(h, c, r) /\ (MshrFull(g, c) <=> MshrFull(h, c))
<1> DEFINE b == r.block
<1>1. Len(g.mshr[c]) = Len(h.mshr[c]) /\ \A i \in 1..Len(h.mshr[c]) :
         g.mshr[c][i].block = h.mshr[c][i].block /\ g.mshr[c][i].sectors = h.mshr[c][i].sectors
  BY DEF SameWaits
<1>2. Matching(g, c, b) = Matching(h, c, b)
  BY <1>1 DEF Matching
<1>3. \A i \in Matching(h, c, b) : g.mshr[c][i].sectors = h.mshr[c][i].sectors
  BY <1>1 DEF Matching
<1>4. UNION {g.mshr[c][i].sectors : i \in Matching(g, c, b)} = UNION {h.mshr[c][i].sectors : i \in Matching(h, c, b)}
  BY <1>2, <1>3
<1>5. QED
  BY <1>1, <1>2, <1>4, Zenon DEF Remaining, MshrFull

\* Cache c asks for sectors S of the block of r.
Asked(h, g, l, r, S) ==
  /\ S # {} /\ S \subseteq Wanted(K(l), r)
  /\ \A i \in Matching(h, K(l), r.block) : S \cap h.mshr[K(l)][i].sectors = {}
  /\ HeldStays(h, g) /\ Joined(h.mshr[K(l)], g.mshr[K(l)], r.block, S)
  /\ \A c \in Caches : c # K(l) => g.mshr[c] = h.mshr[c]
  /\ g.retry = h.retry /\ g.hit = h.hit /\ WaitGrows(h, g)

\* What Fetch returns
Fetched(h, res, l, r, S) ==
  /\ res.ok = TRUE /\ res.ask = <<Below(r, l + 1, S)>>
  /\ Calm(res.h) /\ res.h.sets = h.sets /\ res.h.retry = h.retry /\ res.h.wait = h.wait
  /\ res.h.hit = h.hit /\ Joined(h.mshr[K(l)], res.h.mshr[K(l)], r.block, S)
  /\ \A c \in Caches : c # K(l) => res.h.mshr[c] = h.mshr[c]

\* A new MSHR brings the sectors the request asks the level below for.
LEMMA FetchCalm ==
  ASSUME OneChain, NEW l \in 0..2, NEW h, Calm(h), NEW r \in Request, r.block \in Block,
         ~MshrFull(h, K(l)), NEW S \in SUBSET Sector, S # {}, NEW dirty \in BOOLEAN,
         NEW D, D \subseteq S, dirty => D # {}
  PROVE  Fetched(h, Fetch(h, K(l), r, S, {}, dirty, D), l, r, S)
<1> DEFINE c == K(l)
           entry == [block |-> r.block, sectors |-> S, dirty |-> dirty,
                     will_be_used |-> {}, will_be_dirty |-> D]
           asked == [r EXCEPT !.bits[level[c] + 1] = S, !.bits[0] = @ \cup {}, !.type = "READ"]
           q == h.mshr[c]
           m == Append(q, entry)
           g == [h EXCEPT !.mshr[c] = m]
           res == Fetch(h, c, r, S, {}, dirty, D)
<1>0. c \in Caches /\ level[c] = l /\ l + 1 \in 1..3
  BY Level
<1>1. res = [h |-> g, ok |-> TRUE, ask |-> <<asked>>]
  BY DEF Fetch, Asserting
<1>2. q \in Seq(mshr_entry_type) /\ Len(q) <= mshr_entry_num[c] /\ mshr_entry_num[c] \in Nat
      /\ h.mshr \in [Caches -> Seq(mshr_entry_type)] /\ h \in HState /\ Typed(h)
  BY <1>0, Fields, Numbers DEF Calm, Typed
<1>3. entry \in mshr_entry_type /\ entry.block = r.block /\ entry.sectors = S /\ MarksOK(entry)
  BY DEF mshr_entry_type, MarksOK
<1>4. asked = Below(r, l + 1, S)
  <2> DEFINE k == l + 1
  <2>1. asked = AskFor(r, k, S) /\ k \in 1..3
    BY <1>0 DEF AskFor
  <2> HIDE DEF asked, k
  <2>2. asked = Below(r, k, S)
    BY <2>1, BelowIs
  <2>3. QED
    BY <2>2 DEF k
<1> HIDE DEF entry, asked, q, res
<1>5. m \in Seq(mshr_entry_type) /\ Len(m) = Len(q) + 1 /\ Len(q) \in Nat
      /\ m[Len(q) + 1] = entry /\ \A i \in 1..Len(q) : m[i] = q[i]
  BY <1>2, <1>3
<1>6. Len(m) <= mshr_entry_num[c]
  <2>1. Len(q) # mshr_entry_num[c]
    BY DEF MshrFull, q
  <2>2. QED
    BY <1>2, <1>5, <2>1
<1> HIDE DEF m
<1>7. /\ Typed(g) /\ g.mshr = [h.mshr EXCEPT ![c] = m] /\ g.sets = h.sets /\ g.retry = h.retry
      /\ g.wait = h.wait /\ g.hit = h.hit /\ g.asserts = h.asserts
  BY <1>0, <1>2, <1>5, <1>6, PutMshr
<1> HIDE DEF g
<1>8. g.mshr[c] = m /\ \A x \in Caches : x # c => g.mshr[x] = h.mshr[x]
  BY <1>0, <1>2, <1>7
<1>9. ASSUME NEW x \in Caches, NEW i \in 1..Len(g.mshr[x])
      PROVE  MarksOK(g.mshr[x][i])
  <2>1. CASE x = c
    <3>1. i \in 1..Len(q) \/ i = Len(q) + 1
      BY <1>5, <1>8, <2>1
    <3>2. QED
      BY <1>0, <1>3, <1>5, <1>8, <2>1, <3>1, Zenon DEF q, Calm
  <2>2. CASE x # c
    BY <1>8, <2>2 DEF Calm
  <2>3. QED
    BY <2>1, <2>2
<1>10. Calm(g)
  BY <1>7, <1>9 DEF Calm, AllHonest, Nested
<1>11. Joined(q, m, r.block, S)
  BY <1>3, <1>5 DEF Joined
<1>12. res.h = g /\ res.ok = TRUE /\ res.ask = <<asked>>
  BY <1>1
<1>13. QED
  BY <1>4, <1>7, <1>8, <1>10, <1>11, <1>12, Zenon DEF q, res, Fetched

\* A way is free, or is made free.
Freed(h, f, l, v) ==
  /\ Typed(f) /\ Calm(f) /\ Shrunk(h, f) /\ HeldStays(h, f) /\ ~isValid(f.sets[K(l)], v)
  /\ f.mshr = h.mshr /\ f.retry = h.retry /\ f.hit = h.hit /\ WaitGrows(h, f)

\* evict frees the way of the victim (Cache.cpp:923-958),
LEMMA FreedIs ==
  ASSUME OneChain, NEW h, Calm(h), NEW l \in 0..2, NEW v \in Tag, NEW id \in 1..MaxSends,
         evictable(h, K(l), v)
  PROVE  Freed(h, evict(h, K(l), v, id), l, v)
<1> DEFINE c == K(l)
           f == evict(h, c, v, id)
<1>1. c \in Caches /\ Tree(c) = {K(k) : k \in {k \in 0..2 : k <= l}} /\ 0 \in 0..2 /\ 0 <= l /\ l <= l
  BY Level
<1>2. Typed(h) /\ AllHonest(h) /\ Nested(h) /\ h.asserts = {}
  BY DEF Calm
<1>3. \A k \in 0..2 : k <= l => ~isBusy(h.sets[K(k)], v)
  <2> SUFFICES ASSUME NEW k \in 0..2, k <= l
               PROVE  ~isBusy(h.sets[K(k)], v)
    OBVIOUS
  <2>1. K(k) \in Tree(c)
    BY <1>1
  <2>2. QED
    BY <2>1 DEF evictable, canEvict
<1>4. HasLeftFrom(h, f, l, v)
  BY <1>2, <1>3, EvictLeaves
<1>5. Typed(f) /\ Shrunk(h, f)
  BY <1>1, <1>2, EvictShrinks
<1> HIDE DEF f
<1>6. Nested(f)
  BY <1>2, <1>4, LeavesNested
<1>7. /\ Typed(f) /\ AllHonest(f) /\ f.asserts = h.asserts
      /\ f.mshr = h.mshr /\ f.retry = h.retry /\ f.hit = h.hit /\ WaitGrows(h, f)
      /\ \A j \in 0..2 : /\ j <= l => Emptied(h.sets[K(j)], f.sets[K(j)], v)
                         /\ l < j => Keeps(h.sets[K(j)], f.sets[K(j)])
  BY <1>4 DEF HasLeftFrom
<1>8. Calm(f)
  BY <1>2, <1>6, <1>7 DEF Calm
<1>9. HeldStays(h, f)
  <2> SUFFICES ASSUME NEW k \in 0..2, NEW b \in Tag,
                      Held(h.sets[K(k)], b), isBusy(h.sets[K(0)], b)
               PROVE  Held(f.sets[K(k)], b)
    BY DEF HeldStays
  <2>1. b # v
    BY <1>1, <1>3
  <2>2. k <= l \/ l < k
    OBVIOUS
  <2>3. QED
    BY <1>7, <2>1, <2>2 DEF Emptied, Keeps, Held
<1>10. ~isValid(f.sets[c], v)
  BY <1>1, <1>7 DEF Emptied
<1>11. QED
  BY <1>5, <1>7, <1>8, <1>9, <1>10 DEF Freed, f

\* and a way that is not in use is free as it is.
LEMMA FreeAlready ==
  ASSUME OneChain, NEW h, Calm(h), NEW l \in 0..2, NEW v, ~isValid(h.sets[K(l)], v)
  PROVE  Freed(h, h, l, v)
BY SameItself, SameIsLess DEF Freed, HeldStays, WaitGrows, Calm

\* The way is given to the block of r.
LEMMA PlacedCalm ==
  ASSUME OneChain, NEW h, Sound(h), NEW l \in 0..2, NEW r \in Request, r.block \in Block,
         ~Waited(h.mshr[K(l)], r.block), ~isValid(h.sets[K(l)], r.block),
         NEW v \in Tag, HasTag(h.sets[K(l)], v), ~isBusy(h.sets[K(l)], v), NEW f, Freed(h, f, l, v)
  PROVE  LET g == [f EXCEPT !.sets[K(l)] = makeBusy(insert(@, v, r.block), r.block)]
         IN  /\ Calm(g) /\ HeldStays(h, g)
             /\ g.mshr = h.mshr /\ g.retry = h.retry /\ g.hit = h.hit /\ WaitGrows(h, g)
<1> DEFINE c == K(l)
           b == r.block
           s == f.sets[c]
           t == makeBusy(insert(s, v, b), b)
           g == [f EXCEPT !.sets[c] = makeBusy(insert(@, v, b), b)]
<1>1. c \in Caches /\ level[c] = l /\ b \in Tag
  BY Level DEF Tag
<1>2. /\ Typed(f) /\ Calm(f) /\ Shrunk(h, f) /\ HeldStays(h, f) /\ ~isValid(s, v)
      /\ f.mshr = h.mshr /\ f.retry = h.retry /\ f.hit = h.hit /\ WaitGrows(h, f)
  BY DEF Freed
<1>3. nWays[c] \in Nat /\ nWays[c] > 1 /\ SetOK(nWays[c], s)
  BY <1>1, <1>2, Fields, Numbers
<1>4. ~isBusy(h.sets[c], b)
  BY <1>1 DEF Sound, HOK, Matched
<1>5. HasTag(s, v) /\ ~isBusy(s, v) /\ ~isBusy(s, b) /\ ~isValid(s, b)
  BY <1>1, <1>2, <1>4 DEF Shrunk, Less
<1>6. g = [f EXCEPT !.sets[c] = t]
  OBVIOUS
<1>7. Honest(s, {}) /\ f.asserts = {} /\ AllHonest(f) /\ Nested(f)
  BY <1>1, <1>2 DEF Calm, AllHonest
<1> HIDE DEF s
<1>8. SetOK(nWays[c], t) /\ \A x \in Tag : /\ isBusy(t, x) <=> x = b \/ isBusy(s, x)
                                           /\ isValid(t, x) <=> isValid(s, x)
  BY <1>1, <1>2, <1>3, <1>5, InsertUses
<1>9. Honest(t, {})
  BY <1>1, <1>2, <1>3, <1>5, <1>7, InsertHonest
<1> HIDE DEF t, g
<1>10. Typed(g) /\ OnlySet(f, g, c) /\ g.sets[c] = t
  <2> HIDE DEF c
  <2>1. Typed(f) /\ c \in Caches /\ SetOK(nWays[c], t)
    BY <1>1, <1>2, <1>8
  <2>2. QED
    BY <1>6, <2>1, PutOnlySet
<1>11. /\ g.mshr = f.mshr /\ g.retry = f.retry /\ g.wait = f.wait /\ g.hit = f.hit /\ g.asserts = f.asserts
       /\ \A x \in Caches : x # c => g.sets[x] = f.sets[x]
  BY <1>10 DEF OnlySet
<1>12. ASSUME NEW k \in 0..2, NEW x \in Tag
       PROVE  /\ isValid(g.sets[K(k)], x) <=> isValid(f.sets[K(k)], x)
              /\ Held(f.sets[K(k)], x) => Held(g.sets[K(k)], x)
  <2>1. K(k) \in Caches
    BY Level
  <2>2. CASE K(k) = c
    BY <1>8, <1>10, <2>2 DEF Held, s
  <2>3. CASE K(k) # c
    BY <1>11, <2>1, <2>3
  <2>4. QED
    BY <2>2, <2>3
<1>13. AllHonest(g)
  BY <1>7, <1>9, <1>10, <1>11 DEF AllHonest
<1>14. Nested(g)
  <2>1. \A k \in 0..1 : k \in 0..2 /\ k + 1 \in 0..2
    OBVIOUS
  <2>2. QED
    BY <1>7, <1>12, <2>1 DEF Nested
<1>15. Calm(g)
  BY <1>2, <1>7, <1>10, <1>11, <1>13, <1>14 DEF Calm
<1>16. HeldStays(h, g)
  BY <1>2, <1>12 DEF HeldStays
<1>17. WaitGrows(h, g)
  BY <1>2, <1>11 DEF WaitGrows
<1>18. QED
  BY <1>2, <1>11, <1>15, <1>16, <1>17 DEF g

(***************************************************************************)
(* What a call of send at cache K(l) may do with request r.                *)
(***************************************************************************)
Refused(h, res) == res.ok = FALSE /\ res.ask = << >> /\ Stays(h, res.h) /\ res.h.hit = h.hit

\* MSHRs bring what r asks for, or r is a write that brings it itself.
Swallowed(h, res, l, r) ==
  /\ res.ok = TRUE /\ res.ask = << >> /\ Stays(h, res.h) /\ res.h.hit = h.hit
  /\ r.type = "WRITE" \/ CoveredByMshrs(h, K(l), r)

\* r waits in hit_list.
Hits(h, res, l, r) ==
  /\ res.ok = TRUE /\ res.ask = << >> /\ Stays(h, res.h) /\ Held(res.h.sets[K(l)], r.block)
  /\ res.h.hit = Append(h.hit, [r EXCEPT !.hit = l])

\* r goes on as a request for what is missing.
Asks(h, res, l, r) ==
  res.ok = TRUE /\ \E S \in SUBSET Sector : res.ask = <<Below(r, l + 1, S)>> /\ Asked(h, res.h, l, r, S)

\* These are all.
Outcome(h, res, l, r) ==
  Calm(res.h) /\ (Refused(h, res) \/ Swallowed(h, res, l, r) \/ Hits(h, res, l, r) \/ Asks(h, res, l, r))

\* A request that comes to cache K(l): a write accesses some sector of what it asks for.
Coming(h, l, r) ==
  /\ Sound(h) /\ l \in 0..2 /\ r \in Request /\ r.block \in Block
  /\ Wanted(K(l), r) # {} /\ (r.type = "WRITE" => Wanted(K(l), r) \cap r.actual # {})

LEMMA StaysItself ==
  ASSUME NEW h
  PROVE  Stays(h, h)
BY DEF Stays, HeldStays, SameWaits

\* The block misses and nothing brings it (Cache.cpp:453-595).
LEMMA MissWithoutMshrOutcome ==
  ASSUME OneChain, NEW h, NEW l, NEW r, Coming(h, l, r), Matching(h, K(l), r.block) = {},
         ~isValid(h.sets[K(l)], r.block)
  PROVE  Outcome(h, MissWithoutMshr(h, K(l), r, {}), l, r)
<1> DEFINE c        == K(l)
           b        == r.block
           set      == h.sets[c]
           v        == findVictim(set)
           empty    == ~isValid(set, v) /\ ~isBusy(set, v)
           mayEvict == evictable(h, c, v) /\ ~isBusy(set, v)
           freed    == IF empty THEN h ELSE evict(h, c, v, r.id)
           placed   == [freed EXCEPT !.sets[c] = makeBusy(insert(@, v, b), b)]
           checked  == Asserting(placed, ~isValid(placed.sets[c], b) /\ isBusy(placed.sets[c], b),
                                 "NotValidAndBusyExpected")
           S        == Wanted(c, r)
           D        == (S \cup {}) \cap r.actual
           write    == r.type = "WRITE"
           res      == MissWithoutMshr(h, c, r, {})
<1>0. /\ Sound(h) /\ l \in 0..2 /\ r \in Request /\ b \in Block
      /\ S # {} /\ (write => S \cap r.actual # {})
  BY DEF Coming
<1>1. c \in Caches /\ level[c] = l
  BY <1>0, Level
<1>2. b \in Tag /\ ~Waited(h.mshr[c], b)
  BY <1>0 DEF Tag, Matching, Waited
<1>3. ~isBusy(set, b)
  BY <1>0, <1>1, <1>2 DEF Sound, HOK, Matched
<1>4. res = IF ~(empty \/ mayEvict) \/ MshrFull(h, c) THEN Refuse(h)
            ELSE Fetch(checked, c, r, S \cup {}, {}, write, D)
  BY <1>3 DEF MissWithoutMshr, Placed
<1>5. ~(empty \/ mayEvict) \/ MshrFull(h, c) => Outcome(h, res, l, r)
  <2> SUFFICES ASSUME res = Refuse(h)
               PROVE  Outcome(h, res, l, r)
    BY <1>4
  <2>1. res.ok = FALSE /\ res.ask = << >> /\ res.h = h
    BY DEF Refuse
  <2> HIDE DEF res
  <2>2. QED
    BY <1>0, <2>1, StaysItself DEF Outcome, Refused, Sound
<1>6. ASSUME empty \/ mayEvict, ~MshrFull(h, c)
      PROVE  Outcome(h, res, l, r)
  <2>1. nWays[c] \in Nat /\ SetOK(nWays[c], set) /\ Calm(h)
    BY <1>0, <1>1, Fields, Numbers DEF Sound, HOK
  <2>2. v \in Tag /\ HasTag(set, v) /\ ~isBusy(set, v)
    BY <1>6, <2>1, VictimIs
  <2>3. r.id \in 1..MaxSends
    BY <1>0, RequestFields
  <2> HIDE DEF v
  <2>4. Freed(h, freed, l, v)
    <3>1. CASE empty
      BY <1>0, <2>1, <3>1, FreeAlready
    <3>2. CASE ~empty
      <4>1. evictable(h, c, v)
        BY <1>6, <3>2
      <4>2. freed = evict(h, c, v, r.id)
        BY <3>2
      <4> HIDE DEF freed
      <4>3. QED
        BY <1>0, <2>1, <2>2, <2>3, <4>1, <4>2, FreedIs
    <3>3. QED
      BY <3>1, <3>2
  <2> HIDE DEF freed
  <2>5. /\ Calm(placed) /\ HeldStays(h, placed)
        /\ placed.mshr = h.mshr /\ placed.retry = h.retry /\ placed.hit = h.hit /\ WaitGrows(h, placed)
    BY <1>0, <1>2, <2>2, <2>4, PlacedCalm, Zenon
  <2>6. /\ \A x \in Tag : isBusy(placed.sets[c], x) <=> x = b \/ Waited(placed.mshr[c], x)
        /\ ~isValid(placed.sets[c], b)
    <3>1. Typed(freed) /\ Shrunk(h, freed) /\ ~isValid(freed.sets[c], v) /\ HOK(h)
      BY <1>0, <2>4 DEF Freed, Sound
    <3>2. QED
      BY <1>0, <1>1, <1>2, <2>2, <3>1, PlacedIs, ZenonT(60)
  <2> HIDE DEF placed
  <2>7. checked = placed
    BY <1>2, <2>6 DEF Asserting
  <2> HIDE DEF checked
  <2>8. S \cup {} = S /\ S \in SUBSET Sector /\ D \in SUBSET S /\ (write => D # {}) /\ write \in BOOLEAN
    <3>1. S \in SUBSET Sector
      BY <1>0, <1>1, WantedIn
    <3> HIDE DEF S
    <3>2. QED
      BY <1>0, <3>1
  <2>9. res = Fetch(placed, c, r, S, {}, write, D)
    BY <1>4, <1>6, <2>7, <2>8
  <2>10. ~MshrFull(placed, c)
    BY <1>6, <2>5 DEF MshrFull
  <2> HIDE DEF res, D, S, write
  <2>11. /\ res.ok = TRUE /\ res.ask = <<Below(r, l + 1, S)>>
         /\ Calm(res.h) /\ res.h.sets = placed.sets /\ res.h.retry = placed.retry
         /\ res.h.wait = placed.wait /\ res.h.hit = placed.hit
         /\ Joined(placed.mshr[c], res.h.mshr[c], b, S)
         /\ \A x \in Caches : x # c => res.h.mshr[x] = placed.mshr[x]
    <3>1. l \in 0..2 /\ Calm(placed) /\ r \in Request /\ r.block \in Block /\ ~MshrFull(placed, K(l))
      BY <1>0, <2>5, <2>10
    <3>2. S \in SUBSET Sector /\ S # {} /\ D \subseteq S /\ (write => D # {}) /\ write \in BOOLEAN
      BY <1>0, <2>8
    <3>3. res = Fetch(placed, K(l), r, S, {}, write, D)
      BY <2>9
    <3> HIDE DEF c, b
    <3>4. Fetched(placed, res, l, r, S)
      BY <3>1, <3>2, <3>3, FetchCalm
    <3>5. QED
      BY <3>4 DEF c, b, Fetched
  <2>12. HeldStays(h, res.h) /\ WaitGrows(h, res.h)
    BY <2>5, <2>11 DEF HeldStays, WaitGrows
  <2>13. Asked(h, res.h, l, r, S)
    BY <1>0, <2>5, <2>11, <2>12 DEF Asked, S
  <2>14. QED
    BY <2>8, <2>11, <2>13 DEF Outcome, Asks
<1> HIDE DEF res
<1>7. QED
  BY <1>5, <1>6 DEF res

\* What is still missing of what r asks for is in no MSHR.
LEMMA FilteredIs ==
  ASSUME NEW h, NEW c \in Caches, NEW r \in Request, NEW set
  PROVE  LET S == findMissingSectors(set, r.block, Remaining(h, c, r))
         IN  /\ S \in SUBSET Sector /\ S \subseteq Wanted(c, r)
             /\ \A i \in Matching(h, c, r.block) : S \cap h.mshr[c][i].sectors = {}
<1> DEFINE S == findMissingSectors(set, r.block, Remaining(h, c, r))
<1>1. S \in SUBSET Sector
  BY WantedIn
<1>2. S \subseteq Wanted(c, r) \ UNION {h.mshr[c][i].sectors : i \in Matching(h, c, r.block)}
  BY DEF findMissingSectors, Remaining
<1> HIDE DEF S
<1>3. \A i \in Matching(h, c, r.block) : S \cap h.mshr[c][i].sectors = {}
  <2> SUFFICES ASSUME NEW i \in Matching(h, c, r.block), NEW x \in S, x \in h.mshr[c][i].sectors
               PROVE  FALSE
    OBVIOUS
  <2>1. h.mshr[c][i].sectors \in {h.mshr[c][j].sectors : j \in Matching(h, c, r.block)}
    OBVIOUS
  <2>2. QED
    BY <1>2, <2>1
<1>4. QED
  BY <1>1, <1>2, <1>3 DEF S

LEMMA KeepsAreHeld ==
  ASSUME NEW s, NEW t, Keeps(s, t), NEW b \in Tag
  PROVE  Held(s, b) <=> Held(t, b)
BY DEF Keeps, Held

\* A block with an MSHR has a way.
LEMMA WaitedIsHeld ==
  ASSUME NEW h, HOK(h), NEW c \in Caches, NEW b \in Tag, Matching(h, c, b) # {}
  PROVE  isBusy(h.sets[c], b) /\ HasTag(h.sets[c], b) /\ Held(h.sets[c], b)
<1>1. Waited(h.mshr[c], b)
  BY DEF Matching, Waited
<1>2. isBusy(h.sets[c], b)
  BY <1>1 DEF HOK, Matched
<1>3. QED
  BY <1>2 DEF isBusy, Held

\* Refusing, or accepting what is done
LEMMA RefuseOutcome ==
  ASSUME NEW h, Calm(h), NEW l, NEW r
  PROVE  Outcome(h, Refuse(h), l, r)
<1>1. LET res == Refuse(h) IN res.ok = FALSE /\ res.ask = << >> /\ res.h = h
  BY DEF Refuse
<1>2. QED
  BY <1>1, StaysItself DEF Outcome, Refused

LEMMA AcceptOutcome ==
  ASSUME NEW h, NEW g, Calm(g), Stays(h, g), g.hit = h.hit, NEW l, NEW r,
         r.type = "WRITE" \/ CoveredByMshrs(h, K(l), r)
  PROVE  Outcome(h, Accept(g), l, r)
<1>1. LET res == Accept(g) IN res.ok = TRUE /\ res.ask = << >> /\ res.h = g
  BY DEF Accept
<1>2. QED
  BY <1>1 DEF Outcome, Swallowed

LEMMA HitOutcome ==
  ASSUME OneChain, NEW h, NEW g, Calm(g), Stays(h, g), g.hit = h.hit,
         NEW l \in 0..2, Keeps(h.sets[K(0)], g.sets[K(0)]), NEW r \in Request, Held(g.sets[K(l)], r.block)
  PROVE  Outcome(h, Accept(HitAt(g, K(l), r)), l, r)
<1> DEFINE f == HitAt(g, K(l), r)
           q == Append(h.hit, [r EXCEPT !.hit = l])
<1>1. K(l) \in Caches /\ level[K(l)] = l
  BY Level
<1>2. Calm(f) /\ Stays(g, f) /\ f.sets = g.sets /\ f.hit = q
  BY <1>1, HitCalm
<1> HIDE DEF f
<1>3. Stays(h, f)
  BY <1>2, StaysComposes
<1>4. LET res == Accept(f) IN res.ok = TRUE /\ res.ask = << >> /\ res.h = f
  BY DEF Accept
<1>5. QED
  BY <1>2, <1>3, <1>4 DEF Outcome, Hits, f

\* Another MSHR, in a state g that differs from h in its sets only
LEMMA AskOutcome ==
  ASSUME OneChain, NEW h, NEW g, Calm(g), HeldStays(h, g), g.mshr = h.mshr, g.retry = h.retry,
         g.hit = h.hit, g.wait = h.wait, NEW l \in 0..2, NEW r \in Request, r.block \in Block,
         ~MshrFull(h, K(l)), NEW S \in SUBSET Sector, S # {}, S \subseteq Wanted(K(l), r),
         \A i \in Matching(h, K(l), r.block) : S \cap h.mshr[K(l)][i].sectors = {}
  PROVE  Outcome(h, Fetch(g, K(l), r, S, {}, FALSE, {}), l, r)
<1> DEFINE res == Fetch(g, K(l), r, S, {}, FALSE, {})
<1>1. ~MshrFull(g, K(l))
  BY DEF MshrFull
<1>2. Fetched(g, res, l, r, S)
  <2>1. {} \subseteq S /\ FALSE \in BOOLEAN /\ (FALSE => {} # {})
    OBVIOUS
  <2>2. QED
    BY <1>1, <2>1, FetchCalm, Zenon
<1> HIDE DEF res
<1>3. /\ res.ok = TRUE /\ res.ask = <<Below(r, l + 1, S)>>
      /\ Calm(res.h) /\ res.h.sets = g.sets /\ res.h.retry = g.retry /\ res.h.wait = g.wait
      /\ res.h.hit = g.hit /\ Joined(g.mshr[K(l)], res.h.mshr[K(l)], r.block, S)
      /\ \A c \in Caches : c # K(l) => res.h.mshr[c] = g.mshr[c]
  BY <1>2 DEF Fetched
<1>4. HeldStays(h, res.h) /\ WaitGrows(h, res.h)
  BY <1>3 DEF HeldStays, WaitGrows
<1>5. Asked(h, res.h, l, r, S)
  BY <1>3, <1>4 DEF Asked
<1>6. QED
  BY <1>3, <1>5, Zenon DEF Outcome, Asks, res

\* Some MSHR of the block brings other sectors.
LEMMA MissWithMshrOutcome ==
  ASSUME OneChain, NEW h, NEW l, NEW r, Coming(h, l, r), Matching(h, K(l), r.block) # {}
  PROVE  Outcome(h, MissWithMshr(h, K(l), r, {}), l, r)
<1> DEFINE c   == K(l)
           S   == findMissingSectors(h.sets[c], r.block, Remaining(h, c, r))
           res == MissWithMshr(h, c, r, {})
           f   == FillAccess(h, c, r)
<1>0. /\ Sound(h) /\ Calm(h) /\ HOK(h) /\ l \in 0..2 /\ r \in Request /\ r.block \in Block /\ r.block \in Tag
  BY DEF Coming, Sound, Tag
<1>1. c \in Caches /\ level[c] = l
  BY <1>0, Level
<1>2. isBusy(h.sets[c], r.block) /\ HasTag(h.sets[c], r.block) /\ Held(h.sets[c], r.block)
  BY <1>0, <1>1, WaitedIsHeld
<1>3. /\ S \in SUBSET Sector /\ S \subseteq Wanted(c, r)
      /\ \A i \in Matching(h, c, r.block) : S \cap h.mshr[c][i].sectors = {}
  BY <1>0, <1>1, FilteredIs, Zenon
<1>4. res = IF r.type = "WRITE" THEN Accept(f)
            ELSE IF S = {} THEN Accept(HitAt(h, c, r))
            ELSE IF MshrFull(h, c) THEN Refuse(h)
            ELSE Fetch(h, c, r, S \cup {}, {}, FALSE, {})
  BY DEF MissWithMshr
<1>5. S \cup {} = S
  OBVIOUS
<1> HIDE DEF S
<1>6. Calm(f) /\ Stays(h, f) /\ f.hit = h.hit
  BY <1>0, <1>1, <1>2, FillAccessCalm
<1> HIDE DEF f, res
<1>7. ASSUME r.type = "WRITE"
      PROVE  Outcome(h, Accept(f), l, r)
  BY <1>6, <1>7, AcceptOutcome
<1>8. Outcome(h, Accept(HitAt(h, c, r)), l, r)
  BY <1>0, <1>2, StaysItself, SameKeeps, HitOutcome
<1>9. Outcome(h, Refuse(h), l, r)
  BY <1>0, RefuseOutcome
<1>10. ASSUME ~MshrFull(h, c), S # {}
       PROVE  Outcome(h, Fetch(h, c, r, S, {}, FALSE, {}), l, r)
  <2>1. HeldStays(h, h)
    BY DEF HeldStays
  <2>2. QED
    BY <1>0, <1>3, <1>10, <2>1, AskOutcome, Zenon
<1>11. Outcome(h, res, l, r)
  BY <1>4, <1>5, <1>7, <1>8, <1>9, <1>10, Zenon
<1>12. QED
  BY <1>11 DEF res

\* The marks on the MSHRs make no difference.
LEMMA MarkedOutcome ==
  ASSUME OneChain, NEW h, NEW g, NEW l \in 0..2, NEW r, Stays(h, g), g.sets = h.sets, g.hit = h.hit,
         \A x \in Caches : x # K(l) => g.mshr[x] = h.mshr[x],
         NEW res, Outcome(g, res, l, r)
  PROVE  Outcome(h, res, l, r)
<1>1. K(l) \in Caches /\ SameWaits(h.mshr[K(l)], g.mshr[K(l)]) /\ g.retry = h.retry /\ g.wait = h.wait
  BY Level DEF Stays
<1>2. /\ Matching(g, K(l), r.block) = Matching(h, K(l), r.block)
      /\ Remaining(g, K(l), r) = Remaining(h, K(l), r)
  BY <1>1, SameRemaining, SMTT(30)
<1>3. CoveredByMshrs(g, K(l), r) <=> CoveredByMshrs(h, K(l), r)
  BY <1>2 DEF CoveredByMshrs
<1>4. ASSUME NEW f, Stays(g, f)
      PROVE  Stays(h, f)
  BY <1>4, StaysComposes, SameKeeps
<1>5. ASSUME NEW f, NEW S, Asked(g, f, l, r, S)
      PROVE  Asked(h, f, l, r, S)
  <2>1. /\ S # {} /\ S \subseteq Wanted(K(l), r)
        /\ \A i \in Matching(g, K(l), r.block) : S \cap g.mshr[K(l)][i].sectors = {}
        /\ HeldStays(g, f) /\ Joined(g.mshr[K(l)], f.mshr[K(l)], r.block, S)
        /\ \A c \in Caches : c # K(l) => f.mshr[c] = g.mshr[c]
        /\ f.retry = g.retry /\ f.hit = g.hit /\ WaitGrows(g, f)
    BY <1>5 DEF Asked
  <2>2. \A i \in Matching(h, K(l), r.block) : S \cap h.mshr[K(l)][i].sectors = {}
    <3>1. \A i \in Matching(h, K(l), r.block) : g.mshr[K(l)][i].sectors = h.mshr[K(l)][i].sectors
      BY <1>1 DEF SameWaits, Matching
    <3>2. QED
      BY <1>2, <2>1, <3>1
  <2>3. HeldStays(h, f) /\ WaitGrows(h, f)
    BY <1>1, <2>1 DEF HeldStays, WaitGrows
  <2>4. Joined(h.mshr[K(l)], f.mshr[K(l)], r.block, S)
    BY <1>1, <2>1 DEF Joined, SameWaits
  <2>5. \A c \in Caches : c # K(l) => f.mshr[c] = h.mshr[c]
    BY <2>1
  <2>6. QED
    BY <1>1, <2>1, <2>2, <2>3, <2>4, <2>5 DEF Asked
<1>6. Calm(res.h)
  BY DEF Outcome
<1>7. CASE Refused(g, res)
  BY <1>4, <1>6, <1>7 DEF Outcome, Refused
<1>8. CASE Swallowed(g, res, l, r)
  BY <1>3, <1>4, <1>6, <1>8 DEF Outcome, Swallowed
<1>9. CASE Hits(g, res, l, r)
  BY <1>4, <1>6, <1>9 DEF Outcome, Hits
<1>10. CASE Asks(g, res, l, r)
  BY <1>5, <1>6, <1>10 DEF Outcome, Asks
<1>11. QED
  BY <1>7, <1>8, <1>9, <1>10 DEF Outcome

\* The block misses.
LEMMA BlockMissOutcome ==
  ASSUME OneChain, NEW h, NEW l, NEW r, Coming(h, l, r), ~isValid(h.sets[K(l)], r.block)
  PROVE  Outcome(h, BlockMiss(h, K(l), r, {}), l, r)
<1> DEFINE c == K(l)
           g == MarkMshrs(h, c, r)
           res == BlockMiss(h, c, r, {})
<1>0. /\ Sound(h) /\ Calm(h) /\ HOK(h) /\ l \in 0..2 /\ r \in Request /\ r.block \in Block
      /\ Wanted(c, r) # {} /\ (r.type = "WRITE" => Wanted(c, r) \cap r.actual # {})
      /\ c \in Caches
  BY Level DEF Coming, Sound
<1>1. /\ Calm(g) /\ Stays(h, g) /\ g.sets = h.sets /\ g.hit = h.hit
      /\ \A x \in Caches : x # c => g.mshr[x] = h.mshr[x]
  BY <1>0, MarkCalm
<1>2. HOK(g) /\ Matching(g, c, r.block) = Matching(h, c, r.block)
  BY <1>0, MshrsMarked
<1>3. res = IF CoveredByMshrs(h, c, r) THEN Accept(g)
            ELSE IF Matching(h, c, r.block) # {} THEN MissWithMshr(g, c, r, {})
            ELSE MissWithoutMshr(h, c, r, {})
  BY DEF BlockMiss
<1> HIDE DEF g, res
<1>4. ASSUME CoveredByMshrs(h, c, r)
      PROVE  Outcome(h, Accept(g), l, r)
  BY <1>1, <1>4, AcceptOutcome
<1>5. ASSUME Matching(h, c, r.block) # {}
      PROVE  Outcome(h, MissWithMshr(g, c, r, {}), l, r)
  <2>1. Coming(g, l, r)
    BY <1>0, <1>1, <1>2 DEF Coming, Sound
  <2> DEFINE miss == MissWithMshr(g, c, r, {})
  <2>2. Outcome(g, miss, l, r)
    BY <1>2, <1>5, <2>1, MissWithMshrOutcome
  <2> HIDE DEF miss
  <2>3. Outcome(h, miss, l, r)
    BY <1>0, <1>1, <2>2, MarkedOutcome
  <2>4. QED
    BY <2>3 DEF miss
<1>6. ASSUME Matching(h, c, r.block) = {}
      PROVE  Outcome(h, MissWithoutMshr(h, c, r, {}), l, r)
  BY <1>6, MissWithoutMshrOutcome
<1>7. Outcome(h, res, l, r)
  BY <1>3, <1>4, <1>5, <1>6
<1>8. QED
  BY <1>7 DEF res

\* All the sectors are there.
LEMMA SectorHitOutcome ==
  ASSUME OneChain, NEW h, NEW l, NEW r, Coming(h, l, r), isValid(h.sets[K(l)], r.block),
         areSectorsValid(h.sets[K(l)], r.block, Wanted(K(l), r))
  PROVE  Outcome(h, SectorHit(h, K(l), r), l, r)
<1> DEFINE c == K(l)
           b == r.block
           S == r.actual \cap Wanted(c, r)
           w == r.type = "WRITE"
           g == Access(h, c, b, S, w)
<1>0. /\ Calm(h) /\ l \in 0..2 /\ r \in Request /\ c \in Caches
  BY Level DEF Coming, Sound
<1>1. b \in Tag /\ S \in SUBSET Sector /\ w \in BOOLEAN
  BY <1>0, RequestFields, WantedIn
<1>2. SectorHit(h, c, r) = Accept(HitAt(g, c, r))
  BY DEF SectorHit
<1>3. accessAsserts(h.sets[c], b, S)
  BY DEF areSectorsValid, accessAsserts, isValid
<1> HIDE DEF S, w
<1>4. Calm(g) /\ Stays(h, g) /\ g.hit = h.hit /\ \A x \in Caches : Keeps(h.sets[x], g.sets[x])
  BY <1>0, <1>1, <1>3, AccessCalm
<1> HIDE DEF g
<1>5. Held(g.sets[c], b)
  BY <1>0, <1>1, <1>4 DEF Keeps, Held
<1>6. Keeps(h.sets[K(0)], g.sets[K(0)])
  BY <1>4, Chain
<1>7. QED
  BY <1>0, <1>2, <1>4, <1>5, <1>6, HitOutcome

\* Only some of the sectors are there.
LEMMA SectorMissOutcome ==
  ASSUME OneChain, NEW h, NEW l, NEW r, Coming(h, l, r), isValid(h.sets[K(l)], r.block)
  PROVE  Outcome(h, SectorMiss(h, K(l), r, {}), l, r)
<1> DEFINE c    == K(l)
           b    == r.block
           S    == findMissingSectors(h.sets[c], b, Remaining(h, c, r))
           busy == [h EXCEPT !.sets[c] = makeBusy(@, b)]
           f    == FillAccess(h, c, r)
           res  == SectorMiss(h, c, r, {})
<1>0. /\ Calm(h) /\ HOK(h) /\ Typed(h) /\ l \in 0..2 /\ r \in Request /\ b \in Block /\ b \in Tag /\ c \in Caches
  BY Level DEF Coming, Sound, Tag, HOK
<1>1. HasTag(h.sets[c], b)
  BY DEF isValid
<1>2. res = IF r.type = "WRITE" \/ CoveredByMshrs(h, c, r) THEN Accept(f)
            ELSE IF MshrFull(h, c) THEN Refuse(h)
            ELSE IF S = {} THEN Accept(HitAt(f, c, r))
            ELSE Fetch(busy, c, r, S \cup {}, {}, FALSE, {})
  BY DEF SectorMiss
<1>3. /\ S \in SUBSET Sector /\ S \subseteq Wanted(c, r) /\ S \cup {} = S
      /\ \A i \in Matching(h, c, b) : S \cap h.mshr[c][i].sectors = {}
  BY <1>0, FilteredIs, Zenon
<1> HIDE DEF S, res
<1>4. Calm(f) /\ Stays(h, f) /\ f.hit = h.hit /\ \A x \in Caches : Keeps(h.sets[x], f.sets[x])
  BY <1>0, <1>1, FillAccessCalm
<1> HIDE DEF f
<1>5. ASSUME r.type = "WRITE" \/ CoveredByMshrs(h, c, r)
      PROVE  Outcome(h, Accept(f), l, r)
  BY <1>4, <1>5, AcceptOutcome
<1>6. Outcome(h, Refuse(h), l, r)
  BY <1>0, RefuseOutcome
<1>7. Outcome(h, Accept(HitAt(f, c, r)), l, r)
  <2>1. Held(f.sets[c], b)
    BY <1>0, <1>4 DEF Keeps, Held
  <2>2. Keeps(h.sets[K(0)], f.sets[K(0)])
    BY <1>4, Chain
  <2>3. QED
    BY <1>0, <1>4, <2>1, <2>2, HitOutcome
<1>8. ASSUME ~MshrFull(h, c), S # {}
      PROVE  Outcome(h, Fetch(busy, c, r, S, {}, FALSE, {}), l, r)
  <2> DEFINE s == h.sets[c]
             t == makeBusy(s, b)
  <2>1. /\ nWays[c] \in Nat /\ SetOK(nWays[c], s) /\ Honest(s, {}) /\ s \in [1..nWays[c] -> Way]
    BY <1>0, Fields, Numbers DEF Calm, AllHonest, SetOK
  <2>2. SetOK(nWays[c], t) /\ Uses(s, t, b, TRUE, isValid(s, b))
    BY <1>0, <1>1, <2>1, MakeBusyUses, Zenon
  <2>3. Honest(t, {})
    BY <1>0, <1>1, <2>1, MakeBusyHonest
  <2>4. busy = [h EXCEPT !.sets[c] = t]
    OBVIOUS
  <2> HIDE DEF t, busy
  <2>5. Typed(busy) /\ OnlySet(h, busy, c) /\ busy.sets[c] = t
    <3> HIDE DEF c
    <3>1. QED
      BY <1>0, <2>2, <2>4, PutOnlySet
  <2>6. /\ busy.mshr = h.mshr /\ busy.retry = h.retry /\ busy.wait = h.wait /\ busy.hit = h.hit
        /\ busy.asserts = h.asserts /\ \A x \in Caches : x # c => busy.sets[x] = h.sets[x]
    BY <2>5 DEF OnlySet
  <2>7. ASSUME NEW k \in 0..2, NEW x \in Tag
        PROVE  /\ isValid(busy.sets[K(k)], x) <=> isValid(h.sets[K(k)], x)
               /\ Held(h.sets[K(k)], x) => Held(busy.sets[K(k)], x)
    <3>1. K(k) \in Caches
      BY Level
    <3>2. CASE K(k) = c
      BY <2>2, <2>5, <3>2 DEF Held, Uses
    <3>3. CASE K(k) # c
      BY <2>6, <3>1, <3>3
    <3>4. QED
      BY <3>2, <3>3
  <2>8. AllHonest(busy)
    BY <1>0, <2>3, <2>5, <2>6 DEF AllHonest, Calm
  <2>9. Nested(busy)
    <3>1. \A k \in 0..1 : k \in 0..2 /\ k + 1 \in 0..2
      OBVIOUS
    <3>2. QED
      BY <1>0, <2>7, <3>1 DEF Nested, Calm
  <2>10. Calm(busy)
    BY <1>0, <2>5, <2>6, <2>8, <2>9 DEF Calm
  <2>11. HeldStays(h, busy)
    BY <2>7 DEF HeldStays
  <2>12. QED
    BY <1>0, <1>3, <1>8, <2>6, <2>10, <2>11, AskOutcome, Zenon
<1>9. Outcome(h, res, l, r)
  BY <1>2, <1>3, <1>5, <1>6, <1>7, <1>8, Zenon
<1>10. QED
  BY <1>9 DEF res

\* Whatever happens to r at cache K(l), it is one of the outcomes.
LEMMA SendHereOutcome ==
  ASSUME OneChain, NEW h, NEW l, NEW r, Coming(h, l, r)
  PROVE  Outcome(h, sendHere(h, K(l), r, {}), l, r) /\ SentOK(K(l), sendHere(h, K(l), r, {}))
<1>1. Sound(h) /\ HOK(h) /\ l \in 0..2 /\ r \in Request /\ r.block \in Block /\ Wanted(K(l), r) # {}
      /\ K(l) \in Caches /\ {} \in SUBSET Sector
  BY Level DEF Coming, Sound
<1>2. SentOK(K(l), sendHere(h, K(l), r, {}))
  BY <1>1, SendHereOK
<1>3. CASE ~isValid(h.sets[K(l)], r.block)
  BY <1>2, <1>3, BlockMissOutcome DEF sendHere
<1>4. CASE isValid(h.sets[K(l)], r.block) /\ areSectorsValid(h.sets[K(l)], r.block, Wanted(K(l), r))
  BY <1>2, <1>4, SectorHitOutcome DEF sendHere
<1>5. CASE isValid(h.sets[K(l)], r.block) /\ ~areSectorsValid(h.sets[K(l)], r.block, Wanted(K(l), r))
  BY <1>2, <1>5, SectorMissOutcome DEF sendHere
<1>6. QED
  BY <1>3, <1>4, <1>5

-----------------------------------------------------------------------------
(***************************************************************************)
(* Jobs: the reads on their way down, or back up.  A job of depth d has    *)
(* passed the first d caches, and each of them waits for what it asked.    *)
(***************************************************************************)
Job(r, d) == [r |-> r, d |-> d]
\* A job asks each level for no more than the level above; while it waits in
\* hit_list, the block it found is in use where it found it.
JobOK(h, g) ==
  /\ g.r \in Request /\ g.r.block \in Block /\ g.r.type = "READ" /\ g.d \in 1..3
  /\ \A l \in 0..2 : l < g.d => g.r.bits[l + 1] # {} /\ g.r.bits[l + 1] \subseteq g.r.bits[l]
  /\ g.r.hit = 3 \/ (g.r.hit = g.d /\ g.d # 3 /\ Held(h.sets[K(g.d)], g.r.block))
\* Two jobs for one block ask for different sectors.
Apart(G) ==
  \A g, f \in G : g # f /\ g.r.block = f.r.block => g.r.bits[1] \cap f.r.bits[1] = {}
\* MSHR m waits for job g at level l.
For(m, g, l) == l < g.d /\ m.block = g.r.block /\ m.sectors = g.r.bits[l + 1]
\* The MSHRs of the cache of level l are those of the jobs.
Row(m, G, l) ==
  /\ \A g \in G : l < g.d => \E i \in 1..Len(m) : For(m[i], g, l)
  /\ \A i \in 1..Len(m) : \E g \in G : For(m[i], g, l)
  /\ \A i, j \in 1..Len(m) : i # j /\ m[i].block = m[j].block => m[i].sectors \cap m[j].sectors = {}
\* What the MSHRs wait for is what the jobs will bring, in every cache.
Tied(h, G) ==
  /\ \A g \in G : JobOK(h, g)
  /\ Apart(G)
  /\ \A l \in 0..2 : Row(h.mshr[K(l)], G, l)

\* A job brings its core whatever it asks any level for.
LEMMA JobBits ==
  ASSUME NEW h, NEW g, JobOK(h, g)
  PROVE  /\ g.r.bits[1] # {} /\ g.r.bits[1] \subseteq g.r.bits[0] /\ g.r.bits[g.d] \subseteq g.r.bits[1]
         /\ g.r.bits[g.d] # {}
         /\ \A k \in 0..2 : k < g.d => g.r.bits[k + 1] # {} /\ g.r.bits[k + 1] \subseteq g.r.bits[1]
<1> DEFINE B(k) == g.r.bits[k]
<1>1. g.d \in 1..3 /\ \A l \in 0..2 : l < g.d => B(l + 1) # {} /\ B(l + 1) \subseteq B(l)
  BY DEF JobOK
<1>2. B(1) # {} /\ B(1) \subseteq B(0)
  <2>1. B(0 + 1) # {} /\ B(0 + 1) \subseteq B(0)
    <3> HIDE DEF B
    <3> QED BY <1>1
  <2> QED BY <2>1
<1>3. 1 < g.d => B(2) # {} /\ B(2) \subseteq B(1)
  <2>1. 1 < g.d => B(1 + 1) # {} /\ B(1 + 1) \subseteq B(1)
    <3> HIDE DEF B
    <3> QED BY <1>1
  <2> QED BY <2>1
<1>4. 2 < g.d => B(3) # {} /\ B(3) \subseteq B(2)
  <2>1. 2 < g.d => B(2 + 1) # {} /\ B(2 + 1) \subseteq B(2)
    <3> HIDE DEF B
    <3> QED BY <1>1
  <2> QED BY <2>1
<1>5. \A k \in 0..2 : k < g.d => B(k + 1) # {} /\ B(k + 1) \subseteq B(1)
  <2> SUFFICES ASSUME NEW k \in 0..2, k < g.d PROVE B(k + 1) # {} /\ B(k + 1) \subseteq B(1)
    OBVIOUS
  <2> HIDE DEF B
  <2>1. CASE k = 0 BY <2>1, <1>2
  <2>2. CASE k = 1 BY <2>2, <1>3
  <2>3. CASE k = 2 BY <2>3, <1>1, <1>3, <1>4
  <2> QED BY <2>1, <2>2, <2>3
<1>6. B(g.d) # {} /\ B(g.d) \subseteq B(1)
  <2> HIDE DEF B
  <2> QED BY <1>1, <1>2, <1>3, <1>4
<1> QED BY <1>2, <1>5, <1>6

LEMMA RowSame ==
  ASSUME NEW m, NEW n, NEW G, NEW l, Row(m, G, l), SameWaits(m, n)
  PROVE  Row(n, G, l)
<1>1. Len(n) = Len(m) /\ \A i \in 1..Len(m) : n[i].block = m[i].block /\ n[i].sectors = m[i].sectors
  BY DEF SameWaits
<1>2. \A i \in 1..Len(m) : \A g : For(n[i], g, l) <=> For(m[i], g, l)
  BY <1>1 DEF For
<1>3. \A i, j \in 1..Len(n) : i # j /\ n[i].block = n[j].block => n[i].sectors \cap n[j].sectors = {}
  BY <1>1 DEF Row
<1> QED BY <1>1, <1>2, <1>3, Zenon DEF Row

\* Jobs that ask the same of a level
LEMMA RowAlike ==
  ASSUME NEW m, NEW G, NEW H, NEW l, Row(m, G, l),
         \A g \in H : l < g.d => \E f \in G : l < f.d /\ f.r.block = g.r.block /\ f.r.bits[l + 1] = g.r.bits[l + 1],
         \A g \in G : l < g.d => \E f \in H : l < f.d /\ f.r.block = g.r.block /\ f.r.bits[l + 1] = g.r.bits[l + 1]
  PROVE  Row(m, H, l)
<1>1. \A g \in H : l < g.d => \E i \in 1..Len(m) : For(m[i], g, l)
  <2> SUFFICES ASSUME NEW g \in H, l < g.d PROVE \E i \in 1..Len(m) : For(m[i], g, l)
    OBVIOUS
  <2>1. PICK f \in G : l < f.d /\ f.r.block = g.r.block /\ f.r.bits[l + 1] = g.r.bits[l + 1]
    OBVIOUS
  <2>2. PICK i \in 1..Len(m) : For(m[i], f, l)
    BY <2>1 DEF Row
  <2> QED BY <2>1, <2>2 DEF For
<1>2. \A i \in 1..Len(m) : \E g \in H : For(m[i], g, l)
  <2> SUFFICES ASSUME NEW i \in 1..Len(m) PROVE \E g \in H : For(m[i], g, l)
    OBVIOUS
  <2>1. PICK g \in G : For(m[i], g, l)
    BY DEF Row
  <2>2. l < g.d
    BY <2>1 DEF For
  <2>3. PICK f \in H : l < f.d /\ f.r.block = g.r.block /\ f.r.bits[l + 1] = g.r.bits[l + 1]
    BY <2>2
  <2> QED BY <2>1, <2>3 DEF For
<1> QED BY <1>1, <1>2 DEF Row

\* A cache waits for what its jobs ask of the level below.
LEMMA JobIsWaited ==
  ASSUME OneChain, NEW h, HOK(h), NEW G, Tied(h, G), NEW g \in G, NEW l \in 0..2, l < g.d
  PROVE  /\ isBusy(h.sets[K(l)], g.r.block) /\ HasTag(h.sets[K(l)], g.r.block)
         /\ \E i \in Matching(h, K(l), g.r.block) : h.mshr[K(l)][i].sectors = g.r.bits[l + 1]
<1>1. JobOK(h, g) /\ Row(h.mshr[K(l)], G, l)
  BY DEF Tied
<1>2. PICK i \in 1..Len(h.mshr[K(l)]) : For(h.mshr[K(l)][i], g, l)
  BY <1>1 DEF Row
<1>3. i \in Matching(h, K(l), g.r.block) /\ h.mshr[K(l)][i].sectors = g.r.bits[l + 1]
  BY <1>2 DEF For, Matching
<1>4. g.r.block \in Tag
  BY <1>1 DEF JobOK, Tag
<1>5. K(l) \in Caches
  BY Level
<1>6. Matching(h, K(l), g.r.block) # {}
  BY <1>3
<1>7. isBusy(h.sets[K(l)], g.r.block) /\ HasTag(h.sets[K(l)], g.r.block)
  BY <1>4, <1>5, <1>6, WaitedIsHeld
<1> QED BY <1>3, <1>7

\* A call after which what is in use below L1 is still in use
LEMMA JobStays ==
  ASSUME OneChain, NEW h, HOK(h), NEW G, Tied(h, G), NEW k, HeldStays(h, k), NEW g \in G
  PROVE  JobOK(k, g)
<1>1. JobOK(h, g)
  BY DEF Tied
<1>2. g.d \in 1..3 /\ g.r.block \in Tag
  BY <1>1 DEF JobOK, Tag
<1>3. isBusy(h.sets[K(0)], g.r.block)
  BY <1>2, JobIsWaited
<1>4. g.d # 3 /\ Held(h.sets[K(g.d)], g.r.block) => Held(k.sets[K(g.d)], g.r.block)
  BY <1>2, <1>3 DEF HeldStays
<1> QED BY <1>1, <1>4 DEF JobOK

\* A call that leaves the blocks in use and what is waited for unties no job.
LEMMA TiedStays ==
  ASSUME OneChain, NEW h, HOK(h), NEW G, Tied(h, G), NEW k, Stays(h, k)
  PROVE  Tied(k, G)
<1>1. HeldStays(h, k) /\ \A c \in Caches : SameWaits(h.mshr[c], k.mshr[c])
  BY DEF Stays
<1>2. \A g \in G : JobOK(k, g)
  BY <1>1, JobStays
<1>3. \A l \in 0..2 : Row(k.mshr[K(l)], G, l)
  <2> SUFFICES ASSUME NEW l \in 0..2 PROVE Row(k.mshr[K(l)], G, l)
    OBVIOUS
  <2>1. K(l) \in Caches
    BY Level
  <2>2. Row(h.mshr[K(l)], G, l)
    BY DEF Tied
  <2> QED BY <1>1, <2>1, <2>2, RowSame
<1> QED BY <1>2, <1>3 DEF Tied

\* What a job asks of a cache is in none of its MSHRs.
LEMMA NeverCovered ==
  ASSUME OneChain, NEW h, NEW G, Tied(h, G), NEW l \in 1..2, NEW r, Job(r, l) \in G
  PROVE  ~CoveredByMshrs(h, K(l), r) /\ Wanted(K(l), r) # {}
<1> DEFINE m == h.mshr[K(l)]
<1>1. JobOK(h, Job(r, l)) /\ Row(m, G, l) /\ Apart(G)
  BY DEF Tied
<1>2. level[K(l)] = l
  BY Level
<1>3. Job(r, l).r = r /\ Job(r, l).d = l
  BY DEF Job
<1>4. r.bits[l] # {} /\ r.bits[l] \subseteq r.bits[1]
  BY <1>1, <1>3, JobBits
<1>5. \A i \in Matching(h, K(l), r.block) : r.bits[l] \cap m[i].sectors = {}
  <2> SUFFICES ASSUME NEW i \in Matching(h, K(l), r.block) PROVE r.bits[l] \cap m[i].sectors = {}
    OBVIOUS
  <2>1. i \in 1..Len(m) /\ m[i].block = r.block
    BY DEF Matching
  <2>2. PICK g \in G : For(m[i], g, l)
    BY <1>1, <2>1 DEF Row
  <2>3. l < g.d /\ g.r.block = r.block /\ m[i].sectors = g.r.bits[l + 1]
    BY <2>1, <2>2 DEF For
  <2>4. g # Job(r, l)
    BY <2>3, <1>3
  <2>5. g.r.bits[1] \cap r.bits[1] = {}
    BY <1>1, <1>3, <2>3, <2>4 DEF Apart
  <2>6. JobOK(h, g)
    BY DEF Tied
  <2>7. g.r.bits[l + 1] \subseteq g.r.bits[1]
    BY <2>3, <2>6, JobBits
  <2> QED BY <1>4, <2>3, <2>5, <2>7
<1>6. Wanted(K(l), r) = r.bits[l]
  BY <1>2 DEF Wanted
<1>7. Remaining(h, K(l), r) # {}
  BY <1>4, <1>5, <1>6 DEF Remaining
<1> QED BY <1>4, <1>6, <1>7 DEF CoveredByMshrs

\* Job g is now job f.
Changed(G, g, f) == (G \ {g}) \cup {f}

LEMMA ChangedApart ==
  ASSUME NEW G, Apart(G), NEW g \in G, NEW f, f.r.block = g.r.block, f.r.bits[1] = g.r.bits[1]
  PROVE  Apart(Changed(G, g, f))
<1> SUFFICES ASSUME NEW x \in Changed(G, g, f), NEW y \in Changed(G, g, f), x # y,
                    x.r.block = y.r.block
             PROVE  x.r.bits[1] \cap y.r.bits[1] = {}
  BY DEF Apart
<1>1. \A a, b \in G : a # b /\ a.r.block = b.r.block => a.r.bits[1] \cap b.r.bits[1] = {}
  BY DEF Apart
<1>2. (x \in G \ {g} \/ x = f) /\ (y \in G \ {g} \/ y = f)
  BY DEF Changed
<1> QED BY <1>1, <1>2

\* A job whose bits at every level are as before
LEMMA ChangedRow ==
  ASSUME NEW m, NEW G, NEW l, Row(m, G, l), NEW g \in G, NEW f, f.r.block = g.r.block,
         f.r.bits[l + 1] = g.r.bits[l + 1], l < f.d <=> l < g.d
  PROVE  Row(m, Changed(G, g, f), l)
<1>1. \A x \in Changed(G, g, f) : l < x.d =>
        \E y \in G : l < y.d /\ y.r.block = x.r.block /\ y.r.bits[l + 1] = x.r.bits[l + 1]
  BY DEF Changed
<1>2. \A x \in G : l < x.d =>
        \E y \in Changed(G, g, f) : l < y.d /\ y.r.block = x.r.block /\ y.r.bits[l + 1] = x.r.bits[l + 1]
  BY DEF Changed
<1> QED BY <1>1, <1>2, RowAlike

\* A job that finds its sectors at level l is on its way back.
LEMMA TiedHit ==
  ASSUME OneChain, NEW h, HOK(h), NEW G, Tied(h, G), NEW l \in 1..2, NEW r, Job(r, l) \in G, r.hit = 3,
         NEW k, Stays(h, k), Held(k.sets[K(l)], r.block)
  PROVE  LET f == Job([r EXCEPT !.hit = l], l)
         IN  Tied(k, Changed(G, Job(r, l), f)) /\ f \notin G
<1> DEFINE y == [r EXCEPT !.hit = l]
           g == Job(r, l)
           f == Job(y, l)
<1>1. g.r = r /\ g.d = l /\ f.r = y /\ f.d = l
  BY DEF Job
<1>2. Tied(k, G)
  BY TiedStays
<1>3. JobOK(k, g) /\ Apart(G) /\ \A j \in 0..2 : Row(k.mshr[K(j)], G, j)
  BY <1>2 DEF Tied
<1>4. r \in Request
  BY <1>1, <1>3 DEF JobOK
<1>5. /\ y \in Request /\ y.block = r.block /\ y.type = r.type /\ y.bits = r.bits /\ y.hit = l
  BY <1>4 DEF Request
<1>6. JobOK(k, f)
  BY <1>1, <1>3, <1>5, Zenon DEF JobOK
<1> HIDE DEF y, f, g
<1>7. f \notin G
  <2> SUFFICES ASSUME f \in G PROVE FALSE
    OBVIOUS
  <2>1. f # g
    BY <1>1, <1>5
  <2>2. f.r.bits[1] \cap g.r.bits[1] = {}
    <3> USE DEF g
    <3>1. g \in G
      OBVIOUS
    <3> HIDE DEF g
    <3> QED BY <2>1, <3>1, <1>1, <1>3, <1>5 DEF Apart
  <2>3. g.r.bits[1] # {}
    BY <1>3, JobBits
  <2> QED BY <2>2, <2>3, <1>1, <1>5
<1>8. g \in G
  BY DEF g
<1>9. Apart(Changed(G, g, f))
  BY <1>1, <1>3, <1>5, <1>8, ChangedApart
<1>10. \A j \in 0..2 : Row(k.mshr[K(j)], Changed(G, g, f), j)
  <2> SUFFICES ASSUME NEW j \in 0..2 PROVE Row(k.mshr[K(j)], Changed(G, g, f), j)
    OBVIOUS
  <2>1. Row(k.mshr[K(j)], G, j)
    BY <1>3
  <2>2. f.r.block = g.r.block /\ f.r.bits[j + 1] = g.r.bits[j + 1] /\ (j < f.d <=> j < g.d)
    BY <1>1, <1>5
  <2> QED BY <2>1, <2>2, <1>8, ChangedRow
<1>11. \A x \in Changed(G, g, f) : JobOK(k, x)
  BY <1>2, <1>6 DEF Changed, Tied
<1>12. Tied(k, Changed(G, g, f)) /\ f \notin G
  BY <1>7, <1>9, <1>10, <1>11 DEF Tied
<1> QED BY <1>12 DEF y, f, g

\* The MSHR of a new job joins those of the cache.
LEMMA RowJoined ==
  ASSUME NEW m, Len(m) \in Nat, NEW n, NEW G, NEW l, Row(m, G, l), NEW b, NEW S, Joined(m, n, b, S),
         \A i \in 1..Len(m) : m[i].block = b => S \cap m[i].sectors = {},
         NEW g, ~(l < g.d), NEW f, l < f.d, f.r.block = b, f.r.bits[l + 1] = S
  PROVE  Row(n, Changed(G, g, f), l)
<1> DEFINE z == Len(m)
           H == Changed(G, g, f)
<1>1. /\ Len(n) = z + 1 /\ \A i \in 1..z : n[i].block = m[i].block /\ n[i].sectors = m[i].sectors
      /\ n[z + 1].block = b /\ n[z + 1].sectors = S
  BY DEF Joined
<1>2. For(n[z + 1], f, l)
  BY <1>1 DEF For
<1>3. \A i \in 1..z : \A x : For(n[i], x, l) <=> For(m[i], x, l)
  BY <1>1 DEF For
<1>4. 1..Len(n) = 1..z \cup {z + 1}
  BY <1>1
<1>5. f \in H /\ \A x : x # g => (x \in G => x \in H)
  BY DEF Changed
<1>6. \A x \in H : x \in G \/ x = f
  BY DEF Changed
<1> HIDE DEF H
<1>7. \A x \in H : l < x.d => \E i \in 1..Len(n) : For(n[i], x, l)
  <2> SUFFICES ASSUME NEW x \in H, l < x.d PROVE \E i \in 1..Len(n) : For(n[i], x, l)
    OBVIOUS
  <2>1. CASE x = f BY <2>1, <1>2, <1>4
  <2>2. CASE x \in G
    <3>1. PICK i \in 1..z : For(m[i], x, l)
      BY <2>2 DEF Row
    <3> QED BY <3>1, <1>3, <1>4, Zenon
  <2> QED BY <2>1, <2>2, <1>6
<1>8. \A i \in 1..Len(n) : \E x \in H : For(n[i], x, l)
  <2> SUFFICES ASSUME NEW i \in 1..Len(n) PROVE \E x \in H : For(n[i], x, l)
    OBVIOUS
  <2>1. CASE i = z + 1 BY <2>1, <1>2, <1>5
  <2>2. CASE i \in 1..z
    <3>1. PICK x \in G : For(m[i], x, l)
      BY <2>2 DEF Row
    <3>2. x # g
      BY <3>1 DEF For
    <3> QED BY <2>2, <3>1, <3>2, <1>3, <1>5
  <2> QED BY <2>1, <2>2, <1>4
<1>9. \A i, j \in 1..Len(n) : i # j /\ n[i].block = n[j].block => n[i].sectors \cap n[j].sectors = {}
  <2> SUFFICES ASSUME NEW i \in 1..Len(n), NEW j \in 1..Len(n), i # j, n[i].block = n[j].block
               PROVE  n[i].sectors \cap n[j].sectors = {}
    OBVIOUS
  <2>1. CASE i \in 1..z /\ j \in 1..z
    BY <2>1, <1>1 DEF Row
  <2>2. CASE i = z + 1 /\ j \in 1..z
    BY <2>2, <1>1
  <2>3. CASE i \in 1..z /\ j = z + 1
    BY <2>3, <1>1
  <2> QED BY <2>1, <2>2, <2>3, <1>4, Zenon
<1> QED BY <1>7, <1>8, <1>9 DEF Row, H

\* A job goes down one level, or begins.
LEMMA TiedAsk ==
  ASSUME OneChain, NEW h, HOK(h), NEW G, Tied(h, G), NEW l \in 0..2, NEW r \in Request,
         r.block \in Block, r.hit = 3, l # 0 => Job(r, l) \in G,
         NEW S \in SUBSET Sector, NEW k, Asked(h, k, l, r, S)
  PROVE  LET f == Job(Below(r, l + 1, S), l + 1)
         IN  Tied(k, Changed(G, Job(r, l), f)) /\ f \notin G
<1> DEFINE y == Below(r, l + 1, S)
           g == Job(r, l)
           f == Job(y, l + 1)
           m == h.mshr[K(l)]
<1>1. g.r = r /\ g.d = l /\ f.r = y /\ f.d = l + 1 /\ (l # 0 => g \in G)
  BY DEF Job
<1>2. /\ S # {} /\ S \subseteq r.bits[l] /\ (\A i \in Matching(h, K(l), r.block) : S \cap m[i].sectors = {})
      /\ HeldStays(h, k) /\ Joined(m, k.mshr[K(l)], r.block, S)
      /\ \A c \in Caches : c # K(l) => k.mshr[c] = h.mshr[c]
  BY Level DEF Asked, Wanted
<1>3. (\A x \in G : JobOK(h, x)) /\ Apart(G) /\ \A j \in 0..2 : Row(h.mshr[K(j)], G, j)
  BY DEF Tied
<1>4. /\ y \in Request /\ y.block = r.block /\ y.hit = 3 /\ y.type = "READ" /\ y.bits[l + 1] = S
      /\ \A j \in 0..3 : j # l + 1 => y.bits[j] = r.bits[j]
  BY BelowIs
<1>5. \A i \in 1..Len(m) : m[i].block = r.block => S \cap m[i].sectors = {}
  BY <1>2 DEF Matching
<1> HIDE DEF y, f, g
<1>6. f \notin G
  <2> SUFFICES ASSUME f \in G PROVE FALSE
    OBVIOUS
  <2>1. PICK i \in 1..Len(m) : For(m[i], f, l)
    <3>1. Row(m, G, l)
      BY <1>3
    <3>2. l < f.d
      BY <1>1
    <3> QED BY <3>1, <3>2 DEF Row
  <2> QED BY <2>1, <1>1, <1>2, <1>4, <1>5 DEF For
<1>7. l # 0 => JobOK(h, g)
  BY <1>1, <1>3
<1>8. JobOK(k, f)
  <2>1. \A j \in 0..2 : j < f.d => f.r.bits[j + 1] # {} /\ f.r.bits[j + 1] \subseteq f.r.bits[j]
    <3> SUFFICES ASSUME NEW j \in 0..2, j < f.d
                 PROVE  f.r.bits[j + 1] # {} /\ f.r.bits[j + 1] \subseteq f.r.bits[j]
      OBVIOUS
    <3>1. CASE j = l
      <4>1. y.bits[j] = r.bits[l]
        BY <3>1, <1>4
      <4> QED BY <4>1, <3>1, <1>1, <1>2, <1>4
    <3>2. CASE j < l
      <4>1. g.r.bits[j + 1] # {} /\ g.r.bits[j + 1] \subseteq g.r.bits[j]
        BY <3>2, <1>1, <1>7 DEF JobOK
      <4>2. y.bits[j + 1] = r.bits[j + 1] /\ y.bits[j] = r.bits[j]
        BY <3>2, <1>4
      <4> QED BY <4>1, <4>2, <1>1
    <3> QED BY <3>1, <3>2, <1>1
  <2>2. f.d \in 1..3
    BY <1>1
  <2> QED BY <2>1, <2>2, <1>1, <1>4 DEF JobOK
<1>9. \A x \in Changed(G, g, f) : JobOK(k, x)
  <2>1. \A x \in G : JobOK(k, x)
    BY <1>2, JobStays
  <2> QED BY <2>1, <1>8 DEF Changed
<1>10. \A j \in 0..2 : Row(k.mshr[K(j)], Changed(G, g, f), j)
  <2> SUFFICES ASSUME NEW j \in 0..2 PROVE Row(k.mshr[K(j)], Changed(G, g, f), j)
    OBVIOUS
  <2>1. CASE j = l
    <3>1. Row(m, G, l)
      BY <1>3
    <3>2. ~(l < g.d) /\ l < f.d /\ f.r.block = r.block /\ f.r.bits[l + 1] = S
      BY <1>1, <1>4
    <3>3. Len(m) \in Nat
      <4>1. K(l) \in Caches
        BY Level
      <4>2. m \in Seq(mshr_entry_type)
        BY <4>1, Fields DEF HOK
      <4> QED BY <4>2
    <3>4. Joined(m, k.mshr[K(l)], r.block, S)
      BY <1>2
    <3> QED BY <2>1, <3>1, <3>2, <3>3, <3>4, <1>5, RowJoined
  <2>2. CASE j # l
    <3>1. K(j) \in Caches /\ K(j) # K(l)
      BY <2>2, Level
    <3>2. Row(k.mshr[K(j)], G, j)
      BY <3>1, <1>2, <1>3
    <3>3. j < f.d <=> j < g.d
      BY <2>2, <1>1
    <3>4. CASE l # 0
      <4>1. f.r.block = g.r.block /\ f.r.bits[j + 1] = g.r.bits[j + 1]
        BY <2>2, <1>1, <1>4
      <4> QED BY <3>2, <3>3, <3>4, <4>1, <1>1, ChangedRow
    <3>5. CASE l = 0
      <4>1. ~(j < f.d) /\ ~(j < g.d)
        BY <2>2, <3>5, <1>1
      <4>2. \A x \in Changed(G, g, f) : j < x.d => x \in G
        BY <4>1 DEF Changed
      <4>3. \A x \in G : j < x.d => x \in Changed(G, g, f)
        BY <4>1 DEF Changed
      <4> QED BY <3>2, <4>2, <4>3, RowAlike
    <3> QED BY <3>4, <3>5
  <2> QED BY <2>1, <2>2
<1>11. Apart(Changed(G, g, f))
  <2>1. CASE l # 0
    <3>1. f.r.block = g.r.block /\ f.r.bits[1] = g.r.bits[1]
      BY <2>1, <1>1, <1>4
    <3> QED BY <2>1, <3>1, <1>1, <1>3, ChangedApart
  <2>2. CASE l = 0
    <3>1. \A x \in G : x.r.block = f.r.block => x.r.bits[1] \cap f.r.bits[1] = {}
      <4> SUFFICES ASSUME NEW x \in G, x.r.block = f.r.block PROVE x.r.bits[1] \cap f.r.bits[1] = {}
        OBVIOUS
      <4>1. 0 < x.d
        BY <1>3 DEF JobOK
      <4>2. PICK i \in 1..Len(m) : For(m[i], x, 0)
        BY <4>1, <1>3, <2>2 DEF Row
      <4>3. m[i].block = r.block /\ m[i].sectors = x.r.bits[1]
        BY <4>2, <1>1, <1>4 DEF For
      <4>4. f.r.bits[1] = S
        BY <2>2, <1>1, <1>4
      <4> QED BY <4>3, <4>4, <1>5
    <3>2. \A x, z \in G : x # z /\ x.r.block = z.r.block => x.r.bits[1] \cap z.r.bits[1] = {}
      BY <1>3 DEF Apart
    <3>3. \A x \in Changed(G, g, f) : x \in G \/ x = f
      BY DEF Changed
    <3> QED BY <3>1, <3>2, <3>3 DEF Apart
  <2> QED BY <2>1, <2>2
<1>12. Tied(k, Changed(G, g, f)) /\ f \notin G
  BY <1>6, <1>9, <1>10, <1>11 DEF Tied
<1> QED BY <1>12 DEF y, f, g

-----------------------------------------------------------------------------
(***************************************************************************)
(* send down the chain, and the lists.                                     *)
(***************************************************************************)
SameQueues(h, g) == g.retry = h.retry /\ g.wait = h.wait /\ g.hit = h.hit
\* Request y joins one list, as a job of depth d.
ToRetry(h, g, y, d) ==
  /\ d \in 1..2 /\ y.hit = 3
  /\ g.retry = [h.retry EXCEPT ![K(d - 1)] = h.retry[K(d - 1)] \o <<y>>]
  /\ g.hit = h.hit /\ WaitGrows(h, g)
ToHit(h, g, y, d) ==
  d \in 1..2 /\ y.hit = d /\ g.retry = h.retry /\ g.hit = Append(h.hit, y) /\ WaitGrows(h, g)
\* The memory gets y, and write backs with it.
ToWait(h, g, y, d) ==
  /\ d = 3 /\ y.hit = 3 /\ g.retry = h.retry /\ g.hit = h.hit
  /\ h.wait \cup {y} \subseteq g.wait
  /\ \A x \in g.wait \ (h.wait \cup {y}) : x.type = "WRITE" /\ x.bits[0] = {}
\* A request that has come from level l joins a list.
Moved(l, h, g, y, d) ==
  \/ ToRetry(h, g, y, d) /\ l < d
  \/ ToHit(h, g, y, d) /\ l <= d
  \/ ToWait(h, g, y, d)

\* Outcomes of a call of send for request r at level l, with jobs G before
Rejected(h, res, G) == res.ok = FALSE /\ Tied(res.h, G) /\ SameQueues(h, res.h)
\* MSHRs bring what r asks for: their jobs will bring it to the core.
Merged(h, res, r, G) ==
  /\ res.ok = TRUE /\ Tied(res.h, G) /\ SameQueues(h, res.h)
  /\ r.type = "READ" => \A s \in r.bits[0] : \E g \in G : g.r.block = r.block /\ s \in g.r.bits[0]
\* r is in the first cache.
HitFirst(h, res, r, G) ==
  /\ res.ok = TRUE /\ Tied(res.h, G) /\ res.h.retry = h.retry /\ res.h.wait = h.wait
  /\ res.h.hit = Append(h.hit, [r EXCEPT !.hit = 0])
\* r has become job y of depth d.
NowJob(h, res, l, r, G, y, d) ==
  /\ y \in Request /\ y.type = "READ" /\ y.block = r.block /\ y.bits[0] = r.bits[0] /\ y.actual = r.actual
  /\ d \in 1..3 /\ l <= d /\ Moved(l, h, res.h, y, d)
  /\ Tied(res.h, Changed(G, Job(r, l), Job(y, d))) /\ Job(y, d) \notin G
\* These are all; below the first cache a request is never merged.
Sends(h, res, l, r, G) ==
  /\ Sound(res.h)
  /\ \/ Rejected(h, res, G)
     \/ l = 0 /\ (Merged(h, res, r, G) \/ HitFirst(h, res, r, G))
     \/ res.ok = TRUE /\ \E y, d : NowJob(h, res, l, r, G, y, d)

\* A request that may be sent at level l
Sendable(h, l, r, G) ==
  Coming(h, l, r) /\ r.hit = 3 /\ Tied(h, G) /\ (l # 0 => Job(r, l) \in G)

\* What sendHere leaves when it asks the level below
Passes(h, res, l, r, G, S) ==
  /\ res.ok = TRUE /\ S \in SUBSET Sector /\ S # {} /\ res.ask = <<Below(r, l + 1, S)>> /\ Sound(res.h)
  /\ res.h.retry = h.retry /\ res.h.hit = h.hit /\ WaitGrows(h, res.h)
  /\ Tied(res.h, Changed(G, Job(r, l), Job(Below(r, l + 1, S), l + 1)))
  /\ Job(Below(r, l + 1, S), l + 1) \notin G

LEMMA SameWaitGrows ==
  ASSUME NEW h, NEW g, g.wait = h.wait
  PROVE  WaitGrows(h, g)
BY DEF WaitGrows

\* The call at one cache, before the level below is asked
LEMMA HereSends ==
  ASSUME OneChain, NEW h, NEW l, NEW r, NEW G, Sendable(h, l, r, G)
  PROVE  LET res == sendHere(h, K(l), r, {})
         IN  \/ res.ask = << >> /\ Sends(h, res, l, r, G)
             \/ \E S : Passes(h, res, l, r, G, S)
<1> DEFINE res == sendHere(h, K(l), r, {})
<1>1. /\ Coming(h, l, r) /\ r.hit = 3 /\ Tied(h, G) /\ (l # 0 => Job(r, l) \in G)
      /\ Sound(h) /\ HOK(h) /\ l \in 0..2 /\ r \in Request /\ r.block \in Block
  BY DEF Sendable, Coming, Sound
<1>2. Outcome(h, res, l, r) /\ SentOK(K(l), res)
  BY <1>1, SendHereOutcome
<1> HIDE DEF res
<1>3. Calm(res.h) /\ HOK(res.h) /\ Sound(res.h)
  BY <1>2 DEF Outcome, SentOK, Sound
<1>4. l # 0 => r.type = "READ" /\ ~CoveredByMshrs(h, K(l), r)
  <2> SUFFICES ASSUME l # 0 PROVE r.type = "READ" /\ ~CoveredByMshrs(h, K(l), r)
    OBVIOUS
  <2>1. l \in 1..2 /\ Job(r, l) \in G
    BY <1>1
  <2>2. JobOK(h, Job(r, l))
    BY <1>1, <2>1 DEF Tied
  <2>3. r.type = "READ"
    BY <2>2 DEF JobOK, Job
  <2> QED BY <2>1, <2>3, <1>1, NeverCovered
<1>5. CASE Refused(h, res)
  <2>1. res.ok = FALSE /\ res.ask = << >> /\ Stays(h, res.h) /\ res.h.hit = h.hit
    BY <1>5 DEF Refused
  <2>2. Tied(res.h, G)
    BY <2>1, <1>1, TiedStays
  <2>3. SameQueues(h, res.h)
    BY <2>1 DEF Stays, SameQueues
  <2> QED BY <2>1, <2>2, <2>3, <1>3 DEF Sends, Rejected, res
<1>6. CASE Swallowed(h, res, l, r)
  <2>1. /\ res.ok = TRUE /\ res.ask = << >> /\ Stays(h, res.h) /\ res.h.hit = h.hit
        /\ r.type = "WRITE" \/ CoveredByMshrs(h, K(l), r)
    BY <1>6 DEF Swallowed
  <2>2. Tied(res.h, G)
    BY <2>1, <1>1, TiedStays
  <2>3. SameQueues(h, res.h)
    BY <2>1 DEF Stays, SameQueues
  <2>4. l = 0
    BY <2>1, <1>4
  <2>5. r.type = "READ" => \A s \in r.bits[0] : \E g \in G : g.r.block = r.block /\ s \in g.r.bits[0]
    <3> SUFFICES ASSUME r.type = "READ", NEW s \in r.bits[0]
                 PROVE  \E g \in G : g.r.block = r.block /\ s \in g.r.bits[0]
      OBVIOUS
    <3>1. Remaining(h, K(0), r) = {}
      BY <2>1, <2>4 DEF CoveredByMshrs
    <3>2. Wanted(K(0), r) = r.bits[0]
      BY Level DEF Wanted
    <3>3. PICK i \in Matching(h, K(0), r.block) : s \in h.mshr[K(0)][i].sectors
      BY <3>1, <3>2 DEF Remaining
    <3>4. i \in 1..Len(h.mshr[K(0)]) /\ h.mshr[K(0)][i].block = r.block
      BY DEF Matching
    <3>5. PICK g \in G : For(h.mshr[K(0)][i], g, 0)
      BY <3>4, <1>1 DEF Tied, Row
    <3>6. g.r.block = r.block /\ s \in g.r.bits[1]
      BY <3>3, <3>4, <3>5 DEF For
    <3>7. JobOK(h, g)
      BY <1>1 DEF Tied
    <3> QED BY <3>6, <3>7, JobBits
  <2> QED BY <2>1, <2>2, <2>3, <2>4, <2>5, <1>3 DEF Sends, Merged, res
<1>7. CASE Hits(h, res, l, r)
  <2>1. /\ res.ok = TRUE /\ res.ask = << >> /\ Stays(h, res.h) /\ Held(res.h.sets[K(l)], r.block)
        /\ res.h.hit = Append(h.hit, [r EXCEPT !.hit = l])
        /\ res.h.retry = h.retry /\ res.h.wait = h.wait
    BY <1>7 DEF Hits, Stays
  <2>2. CASE l = 0
    <3>1. Tied(res.h, G)
      BY <2>1, <1>1, TiedStays
    <3>2. HitFirst(h, res, r, G)
      BY <2>1, <2>2, <3>1 DEF HitFirst
    <3> QED BY <2>1, <2>2, <3>2, <1>3 DEF Sends, res
  <2>3. CASE l # 0
    <3> DEFINE y == [r EXCEPT !.hit = l]
    <3>1. l \in 1..2 /\ Job(r, l) \in G
      BY <2>3, <1>1
    <3>2. Tied(res.h, Changed(G, Job(r, l), Job(y, l))) /\ Job(y, l) \notin G
      BY <2>1, <3>1, <1>1, TiedHit
    <3>3. /\ y \in Request /\ y.type = r.type /\ y.block = r.block /\ y.bits[0] = r.bits[0]
          /\ y.actual = r.actual /\ y.hit = l
      BY <1>1, <3>1 DEF Request
    <3>4. res.h.hit = Append(h.hit, y)
      BY <2>1
    <3> HIDE DEF y
    <3>5. ToHit(h, res.h, y, l)
      BY <2>1, <3>1, <3>3, <3>4, SameWaitGrows DEF ToHit
    <3>6. NowJob(h, res, l, r, G, y, l)
      BY <3>1, <3>2, <3>3, <3>5, <2>3, <1>4 DEF NowJob, Moved
    <3> QED BY <2>1, <3>6, <1>3 DEF Sends, res
  <2> QED BY <2>2, <2>3
<1>8. CASE Asks(h, res, l, r)
  <2>1. PICK S \in SUBSET Sector : res.ask = <<Below(r, l + 1, S)>> /\ Asked(h, res.h, l, r, S)
    BY <1>8 DEF Asks
  <2>2. res.ok = TRUE
    BY <1>8 DEF Asks
  <2>3. /\ Tied(res.h, Changed(G, Job(r, l), Job(Below(r, l + 1, S), l + 1)))
        /\ Job(Below(r, l + 1, S), l + 1) \notin G
    BY <2>1, <1>1, TiedAsk
  <2>4. S # {} /\ res.h.retry = h.retry /\ res.h.hit = h.hit /\ WaitGrows(h, res.h)
    BY <2>1 DEF Asked
  <2>5. Passes(h, res, l, r, G, S)
    BY <2>1, <2>2, <2>3, <2>4, <1>3 DEF Passes
  <2> QED BY <2>5 DEF res
<1> QED BY <1>2, <1>5, <1>6, <1>7, <1>8 DEF Outcome

\* The lists have no part in what ties the jobs to the caches.
LEMMA TiedLists ==
  ASSUME NEW h, NEW G, Tied(h, G), NEW g, g.sets = h.sets, g.mshr = h.mshr
  PROVE  Tied(g, G)
<1>1. \A x : JobOK(h, x) => JobOK(g, x)
  BY DEF JobOK
<1> QED BY <1>1 DEF Tied

LEMMA GrowsComposes ==
  ASSUME NEW f, NEW g, NEW h, WaitGrows(f, g), WaitGrows(g, h)
  PROVE  WaitGrows(f, h)
BY DEF WaitGrows

\* A list that is joined after write backs have been left to the memory
LEMMA MovedAfter ==
  ASSUME NEW l \in 0..1, NEW f, NEW g, NEW h, WaitGrows(f, g), g.retry = f.retry, g.hit = f.hit, NEW y, NEW d,
         d \in 1..3, Moved(l + 1, g, h, y, d)
  PROVE  Moved(l, f, h, y, d)
<1>1. CASE ToRetry(g, h, y, d) /\ l + 1 < d
  <2>1. WaitGrows(f, h)
    BY <1>1, GrowsComposes DEF ToRetry
  <2> QED BY <1>1, <2>1 DEF ToRetry, Moved
<1>2. CASE ToHit(g, h, y, d) /\ l + 1 <= d
  <2>1. WaitGrows(f, h)
    BY <1>2, GrowsComposes DEF ToHit
  <2> QED BY <1>2, <2>1 DEF ToHit, Moved
<1>3. CASE ToWait(g, h, y, d)
  <2>1. /\ f.wait \cup {y} \subseteq h.wait
        /\ \A x \in h.wait \ (f.wait \cup {y}) : x.type = "WRITE" /\ x.bits[0] = {}
    BY <1>3 DEF ToWait, WaitGrows
  <2> QED BY <1>3, <2>1 DEF ToWait, Moved
<1> QED BY <1>1, <1>2, <1>3 DEF Moved

\* The request that asks the level below
Asker(res, y, r, l, S) ==
  /\ y \in Request /\ y.type = "READ" /\ y.block = r.block /\ y.bits[0] = r.bits[0]
  /\ y.actual = r.actual /\ y.hit = 3 /\ y.bits[l + 1] = S
  /\ res.ask # << >> /\ res.ask[1] = y /\ Len(res.ask) = 1
LEMMA AskIs ==
  ASSUME NEW h, NEW res, NEW l \in 0..2, NEW r \in Request, r.hit = 3, NEW G, NEW S, Passes(h, res, l, r, G, S),
         NEW y, y = Below(r, l + 1, S)
  PROVE  Asker(res, y, r, l, S)
<1>1. S \in SUBSET Sector /\ res.ask = <<Below(r, l + 1, S)>>
  BY DEF Passes
<1>2. l + 1 \in 1..3 /\ 0 # l + 1 /\ 0 \in 0..3
  OBVIOUS
<1> QED BY <1>1, <1>2, BelowIs DEF Asker

\* Cache c gets another retry list.
PutIn(h, c, q) == [h EXCEPT !.retry[c] = q]
IsPutIn(h, g, c, q) ==
  /\ Sound(g) /\ g.sets = h.sets /\ g.mshr = h.mshr /\ g.wait = h.wait /\ g.hit = h.hit
  /\ g.retry = [h.retry EXCEPT ![c] = q]
LEMMA PutRetryCalm ==
  ASSUME OneChain, NEW h, Sound(h), NEW c \in Caches, NEW q \in Seq(Request), Demands(c, q)
  PROVE  IsPutIn(h, PutIn(h, c, q), c, q)
<1> DEFINE g == PutIn(h, c, q)
<1>1. HOK(h) /\ Calm(h) /\ h \in HState
  BY DEF Sound, HOK, Typed
<1>2. HOK(g)
  BY <1>1, PutRetry DEF PutIn
<1>3. /\ g.sets = h.sets /\ g.mshr = h.mshr /\ g.wait = h.wait /\ g.hit = h.hit
      /\ g.retry = [h.retry EXCEPT ![c] = q] /\ g.asserts = h.asserts
  BY <1>1 DEF HState, PutIn
<1> HIDE DEF g
<1>4. Calm(g)
  BY <1>1, <1>2, <1>3 DEF Calm, HOK, AllHonest, Nested
<1> QED BY <1>2, <1>3, <1>4 DEF Sound, g, IsPutIn

\* The last level asks the memory.
LEMMA SendLastSends ==
  ASSUME OneChain, NEW h, NEW r, NEW G, Sendable(h, 2, r, G)
  PROVE  Sends(h, sendLast(h, K(2), r, {}), 2, r, G)
<1> DEFINE here == sendHere(h, K(2), r, {})
           res == sendLast(h, K(2), r, {})
<1>0. r \in Request /\ r.hit = 3 /\ r.block \in Block /\ Coming(h, 2, r) /\ K(2) \in Caches
  BY Level DEF Sendable, Coming
<1>1. \/ here.ask = << >> /\ Sends(h, here, 2, r, G)
      \/ \E S : Passes(h, here, 2, r, G, S)
  BY HereSends
<1>2. SentOK(K(2), here)
  BY <1>0, SendHereOutcome
<1>3. /\ res = [here EXCEPT !.h.wait = here.h.wait \cup {here.ask[i] : i \in 1..Len(here.ask)}]
      /\ here = [h |-> here.h, ok |-> here.ok, ask |-> here.ask] /\ here.h \in HState
  BY <1>2 DEF sendLast, ToMemory, SentOK, HOK, Typed
<1>4. DoneOK(res)
  <2>1. HOK(h) /\ Wanted(K(2), r) # {}
    BY <1>0 DEF Coming, Sound
  <2> HIDE DEF res
  <2>2. {} \in SUBSET Sector
    OBVIOUS
  <2>3. \A c \in Caches : DoneOK(sendLast(h, c, r, {})) \/ Wanted(c, r) = {}
    BY <1>0, <2>1, <2>2, SendLastOK
  <2> QED BY <1>0, <2>1, <2>3 DEF res
<1> HIDE DEF here, res
<1>5. CASE here.ask = << >> /\ Sends(h, here, 2, r, G)
  <2>1. {here.ask[i] : i \in 1..Len(here.ask)} = {}
    BY <1>5
  <2>2. res.ok = here.ok /\ res.h = here.h
    BY <1>3, <2>1, Zenon DEF HState
  <2>3. Sends(h, res, 2, r, G)
    BY <1>5, <2>2 DEF Sends, Rejected, Merged, HitFirst, NowJob
  <2> QED BY <2>3 DEF res
<1>6. CASE \E S : Passes(h, here, 2, r, G, S)
  <2>1. PICK S : Passes(h, here, 2, r, G, S)
    BY <1>6
  <2> DEFINE y == Below(r, 3, S)
  <2>2. /\ y \in Request /\ y.type = "READ" /\ y.block = r.block /\ y.bits[0] = r.bits[0] /\ y.actual = r.actual
        /\ y.hit = 3 /\ here.ask[1] = y /\ Len(here.ask) = 1
    <3>1. 2 \in 0..2 /\ y = Below(r, 2 + 1, S)
      OBVIOUS
    <3> HIDE DEF y
    <3>2. Asker(here, y, r, 2, S)
      BY <1>0, <2>1, <3>1, AskIs
    <3> QED BY <3>2 DEF Asker
  <2>3. /\ here.ok = TRUE /\ Sound(here.h) /\ here.h.retry = h.retry /\ here.h.hit = h.hit
        /\ WaitGrows(h, here.h)
        /\ Tied(here.h, Changed(G, Job(r, 2), Job(y, 3))) /\ Job(y, 3) \notin G
    BY <2>1 DEF Passes
  <2> HIDE DEF y
  <2>4. {here.ask[i] : i \in 1..Len(here.ask)} = {y}
    BY <2>2
  <2>5. /\ res.ok = TRUE /\ res.h.wait = here.h.wait \cup {y} /\ res.h.sets = here.h.sets
        /\ res.h.mshr = here.h.mshr /\ res.h.retry = h.retry /\ res.h.hit = h.hit
        /\ res.h.asserts = here.h.asserts
    BY <1>3, <2>3, <2>4, Zenon DEF HState
  <2>6. Sound(res.h)
    <3>1. HOK(res.h) /\ Calm(here.h)
      BY <1>4, <2>3 DEF DoneOK, Sound
    <3>2. Calm(res.h)
      BY <3>1, <2>5 DEF Calm, HOK, AllHonest, Nested
    <3> QED BY <3>1, <3>2 DEF Sound
  <2>7. Tied(res.h, Changed(G, Job(r, 2), Job(y, 3)))
    BY <2>3, <2>5, TiedLists
  <2>8. ToWait(h, res.h, y, 3)
    BY <2>2, <2>3, <2>5 DEF ToWait, WaitGrows
  <2>9. NowJob(h, res, 2, r, G, y, 3)
    BY <2>2, <2>3, <2>7, <2>8 DEF NowJob, Moved
  <2>10. Sends(h, res, 2, r, G)
    BY <2>5, <2>6, <2>9 DEF Sends
  <2> QED BY <2>10 DEF res
<1> QED BY <1>1, <1>5, <1>6

\* A level above it asks the one below, or keeps the request for a retry.
SendsOn(here, below, k) ==
  \A y, H : Sendable(here.h, k, y, H) /\ y = here.ask[1] => Sends(here.h, below, k, y, H)
\* The level below has made one of the outcomes of the request it was asked.
LEMMA SendDown ==
  ASSUME OneChain, NEW h, NEW l \in 0..1, NEW r, NEW G, Sendable(h, l, r, G),
         NEW here, here = sendHere(h, K(l), r, {}), NEW below, SendsOn(here, below, l + 1)
  PROVE  Sends(h, SentBelow(here, K(l), below), l, r, G)
<1> DEFINE res == SentBelow(here, K(l), below)
           c == K(l)
<1>0. /\ r \in Request /\ r.hit = 3 /\ r.block \in Block /\ Coming(h, l, r) /\ c \in Caches
      /\ l \in 0..2 /\ level[K(l)] = l /\ K(l + 1) \in Caches /\ level[K(l + 1)] = l + 1
  BY Level DEF Sendable, Coming
<1>1. \/ here.ask = << >> /\ Sends(h, here, l, r, G)
      \/ \E S : Passes(h, here, l, r, G, S)
  BY <1>0, HereSends
<1>2. SentOK(c, here)
  BY <1>0, SendHereOutcome
<1>3. here = [h |-> here.h, ok |-> here.ok, ask |-> here.ask] /\ here.h \in HState
  BY <1>2 DEF SentOK, HOK, Typed
<1>4. CASE here.ask = << >> /\ Sends(h, here, l, r, G)
  <2>1. res = here
    BY <1>4 DEF SentBelow
  <2> QED BY <1>4, <2>1
<1>5. CASE \E S : Passes(h, here, l, r, G, S)
  <2>1. PICK S : Passes(h, here, l, r, G, S)
    BY <1>5
  <2> DEFINE y == Below(r, l + 1, S)
             g == Job(r, l)
             f == Job(y, l + 1)
             H == Changed(G, g, f)
  <2>2. /\ y \in Request /\ y.type = "READ" /\ y.block = r.block /\ y.bits[0] = r.bits[0] /\ y.actual = r.actual
        /\ y.hit = 3 /\ y.bits[l + 1] = S /\ here.ask # << >> /\ here.ask[1] = y
    <3>1. y = Below(r, l + 1, S)
      OBVIOUS
    <3> HIDE DEF y
    <3>2. Asker(here, y, r, l, S)
      BY <1>0, <2>1, <3>1, AskIs
    <3> QED BY <3>2 DEF Asker
  <2>3. /\ here.ok = TRUE /\ Sound(here.h) /\ here.h.retry = h.retry /\ here.h.hit = h.hit
        /\ WaitGrows(h, here.h) /\ Tied(here.h, H) /\ f \notin G /\ S # {} /\ here.ask = <<y>>
    BY <2>1 DEF Passes
  <2>4. f \in H
    BY DEF Changed
  <2> HIDE DEF y
  <2>5. Sendable(here.h, l + 1, y, H)
    <3>1. Wanted(K(l + 1), y) # {}
      BY <1>0, <2>2, <2>3 DEF Wanted
    <3>2. Coming(here.h, l + 1, y)
      BY <1>0, <2>2, <2>3, <3>1 DEF Coming
    <3> QED BY <2>2, <2>3, <2>4, <3>2 DEF Sendable
  <2>6. Sends(here.h, below, l + 1, y, H)
    BY <2>2, <2>5 DEF SendsOn
  <2>7. Sound(below.h)
    BY <2>6 DEF Sends
  <2>8. CASE Rejected(here.h, below, H)
    <3>1. /\ below.ok = FALSE /\ Tied(below.h, H) /\ below.h.retry = h.retry
          /\ WaitGrows(h, below.h) /\ below.h.hit = h.hit
      BY <2>8, <2>3 DEF Rejected, SameQueues, WaitGrows
    <3> DEFINE k == PutIn(below.h, c, below.h.retry[c] \o <<y>>)
    <3>2. res.ok = TRUE /\ res.h = k
      <4>1. res = [here EXCEPT !.h = [below.h EXCEPT !.retry[c] = @ \o here.ask]]
        BY <2>2, <3>1 DEF SentBelow
      <4> QED BY <4>1, <1>3, <2>3, Zenon DEF PutIn
    <3>3. below.h.retry[c] \in Seq(Request) /\ Demands(c, below.h.retry[c])
      BY <2>7, <1>0, Fields DEF Sound, HOK
    <3>4. below.h.retry[c] \o <<y>> \in Seq(Request)
      BY <3>3, <2>2
    <3>5. Demands(c, below.h.retry[c] \o <<y>>)
      <4> DEFINE q == below.h.retry[c]
      <4>0. Demand(c, y)
        BY <1>0, <2>2, <2>3 DEF Demand
      <4> SUFFICES ASSUME NEW i \in 1..Len(q \o <<y>>) PROVE Demand(c, (q \o <<y>>)[i])
        BY DEF Demands
      <4>1. Len(q \o <<y>>) = Len(q) + 1
        BY <3>3, <2>2
      <4>2. CASE i = Len(q) + 1
        <5>1. (q \o <<y>>)[i] = y
          BY <4>2, <3>3, <2>2, SMTT(30)
        <5> QED BY <5>1, <4>0
      <4>3. CASE i # Len(q) + 1
        <5>1. i \in 1..Len(q)
          BY <4>1, <4>3, <3>3
        <5>2. (q \o <<y>>)[i] = q[i]
          BY <5>1, <3>3, <2>2
        <5> QED BY <5>1, <5>2, <3>3 DEF Demands
      <4> QED BY <4>2, <4>3
    <3>6. /\ Sound(k) /\ k.sets = below.h.sets /\ k.mshr = below.h.mshr /\ k.wait = below.h.wait
          /\ k.hit = below.h.hit
          /\ k.retry = [below.h.retry EXCEPT ![c] = below.h.retry[c] \o <<y>>]
      <4>1. IsPutIn(below.h, k, c, below.h.retry[c] \o <<y>>)
        <5> HIDE DEF c
        <5> QED BY <1>0, <2>7, <3>4, <3>5, PutRetryCalm, Zenon
      <4> QED BY <4>1 DEF IsPutIn
    <3> HIDE DEF k, res
    <3>7. Tied(res.h, H)
      BY <3>1, <3>2, <3>6, TiedLists
    <3>8. ToRetry(h, res.h, y, l + 1)
      <4>1. (l + 1) - 1 = l /\ l + 1 \in 1..2
        OBVIOUS
      <4>2. WaitGrows(h, res.h)
        BY <3>1, <3>2, <3>6 DEF WaitGrows
      <4> QED BY <4>1, <4>2, <2>2, <3>1, <3>2, <3>6, Zenon DEF ToRetry
    <3>9. NowJob(h, res, l, r, G, y, l + 1)
      <4>1. l < l + 1 /\ l <= l + 1 /\ l + 1 \in 1..3
        OBVIOUS
      <4>2. Moved(l, h, res.h, y, l + 1)
        BY <4>1, <3>8 DEF Moved
      <4> QED BY <4>1, <4>2, <2>2, <2>3, <3>7 DEF NowJob
    <3>10. Sends(h, res, l, r, G)
      BY <2>7, <3>2, <3>6, <3>9 DEF Sends
    <3> QED BY <3>10 DEF res
  <2>9. CASE below.ok = TRUE /\ \E z, d : NowJob(here.h, below, l + 1, y, H, z, d)
    <3>1. PICK z, d : NowJob(here.h, below, l + 1, y, H, z, d)
      BY <2>9
    <3>2. res.ok = TRUE /\ res.h = below.h
      <4>1. res = [here EXCEPT !.h = below.h]
        BY <2>2, <2>9 DEF SentBelow
      <4> QED BY <4>1, <1>3, <2>3
    <3>3. /\ z \in Request /\ z.type = "READ" /\ z.block = r.block /\ z.bits[0] = r.bits[0] /\ z.actual = r.actual
          /\ d \in 1..3 /\ l + 1 <= d /\ Moved(l + 1, here.h, res.h, z, d)
          /\ Tied(res.h, Changed(H, Job(y, l + 1), Job(z, d))) /\ Job(z, d) \notin H
      BY <3>1, <3>2, <2>2 DEF NowJob
    <3>4. Moved(l, h, res.h, z, d)
      BY <2>3, <3>3, MovedAfter
    <3>5. Changed(H, f, Job(z, d)) = Changed(G, g, Job(z, d))
      BY <2>3 DEF Changed
    <3>6. Job(z, d) # g
      BY <3>3 DEF Job
    <3>7. Job(z, d) \notin G
      BY <3>3, <3>6 DEF Changed
    <3>8. NowJob(h, res, l, r, G, z, d)
      BY <3>3, <3>4, <3>5, <3>7 DEF NowJob
    <3> QED BY <2>7, <3>2, <3>8 DEF Sends
  <2>10. l + 1 # 0
    OBVIOUS
  <2>11. \/ Rejected(here.h, below, H)
         \/ below.ok = TRUE /\ \E z, d : NowJob(here.h, below, l + 1, y, H, z, d)
    BY <2>6, <2>10 DEF Sends
  <2> QED BY <2>8, <2>9, <2>11, Zenon
<1> QED BY <1>1, <1>4, <1>5

LEMMA SendMiddleSends ==
  ASSUME OneChain, NEW h, NEW r, NEW G, Sendable(h, 1, r, G)
  PROVE  Sends(h, sendMiddle(h, K(1), r, {}), 1, r, G)
<1> DEFINE here == sendHere(h, K(1), r, {})
           below == sendLast(here.h, lower[K(1)], here.ask[1], {})
<1>1. lower[K(1)] = K(2)
  BY Chain
<1>2. SendsOn(here, below, 2)
  BY <1>1, SendLastSends DEF SendsOn
<1>3. sendMiddle(h, K(1), r, {}) = SentBelow(here, K(1), below)
  BY DEF sendMiddle, AskLast
<1> HIDE DEF below, here
<1>5. here = sendHere(h, K(1), r, {})
  BY DEF here
<1>6. SendsOn(here, below, 1 + 1) /\ 1 \in 0..1
  BY <1>2
<1>4. Sends(h, SentBelow(here, K(1), below), 1, r, G)
  BY <1>5, <1>6, SendDown
<1> QED BY <1>3, <1>4

LEMMA SendFirstSends ==
  ASSUME OneChain, NEW h, NEW r, NEW G, Sendable(h, 0, r, G)
  PROVE  Sends(h, sendFirst(h, K(0), r, {}), 0, r, G)
<1> DEFINE here == sendHere(h, K(0), r, {})
           below == sendMiddle(here.h, lower[K(0)], here.ask[1], {})
<1>1. lower[K(0)] = K(1)
  BY Chain
<1>2. SendsOn(here, below, 1)
  BY <1>1, SendMiddleSends DEF SendsOn
<1>3. sendFirst(h, K(0), r, {}) = SentBelow(here, K(0), below)
  BY DEF sendFirst, AskMiddle
<1> HIDE DEF below, here
<1>5. here = sendHere(h, K(0), r, {})
  BY DEF here
<1>6. SendsOn(here, below, 0 + 1) /\ 0 \in 0..1
  BY <1>2
<1>4. Sends(h, SentBelow(here, K(0), below), 0, r, G)
  BY <1>5, <1>6, SendDown
<1> QED BY <1>3, <1>4

\* send at any level: refused, merged or hit in the first cache, or a job.
LEMMA SendSends ==
  ASSUME OneChain, NEW h, NEW l \in 0..2, NEW r, NEW G, Sendable(h, l, r, G)
  PROVE  Sends(h, send(h, K(l), r, {}), l, r, G)
<1>1. level[K(l)] = l
  BY Level
<1>2. CASE l = 0
  BY <1>1, <1>2, SendFirstSends DEF send
<1>3. CASE l = 1
  BY <1>1, <1>3, SendMiddleSends DEF send
<1>4. CASE l = 2
  BY <1>1, <1>4, SendLastSends DEF send
<1> QED BY <1>2, <1>3, <1>4

-----------------------------------------------------------------------------
(***************************************************************************)
(* callback: one element leaves a list, and a job is done.                 *)
(***************************************************************************)
\* n is m without its element at i.
RemovedFrom(m, n, i) ==
  Len(n) + 1 = Len(m) /\ \A j \in 1..Len(n) : n[j] = IF j < i THEN m[j] ELSE m[j + 1]

LEMMA RemoveAtIs ==
  ASSUME NEW D, NEW q \in Seq(D), NEW i \in 1..Len(q)
  PROVE  RemoveAt(q, i) \in Seq(D) /\ RemovedFrom(q, RemoveAt(q, i), i)
<1> DEFINE n == Len(q)
           a == SubSeq(q, 1, i - 1)
           z == SubSeq(q, i + 1, n)
           p == RemoveAt(q, i)
<1>1. n \in Nat /\ \A j \in 1..n : q[j] \in D
  BY LenProperties
<1>2. p = a \o z
  BY DEF RemoveAt
<1>3. a \in Seq(D) /\ Len(a) = i - 1 /\ \A j \in 1..(i - 1) : a[j] = q[j]
  BY <1>1
<1>4. z \in Seq(D) /\ Len(z) = n - i /\ \A j \in 1..(n - i) : z[j] = q[i + j]
  BY <1>1
<1> HIDE DEF a, z, p
<1>5. /\ p \in Seq(D) /\ Len(p) = (i - 1) + (n - i)
      /\ \A j \in 1..(i - 1) : p[j] = a[j]
      /\ \A j \in 1..(n - i) : p[(i - 1) + j] = z[j]
  <2>1. /\ p \in Seq(D) /\ Len(p) = Len(a) + Len(z)
        /\ \A j \in 1..Len(p) : p[j] = IF j <= Len(a) THEN a[j] ELSE z[j - Len(a)]
    <3>1. a \in Seq(D) /\ z \in Seq(D)
      BY <1>3, <1>4
    <3>2. /\ a \o z \in Seq(D) /\ Len(a \o z) = Len(a) + Len(z)
          /\ \A j \in 1..Len(a) + Len(z) : (a \o z)[j] = IF j <= Len(a) THEN a[j] ELSE z[j - Len(a)]
      BY <3>1, ConcatProperties, Zenon
    <3> QED BY <3>2, <1>2
  <2>2. Len(p) = (i - 1) + (n - i)
    BY <2>1, <1>3, <1>4
  <2>3. \A j \in 1..(i - 1) : j \in 1..Len(p) /\ j <= Len(a)
    BY <2>2, <1>1, <1>3
  <2>4. \A j \in 1..(n - i) : (i - 1) + j \in 1..Len(p) /\ ~((i - 1) + j <= Len(a)) /\ ((i - 1) + j) - Len(a) = j
    BY <2>2, <1>1, <1>3
  <2>5. \A j \in 1..(n - i) : p[(i - 1) + j] = z[j]
    <3> SUFFICES ASSUME NEW j \in 1..(n - i) PROVE p[(i - 1) + j] = z[j]
      OBVIOUS
    <3> DEFINE k == (i - 1) + j
    <3>1. k \in 1..Len(p) /\ ~(k <= Len(a)) /\ k - Len(a) = j
      BY <2>4
    <3> HIDE DEF k
    <3>2. p[k] = z[k - Len(a)]
      BY <2>1, <3>1, Zenon
    <3>3. p[k] = z[j]
      BY <3>1, <3>2
    <3> QED BY <3>3 DEF k
  <2> QED BY <2>1, <2>2, <2>3, <2>5
<1>6. Len(p) + 1 = n
  BY <1>1, <1>5
<1>7. ASSUME NEW j \in 1..Len(p)
      PROVE  p[j] = IF j < i THEN q[j] ELSE q[j + 1]
  <2>1. CASE j < i
    <3>1. j \in 1..(i - 1)
      BY <2>1
    <3> QED BY <2>1, <3>1, <1>3, <1>5
  <2>2. CASE ~(j < i)
    <3> DEFINE k == j - (i - 1)
    <3>1. k \in 1..(n - i) /\ (i - 1) + k = j /\ i + k = j + 1
      BY <2>2, <1>1, <1>6
    <3> HIDE DEF k
    <3>2. p[j] = z[k]
      BY <3>1, <1>5
    <3>3. z[k] = q[j + 1]
      BY <3>1, <1>4, Zenon
    <3> QED BY <2>2, <3>2, <3>3
  <2> QED BY <2>1, <2>2
<1> QED BY <1>5, <1>6, <1>7 DEF RemovedFrom, p

\* Erasing one MSHR
LEMMA EraseOne ==
  ASSUME NEW D, NEW entries \in Seq(D), NEW x \in 1..Len(entries)
  PROVE  LET n == Erase(entries, {x}) IN n \in Seq(D) /\ RemovedFrom(entries, n, x)
<1> DEFINE n == Len(entries)
           gone == {x}
           k == CHOOSE k : KeptUpTo(k, entries, gone)
           SoFar(q, i) == /\ q \in Seq(D) /\ Len(q) = IF i < x THEN i ELSE i - 1
                          /\ \A j \in 1..Len(q) : q[j] = IF j < x THEN entries[j] ELSE entries[j + 1]
           OK == {i \in Nat : i <= n => SoFar(k[i], i)}
<1>1. n \in Nat /\ x \in Nat /\ x # 0 /\ x <= n /\ \A i \in 1..n : entries[i] \in D
  BY LenProperties
<1>2. Erase(entries, gone) = k[n]
  BY DEF Erase, KeptUpTo
<1>3. KeptUpTo(k, entries, gone)
  BY KeptExists, Zenon
<1> HIDE DEF k
<1>4. ASSUME NEW i \in 0..n
      PROVE  k[i] = IF i = 0 THEN << >>
                    ELSE IF i = x THEN k[i - 1] ELSE Append(k[i - 1], entries[i])
  BY <1>3, Zenon DEF KeptUpTo
<1> HIDE DEF n
<1>5. 0 \in OK
  <2>1. k[0] = << >>
    BY <1>1, <1>4
  <2>2. << >> \in Seq(D) /\ Len(<< >>) = 0 /\ 1..0 = {}
    BY EmptySeq
  <2>3. SoFar(<< >>, 0)
    BY <1>1, <2>2
  <2> QED BY <2>1, <2>3, Zenon
<1>6. ASSUME NEW i \in OK
      PROVE  i + 1 \in OK
  <2>1. i \in Nat /\ i + 1 \in Nat /\ (i + 1) - 1 = i
    OBVIOUS
  <2>2. SUFFICES ASSUME i + 1 <= n PROVE SoFar(k[i + 1], i + 1)
    BY <2>1, Zenon
  <2> DEFINE q == k[i]
             e == entries[i + 1]
             p == Append(q, e)
  <2>3. i + 1 \in 0..n /\ i + 1 \in 1..n /\ i + 1 # 0 /\ i <= n
    BY <1>1, <2>1, <2>2
  <2>4. SoFar(q, i)
    BY <2>3
  <2>5. k[i + 1] = IF i + 1 = x THEN q ELSE p
    BY <1>4, <2>1, <2>3
  <2>6. e \in D
    BY <1>1, <2>3
  <2>7. e = entries[i + 1]
    OBVIOUS
  <2> HIDE DEF q, e
  <2>8. CASE i + 1 = x
    <3>1. SoFar(q, i + 1)
      BY <2>1, <2>4, <2>8
    <3> QED BY <2>5, <2>8, <3>1
  <2>9. CASE i + 1 # x
    <3>1. p \in Seq(D) /\ Len(p) = Len(q) + 1 /\ Len(q) \in Nat
          /\ p[Len(q) + 1] = e /\ \A j \in 1..Len(q) : p[j] = q[j]
      BY <2>4, <2>6, AppendProperties, LenProperties
    <3> HIDE DEF p
    <3>2. Len(p) = IF i + 1 < x THEN i + 1 ELSE (i + 1) - 1
      BY <3>1, <2>1, <2>4, <2>9, <1>1
    <3>3. ASSUME NEW j \in 1..Len(p)
          PROVE  p[j] = IF j < x THEN entries[j] ELSE entries[j + 1]
      <4>1. CASE j = Len(q) + 1
        <5>1. IF j < x THEN j = i + 1 ELSE j = i
          BY <4>1, <2>1, <2>4, <2>9, <1>1
        <5> QED BY <4>1, <5>1, <3>1, <2>7
      <4>2. CASE j # Len(q) + 1
        <5>1. j \in 1..Len(q)
          BY <4>2, <3>1
        <5> QED BY <5>1, <3>1, <2>4, Zenon
      <4> QED BY <4>1, <4>2
    <3>4. SoFar(p, i + 1)
      BY <3>1, <3>2, <3>3
    <3> QED BY <2>5, <2>9, <3>4
  <2> QED BY <2>8, <2>9
<1>7. n \in OK
  <2>1. OK \in SUBSET Nat
    OBVIOUS
  <2> HIDE DEF OK
  <2>2. OK = Nat
    BY <1>5, <1>6, <2>1, Induction, Zenon
  <2> QED BY <1>1, <2>2
<1>8. SoFar(k[n], n)
  BY <1>1, <1>7
<1>9. Len(k[n]) + 1 = n
  BY <1>1, <1>8
<1> QED BY <1>2, <1>8, <1>9, Zenon DEF n, RemovedFrom

\* The index an element that stays has in the longer list
LEMMA RemovedIndex ==
  ASSUME NEW m, Len(m) \in Nat, NEW n, Len(n) \in Nat, NEW i \in 1..Len(m), RemovedFrom(m, n, i)
  PROVE  /\ \A j \in 1..Len(n) : /\ (IF j < i THEN j ELSE j + 1) \in (1..Len(m)) \ {i}
                                 /\ n[j] = m[IF j < i THEN j ELSE j + 1]
         /\ \A k \in (1..Len(m)) \ {i} : \E j \in 1..Len(n) : n[j] = m[k]
         /\ \A j, k \in 1..Len(n) : j # k => (IF j < i THEN j ELSE j + 1) # (IF k < i THEN k ELSE k + 1)
<1>1. Len(n) + 1 = Len(m) /\ \A j \in 1..Len(n) : n[j] = IF j < i THEN m[j] ELSE m[j + 1]
  BY DEF RemovedFrom
<1>2. ASSUME NEW k \in (1..Len(m)) \ {i} PROVE \E j \in 1..Len(n) : n[j] = m[k]
  <2>1. CASE k < i
    <3>1. k \in 1..Len(n) /\ n[k] = m[k]
      BY <2>1, <1>1
    <3> QED BY <3>1
  <2>2. CASE ~(k < i)
    <3>1. k - 1 \in 1..Len(n) /\ ~(k - 1 < i) /\ (k - 1) + 1 = k
      BY <2>2, <1>1
    <3>2. n[k - 1] = m[k]
      BY <3>1, <1>1
    <3> QED BY <3>1, <3>2
  <2> QED BY <2>1, <2>2
<1>3. ASSUME NEW j \in 1..Len(n)
      PROVE  /\ (IF j < i THEN j ELSE j + 1) \in (1..Len(m)) \ {i}
             /\ n[j] = m[IF j < i THEN j ELSE j + 1]
  BY <1>1
<1>4. \A j, k \in 1..Len(n) : j # k => (IF j < i THEN j ELSE j + 1) # (IF k < i THEN k ELSE k + 1)
  OBVIOUS
<1> QED BY <1>2, <1>3, <1>4

\* The MSHR of a job leaves with the job.
LEMMA RowRemoved ==
  ASSUME NEW m, Len(m) \in Nat, NEW n, Len(n) \in Nat, NEW G, NEW l, Row(m, G, l), Apart(G),
         \A x \in G : l < x.d => x.r.bits[l + 1] # {} /\ x.r.bits[l + 1] \subseteq x.r.bits[1],
         NEW g \in G, NEW i \in 1..Len(m), For(m[i], g, l), RemovedFrom(m, n, i)
  PROVE  Row(n, G \ {g}, l)
<1> DEFINE at(j) == IF j < i THEN j ELSE j + 1
<1>1. /\ \A j \in 1..Len(n) : at(j) \in 1..Len(m) /\ at(j) # i /\ n[j] = m[at(j)]
      /\ \A k \in 1..Len(m) : k # i => \E j \in 1..Len(n) : n[j] = m[k]
      /\ \A j, k \in 1..Len(n) : j # k => at(j) # at(k)
  BY RemovedIndex
<1> HIDE DEF at
<1>2. ASSUME NEW x \in G \ {g}, l < x.d PROVE \E j \in 1..Len(n) : For(n[j], x, l)
  <2>1. PICK k \in 1..Len(m) : For(m[k], x, l)
    BY <1>2 DEF Row
  <2>2. k # i
    <3> SUFFICES ASSUME k = i PROVE FALSE
      OBVIOUS
    <3>1. x.r.block = g.r.block /\ x.r.bits[l + 1] = g.r.bits[l + 1] /\ l < g.d
      BY <2>1 DEF For
    <3>2. x.r.bits[1] \cap g.r.bits[1] = {}
      BY <3>1 DEF Apart
    <3>3. /\ x.r.bits[l + 1] # {} /\ x.r.bits[l + 1] \subseteq x.r.bits[1]
          /\ g.r.bits[l + 1] \subseteq g.r.bits[1]
      BY <1>2, <3>1
    <3> QED BY <3>1, <3>2, <3>3
  <2> QED BY <2>1, <2>2, <1>1
<1>3. ASSUME NEW j \in 1..Len(n) PROVE \E x \in G \ {g} : For(n[j], x, l)
  <2>1. at(j) \in 1..Len(m) /\ at(j) # i /\ n[j] = m[at(j)]
    BY <1>1
  <2>2. PICK x \in G : For(m[at(j)], x, l)
    BY <2>1 DEF Row
  <2>3. x # g
    <3> SUFFICES ASSUME x = g PROVE FALSE
      OBVIOUS
    <3>1. /\ m[at(j)].block = m[i].block /\ m[at(j)].sectors = g.r.bits[l + 1]
          /\ m[i].sectors = g.r.bits[l + 1] /\ l < g.d
      BY <2>2 DEF For
    <3>2. m[at(j)].sectors \cap m[i].sectors = {}
      BY <2>1, <3>1, Zenon DEF Row
    <3>3. g.r.bits[l + 1] # {}
      BY <3>1
    <3> QED BY <3>1, <3>2, <3>3
  <2> QED BY <2>1, <2>2, <2>3
<1>4. ASSUME NEW j \in 1..Len(n), NEW k \in 1..Len(n), j # k, n[j].block = n[k].block
      PROVE  n[j].sectors \cap n[k].sectors = {}
  <2>1. at(j) # at(k) /\ at(j) \in 1..Len(m) /\ at(k) \in 1..Len(m) /\ n[j] = m[at(j)] /\ n[k] = m[at(k)]
    BY <1>1, <1>4
  <2> QED BY <2>1, <1>4 DEF Row
<1> QED BY <1>2, <1>3, <1>4 DEF Row

\* A job that is below a level has no part in its MSHRs.
LEMMA RowWithout ==
  ASSUME NEW m, NEW G, NEW l, Row(m, G, l), NEW g, ~(l < g.d)
  PROVE  Row(m, G \ {g}, l)
<1>1. \A x \in G \ {g} : l < x.d =>
        \E f \in G : l < f.d /\ f.r.block = x.r.block /\ f.r.bits[l + 1] = x.r.bits[l + 1]
  OBVIOUS
<1>2. \A x \in G : l < x.d =>
        \E f \in G \ {g} : l < f.d /\ f.r.block = x.r.block /\ f.r.bits[l + 1] = x.r.bits[l + 1]
  OBVIOUS
<1> QED BY <1>1, <1>2, RowAlike

-----------------------------------------------------------------------------
(***************************************************************************)
(* One cache of the chain hears of an answer.                              *)
(***************************************************************************)
PutM(h, c, n) == [h EXCEPT !.mshr[c] = n]

LEMMA PutMIs ==
  ASSUME NEW h, Typed(h), NEW c \in Caches, NEW n \in Seq(mshr_entry_type), Len(n) <= mshr_entry_num[c]
  PROVE  /\ Typed(PutM(h, c, n)) /\ PutM(h, c, n).mshr = [h.mshr EXCEPT ![c] = n]
         /\ PutM(h, c, n).sets = h.sets /\ PutM(h, c, n).retry = h.retry /\ PutM(h, c, n).wait = h.wait
         /\ PutM(h, c, n).hit = h.hit /\ PutM(h, c, n).asserts = h.asserts
BY PutMshr DEF PutM

\* What an MSHR brings may be accessed as it is recorded to be.
LEMMA ArrivedCalm ==
  ASSUME OneChain, NEW h, Calm(h), NEW c \in Caches, NEW r \in Request, isBusy(h.sets[c], r.block),
         NEW m \in mshr_entry_type, MarksOK(m), m.sectors = r.bits[level[c] + 1]
  PROVE  LET g == Arrived(h, c, r, m)
         IN  /\ Calm(g) /\ g.retry = h.retry /\ g.wait = h.wait /\ g.hit = h.hit /\ g.mshr = h.mshr
             /\ \A x \in Caches : Keeps(h.sets[x], g.sets[x])
<1> DEFINE b       == r.block
           got     == r.bits[level[c] + 1]
           checked == Asserting(h, isBusy(h.sets[c], r.block), "DataToIdleBlock")
           put     == [h EXCEPT !.sets[c] = makeDirty(@, r.block)]
           soiled  == IF m.dirty THEN [checked EXCEPT !.sets[c] = makeDirty(@, r.block)] ELSE checked
           X       == IF m.dirty THEN {b} ELSE {}
           wbu     == m.will_be_used
           used    == Access(Fill(soiled, c, b, got \cup wbu), c, b, (r.actual \cap got) \cup wbu, FALSE)
           written == Access(used, c, b, m.will_be_dirty, TRUE)
           g       == Arrived(h, c, r, m)
<1>1. g = IF m.dirty THEN written ELSE used
  BY DEF Arrived
<1>2. b \in Tag /\ got \in SUBSET Sector /\ r.actual \in SUBSET Sector
  BY RequestFields, Numbers
<1>3. wbu \in SUBSET Sector /\ m.will_be_dirty \in SUBSET Sector /\ m.dirty \in BOOLEAN
  BY DEF mshr_entry_type
<1>4. got \cup wbu \in SUBSET Sector /\ (r.actual \cap got) \cup wbu \in SUBSET Sector
      /\ (r.actual \cap got) \cup wbu \subseteq got \cup wbu
  BY <1>2, <1>3
<1>5. checked = h
  BY DEF Asserting
<1>6. Typed(h) /\ Honest(h.sets[c], {}) /\ Held(h.sets[c], b) /\ HasTag(h.sets[c], b)
  BY DEF Calm, AllHonest, Held, isBusy
<1>7. m.dirty => soiled = put
  BY <1>5, Zenon
<1>8. ~m.dirty => soiled = h
  BY <1>5, Zenon
<1>9. isBusy(h.sets[c], b)
  OBVIOUS
<1>10. m.will_be_dirty \subseteq got \cup wbu /\ (m.dirty => m.will_be_dirty # {})
  BY DEF MarksOK
<1>11. X \in {{}, {b}} /\ (m.dirty => X = {b}) /\ (~m.dirty => X = {})
  OBVIOUS
<1> HIDE DEF checked, put, soiled, X, got, wbu, b, g
<1>12. /\ Typed(soiled) /\ OnlySet(h, soiled, c) /\ Keeps(h.sets[c], soiled.sets[c])
       /\ Honest(soiled.sets[c], X) /\ HasTag(soiled.sets[c], b)
  <2>1. CASE m.dirty
    <3>1. /\ Typed(put) /\ OnlySet(h, put, c) /\ Keeps(h.sets[c], put.sets[c])
          /\ Honest(put.sets[c], {b}) /\ HasTag(put.sets[c], b)
      BY <1>2, <1>6, SoilFills, Zenon DEF put, b
    <3> QED BY <2>1, <3>1, <1>7, <1>11, Zenon
  <2>2. CASE ~m.dirty
    <3>1. OnlySet(h, h, c)
      BY DEF OnlySet
    <3>2. Keeps(h.sets[c], h.sets[c])
      BY SameKeeps
    <3> QED BY <2>2, <3>1, <3>2, <1>6, <1>8, <1>11
  <2> QED BY <2>1, <2>2
<1>13. /\ Typed(used) /\ OnlySet(soiled, used, c)
       /\ Filled(soiled.sets[c], used.sets[c], b, got \cup wbu, (r.actual \cap got) \cup wbu, FALSE, X)
  <2>1. (r.actual \cap got) \cup wbu \subseteq getSectorBits(soiled.sets[c], b) \cup (got \cup wbu)
    BY <1>4
  <2> HIDE DEF used
  <2>2. FALSE \in BOOLEAN
    OBVIOUS
  <2>3. \A S \in SUBSET Sector, A \in SUBSET Sector : A \subseteq getSectorBits(soiled.sets[c], b) \cup S =>
          LET k == Access(Fill(soiled, c, b, S), c, b, A, FALSE)
          IN  Typed(k) /\ OnlySet(soiled, k, c) /\ Filled(soiled.sets[c], k.sets[c], b, S, A, FALSE, X)
    BY <1>2, <1>12, <2>2, FillAccessFills, Zenon
  <2> QED BY <1>4, <2>1, <2>3, Zenon DEF used
<1> HIDE DEF used
<1>14. /\ Keeps(soiled.sets[c], used.sets[c]) /\ HasTag(used.sets[c], b) /\ Honest(used.sets[c], X)
       /\ got \cup wbu \subseteq getSectorBits(used.sets[c], b)
  BY <1>13 DEF Filled
<1>15. OnlySet(h, used, c) /\ Keeps(h.sets[c], used.sets[c])
  BY <1>12, <1>13, <1>14, OnlySetComposes, KeepsComposes
<1>16. Typed(g) /\ OnlySet(h, g, c) /\ Keeps(h.sets[c], g.sets[c]) /\ Honest(g.sets[c], {})
  <2>1. CASE ~m.dirty
    BY <2>1, <1>1, <1>11, <1>13, <1>14, <1>15
  <2>2. CASE m.dirty
    <3>1. accessAsserts(used.sets[c], b, m.will_be_dirty)
      BY <1>10, <1>14 DEF accessAsserts, areSectorsValid
    <3>2. /\ Typed(written) /\ OnlySet(used, written, c)
          /\ Filled(used.sets[c], written.sets[c], b, {}, m.will_be_dirty, TRUE, X)
      <4>1. TRUE \in BOOLEAN
        OBVIOUS
      <4> QED BY <1>2, <1>3, <1>13, <1>14, <3>1, <4>1, AccessFills, Zenon
    <3>3. Keeps(used.sets[c], written.sets[c]) /\ Honest(written.sets[c], {})
      <4>1. X = {b} /\ m.will_be_dirty # {}
        BY <2>2, <1>10, <1>11
      <4> QED BY <3>2, <4>1, Zenon DEF Filled
    <3>4. OnlySet(h, written, c) /\ Keeps(h.sets[c], written.sets[c])
      BY <1>15, <3>2, <3>3, OnlySetComposes, KeepsComposes, Zenon
    <3> QED BY <2>2, <3>2, <3>3, <3>4, <1>1, Zenon
  <2> QED BY <2>1, <2>2
<1>17. /\ Calm(g) /\ Stays(h, g) /\ g.hit = h.hit /\ g.mshr = h.mshr
       /\ \A x \in Caches : Keeps(h.sets[x], g.sets[x])
  BY <1>16, OnlySetCalm
<1> QED BY <1>17 DEF g, Stays

\* The MSHR at x has all it waits for, and no other has.
OneDone(h, c, r, x) ==
  /\ x \in 1..Len(h.mshr[c])
  /\ h.mshr[c][x].block = r.block /\ h.mshr[c][x].sectors = r.bits[level[c] + 1]
  /\ \A j \in 1..Len(h.mshr[c]) : j # x /\ h.mshr[c][j].block = r.block =>
       h.mshr[c][j].sectors # {} /\ h.mshr[c][j].sectors \cap r.bits[level[c] + 1] = {}
\* The call of callback at a cache with one MSHR that is cleared
Answered(h, c, r, x, n) == Settle(Arrived(PutM(h, c, n), c, r, h.mshr[c][x]), c, r.block)

\* A job clears the MSHR that waits for it, and no other (Cache.cpp:1048-1176).
LEMMA CallbackIs ==
  ASSUME NEW h, HOK(h), NEW c \in Caches, NEW r \in Request, ~(r.hit <= level[c]), NEW x, OneDone(h, c, r, x)
  PROVE  \E n \in Seq(mshr_entry_type) :
            RemovedFrom(h.mshr[c], n, x) /\ CallbackAt(h, c, r) = Answered(h, c, r, x, n)
<1> DEFINE m       == h.mshr[c]
           bits    == r.bits[level[c] + 1]
           mine    == Matching(h, c, r.block)
           left(i) == m[i].sectors \ r.bits[level[c] + 1]
           cleared == {i \in mine : left(i) = {}}
           shrunk  == [i \in 1..Len(m) |->
                         IF i \in mine THEN [m[i] EXCEPT !.sectors = left(i)] ELSE m[i]]
           n       == Erase(shrunk, cleared)
           g       == [h EXCEPT !.mshr[c] = n]
           f       == CHOOSE f : FilledUpTo(f, g, c, r, m, cleared)
           res     == CallbackAt(h, c, r)
<1>1. res = IF r.hit <= level[c] THEN h ELSE IF cleared = {} THEN f[Len(m)] ELSE Settle(f[Len(m)], c, r.block)
  BY DEF CallbackAt, FilledUpTo
<1>2. Typed(h) /\ m \in Seq(mshr_entry_type) /\ Len(m) <= mshr_entry_num[c] /\ mshr_entry_num[c] \in Nat
  BY Fields, Numbers DEF HOK
<1>3. Len(m) \in Nat /\ \A i \in 1..Len(m) : m[i] \in mshr_entry_type
  BY <1>2, LenProperties
<1>4. /\ x \in 1..Len(m) /\ m[x].block = r.block /\ m[x].sectors = bits
      /\ \A j \in 1..Len(m) : j # x /\ m[j].block = r.block => m[j].sectors # {} /\ m[j].sectors \cap bits = {}
  BY DEF OneDone
<1>5. cleared = {x}
  <2>1. \A i \in mine : i \in 1..Len(m) /\ m[i].block = r.block
    BY DEF Matching
  <2>2. x \in mine
    BY <1>4 DEF Matching
  <2> QED BY <1>4, <2>1, <2>2
<1>6. /\ shrunk \in Seq(mshr_entry_type) /\ Len(shrunk) = Len(m)
      /\ \A j \in 1..Len(m) : j # x => shrunk[j] = m[j]
  <2>1. ASSUME NEW j \in 1..Len(m)
        PROVE  shrunk[j] \in mshr_entry_type /\ (j # x => shrunk[j] = m[j])
    <3>1. m[j] \in mshr_entry_type
      BY <1>3, SMTT(30)
    <3>2. CASE j \in mine
      <4>1. m[j].block = r.block
        BY <3>2 DEF Matching
      <4>2. shrunk[j] = [m[j] EXCEPT !.sectors = left(j)]
        BY <3>2
      <4>3. j # x => left(j) = m[j].sectors
        BY <1>4, <4>1
      <4> QED BY <3>1, <4>2, <4>3, Zenon DEF mshr_entry_type
    <3>3. CASE j \notin mine
      BY <3>1, <3>3
    <3> QED BY <3>2, <3>3
  <2>2. \A j \in 1..Len(m) : shrunk[j] \in mshr_entry_type /\ (j # x => shrunk[j] = m[j])
    BY <2>1, Zenon
  <2>3. shrunk = [j \in 1..Len(m) |-> shrunk[j]]
    OBVIOUS
  <2> HIDE DEF shrunk, m
  <2>4. shrunk \in Seq(mshr_entry_type) /\ Len(shrunk) = Len(m)
    BY <2>2, <2>3, <1>3
  <2> QED BY <2>2, <2>4
<1> HIDE DEF shrunk, cleared
<1>7. n \in Seq(mshr_entry_type) /\ RemovedFrom(m, n, x)
  <2>1. x \in 1..Len(shrunk)
    BY <1>4, <1>6
  <2>2. n \in Seq(mshr_entry_type) /\ RemovedFrom(shrunk, n, x)
    BY <1>5, <1>6, <2>1, EraseOne
  <2> HIDE DEF n
  <2>3. Len(n) + 1 = Len(m) /\ Len(n) \in Nat
    BY <1>6, <2>2 DEF RemovedFrom
  <2>4. \A j \in 1..Len(n) : n[j] = IF j < x THEN m[j] ELSE m[j + 1]
    BY <1>4, <1>6, <2>2, <2>3 DEF RemovedFrom
  <2> QED BY <2>2, <2>3, <2>4 DEF RemovedFrom
<1> HIDE DEF n
<1>8. Len(n) <= Len(m) /\ Len(n) \in Nat
  BY <1>3, <1>7 DEF RemovedFrom
<1>9. Typed(g) /\ g = PutM(h, c, n) /\ g.sets = h.sets
  <2>1. Len(n) <= mshr_entry_num[c]
    BY <1>2, <1>3, <1>8
  <2> QED BY <1>2, <1>7, <2>1, PutMIs DEF PutM
<1>10. isBusy(g.sets[c], r.block)
  <2>1. x \in Matching(h, c, r.block)
    BY <1>4 DEF Matching
  <2>2. r.block \in Tag
    BY RequestFields
  <2> QED BY <1>9, <2>1, <2>2, WaitedIsHeld
<1> HIDE DEF g
<1>11. FilledUpTo(f, g, c, r, m, cleared)
  <2>1. \E k : FilledUpTo(k, g, c, r, m, cleared)
    BY <1>2, <1>9, <1>10, FilledExists, Zenon
  <2> QED BY <2>1
<1> HIDE DEF f
<1> DEFINE a == Arrived(g, c, r, m[x])
           OK == {i \in Nat : i <= Len(m) => f[i] = IF i < x THEN g ELSE a}
<1>12. \A i \in 0..Len(m) : f[i] = IF i = 0 THEN g
                                   ELSE IF i = x THEN Arrived(f[i - 1], c, r, m[i]) ELSE f[i - 1]
  BY <1>5, <1>11, Zenon DEF FilledUpTo
<1>13. f[Len(m)] = a
  <2> HIDE DEF m, a
  <2>1. 0 \in OK
    BY <1>3, <1>4, <1>12
  <2>2. ASSUME NEW i \in OK PROVE i + 1 \in OK
    <3>1. i \in Nat /\ (i + 1) - 1 = i
      OBVIOUS
    <3> SUFFICES ASSUME i + 1 <= Len(m) PROVE f[i + 1] = IF i + 1 < x THEN g ELSE a
      BY <3>1
    <3>2. i + 1 \in 0..Len(m) /\ i <= Len(m) /\ i + 1 # 0
      BY <3>1, <1>3
    <3>3. f[i] = IF i < x THEN g ELSE a
      BY <3>2
    <3>4. f[i + 1] = IF i + 1 = x THEN Arrived(f[i], c, r, m[i + 1]) ELSE f[i]
      BY <3>1, <3>2, <1>12
    <3>5. CASE i + 1 = x
      <4>1. f[i] = g
        BY <3>3, <3>5, <3>1
      <4>2. f[i + 1] = Arrived(g, c, r, m[x])
        BY <3>4, <3>5, <4>1
      <4> QED BY <4>2, <3>5, <3>1 DEF a
    <3>6. CASE i + 1 # x
      <4>1. i + 1 < x <=> i < x
        BY <3>1, <3>6, <1>4
      <4> QED BY <3>3, <3>4, <3>6, <4>1
    <3> QED BY <3>5, <3>6
  <2>3. OK = Nat
    <3>1. OK \in SUBSET Nat
      OBVIOUS
    <3> HIDE DEF OK
    <3> QED BY <2>1, <2>2, <3>1, Induction
  <2>4. Len(m) \in OK
    BY <2>3, <1>3
  <2> QED BY <2>4, <1>3, <1>4
<1>14. res = Settle(a, c, r.block)
  BY <1>1, <1>5, <1>13
<1>15. a = Arrived(PutM(h, c, n), c, r, h.mshr[c][x])
  BY <1>9
<1>16. res = Answered(h, c, r, x, n)
  BY <1>14, <1>15 DEF Answered
<1> QED BY <1>7, <1>16

\* What is in use stays in use.
HeldKept(h, g) == \A l \in 0..2, x \in Tag : Held(h.sets[K(l)], x) => Held(g.sets[K(l)], x)

LEMMA KeepsHeldKept ==
  ASSUME OneChain, NEW h, NEW g, \A x \in Caches : Keeps(h.sets[x], g.sets[x])
  PROVE  HeldKept(h, g)
<1> SUFFICES ASSUME NEW l \in 0..2, NEW x \in Tag, Held(h.sets[K(l)], x) PROVE Held(g.sets[K(l)], x)
  BY DEF HeldKept
<1>1. K(l) \in Caches
  BY Level
<1> QED BY <1>1, KeepsAreHeld

\* A block becomes valid only when the cache below has it.
LEMMA SettleCalm ==
  ASSUME OneChain, NEW h, Calm(h), NEW l \in 0..2, NEW b \in Tag, isBusy(h.sets[K(l)], b),
         l # 2 => Held(h.sets[K(l + 1)], b)
  PROVE  LET g == Settle(h, K(l), b)
         IN  /\ Calm(g) /\ g.retry = h.retry /\ g.wait = h.wait /\ g.hit = h.hit /\ g.mshr = h.mshr
             /\ HeldKept(h, g)
<1> DEFINE c == K(l)
           t == validate(makeIdle(h.sets[c], b), b)
           p == [h EXCEPT !.sets[c] = validate(makeIdle(@, b), b)]
           g == Settle(h, c, b)
<1>1. c \in Caches
  BY Level
<1>2. Typed(h) /\ h.asserts = {} /\ AllHonest(h) /\ Nested(h)
  BY DEF Calm
<1>3. CASE Matching(h, c, b) # {}
  <2>1. g = h
    BY <1>3 DEF Settle
  <2> QED BY <2>1 DEF HeldKept
<1>4. CASE Matching(h, c, b) = {}
  <2>1. g = p
    BY <1>4 DEF Settle
  <2>2. p = [h EXCEPT !.sets[c] = t]
    OBVIOUS
  <2>3. HasTag(h.sets[c], b) /\ SetOK(nWays[c], h.sets[c]) /\ nWays[c] \in Nat /\ Honest(h.sets[c], {})
        /\ h.sets[c] \in [1..nWays[c] -> Way]
    BY <1>1, <1>2, Fields, Numbers DEF isBusy, AllHonest, SetOK
  <2>4. SetOK(nWays[c], t) /\ Uses(h.sets[c], t, b, FALSE, TRUE)
    BY <2>3, SettledUses, Zenon
  <2>5. Honest(t, {})
    BY <2>3, SettledHonest
  <2> HIDE DEF t, p, g, c
  <2>6. Typed(p) /\ OnlySet(h, p, c) /\ p.sets[c] = t
    BY <1>1, <1>2, <2>2, <2>4, PutOnlySet
  <2>7. \A x \in Tag : Held(h.sets[c], x) => Held(p.sets[c], x)
    BY <2>4, <2>6 DEF Uses, Held
  <2>8. \A x \in Tag : isValid(p.sets[c], x) => x = b \/ isValid(h.sets[c], x)
    BY <2>4, <2>6 DEF Uses
  <2>9. HeldKept(h, p)
    <3> SUFFICES ASSUME NEW k \in 0..2, NEW x \in Tag, Held(h.sets[K(k)], x) PROVE Held(p.sets[K(k)], x)
      BY DEF HeldKept
    <3>1. CASE K(k) = c
      BY <3>1, <2>7
    <3>2. CASE K(k) # c
      <4>1. K(k) \in Caches
        BY Level
      <4>2. p.sets[K(k)] = h.sets[K(k)]
        BY <4>1, <3>2, <2>6 DEF OnlySet
      <4> QED BY <4>2
    <3> QED BY <3>1, <3>2
  <2>10. Nested(p)
    <3> SUFFICES ASSUME NEW k \in 0..1, NEW x \in Tag, isValid(p.sets[K(k)], x) PROVE Held(p.sets[K(k + 1)], x)
      BY DEF Nested
    <3>1. k \in 0..2 /\ k + 1 \in 0..2
      OBVIOUS
    <3>2. Held(h.sets[K(k + 1)], x)
      <4>1. CASE K(k) = c
        <5>1. k = l
          BY <3>1, <4>1, Level DEF c
        <5>2. CASE x = b
          BY <5>1, <5>2
        <5>3. CASE x # b
          <6>1. isValid(h.sets[K(k)], x)
            BY <2>8, <4>1, <5>3
          <6> QED BY <6>1, <1>2 DEF Nested
        <5> QED BY <5>2, <5>3
      <4>2. CASE K(k) # c
        <5>1. K(k) \in Caches
          BY <3>1, Level
        <5>2. p.sets[K(k)] = h.sets[K(k)]
          BY <5>1, <4>2, <2>6 DEF OnlySet
        <5> QED BY <5>2, <1>2 DEF Nested
      <4> QED BY <4>1, <4>2
    <3> QED BY <3>1, <3>2, <2>9 DEF HeldKept
  <2>11. Calm(p)
    <3>1. p.mshr = h.mshr /\ p.asserts = {} /\ \A x \in Caches : x # c => p.sets[x] = h.sets[x]
      BY <1>2, <2>6 DEF OnlySet
    <3>2. AllHonest(p)
      BY <1>2, <2>5, <2>6, <3>1 DEF AllHonest
    <3>3. \A x \in Caches : \A i \in 1..Len(p.mshr[x]) : MarksOK(p.mshr[x][i])
      BY <3>1 DEF Calm
    <3> QED BY <2>6, <2>10, <3>1, <3>2, <3>3 DEF Calm
  <2> QED BY <2>1, <2>6, <2>9, <2>11 DEF OnlySet, g, c
<1> QED BY <1>3, <1>4

\* The caches above level n have heard of the answer to job g.
Called(h0, h, G, g, n) ==
  /\ Sound(h) /\ SameQueues(h0, h)
  /\ (\A x \in G : JobOK(h, x)) /\ Apart(G)
  /\ \A j \in 0..2 : Row(h.mshr[K(j)], IF j < n THEN G \ {g} ELSE G, j)

LEMMA HeldKeptJob ==
  ASSUME NEW h, NEW k, HeldKept(h, k), NEW x, JobOK(h, x)
  PROVE  JobOK(k, x)
<1>1. x.r.block \in Tag /\ x.d \in 1..3
  BY DEF JobOK, Tag
<1>2. x.d # 3 /\ Held(h.sets[K(x.d)], x.r.block) => Held(k.sets[K(x.d)], x.r.block)
  BY <1>1 DEF HeldKept
<1> QED BY <1>2 DEF JobOK

\* The cache of level l, which the job has passed, hears of the answer.
LEMMA CallPassed ==
  ASSUME OneChain, NEW h0, NEW h, NEW G, NEW g \in G, g.r.hit = g.d, NEW l \in 0..2, l < g.d,
         Called(h0, h, G, g, l)
  PROVE  Called(h0, CallbackAt(h, K(l), g.r), G, g, l + 1)
<1> DEFINE c   == K(l)
           r   == g.r
           b   == r.block
           m   == h.mshr[c]
           res == CallbackAt(h, c, r)
<1>1. c \in Caches /\ level[c] = l
  BY Level
<1>2. Sound(h) /\ HOK(h) /\ Calm(h) /\ Typed(h)
  BY DEF Called, Sound, HOK
<1>3. (\A x \in G : JobOK(h, x)) /\ Apart(G) /\ Row(m, G, l) /\ JobOK(h, g) /\ SameQueues(h0, h)
  <2>1. Row(h.mshr[K(l)], IF l < l THEN G \ {g} ELSE G, l)
    BY DEF Called
  <2> QED BY <2>1 DEF Called
<1>4. r \in Request /\ b \in Tag /\ g.d \in 1..3 /\ r.bits[l + 1] # {} /\ ~(r.hit <= level[c])
  BY <1>1, <1>3 DEF JobOK, Tag
<1>5. \A x \in G : l < x.d => x.r.bits[l + 1] # {} /\ x.r.bits[l + 1] \subseteq x.r.bits[1]
  BY <1>3, JobBits
<1>6. m \in Seq(mshr_entry_type) /\ Len(m) <= mshr_entry_num[c] /\ mshr_entry_num[c] \in Nat
      /\ Len(m) \in Nat /\ \A i \in 1..Len(m) : m[i] \in mshr_entry_type
  BY <1>1, <1>2, Fields, Numbers, LenProperties
<1> HIDE DEF c, m, b
<1>7. PICK i \in 1..Len(m) : For(m[i], g, l)
  BY <1>3 DEF Row
<1>8. m[i].block = b /\ m[i].sectors = r.bits[l + 1]
  BY <1>7 DEF For, b
<1>9. OneDone(h, c, r, i)
  <2>1. ASSUME NEW j \in 1..Len(m), j # i, m[j].block = b
        PROVE  m[j].sectors # {} /\ m[j].sectors \cap r.bits[l + 1] = {}
    <3>1. PICK x \in G : For(m[j], x, l)
      BY <1>3 DEF Row
    <3>2. m[j].sectors # {}
      BY <3>1, <1>5 DEF For
    <3>3. m[j].sectors \cap m[i].sectors = {}
      BY <2>1, <1>3, <1>8 DEF Row
    <3> QED BY <3>2, <3>3, <1>8
  <2> QED BY <2>1, <1>1, <1>8 DEF OneDone, m, b
<1>10. PICK n \in Seq(mshr_entry_type) : RemovedFrom(m, n, i) /\ res = Answered(h, c, r, i, n)
  BY <1>1, <1>2, <1>4, <1>9, CallbackIs DEF m
<1> DEFINE p == PutM(h, c, n)
           k == Arrived(p, c, r, m[i])
<1>11. Len(n) \in Nat /\ Len(n) <= Len(m) /\ Len(n) <= mshr_entry_num[c]
  <2>1. Len(n) \in Nat /\ Len(n) + 1 = Len(m)
    BY <1>10, LenProperties DEF RemovedFrom
  <2> QED BY <2>1, <1>6
<1>12. /\ Typed(p) /\ p.mshr = [h.mshr EXCEPT ![c] = n] /\ p.sets = h.sets
       /\ p.retry = h.retry /\ p.wait = h.wait /\ p.hit = h.hit /\ p.asserts = h.asserts
  BY <1>1, <1>2, <1>10, <1>11, PutMIs
<1> HIDE DEF p
<1>13. /\ p.mshr[c] = n /\ \A x \in Caches : x # c => p.mshr[x] = h.mshr[x]
  <2>1. h.mshr \in [Caches -> Seq(mshr_entry_type)]
    BY <1>1, <1>2, Fields
  <2> QED BY <2>1, <1>1, <1>12
<1>14. \A x \in 1..Len(m) : MarksOK(m[x])
  BY <1>1, <1>2 DEF Calm, m
<1>15. Calm(p)
  <2>1. \A x \in Caches : \A j \in 1..Len(p.mshr[x]) : MarksOK(p.mshr[x][j])
    <3> SUFFICES ASSUME NEW x \in Caches, NEW j \in 1..Len(p.mshr[x]) PROVE MarksOK(p.mshr[x][j])
      OBVIOUS
    <3>1. CASE x = c
      <4>1. j \in 1..Len(n) /\ p.mshr[x][j] = n[j]
        BY <3>1, <1>13
      <4>2. \A z \in 1..Len(n) : \E y \in 1..Len(m) : n[z] = m[y]
        BY <1>6, <1>10, <1>11, RemovedIndex
      <4> QED BY <4>1, <4>2, <1>14
    <3>2. CASE x # c
      BY <3>2, <1>2, <1>13 DEF Calm
    <3> QED BY <3>1, <3>2
  <2> QED BY <2>1, <1>2, <1>12 DEF Calm, AllHonest, Nested
<1>16. isBusy(h.sets[c], b)
  <2>1. i \in Matching(h, c, b)
    BY <1>8 DEF Matching, m
  <2> QED BY <2>1, <1>1, <1>2, <1>4, WaitedIsHeld
<1>17. /\ Calm(k) /\ k.retry = h.retry /\ k.wait = h.wait /\ k.hit = h.hit /\ k.mshr = p.mshr
       /\ \A x \in Caches : Keeps(h.sets[x], k.sets[x])
  <2>1. m[i] \in mshr_entry_type /\ MarksOK(m[i]) /\ m[i].sectors = r.bits[level[c] + 1]
    BY <1>1, <1>6, <1>8, <1>14
  <2>2. isBusy(p.sets[c], r.block)
    BY <1>12, <1>16 DEF b
  <2> HIDE DEF k, r
  <2>3. /\ Calm(k) /\ k.retry = p.retry /\ k.wait = p.wait /\ k.hit = p.hit /\ k.mshr = p.mshr
        /\ \A x \in Caches : Keeps(p.sets[x], k.sets[x])
    BY <1>1, <1>4, <1>15, <2>1, <2>2, ArrivedCalm DEF k
  <2> QED BY <2>3, <1>12
<1> HIDE DEF k
<1>18. HeldKept(h, k)
  BY <1>17, KeepsHeldKept
<1>19. l # 2 => Held(h.sets[K(l + 1)], b)
  <2> SUFFICES ASSUME l # 2 PROVE Held(h.sets[K(l + 1)], b)
    OBVIOUS
  <2>1. l + 1 \in 0..2 /\ K(l + 1) \in Caches
    BY Level
  <2>2. CASE l + 1 = g.d
    BY <2>2, <1>3, <1>4 DEF JobOK, b
  <2>3. CASE l + 1 # g.d
    <3>1. l + 1 < g.d
      BY <2>3, <1>4
    <3>2. Row(h.mshr[K(l + 1)], G, l + 1)
      <4>1. Row(h.mshr[K(l + 1)], IF l + 1 < l THEN G \ {g} ELSE G, l + 1)
        BY <2>1 DEF Called
      <4>2. ~(l + 1 < l)
        OBVIOUS
      <4> QED BY <4>1, <4>2
    <3>3. PICK j \in 1..Len(h.mshr[K(l + 1)]) : For(h.mshr[K(l + 1)][j], g, l + 1)
      BY <3>1, <3>2 DEF Row
    <3>4. j \in Matching(h, K(l + 1), b)
      BY <3>3 DEF For, Matching, b
    <3> QED BY <2>1, <3>4, <1>2, <1>4, WaitedIsHeld
  <2> QED BY <2>2, <2>3
<1>20. /\ Calm(res) /\ res.retry = h.retry /\ res.wait = h.wait /\ res.hit = h.hit /\ res.mshr = p.mshr
       /\ HeldKept(h, res)
  <2>1. res = Settle(k, K(l), b)
    BY <1>10 DEF Answered, k, p, b, m, c
  <2>2. isBusy(k.sets[K(l)], b)
    BY <1>1, <1>4, <1>16, <1>17 DEF Keeps, c
  <2>3. l # 2 => Held(k.sets[K(l + 1)], b)
    <3>1. l # 2 => l + 1 \in 0..2
      OBVIOUS
    <3> QED BY <3>1, <1>4, <1>18, <1>19 DEF HeldKept
  <2> HIDE DEF res
  <2>4. /\ Calm(res) /\ res.retry = k.retry /\ res.wait = k.wait /\ res.hit = k.hit /\ res.mshr = k.mshr
        /\ HeldKept(k, res)
    BY <1>4, <1>17, <2>1, <2>2, <2>3, SettleCalm
  <2>5. HeldKept(h, res)
    BY <1>18, <2>4 DEF HeldKept
  <2> QED BY <2>4, <2>5, <1>17
<1>21. HOK(res)
  BY <1>1, <1>2, <1>4, CallbackAtOK
<1> HIDE DEF res
<1>22. Sound(res) /\ SameQueues(h0, res)
  BY <1>3, <1>20, <1>21 DEF Sound, SameQueues
<1>23. \A x \in G : JobOK(res, x)
  BY <1>3, <1>20, HeldKeptJob
<1>24. \A j \in 0..2 : Row(res.mshr[K(j)], IF j < l + 1 THEN G \ {g} ELSE G, j)
  <2> SUFFICES ASSUME NEW j \in 0..2 PROVE Row(res.mshr[K(j)], IF j < l + 1 THEN G \ {g} ELSE G, j)
    OBVIOUS
  <2>1. CASE j = l
    <3>1. Row(n, G \ {g}, l)
      BY <1>3, <1>5, <1>6, <1>7, <1>10, <1>11, RowRemoved, Zenon
    <3>2. res.mshr[K(j)] = n
      BY <2>1, <1>13, <1>20 DEF c
    <3> QED BY <2>1, <3>1, <3>2
  <2>2. CASE j # l
    <3>1. K(j) \in Caches /\ K(j) # c
      BY <2>2, Level DEF c
    <3>2. res.mshr[K(j)] = h.mshr[K(j)]
      BY <3>1, <1>13, <1>20
    <3>3. j < l + 1 <=> j < l
      BY <2>2
    <3>4. Row(h.mshr[K(j)], IF j < l THEN G \ {g} ELSE G, j)
      BY DEF Called
    <3> QED BY <3>2, <3>3, <3>4
  <2> QED BY <2>1, <2>2
<1> QED BY <1>3, <1>22, <1>23, <1>24 DEF Called, res, c

\* A cache the answer does not pass is left as it is.
LEMMA CallPastHit ==
  ASSUME NEW h, NEW c, NEW r, r.hit <= level[c]
  PROVE  CallbackAt(h, c, r) = h
BY ZenonT(30) DEF CallbackAt

LEMMA CallNotPassed ==
  ASSUME OneChain, NEW h0, NEW h, NEW G, NEW g \in G, g.r.hit = g.d, NEW l \in 0..2, ~(l < g.d),
         Called(h0, h, G, g, l)
  PROVE  Called(h0, CallbackAt(h, K(l), g.r), G, g, l + 1)
<1>1. level[K(l)] = l
  BY Level
<1>2. g.d \in 1..3
  BY DEF Called, JobOK
<1>3. CallbackAt(h, K(l), g.r) = h
  <2>1. g.r.hit <= level[K(l)]
    BY <1>1, <1>2
  <2> QED BY <2>1, CallPastHit
<1>4. \A j \in 0..2 : Row(h.mshr[K(j)], IF j < l + 1 THEN G \ {g} ELSE G, j)
  <2> SUFFICES ASSUME NEW j \in 0..2 PROVE Row(h.mshr[K(j)], IF j < l + 1 THEN G \ {g} ELSE G, j)
    OBVIOUS
  <2>1. Row(h.mshr[K(j)], IF j < l THEN G \ {g} ELSE G, j)
    BY DEF Called
  <2>2. CASE j = l
    <3>1. Row(h.mshr[K(j)], G, j) /\ ~(j < g.d)
      BY <2>1, <2>2
    <3>2. Row(h.mshr[K(j)], G \ {g}, j)
      BY <3>1, RowWithout
    <3> QED BY <2>2, <3>2
  <2>3. CASE j # l
    <3>1. j < l + 1 <=> j < l
      BY <2>3
    <3> QED BY <2>1, <3>1
  <2> QED BY <2>2, <2>3
<1> QED BY <1>3, <1>4 DEF Called

\* callback, written out for the chain
LEMMA CallbackChain ==
  ASSUME OneChain, NEW h, HOK(h), NEW r \in Request
  PROVE  callback(h, r) = CallbackAt(CallbackAt(CallbackAt(h, K(0), r), K(1), r), K(2), r)
<1> DEFINE f == CHOOSE f : CalledUpTo(f, h, r)
<1>1. callback(h, r) = f[Len(caches)]
  BY DEF callback, CalledUpTo
<1>2. CalledUpTo(f, h, r)
  <2>1. \E k : CalledUpTo(k, h, r)
    BY CalledExists
  <2> QED BY <2>1
<1> HIDE DEF f
<1>3. Len(caches) = 3
  BY DEF OneChain
<1>4. \A i \in 0..3 : f[i] = IF i = 0 THEN h ELSE CallbackAt(f[i - 1], caches[i], r)
  BY <1>2, <1>3 DEF CalledUpTo
<1>5. f[0] = h /\ f[1] = CallbackAt(f[0], caches[1], r) /\ f[2] = CallbackAt(f[1], caches[2], r)
      /\ f[3] = CallbackAt(f[2], caches[3], r)
  BY <1>4
<1>6. K(0) = caches[1] /\ K(1) = caches[2] /\ K(2) = caches[3]
  BY DEF K
<1> QED BY <1>1, <1>3, <1>5, <1>6

\* The answer to a job ends it: its MSHRs are gone, and no assert has failed.
LEMMA JobDone ==
  ASSUME OneChain, NEW h, Sound(h), NEW G, Tied(h, G), NEW g \in G, g.r.hit = g.d
  PROVE  /\ Sound(callback(h, g.r)) /\ Tied(callback(h, g.r), G \ {g})
         /\ SameQueues(h, callback(h, g.r))
<1> DEFINE r  == g.r
           h1 == CallbackAt(h, K(0), r)
           h2 == CallbackAt(h1, K(1), r)
           h3 == CallbackAt(h2, K(2), r)
<1>1. r \in Request /\ g.d \in 1..3 /\ HOK(h)
  BY DEF Tied, JobOK, Sound
<1>2. Called(h, h, G, g, 0)
  <2>1. \A j \in 0..2 : ~(j < 0)
    OBVIOUS
  <2> QED BY <2>1 DEF Called, Tied, SameQueues
<1>3. \A l \in 0..2 : \A k : Called(h, k, G, g, l) => Called(h, CallbackAt(k, K(l), r), G, g, l + 1)
  BY CallPassed, CallNotPassed
<1> HIDE DEF r
<1>4. Called(h, h1, G, g, 0 + 1)
  <2>1. 0 \in 0..2
    OBVIOUS
  <2> QED BY <1>2, <1>3, <2>1
<1>5. Called(h, h2, G, g, 1 + 1)
  <2>1. 1 \in 0..2 /\ Called(h, h1, G, g, 1)
    BY <1>4
  <2> HIDE DEF h1
  <2> QED BY <1>3, <2>1
<1>6. Called(h, h3, G, g, 2 + 1)
  <2>1. 2 \in 0..2 /\ Called(h, h2, G, g, 2)
    BY <1>5
  <2> HIDE DEF h2
  <2> QED BY <1>3, <2>1
<1>7. Called(h, h3, G, g, 3)
  BY <1>6
<1>8. callback(h, r) = h3
  BY <1>1, CallbackChain
<1> HIDE DEF h3
<1>9. Tied(h3, G \ {g})
  <2>1. \A x \in G \ {g} : JobOK(h3, x)
    BY <1>7 DEF Called
  <2>2. Apart(G \ {g})
    BY <1>7 DEF Called, Apart
  <2>3. \A j \in 0..2 : Row(h3.mshr[K(j)], G \ {g}, j)
    <3>1. \A j \in 0..2 : j < 3
      OBVIOUS
    <3> QED BY <1>7, <3>1 DEF Called
  <2> QED BY <2>1, <2>2, <2>3 DEF Tied
<1> QED BY <1>7, <1>8, <1>9 DEF Called, r

\* An answer that comes from the first cache changes nothing in the hierarchy.
LEMMA HitFirstDone ==
  ASSUME OneChain, NEW h, HOK(h), NEW r \in Request, r.hit = 0
  PROVE  callback(h, r) = h
<1>1. \A l \in 0..2 : CallbackAt(h, K(l), r) = h
  <2> SUFFICES ASSUME NEW l \in 0..2 PROVE CallbackAt(h, K(l), r) = h
    OBVIOUS
  <2>1. level[K(l)] = l
    BY Level
  <2>2. r.hit <= level[K(l)]
    BY <2>1
  <2> QED BY <2>2, CallPastHit
<1>2. CallbackAt(h, K(0), r) = h /\ CallbackAt(h, K(1), r) = h /\ CallbackAt(h, K(2), r) = h
  BY <1>1
<1> QED BY <1>2, CallbackChain

-----------------------------------------------------------------------------
(***************************************************************************)
(* The lists, and the jobs they hold.                                      *)
(***************************************************************************)
In(q, x) == \E i \in 1..Len(q) : q[i] = x
\* No element of q is there twice, but for those in Z.
Once(q, Z) == \A i, j \in 1..Len(q) : q[i] = q[j] /\ q[i] \notin Z => i = j
\* p is q with x at its end.
Appended(q, p, x) ==
  Len(p) = Len(q) + 1 /\ (\A i \in 1..Len(q) : p[i] = q[i]) /\ p[Len(q) + 1] = x

LEMMA AppendedIs ==
  ASSUME NEW D, NEW q \in Seq(D), NEW x \in D
  PROVE  /\ Appended(q, q \o <<x>>, x) /\ Appended(q, Append(q, x), x) /\ Len(q) \in Nat
         /\ q \o <<x>> \in Seq(D) /\ Append(q, x) \in Seq(D)
<1>1. Len(q) \in Nat
  BY LenProperties
<1>2. Appended(q, Append(q, x), x) /\ Append(q, x) \in Seq(D)
  BY AppendProperties DEF Appended
<1>3. q \o <<x>> \in Seq(D) /\ Len(q \o <<x>>) = Len(q) + 1
  OBVIOUS
<1>4. (\A i \in 1..Len(q) : (q \o <<x>>)[i] = q[i]) /\ (q \o <<x>>)[Len(q) + 1] = x
  OBVIOUS
<1> QED BY <1>1, <1>2, <1>3, <1>4 DEF Appended

\* An element that is not there yet joins a list,
LEMMA AppendedIn ==
  ASSUME NEW q, Len(q) \in Nat, NEW p, NEW x, Appended(q, p, x), NEW Z, Once(q, Z), x \in Z \/ ~In(q, x)
  PROVE  Once(p, Z) /\ \A z : In(p, z) <=> z = x \/ In(q, z)
<1> DEFINE n == Len(q)
<1>1. Len(p) = n + 1 /\ (\A i \in 1..n : p[i] = q[i]) /\ p[n + 1] = x
  BY DEF Appended
<1>2. 1..Len(p) = 1..n \cup {n + 1}
  BY <1>1
<1>3. \A z : In(p, z) <=> z = x \/ In(q, z)
  BY <1>1, <1>2 DEF In
<1>4. Once(p, Z)
  <2> SUFFICES ASSUME NEW i \in 1..Len(p), NEW j \in 1..Len(p), p[i] = p[j], p[i] \notin Z PROVE i = j
    BY DEF Once
  <2>1. CASE i \in 1..n /\ j \in 1..n
    BY <2>1, <1>1 DEF Once
  <2>2. CASE i = n + 1 /\ j \in 1..n
    <3>1. q[j] = x /\ x \notin Z
      BY <2>2, <1>1
    <3> QED BY <2>2, <3>1 DEF In
  <2>3. CASE i \in 1..n /\ j = n + 1
    <3>1. q[i] = x /\ x \notin Z
      BY <2>3, <1>1
    <3> QED BY <2>3, <3>1 DEF In
  <2> QED BY <2>1, <2>2, <2>3, <1>2
<1> QED BY <1>3, <1>4

\* and one leaves it.
LEMMA RemovedIn ==
  ASSUME NEW q, Len(q) \in Nat, NEW p, Len(p) \in Nat, NEW i \in 1..Len(q), RemovedFrom(q, p, i),
         NEW Z, Once(q, Z)
  PROVE  /\ Once(p, Z) /\ \A z : z \notin Z => (In(p, z) <=> In(q, z) /\ z # q[i])
         /\ \A z : In(p, z) => In(q, z)
         /\ \A z : In(q, z) => z = q[i] \/ In(p, z)
<1> DEFINE at(j) == IF j < i THEN j ELSE j + 1
<1>1. /\ \A j \in 1..Len(p) : at(j) \in 1..Len(q) /\ at(j) # i /\ p[j] = q[at(j)]
      /\ \A k \in 1..Len(q) : k # i => \E j \in 1..Len(p) : p[j] = q[k]
      /\ \A j, k \in 1..Len(p) : j # k => at(j) # at(k)
  BY RemovedIndex
<1> HIDE DEF at
<1>2. \A z : In(p, z) => In(q, z)
  BY <1>1, Zenon DEF In
<1>3. \A z : In(q, z) => z = q[i] \/ In(p, z)
  BY <1>1 DEF In
<1>4. \A z : z \notin Z => (In(p, z) => z # q[i])
  BY <1>1 DEF In, Once
<1>5. Once(p, Z)
  <2> SUFFICES ASSUME NEW j \in 1..Len(p), NEW k \in 1..Len(p), p[j] = p[k], p[j] \notin Z PROVE j = k
    BY DEF Once
  <2>1. at(j) \in 1..Len(q) /\ at(k) \in 1..Len(q) /\ q[at(j)] = q[at(k)] /\ q[at(j)] \notin Z
    BY <1>1, Zenon
  <2>2. at(j) = at(k)
    BY <2>1 DEF Once
  <2> QED BY <2>2, <1>1
<1> QED BY <1>2, <1>3, <1>4, <1>5

\* r is in a list as a job of depth d; F are the reads the memory has taken.
IsJob(h, F, r, d) ==
  \/ d \in 1..2 /\ r.hit = 3 /\ In(h.retry[K(d - 1)], r)
  \/ d \in 1..2 /\ r.hit = d /\ In(h.hit, r)
  \/ d = 3 /\ r.type = "READ" /\ r \in h.wait \cup F
\* The jobs the lists hold
JobsOf(h, F) == {g \in [r : Request, d : 1..3] : IsJob(h, F, g.r, g.d)}

\* The last level refuses nobody, and what was refused has hit nowhere.
RetryLists(h) ==
  /\ \A l \in 0..1 : /\ Once(h.retry[K(l)], {})
                     /\ \A x : In(h.retry[K(l)], x) => x.hit = 3
  /\ Len(h.retry[K(2)]) = 0
\* Requests that hit in the first cache may be there twice: one that was merged
\* or hit does not become another.
FirstHit == {x \in Request : x.hit = 0}
HitList(h) == Once(h.hit, FirstHit) /\ \A x : In(h.hit, x) => x.hit # 3
\* Writes bring the cores nothing, and reads are in one place.
WaitList(h, F) ==
  /\ F \subseteq Request /\ \A x \in F : x.type = "READ" /\ x \notin h.wait
  /\ \A x \in h.wait : x.type = "WRITE" => x.bits[0] = {}
ListsOK(h, F) == RetryLists(h) /\ HitList(h) /\ WaitList(h, F)

\* The hierarchy, with reads F in the memory, is sound and tied to its jobs.
HInv(h, F) == Sound(h) /\ Tied(h, JobsOf(h, F)) /\ ListsOK(h, F)

LEMMA JobIs ==
  ASSUME NEW h, NEW F, NEW r, NEW d
  PROVE  Job(r, d) \in JobsOf(h, F) <=> r \in Request /\ d \in 1..3 /\ IsJob(h, F, r, d)
BY DEF Job, JobsOf

LEMMA JobsAre ==
  ASSUME NEW h, NEW F, NEW X \in SUBSET [r : Request, d : 1..3],
         \A r \in Request, d \in 1..3 : Job(r, d) \in X <=> IsJob(h, F, r, d)
  PROVE  JobsOf(h, F) = X
<1>1. \A g \in [r : Request, d : 1..3] : g = Job(g.r, g.d) /\ g.r \in Request /\ g.d \in 1..3
  BY DEF Job
<1>2. JobsOf(h, F) \subseteq X
  <2> SUFFICES ASSUME NEW g \in JobsOf(h, F) PROVE g \in X
    OBVIOUS
  <2>1. g \in [r : Request, d : 1..3] /\ IsJob(h, F, g.r, g.d)
    BY DEF JobsOf
  <2>2. Job(g.r, g.d) \in X
    BY <1>1, <2>1
  <2> QED BY <1>1, <2>1, <2>2
<1>3. X \subseteq JobsOf(h, F)
  <2> SUFFICES ASSUME NEW g \in X PROVE g \in JobsOf(h, F)
    OBVIOUS
  <2>1. g \in [r : Request, d : 1..3]
    OBVIOUS
  <2>2. g = Job(g.r, g.d) /\ g.r \in Request /\ g.d \in 1..3
    BY <1>1, <2>1
  <2>3. IsJob(h, F, g.r, g.d)
    <3>1. Job(g.r, g.d) \in X
      BY <2>2
    <3> QED BY <2>2, <3>1
  <2> QED BY <2>1, <2>3 DEF JobsOf
<1> QED BY <1>2, <1>3

LEMMA WaitSame ==
  ASSUME NEW h, NEW F, WaitList(h, F), NEW g, WaitGrows(h, g)
  PROVE  WaitList(g, F) /\ \A r : r.type = "READ" => (r \in g.wait \cup F <=> r \in h.wait \cup F)
<1>1. /\ F \subseteq Request /\ (\A x \in F : x.type = "READ" /\ x \notin h.wait)
      /\ \A x \in h.wait : x.type = "WRITE" => x.bits[0] = {}
  BY DEF WaitList
<1>2. /\ h.wait \subseteq g.wait /\ \A x \in g.wait \ h.wait : x.type = "WRITE" /\ x.bits[0] = {}
  BY DEF WaitGrows
<1>3. \A x \in F : x.type = "READ" /\ x \notin g.wait
  BY <1>1, <1>2
<1>4. \A x \in g.wait : x.type = "WRITE" => x.bits[0] = {}
  BY <1>1, <1>2
<1>5. \A r : r.type = "READ" => (r \in g.wait \cup F <=> r \in h.wait \cup F)
  BY <1>2
<1> QED BY <1>1, <1>3, <1>4, <1>5 DEF WaitList

\* The lists after request y has joined one as a new job
Joins(h, g, F, y, d) ==
  ListsOK(g, F) /\ \A r \in Request, e \in 1..3 : IsJob(g, F, r, e) <=> IsJob(h, F, r, e) \/ (r = y /\ e = d)

LEMMA ToRetryJoins ==
  ASSUME OneChain, NEW h, Typed(h), NEW F, ListsOK(h, F), NEW g, NEW y \in Request,
         NEW d, ToRetry(h, g, y, d), ~IsJob(h, F, y, d)
  PROVE  Joins(h, g, F, y, d)
<1> DEFINE c == K(d - 1)
           q == h.retry[c]
           p == q \o <<y>>
<1>1. /\ d \in 1..2 /\ y.hit = 3 /\ g.retry = [h.retry EXCEPT ![c] = p] /\ g.hit = h.hit
      /\ WaitGrows(h, g)
  BY DEF ToRetry
<1>2. d - 1 \in 0..1 /\ d - 1 \in 0..2 /\ c \in Caches
  BY <1>1, Level
<1>3. h.retry \in [Caches -> Seq(Request)] /\ q \in Seq(Request)
  BY <1>2, Fields
<1>4. g.retry[c] = p /\ \A x \in Caches : x # c => g.retry[x] = h.retry[x]
  BY <1>1, <1>2, <1>3
<1>5. /\ (\A l \in 0..1 : Once(h.retry[K(l)], {}) /\ \A x : In(h.retry[K(l)], x) => x.hit = 3)
      /\ Len(h.retry[K(2)]) = 0 /\ HitList(h) /\ WaitList(h, F)
  BY DEF ListsOK, RetryLists
<1>6. ~In(q, y)
  BY <1>1 DEF IsJob
<1>7. Once(p, {}) /\ \A z : In(p, z) <=> z = y \/ In(q, z)
  <2>1. Appended(q, p, y) /\ Len(q) \in Nat
    BY <1>3, AppendedIs
  <2>2. Once(q, {})
    BY <1>2, <1>5
  <2> QED BY <2>1, <2>2, <1>6, AppendedIn
<1> HIDE DEF p, q
<1>8. \A l \in 0..1 : l # d - 1 => g.retry[K(l)] = h.retry[K(l)]
  <2> SUFFICES ASSUME NEW l \in 0..1, l # d - 1 PROVE g.retry[K(l)] = h.retry[K(l)]
    OBVIOUS
  <2>1. l \in 0..2
    OBVIOUS
  <2>2. K(l) \in Caches /\ K(l) # c
    BY <2>1, <1>2, Level
  <2> QED BY <2>2, <1>4
<1>9. g.retry[K(2)] = h.retry[K(2)]
  <2>1. K(2) \in Caches /\ K(2) # c
    <3>1. 2 \in 0..2 /\ 2 # d - 1
      BY <1>1
    <3> QED BY <3>1, <1>2, Level
  <2> QED BY <2>1, <1>4
<1>10. RetryLists(g)
  <2> SUFFICES ASSUME NEW l \in 0..1
               PROVE  Once(g.retry[K(l)], {}) /\ \A x : In(g.retry[K(l)], x) => x.hit = 3
    BY <1>5, <1>9 DEF RetryLists
  <2>1. CASE l = d - 1
    <3>1. \A x : In(q, x) => x.hit = 3
      BY <1>2, <1>5 DEF q
    <3> QED BY <2>1, <3>1, <1>1, <1>4, <1>7
  <2>2. CASE l # d - 1
    BY <2>2, <1>5, <1>8
  <2> QED BY <2>1, <2>2
<1>11. HitList(g)
  BY <1>1, <1>5 DEF HitList
<1>12. WaitList(g, F) /\ \A r : r.type = "READ" => (r \in g.wait \cup F <=> r \in h.wait \cup F)
  BY <1>1, <1>5, WaitSame
<1>13. ASSUME NEW r \in Request, NEW e \in 1..3
       PROVE  IsJob(g, F, r, e) <=> IsJob(h, F, r, e) \/ (r = y /\ e = d)
  <2>1. CASE e = d
    <3>1. In(g.retry[K(e - 1)], r) <=> r = y \/ In(h.retry[K(e - 1)], r)
      BY <2>1, <1>4, <1>7 DEF q
    <3>2. e \in 1..2 /\ e # 3
      BY <2>1, <1>1
    <3> QED BY <2>1, <3>1, <3>2, <1>1 DEF IsJob
  <2>2. CASE e # d
    <3>1. e \in 1..2 => e - 1 \in 0..1 /\ e - 1 # d - 1
      BY <2>2, <1>1
    <3>2. e \in 1..2 => g.retry[K(e - 1)] = h.retry[K(e - 1)]
      BY <3>1, <1>8
    <3> QED BY <2>2, <3>2, <1>1, <1>12 DEF IsJob
  <2> QED BY <2>1, <2>2
<1> QED BY <1>10, <1>11, <1>12, <1>13 DEF Joins, ListsOK

LEMMA ToHitJoins ==
  ASSUME OneChain, NEW h, Typed(h), NEW F, ListsOK(h, F), NEW g, NEW y \in Request,
         NEW d, ToHit(h, g, y, d), ~IsJob(h, F, y, d)
  PROVE  Joins(h, g, F, y, d)
<1>1. /\ d \in 1..2 /\ y.hit = d /\ g.retry = h.retry /\ g.hit = Append(h.hit, y) /\ WaitGrows(h, g)
  BY DEF ToHit
<1>2. RetryLists(h) /\ Once(h.hit, FirstHit) /\ (\A x : In(h.hit, x) => x.hit # 3) /\ WaitList(h, F)
  BY DEF ListsOK, HitList
<1>3. h.hit \in Seq(Request)
  <2>1. K(0) \in Caches
    BY Chain
  <2> QED BY <2>1, Fields
<1>4. ~In(h.hit, y)
  BY <1>1 DEF IsJob
<1>5. Once(g.hit, FirstHit) /\ \A z : In(g.hit, z) <=> z = y \/ In(h.hit, z)
  <2>1. Appended(h.hit, Append(h.hit, y), y) /\ Len(h.hit) \in Nat
    BY <1>3, AppendedIs, Zenon
  <2> QED BY <2>1, <1>1, <1>2, <1>4, AppendedIn
<1>6. RetryLists(g) /\ HitList(g)
  BY <1>1, <1>2, <1>5 DEF RetryLists, HitList
<1>7. WaitList(g, F) /\ \A r : r.type = "READ" => (r \in g.wait \cup F <=> r \in h.wait \cup F)
  BY <1>1, <1>2, WaitSame
<1>8. ASSUME NEW r \in Request, NEW e \in 1..3
      PROVE  IsJob(g, F, r, e) <=> IsJob(h, F, r, e) \/ (r = y /\ e = d)
  <2>1. e \in 1..2 => e # 3
    OBVIOUS
  <2> QED BY <1>1, <1>5, <1>7 DEF IsJob
<1> QED BY <1>6, <1>7, <1>8 DEF Joins, ListsOK

LEMMA ToWaitJoins ==
  ASSUME NEW h, NEW F, ListsOK(h, F), NEW g, NEW y \in Request, y.type = "READ",
         NEW d, ToWait(h, g, y, d), ~IsJob(h, F, y, d)
  PROVE  Joins(h, g, F, y, d)
<1>1. /\ d = 3 /\ g.retry = h.retry /\ g.hit = h.hit /\ h.wait \cup {y} \subseteq g.wait
      /\ \A x \in g.wait \ (h.wait \cup {y}) : x.type = "WRITE" /\ x.bits[0] = {}
  BY DEF ToWait
<1>2. RetryLists(h) /\ HitList(h) /\ WaitList(h, F)
  BY DEF ListsOK
<1>3. y \notin h.wait \cup F
  BY <1>1 DEF IsJob
<1>4. RetryLists(g) /\ HitList(g)
  BY <1>1, <1>2 DEF RetryLists, HitList
<1>5. WaitList(g, F)
  <2>1. \A x \in F : x.type = "READ" /\ x \notin g.wait
    BY <1>1, <1>2, <1>3 DEF WaitList
  <2>2. \A x \in g.wait : x.type = "WRITE" => x.bits[0] = {}
    BY <1>1, <1>2 DEF WaitList
  <2> QED BY <2>1, <2>2, <1>2 DEF WaitList
<1>6. \A r : r.type = "READ" => (r \in g.wait \cup F <=> r = y \/ r \in h.wait \cup F)
  BY <1>1
<1>7. ASSUME NEW r \in Request, NEW e \in 1..3
      PROVE  IsJob(g, F, r, e) <=> IsJob(h, F, r, e) \/ (r = y /\ e = d)
  <2>1. e \in 1..2 => e # 3
    OBVIOUS
  <2> QED BY <2>1, <1>1, <1>6 DEF IsJob
<1> QED BY <1>4, <1>5, <1>7 DEF Joins, ListsOK

\* Whatever list a request joins, there is one job more.
LEMMA MovedJoins ==
  ASSUME OneChain, NEW h, Typed(h), NEW F, ListsOK(h, F), NEW g, NEW y \in Request, y.type = "READ",
         NEW d \in 1..3, NEW l, Moved(l, h, g, y, d), Job(y, d) \notin JobsOf(h, F)
  PROVE  ListsOK(g, F) /\ JobsOf(g, F) = JobsOf(h, F) \cup {Job(y, d)}
<1>1. ~IsJob(h, F, y, d)
  BY JobIs
<1>2. Joins(h, g, F, y, d)
  BY <1>1, ToRetryJoins, ToHitJoins, ToWaitJoins DEF Moved
<1> DEFINE X == JobsOf(h, F) \cup {Job(y, d)}
<1>3. X \in SUBSET [r : Request, d : 1..3]
  BY DEF JobsOf, Job
<1>4. \A r \in Request, e \in 1..3 : Job(r, e) \in X <=> IsJob(g, F, r, e)
  <2> SUFFICES ASSUME NEW r \in Request, NEW e \in 1..3 PROVE Job(r, e) \in X <=> IsJob(g, F, r, e)
    OBVIOUS
  <2>1. Job(r, e) = Job(y, d) <=> r = y /\ e = d
    BY DEF Job
  <2>2. Job(r, e) \in JobsOf(h, F) <=> IsJob(h, F, r, e)
    BY JobIs
  <2>3. IsJob(g, F, r, e) <=> IsJob(h, F, r, e) \/ (r = y /\ e = d)
    BY <1>2 DEF Joins
  <2> QED BY <2>1, <2>2, <2>3
<1> HIDE DEF X
<1>5. JobsOf(g, F) = X
  BY <1>3, <1>4, JobsAre
<1> QED BY <1>2, <1>5 DEF Joins, X

\* The lists after request y has left one as a job
Parts(h, g, F, H, y, d) ==
  ListsOK(g, H) /\ \A r \in Request, e \in 1..3 : IsJob(g, H, r, e) <=> IsJob(h, F, r, e) /\ ~(r = y /\ e = d)

LEMMA PartsJobs ==
  ASSUME NEW h, NEW g, NEW F, NEW H, NEW y, NEW d, Parts(h, g, F, H, y, d)
  PROVE  ListsOK(g, H) /\ JobsOf(g, H) = JobsOf(h, F) \ {Job(y, d)}
<1> DEFINE X == JobsOf(h, F) \ {Job(y, d)}
<1>1. X \in SUBSET [r : Request, d : 1..3]
  BY DEF JobsOf
<1>2. \A r \in Request, e \in 1..3 : Job(r, e) \in X <=> IsJob(g, H, r, e)
  <2> SUFFICES ASSUME NEW r \in Request, NEW e \in 1..3 PROVE Job(r, e) \in X <=> IsJob(g, H, r, e)
    OBVIOUS
  <2>1. Job(r, e) = Job(y, d) <=> r = y /\ e = d
    BY DEF Job
  <2>2. Job(r, e) \in JobsOf(h, F) <=> IsJob(h, F, r, e)
    BY JobIs
  <2>3. IsJob(g, H, r, e) <=> IsJob(h, F, r, e) /\ ~(r = y /\ e = d)
    BY DEF Parts
  <2> QED BY <2>1, <2>2, <2>3
<1> HIDE DEF X
<1>3. JobsOf(g, H) = X
  BY <1>1, <1>2, JobsAre
<1> QED BY <1>3 DEF Parts, X

\* A request leaves a retry list,
LEMMA RetryParts ==
  ASSUME OneChain, NEW h, Typed(h), NEW F, ListsOK(h, F), NEW l \in 0..1,
         NEW i \in 1..Len(h.retry[K(l)]), NEW g, g.hit = h.hit, g.wait = h.wait,
         g.retry = [h.retry EXCEPT ![K(l)] = RemoveAt(h.retry[K(l)], i)]
  PROVE  Parts(h, g, F, F, h.retry[K(l)][i], l + 1)
<1> DEFINE c == K(l)
           q == h.retry[c]
           p == RemoveAt(q, i)
           y == q[i]
<1>1. l \in 0..2 /\ c \in Caches /\ 2 \in 0..2 /\ K(2) \in Caches /\ K(2) # c
  BY Level
<1>2. h.retry \in [Caches -> Seq(Request)] /\ q \in Seq(Request) /\ Len(q) \in Nat
  BY <1>1, Fields, LenProperties
<1>3. g.retry[c] = p /\ \A x \in Caches : x # c => g.retry[x] = h.retry[x]
  BY <1>1, <1>2
<1>4. /\ (\A k \in 0..1 : Once(h.retry[K(k)], {}) /\ \A x : In(h.retry[K(k)], x) => x.hit = 3)
      /\ Len(h.retry[K(2)]) = 0 /\ HitList(h) /\ WaitList(h, F)
  BY DEF ListsOK, RetryLists
<1>5. Once(p, {}) /\ \A z : In(p, z) <=> In(q, z) /\ z # y
  <2>1. p \in Seq(Request) /\ RemovedFrom(q, p, i)
    BY <1>2, RemoveAtIs
  <2>2. Len(p) \in Nat
    BY <2>1, LenProperties
  <2>3. Once(q, {})
    BY <1>4
  <2> HIDE DEF p, q
  <2>4. /\ Once(p, {}) /\ (\A z : z \notin {} => (In(p, z) <=> In(q, z) /\ z # q[i]))
    <3>1. i \in 1..Len(q)
      BY DEF q
    <3> QED BY <2>1, <2>2, <2>3, <3>1, <1>2, RemovedIn
  <2> QED BY <2>4
<1>6. y.hit = 3
  <2>1. In(q, y)
    BY DEF In
  <2> QED BY <2>1, <1>4
<1> HIDE DEF p, q, y
<1>7. \A k \in 0..1 : k # l => g.retry[K(k)] = h.retry[K(k)]
  <2> SUFFICES ASSUME NEW k \in 0..1, k # l PROVE g.retry[K(k)] = h.retry[K(k)]
    OBVIOUS
  <2>1. k \in 0..2
    OBVIOUS
  <2>2. K(k) \in Caches /\ K(k) # c
    BY <2>1, <1>1, Level
  <2> QED BY <2>2, <1>3
<1>8. RetryLists(g)
  <2> SUFFICES ASSUME NEW k \in 0..1
               PROVE  Once(g.retry[K(k)], {}) /\ \A x : In(g.retry[K(k)], x) => x.hit = 3
    BY <1>1, <1>3, <1>4 DEF RetryLists
  <2>1. CASE k = l
    <3>1. \A x : In(q, x) => x.hit = 3
      BY <1>4 DEF q
    <3> QED BY <2>1, <3>1, <1>3, <1>5
  <2>2. CASE k # l
    BY <2>2, <1>4, <1>7
  <2> QED BY <2>1, <2>2
<1>9. HitList(g) /\ WaitList(g, F)
  BY <1>4 DEF HitList, WaitList
<1>10. ASSUME NEW r \in Request, NEW e \in 1..3
       PROVE  IsJob(g, F, r, e) <=> IsJob(h, F, r, e) /\ ~(r = y /\ e = l + 1)
  <2>1. CASE e = l + 1
    <3>1. In(g.retry[K(e - 1)], r) <=> In(h.retry[K(e - 1)], r) /\ r # y
      BY <2>1, <1>3, <1>5 DEF q
    <3>2. e \in 1..2 /\ e # 3
      BY <2>1
    <3>3. ~(y.hit = e)
      BY <3>2, <1>6
    <3> QED BY <2>1, <3>1, <3>2, <3>3 DEF IsJob
  <2>2. CASE e # l + 1
    <3>1. e \in 1..2 => e - 1 \in 0..1 /\ e - 1 # l
      BY <2>2
    <3>2. e \in 1..2 => g.retry[K(e - 1)] = h.retry[K(e - 1)]
      BY <3>1, <1>7
    <3> QED BY <2>2, <3>2 DEF IsJob
  <2> QED BY <2>1, <2>2
<1>11. Parts(h, g, F, F, y, l + 1)
  BY <1>8, <1>9, <1>10 DEF Parts, ListsOK
<1> QED BY <1>11 DEF y, q

\* hit_list,
LEMMA HitParts ==
  ASSUME OneChain, NEW h, Typed(h), NEW F, ListsOK(h, F), NEW i \in 1..Len(h.hit),
         NEW g, g.retry = h.retry, g.wait = h.wait, g.hit = RemoveAt(h.hit, i)
  PROVE  Parts(h, g, F, F, h.hit[i], h.hit[i].hit)
<1> DEFINE q == h.hit
           y == q[i]
<1>1. h.hit \in Seq(Request) /\ Len(h.hit) \in Nat
  <2>1. K(0) \in Caches
    BY Chain
  <2>2. h.hit \in Seq(Request)
    BY <2>1, Fields
  <2> QED BY <2>2, LenProperties
<1>2. RetryLists(h) /\ Once(q, FirstHit) /\ (\A x : In(q, x) => x.hit # 3) /\ WaitList(h, F)
  BY DEF ListsOK, HitList
<1>3. /\ Once(g.hit, FirstHit) /\ (\A z : z \notin FirstHit => (In(g.hit, z) <=> In(q, z) /\ z # y))
      /\ \A z : In(g.hit, z) => In(q, z)
  <2>1. g.hit \in Seq(Request) /\ RemovedFrom(q, g.hit, i)
    BY <1>1, RemoveAtIs
  <2>2. Len(g.hit) \in Nat
    BY <2>1, LenProperties
  <2> QED BY <2>1, <2>2, <1>1, <1>2, RemovedIn
<1>4. y.hit # 3
  BY <1>2 DEF In
<1>5. RetryLists(g) /\ HitList(g) /\ WaitList(g, F)
  BY <1>2, <1>3 DEF RetryLists, HitList, WaitList
<1> HIDE DEF q, y
<1>6. ASSUME NEW r \in Request, NEW e \in 1..3
      PROVE  IsJob(g, F, r, e) <=> IsJob(h, F, r, e) /\ ~(r = y /\ e = y.hit)
  <2>1. e \in 1..2 /\ r.hit = e => r \notin FirstHit
    BY DEF FirstHit
  <2>2. e \in 1..2 /\ r.hit = e => (In(g.hit, r) <=> In(h.hit, r) /\ ~(r = y /\ e = y.hit))
    BY <2>1, <1>3 DEF q
  <2>3. r.hit = 3 /\ r = y => FALSE
    BY <1>4
  <2>4. CASE e = 3
    <3>1. ~(e = y.hit) /\ e \notin 1..2
      BY <2>4, <1>4
    <3> QED BY <2>4, <3>1 DEF IsJob
  <2>5. CASE e # 3
    BY <2>2, <2>3, <2>5 DEF IsJob
  <2> QED BY <2>4, <2>5
<1>7. Parts(h, g, F, F, y, y.hit)
  BY <1>5, <1>6 DEF Parts, ListsOK
<1> QED BY <1>7 DEF y, q

\* or the memory.
LEMMA AnswerParts ==
  ASSUME NEW h, NEW F, ListsOK(h, F), NEW r \in F
  PROVE  Parts(h, h, F, F \ {r}, r, 3)
<1>1. ListsOK(h, F \ {r})
  BY DEF ListsOK, WaitList
<1>2. r \notin h.wait
  BY DEF ListsOK, WaitList
<1>3. ASSUME NEW x \in Request, NEW e \in 1..3
      PROVE  IsJob(h, F \ {r}, x, e) <=> IsJob(h, F, x, e) /\ ~(x = r /\ e = 3)
  <2>1. e \in 1..2 => e # 3
    OBVIOUS
  <2> QED BY <2>1, <1>2 DEF IsJob
<1> QED BY <1>1, <1>3 DEF Parts

\* The lists hold the same jobs.
Likewise(h, g, F, H) ==
  ListsOK(g, H) /\ JobsOf(g, H) = JobsOf(h, F)

LEMMA SameJobs ==
  ASSUME NEW h, NEW g, NEW F, NEW H, ListsOK(g, H),
         \A r \in Request, e \in 1..3 : IsJob(g, H, r, e) <=> IsJob(h, F, r, e)
  PROVE  Likewise(h, g, F, H)
<1>1. JobsOf(g, H) = JobsOf(h, F)
  BY DEF JobsOf
<1> QED BY <1>1 DEF Likewise

LEMMA SameQueuesJobs ==
  ASSUME NEW h, NEW F, ListsOK(h, F), NEW g, SameQueues(h, g)
  PROVE  Likewise(h, g, F, F)
<1>1. g.retry = h.retry /\ g.wait = h.wait /\ g.hit = h.hit
  BY DEF SameQueues
<1>2. ListsOK(g, F)
  BY <1>1 DEF ListsOK, RetryLists, HitList, WaitList
<1>3. \A r \in Request, e \in 1..3 : IsJob(g, F, r, e) <=> IsJob(h, F, r, e)
  BY <1>1 DEF IsJob
<1> QED BY <1>2, <1>3, SameJobs

\* A hit in the first cache is no job.
LEMMA FirstHitJobs ==
  ASSUME OneChain, NEW h, Typed(h), NEW F, ListsOK(h, F), NEW g, NEW x \in FirstHit,
         g.retry = h.retry, g.wait = h.wait, g.hit = Append(h.hit, x)
  PROVE  Likewise(h, g, F, F)
<1>1. h.hit \in Seq(Request)
  <2>1. K(0) \in Caches
    BY Chain
  <2> QED BY <2>1, Fields
<1>2. RetryLists(h) /\ Once(h.hit, FirstHit) /\ (\A z : In(h.hit, z) => z.hit # 3) /\ WaitList(h, F)
  BY DEF ListsOK, HitList
<1>3. x \in Request /\ x.hit = 0
  BY DEF FirstHit
<1>4. Once(g.hit, FirstHit) /\ \A z : In(g.hit, z) <=> z = x \/ In(h.hit, z)
  <2>1. Appended(h.hit, Append(h.hit, x), x) /\ Len(h.hit) \in Nat
    BY <1>1, <1>3, AppendedIs, Zenon
  <2> QED BY <2>1, <1>2, AppendedIn
<1>5. ListsOK(g, F)
  <2>1. \A z : In(g.hit, z) => z.hit # 3
    BY <1>2, <1>3, <1>4
  <2> QED BY <2>1, <1>2, <1>4 DEF ListsOK, RetryLists, HitList, WaitList
<1>6. ASSUME NEW r \in Request, NEW e \in 1..3 PROVE IsJob(g, F, r, e) <=> IsJob(h, F, r, e)
  <2>1. e \in 1..2 /\ r.hit = e => r # x
    BY <1>3
  <2> QED BY <2>1, <1>4 DEF IsJob
<1> QED BY <1>5, <1>6, SameJobs

\* The memory takes a request of wait_list.
LEMMA TakenJobs ==
  ASSUME NEW h, NEW F, ListsOK(h, F), h.wait \subseteq Request, NEW r \in h.wait,
         NEW g, g.retry = h.retry, g.hit = h.hit, g.wait = h.wait \ {r}
  PROVE  Likewise(h, g, F, IF r.type = "READ" THEN F \cup {r} ELSE F)
<1> DEFINE H == IF r.type = "READ" THEN F \cup {r} ELSE F
<1>1. RetryLists(h) /\ HitList(h) /\ WaitList(h, F)
  BY DEF ListsOK
<1>2. WaitList(g, H)
  <2>1. \A x \in H : x.type = "READ" /\ x \notin g.wait /\ x \in Request
    BY <1>1 DEF WaitList
  <2>2. \A x \in g.wait : x.type = "WRITE" => x.bits[0] = {}
    BY <1>1 DEF WaitList
  <2> QED BY <2>1, <2>2 DEF WaitList
<1>3. RetryLists(g) /\ HitList(g)
  BY <1>1 DEF RetryLists, HitList
<1>4. \A x : x.type = "READ" => (x \in g.wait \cup H <=> x \in h.wait \cup F)
  OBVIOUS
<1> HIDE DEF H
<1>5. \A x \in Request, e \in 1..3 : IsJob(g, H, x, e) <=> IsJob(h, F, x, e)
  BY <1>4 DEF IsJob
<1>6. Likewise(h, g, F, H)
  BY <1>2, <1>3, <1>5, SameJobs DEF ListsOK
<1> QED BY <1>6 DEF H

-----------------------------------------------------------------------------
(***************************************************************************)
(* What the requests in the lists bring to the cores.                      *)
(***************************************************************************)
\* x is in a list, or the memory has it.
Under(h, F, x) ==
  x \in h.wait \/ x \in F \/ In(h.hit, x) \/ \E l \in 0..1 : In(h.retry[K(l)], x)

\* Some request brings sector s of block b.
Carries(h, F, b, s) == \E x : Under(h, F, x) /\ x.block = b /\ s \in x.bits[0]

\* What was carried is carried.
MoreCarried(h, g, F) == \A b, s : Carries(h, F, b, s) => Carries(g, F, b, s)

\* A call after which nothing is forgotten
After(h, g, F) == HInv(g, F) /\ MoreCarried(h, g, F)

\* All that stays is carried as before.
LEMMA UnderCarries ==
  ASSUME NEW h, NEW g, NEW F, NEW H, \A x : Under(h, F, x) => Under(g, H, x), NEW b, NEW s, Carries(h, F, b, s)
  PROVE  Carries(g, H, b, s)
BY DEF Carries

LEMMA CarriedComposes ==
  ASSUME NEW f, NEW g, NEW h, NEW F, MoreCarried(f, g, F), MoreCarried(g, h, F)
  PROVE  MoreCarried(f, h, F)
BY DEF MoreCarried

\* A job is in one of the lists.
LEMMA JobUnder ==
  ASSUME NEW h, NEW F, NEW r, NEW d, Job(r, d) \in JobsOf(h, F)
  PROVE  Under(h, F, r)
<1>1. r \in Request /\ d \in 1..3 /\ IsJob(h, F, r, d)
  BY JobIs
<1>2. CASE d \in 1..2 /\ In(h.retry[K(d - 1)], r)
  <2>1. d - 1 \in 0..1
    BY <1>2
  <2>2. QED
    BY <1>2, <2>1 DEF Under
<1>3. QED
  BY <1>1, <1>2 DEF IsJob, Under

LEMMA SameUnder ==
  ASSUME NEW h, NEW g, SameQueues(h, g), NEW F
  PROVE  \A x : Under(h, F, x) => Under(g, F, x)
BY DEF SameQueues, Under

LEMMA AppendedHas ==
  ASSUME NEW q, Len(q) \in Nat, NEW p, NEW x, Appended(q, p, x)
  PROVE  \A z : In(q, z) \/ z = x => In(p, z)
<1>1. Len(q) + 1 \in 1..Len(p) /\ \A i \in 1..Len(q) : i \in 1..Len(p)
  BY DEF Appended
<1>2. In(p, x)
  BY <1>1 DEF Appended, In
<1>3. ASSUME NEW z, In(q, z)
      PROVE  In(p, z)
  BY <1>1, <1>3 DEF Appended, In
<1>4. QED
  BY <1>2, <1>3

LEMMA MovedUnder ==
  ASSUME OneChain, NEW h, Typed(h), NEW F, NEW g, NEW y \in Request, NEW d \in 1..3, NEW l, Moved(l, h, g, y, d)
  PROVE  \A x : Under(h, F, x) \/ x = y => Under(g, F, x)
<1>1. /\ h.retry \in [Caches -> Seq(Request)] /\ h.hit \in Seq(Request)
      /\ K(0) \in Caches /\ K(1) \in Caches /\ K(0) # K(1)
  BY Fields, Chain
<1>2. CASE ToRetry(h, g, y, d)
  <2> DEFINE q == h.retry[K(d - 1)]
             p == q \o <<y>>
  <2>1. d - 1 \in 0..1 /\ K(d - 1) \in Caches
    <3>1. d = 1 \/ d = 2
      BY <1>2 DEF ToRetry
    <3>2. QED
      BY <1>1, <3>1
  <2>2. q \in Seq(Request)
    BY <1>1, <2>1
  <2>3. Len(q) \in Nat /\ Appended(q, p, y)
    BY <2>2, AppendedIs
  <2>4. g.retry = [h.retry EXCEPT ![K(d - 1)] = p] /\ g.hit = h.hit /\ h.wait \subseteq g.wait
    BY <1>2 DEF ToRetry, WaitGrows
  <2> HIDE DEF p
  <2>5. \A z : In(q, z) \/ z = y => In(p, z)
    BY <2>3, AppendedHas
  <2>6. g.retry[K(d - 1)] = p
    BY <1>1, <2>1, <2>4
  <2>7. ASSUME NEW j \in 0..1
        PROVE  g.retry[K(j)] = p \/ g.retry[K(j)] = h.retry[K(j)]
    <3>1. K(j) \in Caches
      <4>1. j = 0 \/ j = 1
        OBVIOUS
      <4>2. QED
        BY <1>1, <4>1
    <3>2. QED
      BY <1>1, <2>1, <2>4, <3>1
  <2>8. ASSUME NEW j \in 0..1
        PROVE  \A x : In(h.retry[K(j)], x) => In(g.retry[K(j)], x)
    <3>1. K(j) \in Caches
      <4>1. j = 0 \/ j = 1
        OBVIOUS
      <4>2. QED
        BY <1>1, <4>1
    <3>2. CASE K(j) = K(d - 1)
      BY <2>5, <2>6, <3>2
    <3>3. CASE K(j) # K(d - 1)
      <4>1. g.retry[K(j)] = h.retry[K(j)]
        BY <1>1, <2>1, <2>4, <3>1, <3>3
      <4>2. QED
        BY <4>1
    <3>4. QED
      BY <3>2, <3>3
  <2>9. Under(g, F, y)
    BY <2>1, <2>5, <2>6 DEF Under
  <2>10. QED
    BY <2>4, <2>8, <2>9 DEF Under
<1>3. CASE ToHit(h, g, y, d)
  <2>1. g.retry = h.retry /\ g.hit = Append(h.hit, y) /\ h.wait \subseteq g.wait
    BY <1>3 DEF ToHit, WaitGrows
  <2>2. Len(h.hit) \in Nat /\ Appended(h.hit, g.hit, y)
    BY <1>1, <2>1, AppendedIs, Zenon
  <2>3. \A z : In(h.hit, z) \/ z = y => In(g.hit, z)
    BY <2>2, AppendedHas
  <2>4. QED
    BY <2>1, <2>3 DEF Under
<1>4. CASE ToWait(h, g, y, d)
  <2>1. g.retry = h.retry /\ g.hit = h.hit /\ h.wait \cup {y} \subseteq g.wait
    BY <1>4 DEF ToWait
  <2>2. QED
    BY <2>1 DEF Under
<1>5. QED
  BY <1>2, <1>3, <1>4 DEF Moved

-----------------------------------------------------------------------------
(***************************************************************************)
(* send, for a core and for a retry list.                                  *)
(***************************************************************************)
LEMMA LikewiseAfter ==
  ASSUME NEW h, NEW F, HInv(h, F), NEW g, Sound(g), Tied(g, JobsOf(h, F)), SameQueues(h, g)
  PROVE  After(h, g, F)
<1>1. Likewise(h, g, F, F)
  BY SameQueuesJobs DEF HInv
<1>2. HInv(g, F)
  BY <1>1 DEF Likewise, HInv
<1>3. \A x : Under(h, F, x) => Under(g, F, x)
  BY SameUnder
<1>4. MoreCarried(h, g, F)
  BY <1>3, UnderCarries DEF MoreCarried
<1>5. QED
  BY <1>2, <1>4 DEF After

\* What a read asks for is carried once it has been accepted.
Kept(g, F, r) == r.type = "READ" => \A s \in r.bits[0] : Carries(g, F, r.block, s)

\* A read that MSHRs cover is carried by their jobs.
LEMMA MergedAfter ==
  ASSUME NEW h, NEW F, HInv(h, F), NEW r, NEW res, Sound(res.h), Merged(h, res, r, JobsOf(h, F))
  PROVE  After(h, res.h, F) /\ Kept(res.h, F, r)
<1>1. After(h, res.h, F)
  BY LikewiseAfter DEF Merged
<1>2. ASSUME r.type = "READ", NEW s \in r.bits[0]
      PROVE  Carries(res.h, F, r.block, s)
  <2>1. PICK g \in JobsOf(h, F) : g.r.block = r.block /\ s \in g.r.bits[0]
    BY <1>2 DEF Merged
  <2>2. g = Job(g.r, g.d)
    BY DEF JobsOf, Job
  <2>3. Under(h, F, g.r)
    BY <2>2, JobUnder
  <2>4. Carries(h, F, r.block, s)
    BY <2>1, <2>3 DEF Carries
  <2>5. QED
    BY <1>1, <2>4 DEF After, MoreCarried
<1>3. QED
  BY <1>1, <1>2 DEF Kept

LEMMA HitFirstAfter ==
  ASSUME OneChain, NEW h, NEW F, HInv(h, F), NEW r \in Request, NEW res, Sound(res.h),
         HitFirst(h, res, r, JobsOf(h, F))
  PROVE  After(h, res.h, F) /\ Kept(res.h, F, r)
<1> DEFINE x == [r EXCEPT !.hit = 0]
           g == res.h
<1>1. x \in FirstHit /\ x.block = r.block /\ x.bits = r.bits
  <2>1. r.hit \in 0..3 /\ 0 \in 0..3
    BY DEF Request
  <2>2. QED
    BY <2>1 DEF Request, FirstHit
<1>2. /\ g.hit = Append(h.hit, x) /\ g.retry = h.retry /\ g.wait = h.wait
      /\ Tied(g, JobsOf(h, F)) /\ Typed(h) /\ ListsOK(h, F)
  BY DEF HitFirst, HInv, Sound, HOK
<1> HIDE DEF x, g
<1>3. Likewise(h, g, F, F)
  BY <1>1, <1>2, FirstHitJobs
<1>4. HInv(g, F)
  BY <1>2, <1>3 DEF HInv, Likewise, g
<1>5. h.hit \in Seq(Request) /\ x \in Request
  BY <1>1, <1>2, Chain, Fields DEF FirstHit
<1>6. Len(h.hit) \in Nat /\ Appended(h.hit, g.hit, x)
  BY <1>2, <1>5, AppendedIs, Zenon
<1>7. \A z : In(h.hit, z) \/ z = x => In(g.hit, z)
  BY <1>6, AppendedHas
<1>8. \A z : Under(h, F, z) \/ z = x => Under(g, F, z)
  BY <1>2, <1>7 DEF Under
<1>9. MoreCarried(h, g, F)
  BY <1>8, UnderCarries DEF MoreCarried
<1>10. Kept(g, F, r)
  BY <1>1, <1>8 DEF Kept, Carries
<1>11. QED
  BY <1>4, <1>9, <1>10 DEF After, g

\* A request that becomes a job, while the lists keep all others
LEMMA JobAfter ==
  ASSUME OneChain, NEW h, NEW F, HInv(h, F), NEW r, NEW res, NEW l, NEW y, NEW d,
         NowJob(h, res, l, r, JobsOf(h, F), y, d)
  PROVE  /\ ListsOK(res.h, F) /\ JobsOf(res.h, F) = JobsOf(h, F) \cup {Job(y, d)}
         /\ \A x : Under(h, F, x) \/ x = y => Under(res.h, F, x)
         /\ y.block = r.block /\ y.bits[0] = r.bits[0]
         /\ Job(y, d) \notin JobsOf(h, F) /\ Tied(res.h, Changed(JobsOf(h, F), Job(r, l), Job(y, d)))
<1>1. /\ y \in Request /\ y.type = "READ" /\ y.block = r.block /\ y.bits[0] = r.bits[0]
      /\ d \in 1..3 /\ Moved(l, h, res.h, y, d) /\ Job(y, d) \notin JobsOf(h, F)
      /\ Tied(res.h, Changed(JobsOf(h, F), Job(r, l), Job(y, d)))
  BY DEF NowJob
<1>2. Typed(h) /\ ListsOK(h, F)
  BY DEF HInv, Sound, HOK
<1> DEFINE g == res.h
<1> HIDE DEF g
<1>3. ListsOK(g, F) /\ JobsOf(g, F) = JobsOf(h, F) \cup {Job(y, d)}
  <2>1. Moved(l, h, g, y, d)
    BY <1>1 DEF g
  <2>2. y \in Request /\ y.type = "READ" /\ d \in 1..3 /\ Job(y, d) \notin JobsOf(h, F)
    BY <1>1
  <2>3. QED
    BY <1>2, <2>1, <2>2, MovedJoins
<1>4. \A x : Under(h, F, x) \/ x = y => Under(res.h, F, x)
  BY <1>1, <1>2, MovedUnder
<1>5. QED
  BY <1>1, <1>3, <1>4 DEF g

\* No job is above the first cache.
LEMMA NoJobAbove ==
  ASSUME NEW h, NEW F, NEW r
  PROVE  Job(r, 0) \notin JobsOf(h, F)
<1>1. 0 \notin 1..3
  OBVIOUS
<1>2. QED
  BY <1>1, JobIs

\* An access of a core
LEMMA CoreSends ==
  ASSUME OneChain, NEW h, NEW F, HInv(h, F), NEW r \in Request, Coming(h, 0, r), r.hit = 3,
         NEW res, res = send(h, K(0), r, {})
  PROVE  After(h, res.h, F) /\ (res.ok => Kept(res.h, F, r))
<1> DEFINE G == JobsOf(h, F)
<1>1. Sendable(h, 0, r, G)
  BY DEF Sendable, HInv
<1>2. 0 \in 0..2
  OBVIOUS
<1>3. Sends(h, send(h, K(0), r, {}), 0, r, G)
  BY <1>1, <1>2, SendSends
<1>4. Sends(h, res, 0, r, G)
  BY <1>3
<1>5. Sound(res.h)
  BY <1>4 DEF Sends
<1>6. CASE Rejected(h, res, G)
  <2>1. After(h, res.h, F) /\ res.ok = FALSE
    BY <1>5, <1>6, LikewiseAfter DEF Rejected
  <2>2. QED
    BY <2>1
<1>7. CASE Merged(h, res, r, G)
  BY <1>5, <1>7, MergedAfter
<1>8. CASE HitFirst(h, res, r, G)
  BY <1>5, <1>8, HitFirstAfter
<1>9. ASSUME NEW y, NEW d, NowJob(h, res, 0, r, G, y, d)
      PROVE  After(h, res.h, F) /\ Kept(res.h, F, r)
  <2>1. /\ ListsOK(res.h, F) /\ JobsOf(res.h, F) = G \cup {Job(y, d)}
        /\ \A x : Under(h, F, x) \/ x = y => Under(res.h, F, x)
        /\ y.block = r.block /\ y.bits[0] = r.bits[0] /\ Tied(res.h, Changed(G, Job(r, 0), Job(y, d)))
    BY <1>9, JobAfter
  <2>2. Changed(G, Job(r, 0), Job(y, d)) = G \cup {Job(y, d)}
    BY NoJobAbove DEF Changed
  <2>3. HInv(res.h, F)
    BY <1>5, <2>1, <2>2 DEF HInv
  <2>4. MoreCarried(h, res.h, F)
    BY <2>1, UnderCarries DEF MoreCarried
  <2>5. Kept(res.h, F, r)
    BY <2>1 DEF Kept, Carries
  <2>6. QED
    BY <2>3, <2>4, <2>5 DEF After
<1> HIDE DEF G
<1>10. QED
  BY <1>4, <1>6, <1>7, <1>8, <1>9 DEF Sends

\* A request of a retry list is a job that may be sent to the level below.
LEMMA RetrySendable ==
  ASSUME OneChain, NEW h, NEW F, HInv(h, F), NEW l \in 1..2, NEW i \in 1..Len(h.retry[K(l - 1)]),
         NEW q, q = h.retry[K(l - 1)][i]
  PROVE  /\ Sendable(h, l, q, JobsOf(h, F)) /\ Job(q, l) \in JobsOf(h, F) /\ q \in Request
         /\ h.retry[K(l - 1)] \in Seq(Request) /\ Demands(K(l - 1), h.retry[K(l - 1)])
         /\ Once(h.retry[K(l - 1)], {})
<1>1. l - 1 \in 0..1 /\ K(l - 1) \in Caches /\ l \in 0..2 /\ l \in 1..3
  <2>1. l = 1 \/ l = 2
    OBVIOUS
  <2>2. QED
    BY <2>1, Chain
<1>2. h.retry[K(l - 1)] \in Seq(Request) /\ Demands(K(l - 1), h.retry[K(l - 1)])
  BY <1>1, Fields DEF HInv, Sound, HOK
<1>3. q \in Request
  BY <1>2
<1>4. In(h.retry[K(l - 1)], q)
  BY DEF In
<1>5. Once(h.retry[K(l - 1)], {}) /\ q.hit = 3
  BY <1>1, <1>4 DEF HInv, ListsOK, RetryLists
<1>6. Job(q, l) \in JobsOf(h, F)
  <2>1. IsJob(h, F, q, l)
    BY <1>4, <1>5 DEF IsJob
  <2>2. QED
    BY <1>1, <1>3, <2>1, JobIs
<1>7. Tied(h, JobsOf(h, F)) /\ Sound(h)
  BY DEF HInv
<1>8. JobOK(h, Job(q, l))
  BY <1>6, <1>7, SMTT(30) DEF Tied
<1>9. q.block \in Block /\ q.type = "READ"
  BY <1>8 DEF JobOK, Job
<1>10. Wanted(K(l), q) # {}
  BY <1>6, <1>7, NeverCovered
<1>11. Coming(h, l, q)
  BY <1>1, <1>3, <1>7, <1>9, <1>10 DEF Coming
<1>12. QED
  BY <1>2, <1>3, <1>5, <1>6, <1>7, <1>11 DEF Sendable

\* A call below does not touch the retry list of the cache above.
LEMMA MovedKeepsAbove ==
  ASSUME OneChain, NEW h, Typed(h), NEW g, NEW l \in 1..2, NEW y, NEW d, Moved(l, h, g, y, d)
  PROVE  g.retry[K(l - 1)] = h.retry[K(l - 1)]
<1>1. h.retry \in [Caches -> Seq(Request)] /\ K(0) \in Caches /\ K(1) \in Caches /\ K(0) # K(1)
  BY Fields, Chain
<1>2. CASE ToRetry(h, g, y, d) /\ l < d
  <2>1. d = 2 /\ l = 1
    BY <1>2 DEF ToRetry
  <2>2. l - 1 = 0 /\ d - 1 = 1
    BY <2>1
  <2>3. g.retry = [h.retry EXCEPT ![K(1)] = h.retry[K(1)] \o <<y>>]
    BY <1>2, <2>2 DEF ToRetry
  <2>4. g.retry[K(0)] = h.retry[K(0)]
    BY <1>1, <2>3
  <2>5. QED
    BY <2>2, <2>4
<1>3. CASE g.retry = h.retry
  BY <1>3
<1>4. QED
  BY <1>2, <1>3 DEF Moved, ToHit, ToWait

\* Only the request that leaves a retry list is no more under way.
LEMMA LeftUnder ==
  ASSUME OneChain, NEW k, Typed(k), NEW l \in 0..1, NEW i \in 1..Len(k.retry[K(l)]), Once(k.retry[K(l)], {}),
         NEW g, g.hit = k.hit, g.wait = k.wait,
         g.retry = [k.retry EXCEPT ![K(l)] = RemoveAt(k.retry[K(l)], i)], NEW F, NEW x, Under(k, F, x)
  PROVE  x = k.retry[K(l)][i] \/ Under(g, F, x)
<1> DEFINE q == k.retry[K(l)]
           p == RemoveAt(q, i)
<1>1. /\ k.retry \in [Caches -> Seq(Request)] /\ K(l) \in Caches
      /\ \A j \in 0..1 : K(j) \in Caches
  <2>1. \A j \in 0..1 : j = 0 \/ j = 1
    OBVIOUS
  <2>2. QED
    BY <2>1, Fields, Chain
<1>2. q \in Seq(Request) /\ i \in 1..Len(q) /\ Once(q, {})
  BY <1>1
<1>3. g.retry[K(l)] = p
  BY <1>1
<1>4. \A j \in 0..1 : K(j) # K(l) => g.retry[K(j)] = k.retry[K(j)]
  BY <1>1
<1> HIDE DEF q
<1>5. p \in Seq(Request) /\ RemovedFrom(q, p, i)
  BY <1>2, RemoveAtIs
<1> HIDE DEF p
<1>6. Len(q) \in Nat /\ Len(p) \in Nat
  BY <1>2, <1>5, LenProperties
<1>7. \A z : In(q, z) => z = q[i] \/ In(p, z)
  BY <1>2, <1>5, <1>6, RemovedIn
<1>8. ASSUME NEW j \in 0..1, In(k.retry[K(j)], x)
      PROVE  x = q[i] \/ In(g.retry[K(j)], x)
  <2>1. CASE K(j) = K(l)
    BY <1>3, <1>7, <1>8, <2>1 DEF q
  <2>2. CASE K(j) # K(l)
    BY <1>4, <1>8, <2>2
  <2>3. QED
    BY <2>1, <2>2
<1>9. QED
  BY <1>8 DEF Under, q

\* A request of a retry list that is accepted leaves the list as another job.
LEMMA AcceptedAfter ==
  ASSUME OneChain, NEW h, NEW F, HInv(h, F), NEW l \in 1..2, NEW i \in 1..Len(h.retry[K(l - 1)]),
         NEW q, q = h.retry[K(l - 1)][i], NEW res, Sound(res.h), NEW y, NEW d,
         NowJob(h, res, l, q, JobsOf(h, F), y, d),
         NEW g, g = PutIn(res.h, K(l - 1), RemoveAt(h.retry[K(l - 1)], i))
  PROVE  After(h, g, F)
<1> DEFINE G == JobsOf(h, F)
           c == K(l - 1)
           list == h.retry[c]
           k == res.h
           rest == RemoveAt(list, i)
<1>1. /\ Job(q, l) \in G /\ q \in Request /\ list \in Seq(Request) /\ Demands(c, list) /\ Once(list, {})
  BY RetrySendable
<1>2. /\ ListsOK(k, F) /\ JobsOf(k, F) = G \cup {Job(y, d)}
      /\ \A x : Under(h, F, x) => Under(k, F, x)
      /\ y.block = q.block /\ y.bits[0] = q.bits[0] /\ Job(y, d) \notin G
      /\ Tied(k, Changed(G, Job(q, l), Job(y, d)))
  BY JobAfter
<1>3. Typed(h) /\ Moved(l, h, k, y, d) /\ Sound(k) /\ Typed(k)
  BY DEF HInv, Sound, HOK, NowJob
<1>4. k.retry[c] = list
  BY <1>3, MovedKeepsAbove
<1>5. c \in Caches /\ l - 1 \in 0..1 /\ (l - 1) + 1 = l
  <2>1. l = 1 \/ l = 2
    OBVIOUS
  <2>2. QED
    BY <2>1, Chain
<1>6. i \in 1..Len(list) /\ list[i] = q
  OBVIOUS
<1>7. rest \in Seq(Request) /\ Demands(c, rest)
  BY <1>1, <1>6, RemovedDemands
<1>8. g = PutIn(k, c, rest) /\ rest = RemoveAt(k.retry[c], i)
  BY <1>4
<1> HIDE DEF rest, list, k
<1>9. IsPutIn(k, g, c, rest)
  BY <1>3, <1>5, <1>7, <1>8, PutRetryCalm
<1>10. /\ Sound(g) /\ g.sets = k.sets /\ g.mshr = k.mshr /\ g.wait = k.wait /\ g.hit = k.hit
       /\ g.retry = [k.retry EXCEPT ![c] = RemoveAt(k.retry[c], i)]
  BY <1>8, <1>9 DEF IsPutIn
<1>11. i \in 1..Len(k.retry[K(l - 1)]) /\ k.retry[K(l - 1)][i] = q
  BY <1>4, <1>6
<1>12. Parts(k, g, F, F, q, l)
  <2>1. Parts(k, g, F, F, k.retry[K(l - 1)][i], (l - 1) + 1)
    BY <1>2, <1>3, <1>5, <1>10, <1>11, RetryParts, Zenon
  <2>2. QED
    BY <1>5, <1>11, <2>1
<1>13. ListsOK(g, F) /\ JobsOf(g, F) = JobsOf(k, F) \ {Job(q, l)}
  BY <1>12, PartsJobs
<1>14. JobsOf(g, F) = Changed(G, Job(q, l), Job(y, d))
  <2> HIDE DEF G
  <2>1. QED
    BY <1>1, <1>2, <1>13 DEF Changed
<1>15. Tied(g, JobsOf(g, F))
  <2>1. Tied(k, JobsOf(g, F))
    BY <1>2, <1>14
  <2>2. QED
    BY <1>10, <2>1, TiedLists
<1>16. HInv(g, F)
  BY <1>10, <1>13, <1>15 DEF HInv
<1>17. Under(g, F, y)
  <2>1. Job(y, d) \in JobsOf(g, F)
    BY <1>14 DEF Changed
  <2>2. QED
    BY <2>1, JobUnder
<1>18. ASSUME NEW x, Under(h, F, x)
       PROVE  x = q \/ Under(g, F, x)
  <2>1. Under(k, F, x)
    BY <1>2, <1>18
  <2>2. Once(k.retry[K(l - 1)], {})
    BY <1>1, <1>4
  <2>3. x = k.retry[K(l - 1)][i] \/ Under(g, F, x)
    BY <1>3, <1>5, <1>10, <1>11, <2>1, <2>2, LeftUnder, SMTT(30)
  <2>4. QED
    BY <1>11, <2>3
<1>19. MoreCarried(h, g, F)
  <2>1. ASSUME NEW b, NEW s, Carries(h, F, b, s)
        PROVE  Carries(g, F, b, s)
    <3>1. PICK x : Under(h, F, x) /\ x.block = b /\ s \in x.bits[0]
      BY <2>1 DEF Carries
    <3>2. CASE x = q
      BY <1>2, <1>17, <3>1, <3>2 DEF Carries
    <3>3. CASE Under(g, F, x)
      BY <3>1, <3>3 DEF Carries
    <3>4. QED
      BY <1>18, <3>1, <3>2, <3>3
  <2>2. QED
    BY <2>1 DEF MoreCarried
<1>20. QED
  BY <1>16, <1>19 DEF After

\* One request of a retry list is tried again.
LEMMA TriedAfter ==
  ASSUME OneChain, NEW h, NEW F, HInv(h, F), NEW l \in 1..2, NEW i \in 1..Len(h.retry[K(l - 1)]),
         NEW q, q = h.retry[K(l - 1)][i], NEW res, res = send(h, K(l), q, {})
  PROVE  IF res.ok THEN After(h, PutIn(res.h, K(l - 1), RemoveAt(h.retry[K(l - 1)], i)), F)
         ELSE After(h, res.h, F)
<1> DEFINE G == JobsOf(h, F)
<1>1. Sendable(h, l, q, G) /\ l \in 0..2
  BY RetrySendable, SMTT(30)
<1>2. Sends(h, send(h, K(l), q, {}), l, q, G)
  BY <1>1, SendSends
<1>3. Sends(h, res, l, q, G) /\ Sound(res.h)
  BY <1>2 DEF Sends
<1>4. CASE Rejected(h, res, G)
  <2>1. After(h, res.h, F) /\ res.ok = FALSE
    BY <1>3, <1>4, LikewiseAfter DEF Rejected
  <2>2. QED
    BY <2>1
<1> DEFINE g == PutIn(res.h, K(l - 1), RemoveAt(h.retry[K(l - 1)], i))
<1>5. ASSUME NEW y, NEW d, NowJob(h, res, l, q, G, y, d)
      PROVE  After(h, g, F)
  BY <1>3, <1>5, AcceptedAfter, Zenon
<1>6. Rejected(h, res, G) \/ (res.ok = TRUE /\ \E y, d : NowJob(h, res, l, q, G, y, d))
  <2>1. l # 0
    OBVIOUS
  <2>2. QED
    BY <1>3, <2>1 DEF Sends
<1> HIDE DEF g, G
<1>7. CASE res.ok = TRUE /\ \E y, d : NowJob(h, res, l, q, G, y, d)
  BY <1>5, <1>7 DEF g
<1>8. QED
  BY <1>4, <1>6, <1>7, Zenon

LEMMA AfterItself ==
  ASSUME NEW h, NEW F, HInv(h, F)
  PROVE  After(h, h, F)
BY DEF After, MoreCarried

LEMMA AfterComposes ==
  ASSUME NEW f, NEW g, NEW h, NEW F, After(f, g, F), After(g, h, F)
  PROVE  After(f, h, F)
BY CarriedComposes DEF After

\* The loop of a retry list, from hierarchy h on
Looping(h, F) == {loop \in [h : HState, i : Nat \ {0}] : After(h, loop.h, F)}

LEMMA LoopingStep ==
  ASSUME OneChain, NEW h, NEW F, NEW c \in Caches, level[c] # 2, NEW loop \in Looping(h, F)
  PROVE  RetryStep(loop, c) \in Looping(h, F)
<1> DEFINE g == loop.h
           list == g.retry[c]
           i == loop.i
           sent == send(g, lower[c], list[i], {})
           rest == RemoveAt(list, i)
           next == PutIn(sent.h, c, rest)
           again == IF i > Len(rest) THEN 1 ELSE i + 1
           res == RetryStep(loop, c)
           l == level[c] + 1
<1>1. /\ g \in HState /\ i \in Nat \ {0} /\ After(h, g, F) /\ HInv(g, F)
      /\ loop \in [h : HState, i : Nat \ {0}]
  BY DEF Looping, After
<1>2. l \in 1..2 /\ c = K(l - 1) /\ lower[c] = K(l)
  <2>1. c = K(0) \/ c = K(1) \/ c = K(2)
    BY Chain
  <2>2. 0 + 1 = 1 /\ 1 + 1 = 2 /\ 1 - 1 = 0 /\ 2 - 1 = 1 /\ 1 \in 1..2 /\ 2 \in 1..2
    OBVIOUS
  <2>3. QED
    BY <2>1, <2>2, Chain
<1>3. CASE i > Len(list)
  <2>1. res = loop
    BY <1>3 DEF RetryStep, Tried
  <2>2. QED
    BY <2>1
<1>4. CASE ~(i > Len(list))
  <2>1. list \in Seq(Request)
    BY <1>1, Fields DEF HInv, Sound, HOK
  <2>2. i \in 1..Len(list)
    BY <1>1, <1>4, <2>1, LenProperties
  <2>3. res = IF ~sent.ok THEN [h |-> sent.h, i |-> i + 1] ELSE [h |-> next, i |-> again]
    BY <1>4 DEF RetryStep, Tried, PutIn
  <2>4. again \in Nat \ {0} /\ i + 1 \in Nat \ {0}
    BY <1>1
  <2>5. IF sent.ok THEN After(g, next, F) ELSE After(g, sent.h, F)
    <3> HIDE DEF l, g, i
    <3>1. i \in 1..Len(g.retry[K(l - 1)]) /\ list[i] = g.retry[K(l - 1)][i] /\ sent = send(g, K(l), list[i], {})
      BY <1>2, <2>2
    <3>2. next = PutIn(sent.h, K(l - 1), RemoveAt(g.retry[K(l - 1)], i))
      BY <1>2
    <3> HIDE DEF sent, next, list
    <3>3. QED
      BY <1>1, <1>2, <3>1, <3>2, TriedAfter, Zenon
  <2> HIDE DEF res, g, i, sent, next, again
  <2>6. IF sent.ok THEN After(h, next, F) ELSE After(h, sent.h, F)
    BY <1>1, <2>5, AfterComposes
  <2>7. sent.ok => next \in HState
    BY <2>6 DEF After, HInv, Sound, HOK, Typed
  <2>8. ~sent.ok => sent.h \in HState
    BY <2>6 DEF After, HInv, Sound, HOK, Typed
  <2>9. res \in Looping(h, F)
    BY <2>3, <2>4, <2>6, <2>7, <2>8 DEF Looping
  <2>10. QED
    BY <2>9 DEF res
<1>5. QED
  BY <1>3, <1>4

\* The retry loop forgets nothing, whatever it steps past.
LEMMA RetryAfter ==
  ASSUME OneChain, NEW h, NEW F, HInv(h, F), NEW c \in Caches, level[c] # 2
  PROVE  After(h, Retry(h, c), F)
<1> DEFINE k == Len(h.retry[c]) + 1
           most == k * k
           f == CHOOSE f : RetriedUpTo(f, h, c, most)
           x0 == [h |-> h, i |-> 1]
<1>1. k \in Nat /\ HOK(h) /\ h \in HState
  <2>1. h.retry[c] \in Seq(Request)
    BY Fields DEF HInv, Sound, HOK
  <2>2. QED
    BY <2>1, LenProperties DEF HInv, Sound, HOK, Typed
<1>2. Retry(h, c) = f[most].h
  BY DEF Retry, RetryLoop, RetriedUpTo
<1> HIDE DEF k
<1>3. most \in Nat
  BY <1>1
<1> HIDE DEF most
<1>4. RetriedUpTo(f, h, c, most)
  BY <1>1, <1>3, RetriedExists
<1> HIDE DEF f
<1>5. x0 \in Looping(h, F)
  BY <1>1, AfterItself DEF Looping
<1>6. ASSUME NEW m \in 0..most
      PROVE  f[m] = IF m = 0 THEN x0 ELSE RetryStep(f[m - 1], c)
  BY <1>4, Zenon DEF RetriedUpTo, x0
<1> HIDE DEF x0
<1>7. f[0] \in Looping(h, F)
  BY <1>3, <1>5, <1>6
<1>8. ASSUME NEW m \in 1..most, f[m - 1] \in Looping(h, F)
      PROVE  f[m] \in Looping(h, F)
  <2>1. f[m] = RetryStep(f[m - 1], c)
    BY <1>6
  <2>2. RetryStep(f[m - 1], c) \in Looping(h, F)
    BY <1>8, LoopingStep
  <2>3. QED
    BY <2>1, <2>2
<1>9. f[most] \in Looping(h, F)
  BY <1>3, <1>7, <1>8, IterateIn
<1>10. QED
  BY <1>2, <1>9 DEF Looping

LEMMA TickAfter ==
  ASSUME OneChain, NEW h, NEW F, HInv(h, F)
  PROVE  After(h, tick(h, K(0)), F)
<1>1. K(0) \in Caches /\ K(1) \in Caches /\ lower[K(0)] = K(1) /\ level[K(0)] # 2 /\ level[K(1)] # 2
  BY Chain
<1>2. After(h, Retry(h, K(1)), F)
  BY <1>1, RetryAfter
<1>3. After(Retry(h, K(1)), Retry(Retry(h, K(1)), K(0)), F)
  BY <1>1, <1>2, RetryAfter DEF After
<1>4. After(h, Retry(Retry(h, K(1)), K(0)), F)
  BY <1>2, <1>3, AfterComposes
<1>5. QED
  BY <1>1, <1>4 DEF tick

-----------------------------------------------------------------------------
(***************************************************************************)
(* Answers, and requests for the memory.                                   *)
(***************************************************************************)
\* All that was under way is still, but for r.
Without(h, F, g, H, r) == \A x : Under(h, F, x) => x = r \/ Under(g, H, x)

\* The memory answers a job of depth 3,
LEMMA AnswerDone ==
  ASSUME OneChain, NEW h, NEW F, HInv(h, F), NEW r \in F, NEW k, k = callback(h, r)
  PROVE  HInv(k, F \ {r}) /\ Without(h, F, k, F \ {r}, r)
<1> DEFINE G == JobsOf(h, F)
           g == Job(r, 3)
<1>1. Sound(h) /\ Tied(h, G) /\ ListsOK(h, F)
  BY DEF HInv
<1>2. r \in Request /\ r.type = "READ"
  BY <1>1 DEF ListsOK, WaitList
<1>3. g \in G
  <2>1. IsJob(h, F, r, 3) /\ 3 \in 1..3
    BY <1>2 DEF IsJob
  <2>2. QED
    BY <1>2, <2>1, JobIs
<1>4. g.r = r /\ g.d = 3
  BY DEF Job
<1> HIDE DEF g, G
<1>5. g.r.hit = g.d
  BY <1>1, <1>3, <1>4 DEF Tied, JobOK
<1>6. Sound(callback(h, g.r)) /\ Tied(callback(h, g.r), G \ {g}) /\ SameQueues(h, callback(h, g.r))
  BY <1>1, <1>3, <1>5, JobDone, Zenon
<1>7. Sound(k) /\ Tied(k, G \ {g}) /\ SameQueues(h, k)
  BY <1>4, <1>6
<1>8. ListsOK(k, F) /\ JobsOf(k, F) = G
  BY <1>1, <1>7, SameQueuesJobs DEF Likewise, G
<1>9. ListsOK(k, F \ {r}) /\ JobsOf(k, F \ {r}) = JobsOf(k, F) \ {Job(r, 3)}
  BY <1>8, AnswerParts, PartsJobs
<1>10. HInv(k, F \ {r})
  BY <1>7, <1>8, <1>9 DEF HInv, g
<1>11. Without(h, F, k, F \ {r}, r)
  BY <1>7 DEF Without, Under, SameQueues
<1>12. QED
  BY <1>10, <1>11

LEMMA HitTaken ==
  ASSUME OneChain, NEW h, NEW F, HInv(h, F), NEW i \in 1..Len(h.hit),
         NEW g, g = [h EXCEPT !.hit = RemoveAt(h.hit, i)]
  PROVE  /\ Sound(g) /\ g.sets = h.sets /\ g.mshr = h.mshr
         /\ Parts(h, g, F, F, h.hit[i], h.hit[i].hit) /\ Without(h, F, g, F, h.hit[i])
<1> DEFINE p == RemoveAt(h.hit, i)
<1>1. Sound(h) /\ ListsOK(h, F) /\ HOK(h) /\ Calm(h) /\ Typed(h) /\ h \in HState
  BY DEF HInv, Sound, HOK, Typed
<1>2. h.hit \in Seq(Request)
  BY <1>1 DEF HState
<1>3. p \in Seq(Request) /\ RemovedFrom(h.hit, p, i)
  BY <1>2, RemoveAtIs
<1> HIDE DEF p
<1>4. g = [h EXCEPT !.hit = p]
  BY DEF p
<1>5. /\ g \in HState /\ g.sets = h.sets /\ g.mshr = h.mshr /\ g.retry = h.retry
      /\ g.wait = h.wait /\ g.hit = p /\ g.asserts = h.asserts
  BY <1>1, <1>3, <1>4, Zenon DEF HState
<1>6. Typed(g)
  BY <1>1, <1>5 DEF Typed
<1>7. HOK(g)
  BY <1>1, <1>5, <1>6 DEF HOK
<1>8. Calm(g)
  BY <1>1, <1>5, <1>6 DEF Calm, AllHonest, Nested
<1>9. Parts(h, g, F, F, h.hit[i], h.hit[i].hit)
  <2>1. g.hit = RemoveAt(h.hit, i)
    BY <1>5 DEF p
  <2>2. QED
    BY <1>1, <1>5, <2>1, HitParts, Zenon
<1>10. Without(h, F, g, F, h.hit[i])
  <2>1. Len(h.hit) \in Nat /\ Len(p) \in Nat /\ Once(h.hit, FirstHit)
    BY <1>1, <1>2, <1>3, LenProperties DEF ListsOK, HitList
  <2>2. \A z : In(h.hit, z) => z = h.hit[i] \/ In(p, z)
    BY <1>3, <2>1, RemovedIn
  <2>3. QED
    BY <1>5, <2>2 DEF Without, Under
<1>11. QED
  BY <1>5, <1>7, <1>8, <1>9, <1>10 DEF Sound

\* and the latency of a hit has passed.
LEMMA HitAnswered ==
  ASSUME OneChain, NEW h, NEW F, HInv(h, F), NEW i \in 1..Len(h.hit), NEW r, r = h.hit[i],
         NEW g, g = [h EXCEPT !.hit = RemoveAt(h.hit, i)], NEW k, k = callback(g, r)
  PROVE  HInv(k, F) /\ Without(h, F, k, F, r)
<1> DEFINE G == JobsOf(h, F)
           f == Job(r, r.hit)
<1>1. Tied(h, G) /\ ListsOK(h, F) /\ Typed(h)
  BY DEF HInv, Sound, HOK
<1>2. Sound(g) /\ g.sets = h.sets /\ g.mshr = h.mshr /\ Parts(h, g, F, F, r, r.hit) /\ Without(h, F, g, F, r)
  BY HitTaken
<1>3. ListsOK(g, F) /\ JobsOf(g, F) = G \ {f}
  BY <1>2, PartsJobs
<1>4. Tied(g, G)
  BY <1>1, <1>2, TiedLists, Zenon
<1>5. r \in Request /\ r.hit \in 0..2 /\ In(h.hit, r)
  <2>1. h.hit \in Seq(Request)
    BY <1>1, Chain, Fields
  <2>2. r \in Request
    BY <2>1
  <2>3. In(h.hit, r)
    BY DEF In
  <2>4. r.hit # 3
    BY <1>1, <2>3 DEF ListsOK, HitList
  <2>5. r.hit \in 0..3
    BY <2>2, RequestFields
  <2>6. QED
    BY <2>2, <2>3, <2>4, <2>5
<1>6. CASE r.hit = 0
  <2>1. k = g
    BY <1>2, <1>5, <1>6, HitFirstDone DEF Sound
  <2>2. f \notin G
    BY <1>6, NoJobAbove
  <2>3. JobsOf(g, F) = G
    <3> HIDE DEF G, f
    <3>1. QED
      BY <1>3, <2>2, Zenon
  <2>4. HInv(g, F)
    BY <1>2, <1>3, <1>4, <2>3 DEF HInv
  <2>5. QED
    BY <1>2, <2>1, <2>4
<1>7. CASE r.hit \in 1..2
  <2>1. f \in G
    <3>1. IsJob(h, F, r, r.hit) /\ r.hit \in 1..3
      BY <1>5, <1>7 DEF IsJob
    <3>2. QED
      BY <1>5, <3>1, JobIs
  <2>2. f.r = r /\ f.d = r.hit
    BY DEF Job
  <2> HIDE DEF f, G
  <2>3. Sound(callback(g, f.r)) /\ Tied(callback(g, f.r), G \ {f}) /\ SameQueues(g, callback(g, f.r))
    BY <1>2, <1>4, <2>1, <2>2, JobDone, Zenon
  <2>4. Sound(k) /\ Tied(k, G \ {f}) /\ SameQueues(g, k)
    BY <2>2, <2>3
  <2>5. ListsOK(k, F) /\ JobsOf(k, F) = JobsOf(g, F)
    BY <1>3, <2>4, SameQueuesJobs DEF Likewise
  <2>6. HInv(k, F)
    BY <1>3, <2>4, <2>5, Zenon DEF HInv
  <2>7. \A x : Under(g, F, x) => Under(k, F, x)
    BY <2>4, SameUnder
  <2>8. QED
    BY <1>2, <2>6, <2>7 DEF Without
<1>8. QED
  BY <1>5, <1>6, <1>7

Taken(F, r) == IF r.type = "READ" THEN F \cup {r} ELSE F

LEMMA TakenAfter ==
  ASSUME OneChain, NEW h, NEW F, HInv(h, F), NEW r \in h.wait, NEW g, g = [h EXCEPT !.wait = h.wait \ {r}]
  PROVE  HInv(g, Taken(F, r)) /\ \A b, s : Carries(h, F, b, s) => Carries(g, Taken(F, r), b, s)
<1> DEFINE H == Taken(F, r)
<1>1. Sound(h) /\ Tied(h, JobsOf(h, F)) /\ ListsOK(h, F) /\ HOK(h) /\ Calm(h) /\ Typed(h) /\ h \in HState
  BY DEF HInv, Sound, HOK, Typed
<1>2. h.wait \in SUBSET Request
  BY <1>1 DEF HState
<1>3. /\ g \in HState /\ g.sets = h.sets /\ g.mshr = h.mshr /\ g.retry = h.retry
      /\ g.wait = h.wait \ {r} /\ g.hit = h.hit /\ g.asserts = h.asserts
  BY <1>1, <1>2, Zenon DEF HState
<1>4. Typed(g)
  BY <1>1, <1>3 DEF Typed
<1>5. HOK(g)
  BY <1>1, <1>3, <1>4 DEF HOK
<1>6. Calm(g)
  BY <1>1, <1>3, <1>4 DEF Calm, AllHonest, Nested
<1>7. Likewise(h, g, F, H)
  <2>1. h.wait \subseteq Request
    BY <1>2
  <2>2. Likewise(h, g, F, IF r.type = "READ" THEN F \cup {r} ELSE F)
    BY <1>1, <1>3, <2>1, TakenJobs, Zenon
  <2>3. QED
    BY <2>2 DEF Taken
<1>8. Tied(g, JobsOf(h, F))
  BY <1>1, <1>3, TiedLists, Zenon
<1>9. HInv(g, H)
  BY <1>5, <1>6, <1>7, <1>8 DEF HInv, Likewise, Sound
<1>10. r \in Request /\ r.type \in {"READ", "WRITE"}
  BY <1>2 DEF Request
<1>11. ASSUME NEW x, Under(h, F, x)
       PROVE  Under(g, H, x) \/ (x = r /\ r.type = "WRITE")
  BY <1>3, <1>10, <1>11 DEF Under, Taken
<1>12. r.type = "WRITE" => r.bits[0] = {}
  BY <1>1 DEF ListsOK, WaitList
<1> HIDE DEF H
<1>13. ASSUME NEW b, NEW s, Carries(h, F, b, s)
       PROVE  Carries(g, H, b, s)
  BY <1>11, <1>12, <1>13, Zenon DEF Carries
<1>14. QED
  BY <1>9, <1>13 DEF H

-----------------------------------------------------------------------------
(***************************************************************************)
(* The specification, for one chain without predictions.                   *)
(***************************************************************************)
NoPredictor == Prediction \subseteq {{}}

\* All that the cores wait for is carried.
Fed(h, F, W) == \A b, s : <<b, s>> \in Owed(W) => Carries(h, F, b, s)

\* The inductive invariant
CInv == Inv /\ HInv(Hierarchy, inflight) /\ Fed(Hierarchy, inflight, window)

\* What an answer does not bring, others carry.
LEMMA AnswerFeeds ==
  ASSUME window \subseteq WindowEntry, NEW r \in Request, NEW h, NEW F, Fed(h, F, window),
         NEW g, NEW H, Without(h, F, g, H, r)
  PROVE  Fed(g, H, set_ready(r))
<1>1. Owed(set_ready(r)) = Owed(window) \ ({r.block} \X r.bits[0])
  BY SetReadyOwes
<1>2. ASSUME NEW b, NEW s, <<b, s>> \in Owed(set_ready(r))
      PROVE  Carries(g, H, b, s)
  <2>1. <<b, s>> \in Owed(window) /\ ~(b = r.block /\ s \in r.bits[0])
    BY <1>1, <1>2
  <2>2. PICK x : Under(h, F, x) /\ x.block = b /\ s \in x.bits[0]
    BY <2>1 DEF Fed, Carries
  <2>3. x # r
    BY <2>1, <2>2
  <2>4. Under(g, H, x)
    BY <2>2, <2>3 DEF Without
  <2>5. QED
    BY <2>2, <2>4 DEF Carries
<1>3. QED
  BY <1>2 DEF Fed

LEMMA BecomeIs ==
  ASSUME NEW h, HOK(h), NEW left, Become(h, left)
  PROVE  Hierarchy' = h
<1>1. h \in HState
  BY DEF HOK, Typed
<1>2. h = [sets |-> h.sets, mshr |-> h.mshr, retry |-> h.retry, wait |-> h.wait, hit |-> h.hit,
           asserts |-> h.asserts]
  BY <1>1 DEF HState
<1>3. QED
  BY <1>2 DEF Become, Hierarchy

LEMMA CInvNext ==
  ASSUME Inv', NEW h, Hierarchy' = h, HInv(h, inflight'), Fed(h, inflight', window')
  PROVE  CInv'
BY DEF CInv

\* A core sends what its first cache can take.
LEMMA AccessComes ==
  ASSUME OneChain, Inv, HInv(Hierarchy, inflight), NEW k \in Core, NEW shape \in Shape, sends < MaxSends,
         NEW r, r = NewRequest(shape)
  PROVE  /\ L1[k] = K(0) /\ r \in Request /\ Coming(Hierarchy, 0, r) /\ r.hit = 3
         /\ r.type = shape.type /\ r.block = shape.block /\ r.bits[0] = shape.sectors
<1>1. sends \in 0..MaxSends
  BY DEF Inv
<1>2. /\ L1[k] \in Caches /\ level[L1[k]] = 0 /\ r \in Request /\ r.block \in Block
      /\ Wanted(L1[k], r) # {} /\ shape.sectors \in SUBSET Sector
  BY <1>1, AccessIs
<1>3. L1[k] = K(0)
  <2>1. L1[k] = K(level[L1[k]])
    BY <1>2, EachIsALevel
  <2>2. QED
    BY <1>2, <2>1
<1>4. /\ r.hit = 3 /\ r.type = shape.type /\ r.block = shape.block /\ r.bits[0] = shape.sectors
      /\ r.actual = shape.actual
  <2> DEFINE bits == [l \in 0..3 |-> IF l = 3 THEN {} ELSE shape.sectors]
  <2>1. bits[0] = shape.sectors
    OBVIOUS
  <2>2. r = [id |-> sends + 1, type |-> shape.type, block |-> shape.block, bits |-> bits,
             actual |-> shape.actual, hit |-> 3]
    BY DEF NewRequest
  <2> HIDE DEF bits
  <2>3. QED
    BY <2>1, <2>2
<1>5. shape.actual # {} /\ shape.actual \subseteq shape.sectors
  <2>1. shape \in [type : {"READ", "WRITE"}, block : Block,
                   sectors : SUBSET Sector, actual : (SUBSET Sector) \ {{}}]
        /\ shape.actual \subseteq shape.sectors
    BY AccessAssumption
  <2>2. QED
    BY <2>1
<1>6. Wanted(K(0), r) = shape.sectors
  BY <1>4, Chain DEF Wanted
<1>7. Wanted(K(0), r) \cap r.actual # {}
  BY <1>4, <1>5, <1>6
<1>8. Sound(Hierarchy) /\ 0 \in 0..2
  BY DEF HInv
<1>9. Coming(Hierarchy, 0, r)
  BY <1>2, <1>3, <1>7, <1>8 DEF Coming
<1>10. QED
  BY <1>2, <1>3, <1>4, <1>9

LEMMA CoreSendKeeps ==
  ASSUME OneChain, NoPredictor, CInv, Inv', NEW k \in Core, NEW shape \in Shape, NEW p \in Prediction,
         CoreSend(k, shape, p)
  PROVE  CInv'
<1> DEFINE r == NewRequest(shape)
           res == send(Hierarchy, L1[k], r, p)
           entry == [id |-> sends + 1, block |-> shape.block, left |-> shape.sectors]
           added == IF shape.type = "READ" THEN {entry} ELSE {}
           left == IF shape.type = "WRITE"
                   THEN [unsaved EXCEPT ![shape.block] = @ \cup shape.actual] ELSE unsaved
<1>1. /\ sends < MaxSends /\ inflight' = inflight
      /\ \/ res.ok /\ window' = window \cup added /\ Become(res.h, left)
         \/ window' = window /\ Become(res.h, unsaved)
  BY DEF CoreSend, Sent
<1>2. Inv /\ HInv(Hierarchy, inflight) /\ Fed(Hierarchy, inflight, window)
  BY DEF CInv
<1>3. /\ L1[k] = K(0) /\ r \in Request /\ Coming(Hierarchy, 0, r) /\ r.hit = 3
      /\ r.type = shape.type /\ r.block = shape.block /\ r.bits[0] = shape.sectors
  BY <1>1, <1>2, AccessComes
<1>4. p = {}
  BY DEF NoPredictor
<1>5. res = send(Hierarchy, K(0), r, {})
  BY <1>3, <1>4
<1>6. entry.block = shape.block /\ entry.left = shape.sectors
  OBVIOUS
<1> HIDE DEF res, r, left, entry
<1>7. After(Hierarchy, res.h, inflight) /\ (res.ok => Kept(res.h, inflight, r))
  BY <1>2, <1>3, <1>5, CoreSends
<1>8. HInv(res.h, inflight) /\ MoreCarried(Hierarchy, res.h, inflight) /\ HOK(res.h)
  BY <1>7 DEF After, HInv, Sound
<1>9. Hierarchy' = res.h
  BY <1>1, <1>8, BecomeIs
<1>10. Fed(res.h, inflight, window)
  BY <1>2, <1>8 DEF Fed, MoreCarried
<1>11. CASE window' = window
  BY <1>1, <1>8, <1>9, <1>10, <1>11, CInvNext
<1>12. CASE res.ok /\ window' = window \cup added
  <2>1. ASSUME NEW b, NEW s, <<b, s>> \in Owed(window')
        PROVE  Carries(res.h, inflight, b, s)
    <3>1. PICK w \in window \cup added : w.block = b /\ s \in w.left
      BY <1>12, <2>1, OwedIs
    <3>2. CASE w \in window
      <4>1. <<b, s>> \in Owed(window)
        BY <3>1, <3>2, OwedIs
      <4>2. QED
        BY <1>10, <4>1 DEF Fed
    <3>3. CASE w \in added
      <4>1. shape.type = "READ" /\ w = entry
        BY <3>3
      <4>2. b = r.block /\ s \in r.bits[0] /\ r.type = "READ"
        BY <1>3, <1>6, <3>1, <4>1
      <4>3. QED
        BY <1>7, <1>12, <4>2 DEF Kept
    <3>4. QED
      BY <3>1, <3>2, <3>3
  <2>2. Fed(res.h, inflight, window')
    BY <2>1 DEF Fed
  <2>3. HInv(res.h, inflight') /\ Fed(res.h, inflight', window')
    BY <1>1, <1>8, <2>2
  <2>4. QED
    BY <1>9, <2>3, CInvNext
<1>13. QED
  BY <1>1, <1>11, <1>12

LEMMA CacheTickKeeps ==
  ASSUME OneChain, CInv, Inv', NEW k \in Core, CacheTick(k)
  PROVE  CInv'
<1> DEFINE h == tick(Hierarchy, L1[k])
<1>1. Become(h, unsaved) /\ inflight' = inflight /\ window' = window
  BY DEF CacheTick
<1>2. HInv(Hierarchy, inflight) /\ Fed(Hierarchy, inflight, window)
  BY DEF CInv
<1>3. L1[k] \in Caches /\ level[L1[k]] = 0
  BY HierarchyAssumption
<1>4. L1[k] = K(0)
  <2>1. L1[k] = K(level[L1[k]])
    BY <1>3, EachIsALevel
  <2>2. QED
    BY <1>3, <2>1
<1>5. After(Hierarchy, h, inflight)
  BY <1>2, <1>4, TickAfter
<1> HIDE DEF h
<1>6. HInv(h, inflight) /\ MoreCarried(Hierarchy, h, inflight) /\ HOK(h)
  BY <1>5 DEF After, HInv, Sound
<1>7. Hierarchy' = h
  BY <1>1, <1>6, BecomeIs
<1>8. Fed(h, inflight, window)
  BY <1>2, <1>6 DEF Fed, MoreCarried
<1>9. QED
  BY <1>1, <1>6, <1>7, <1>8, CInvNext

LEMMA SendMemoryKeeps ==
  ASSUME OneChain, CInv, Inv', NEW r \in wait_list, SendMemory(r)
  PROVE  CInv'
<1> DEFINE h == Hierarchy
           g == [h EXCEPT !.wait = h.wait \ {r}]
<1>1. HInv(h, inflight) /\ Fed(h, inflight, window) /\ h.wait = wait_list
  BY DEF CInv, Hierarchy
<1>2. Hierarchy' = g
  BY DEF SendMemory, Hierarchy
<1>3. inflight' = Taken(inflight, r) /\ window' = window
  BY DEF SendMemory, Taken
<1> HIDE DEF h, g
<1>4. r \in h.wait /\ g = [h EXCEPT !.wait = h.wait \ {r}]
  BY <1>1 DEF g
<1>5. HInv(g, Taken(inflight, r))
      /\ \A b, s : Carries(h, inflight, b, s) => Carries(g, Taken(inflight, r), b, s)
  BY <1>1, <1>4, TakenAfter
<1>6. HInv(g, inflight') /\ Fed(g, inflight', window')
  BY <1>1, <1>3, <1>5 DEF Fed
<1>7. QED
  BY <1>2, <1>6, CInvNext

LEMMA AnswerKeeps ==
  ASSUME OneChain, CInv, Inv', NEW r \in inflight, Answer(r)
  PROVE  CInv'
<1> DEFINE k == callback(Hierarchy, r)
<1>1. /\ HInv(Hierarchy, inflight) /\ Fed(Hierarchy, inflight, window)
      /\ window \subseteq WindowEntry /\ r \in Request
  BY DEF CInv, Inv
<1>2. Become(k, unsaved) /\ inflight' = inflight \ {r} /\ window' = set_ready(r)
  BY DEF Answer
<1>3. HInv(k, inflight \ {r}) /\ Without(Hierarchy, inflight, k, inflight \ {r}, r)
  BY <1>1, AnswerDone
<1> HIDE DEF k
<1>4. Hierarchy' = k
  BY <1>2, <1>3, BecomeIs DEF HInv, Sound
<1>5. Fed(k, inflight \ {r}, set_ready(r))
  BY <1>1, <1>3, AnswerFeeds
<1>6. HInv(k, inflight') /\ Fed(k, inflight', window')
  BY <1>2, <1>3, <1>5
<1>7. QED
  BY <1>4, <1>6, CInvNext

LEMMA HitDoneKeeps ==
  ASSUME OneChain, CInv, Inv', NEW i \in 1..Len(hit_list), HitDone(i)
  PROVE  CInv'
<1> DEFINE h == Hierarchy
           r == hit_list[i]
           g == [h EXCEPT !.hit = RemoveAt(h.hit, i)]
           k == callback(g, r)
<1>1. /\ HInv(h, inflight) /\ Fed(h, inflight, window) /\ h.hit = hit_list
      /\ window \subseteq WindowEntry
  BY DEF CInv, Inv, Hierarchy
<1>2. Become(k, unsaved) /\ inflight' = inflight /\ window' = set_ready(r)
  BY DEF HitDone
<1>3. r \in Request
  <2>1. h.hit \in Seq(Request)
    BY <1>1 DEF HInv, Sound, HOK, Typed, HState
  <2>2. QED
    BY <1>1, <2>1
<1> HIDE DEF h
<1>4. HInv(k, inflight) /\ Without(h, inflight, k, inflight, r)
  <2>1. i \in 1..Len(h.hit) /\ r = h.hit[i]
    BY <1>1
  <2> HIDE DEF r
  <2>2. QED
    BY <1>1, <2>1, HitAnswered
<1> HIDE DEF k, r
<1>5. Hierarchy' = k
  BY <1>2, <1>4, BecomeIs DEF HInv, Sound
<1>6. Fed(k, inflight, set_ready(r))
  BY <1>1, <1>3, <1>4, AnswerFeeds
<1>7. HInv(k, inflight') /\ Fed(k, inflight', window')
  BY <1>2, <1>4, <1>6
<1>8. QED
  BY <1>5, <1>7, CInvNext

LEMMA NextKeeps ==
  ASSUME OneChain, NoPredictor, CInv, [Next]_vars
  PROVE  CInv'
<1>1. Inv'
  BY NextHolds DEF CInv
<1>2. ASSUME NEW k \in Core, NEW shape \in Shape, NEW p \in Prediction, CoreSend(k, shape, p)
      PROVE  CInv'
  BY <1>1, <1>2, CoreSendKeeps
<1>3. ASSUME NEW k \in Core, CacheTick(k)
      PROVE  CInv'
  BY <1>1, <1>3, CacheTickKeeps
<1>4. ASSUME NEW r \in wait_list, SendMemory(r)
      PROVE  CInv'
  BY <1>1, <1>4, SendMemoryKeeps
<1>5. ASSUME NEW r \in inflight, Answer(r)
      PROVE  CInv'
  BY <1>1, <1>5, AnswerKeeps
<1>6. ASSUME NEW i \in 1..Len(hit_list), HitDone(i)
      PROVE  CInv'
  BY <1>1, <1>6, HitDoneKeeps
<1>7. CASE Finished \/ UNCHANGED vars
  <2>1. UNCHANGED vars
    BY <1>7 DEF Finished
  <2>2. Hierarchy' = Hierarchy
    BY <2>1 DEF vars, Hierarchy
  <2>3. inflight' = inflight /\ window' = window
    BY <2>1 DEF vars
  <2>4. HInv(Hierarchy, inflight') /\ Fed(Hierarchy, inflight', window')
    BY <2>3 DEF CInv
  <2>5. QED
    BY <1>1, <2>2, <2>4, CInvNext
<1>8. QED
  BY <1>2, <1>3, <1>4, <1>5, <1>6, <1>7 DEF Next

LEMMA InitKeeps ==
  ASSUME OneChain, Init
  PROVE  CInv
<1> DEFINE h == Hierarchy
<1>1. Inv /\ HOK(h) /\ Typed(h)
  BY InitHolds DEF Inv, HOK
<1>2. /\ h.sets = sets /\ h.mshr = mshr /\ h.retry = retry_list /\ h.wait = {}
      /\ h.hit = << >> /\ h.asserts = {} /\ inflight = {} /\ window = {}
  BY DEF Hierarchy, Init
<1>3. ASSUME NEW c \in Caches
      PROVE  h.sets[c] = [i \in 1..nWays[c] |-> EmptyWay] /\ h.mshr[c] = << >> /\ h.retry[c] = << >>
  BY DEF Init, Hierarchy
<1> HIDE DEF h
<1>4. /\ K(0) \in Caches /\ K(1) \in Caches /\ K(2) \in Caches
      /\ \A l \in 0..2 : K(l) \in Caches
      /\ \A l \in 0..1 : K(l) \in Caches
  <2>1. (\A l \in 0..2 : l = 0 \/ l = 1 \/ l = 2) /\ (\A l \in 0..1 : l = 0 \/ l = 1)
    OBVIOUS
  <2>2. QED
    BY <2>1, Chain
<1>5. ASSUME NEW c \in Caches
      PROVE  Honest(h.sets[c], {}) /\ \A b : ~isValid(h.sets[c], b)
  <2> DEFINE s == h.sets[c]
             n == nWays[c]
  <2>1. n \in Nat
    BY Numbers
  <2>2. s \in [1..n -> Way] /\ OneInUse(s)
    BY <1>1, Fields DEF SetOK
  <2> HIDE DEF n
  <2>3. s = [i \in 1..n |-> EmptyWay]
    BY <1>3 DEF n
  <2> HIDE DEF s
  <2>4. DOMAIN s = 1..n /\ \A i \in 1..n : s[i] = EmptyWay
    BY <2>3
  <2>5. ~EmptyWay.valid /\ ~EmptyWay.busy /\ ~EmptyWay.dirty /\ EmptyWay.dirtySectors = {}
    BY DEF EmptyWay
  <2>6. Honest(s, {})
    BY <2>4, <2>5 DEF Honest
  <2>7. \A b : ~isValid(s, b)
    BY <2>1, <2>2, <2>4, <2>5, InUse
  <2>8. QED
    BY <2>6, <2>7 DEF s
<1>6. Len(<< >>) = 0 /\ 1..0 = {}
  OBVIOUS
<1>7. Calm(h)
  <2>1. AllHonest(h)
    BY <1>5 DEF AllHonest
  <2>2. Nested(h)
    BY <1>4, <1>5 DEF Nested
  <2>3. ASSUME NEW c \in Caches, NEW i \in 1..Len(h.mshr[c])
        PROVE  MarksOK(h.mshr[c][i])
    BY <1>3, <1>6, Zenon
  <2>4. QED
    BY <1>1, <1>2, <2>1, <2>2, <2>3 DEF Calm
<1>8. ASSUME NEW x
      PROVE  /\ ~In(h.hit, x)
             /\ \A l \in 0..1 : ~In(h.retry[K(l)], x)
  BY <1>2, <1>3, <1>4, <1>6, Zenon DEF In
<1>9. ASSUME NEW r, NEW d
      PROVE  ~IsJob(h, inflight, r, d)
  <2>1. d \in 1..2 => d - 1 \in 0..1
    OBVIOUS
  <2>2. r \notin h.wait \cup inflight
    BY <1>2
  <2>3. QED
    BY <1>8, <2>1, <2>2 DEF IsJob
<1>10. JobsOf(h, inflight) = {}
  BY <1>9 DEF JobsOf
<1>11. ListsOK(h, inflight)
  <2>1. Once(h.hit, FirstHit)
    BY <1>2, <1>6 DEF Once
  <2>2. \A l \in 0..1 : Once(h.retry[K(l)], {})
    BY <1>3, <1>4, <1>6, Zenon DEF Once
  <2>3. Len(h.retry[K(2)]) = 0
    BY <1>3, <1>4, <1>6, Zenon
  <2>4. RetryLists(h)
    BY <1>8, <2>2, <2>3 DEF RetryLists
  <2>5. HitList(h)
    BY <1>8, <2>1 DEF HitList
  <2>6. WaitList(h, inflight)
    BY <1>2 DEF WaitList
  <2>7. QED
    BY <2>4, <2>5, <2>6 DEF ListsOK
<1>12. Tied(h, {})
  <2>1. ASSUME NEW l \in 0..2
        PROVE  Row(h.mshr[K(l)], {}, l)
    <3>1. h.mshr[K(l)] = << >>
      BY <1>3, <1>4, Zenon
    <3>2. QED
      BY <1>6, <3>1 DEF Row
  <2>2. QED
    BY <2>1 DEF Tied, Apart
<1>13. HInv(h, inflight)
  BY <1>1, <1>7, <1>10, <1>11, <1>12 DEF HInv, Sound
<1>14. Fed(h, inflight, window)
  BY <1>2 DEF Fed, Owed
<1>15. QED
  BY <1>1, <1>13, <1>14 DEF CInv, h

LEMMA ChainInvariant ==
  ASSUME OneChain, NoPredictor
  PROVE  Spec => []CInv
<1>1. Init => CInv
  BY InitKeeps
<1>2. CInv /\ [Next]_vars => CInv'
  BY NextKeeps
<1>3. QED
  BY <1>1, <1>2, PTL DEF Spec

\* With one core and no predictions no assert fails (Cache.h and Cache.cpp, CacheSet.cpp):
\* every access finds its sectors, a copy that leaves a cache finds its block in the cache
\* below (Cache.cpp:984-1030), and a dirty block leaves the last level with dirty sectors
\* (Cache.cpp:923-958), for any number of blocks, sectors, ways, MSHRs and accesses.
\* The runs show that with two cores, or with predictions, asserts do fail.
THEOREM AssertionsHold ==
  ASSUME OneChain, NoPredictor
  PROVE  Spec => []NoAssertionFails
<1>1. CInv => NoAssertionFails
  BY DEF CInv, HInv, Sound, Calm, Hierarchy, NoAssertionFails
<1>2. Spec => []CInv
  BY ChainInvariant
<1>3. QED
  BY <1>1, <1>2, PTL

\* With one core and no predictions the hierarchy is inclusive (Cache.cpp:837-921): a
\* block in a cache is in the cache below or on its way there, also while evictions,
\* retries and answers in any order move blocks.
THEOREM InclusionHolds ==
  ASSUME OneChain, NoPredictor
  PROVE  Spec => []Inclusive
<1>1. CInv => Inclusive
  <2>1. ASSUME CInv, NEW c \in Caches, NEW b \in Block, level[c] < 2, isValid(sets[c], b)
        PROVE  isValid(sets[lower[c]], b) \/ isBusy(sets[lower[c]], b)
    <3>1. Nested(Hierarchy) /\ Hierarchy.sets = sets
      BY <2>1 DEF CInv, HInv, Sound, Calm, Hierarchy
    <3>2. level[c] \in 0..1 /\ c = K(level[c]) /\ lower[c] = K(level[c] + 1)
      <4>1. c = K(0) \/ c = K(1) \/ c = K(2)
        BY Chain
      <4>2. 0 + 1 = 1 /\ 1 + 1 = 2 /\ 0 \in 0..1 /\ 1 \in 0..1 /\ ~(2 < 2)
        OBVIOUS
      <4>3. QED
        BY <2>1, <4>1, <4>2, Chain
    <3>3. b \in Tag
      BY DEF Tag
    <3>4. Held(sets[lower[c]], b)
      BY <2>1, <3>1, <3>2, <3>3 DEF Nested
    <3>5. QED
      BY <3>4 DEF Held
  <2>2. QED
    BY <2>1 DEF Inclusive
<1>2. Spec => []CInv
  BY ChainInvariant
<1>3. QED
  BY <1>1, <1>2, PTL

\* With one core and no predictions no read is forgotten (Cache.cpp:234-776, 1178-1196):
\* for every sector a core waits for, some request under way brings it, although reads
\* that MSHRs cover are dropped and the retry loop skips requests.
THEOREM NoneForgotten ==
  ASSUME OneChain, NoPredictor
  PROVE  Spec => []NoReadForgotten
<1>1. CInv => NoReadForgotten
  <2>1. ASSUME CInv, NEW w \in window, NEW s \in w.left
        PROVE  \E r \in UnderWay : r.block = w.block /\ s \in r.bits[0]
    <3>1. <<w.block, s>> \in Owed(window)
      BY <2>1, OwedIs
    <3>2. PICK x : Under(Hierarchy, inflight, x) /\ x.block = w.block /\ s \in x.bits[0]
      BY <2>1, <3>1 DEF CInv, Fed, Carries
    <3>3. K(0) \in Caches /\ K(1) \in Caches
      BY Chain
    <3>4. /\ Hierarchy.wait = wait_list /\ Hierarchy.hit = hit_list
          /\ Hierarchy.retry = retry_list
      BY DEF Hierarchy
    <3>5. x \in UnderWay
      <4>1. CASE x \in wait_list \/ x \in inflight
        BY <4>1 DEF UnderWay
      <4>2. CASE In(hit_list, x)
        BY <4>2 DEF UnderWay, In
      <4>3. ASSUME NEW c \in Caches, In(retry_list[c], x)
            PROVE  x \in UnderWay
        BY <4>3 DEF UnderWay, In
      <4>4. \A l \in 0..1 : K(l) \in Caches
        <5>1. \A l \in 0..1 : l = 0 \/ l = 1
          OBVIOUS
        <5>2. QED
          BY <3>3, <5>1
      <4>5. QED
        BY <3>2, <3>4, <4>1, <4>2, <4>3, <4>4 DEF Under
    <3>6. QED
      BY <3>2, <3>5
  <2>2. QED
    BY <2>1 DEF NoReadForgotten
<1>2. Spec => []CInv
  BY ChainInvariant
<1>3. QED
  BY <1>1, <1>2, PTL

=============================================================================
