------------------------------ MODULE CacheSet ------------------------------
(***************************************************************************)
(* One set of a sectored cache (CacheSet.h, CacheSet.cpp): its ways, the   *)
(* sectors of the block in each way, and the MRU replacement bits.  The    *)
(* operators are the methods of the class; each returns the set after the  *)
(* call, and what the method asserts is an operator of its own.            *)
(*                                                                         *)
(* Ways are looked up by tag alone, valid or not: a tag stays in its way   *)
(* after the block was evicted, and every way starts with tag 0.  A tag    *)
(* may therefore stand in several ways; the first one is found.            *)
(***************************************************************************)
EXTENDS Naturals, Sequences, FiniteSetsExt

CONSTANTS
  Sector,      \* sectors of a cache block
  Block        \* block numbers; 0 is the tag the ways are initialised with

ASSUME BlockAssumption == Block \subseteq Nat

Way ==
  [tag : Block \cup {0}, valid : BOOLEAN, busy : BOOLEAN, dirty : BOOLEAN,
   mru : BOOLEAN, sectorValids : SUBSET Sector, usedSectors : SUBSET Sector,
   dirtySectors : SUBSET Sector]

EmptyWay ==
  [tag |-> 0, valid |-> FALSE, busy |-> FALSE, dirty |-> FALSE, mru |-> FALSE,
   sectorValids |-> {}, usedSectors |-> {}, dirtySectors |-> {}]

Ways(set) == 1..Len(set)

HasTag(set, tag) == \E i \in Ways(set) : set[i].tag = tag

findWayIdx(set, tag) == Min({i \in Ways(set) : set[i].tag = tag})

isValid(set, tag) == HasTag(set, tag) /\ set[findWayIdx(set, tag)].valid
isBusy(set, tag)  == HasTag(set, tag) /\ set[findWayIdx(set, tag)].busy
isDirty(set, tag) == HasTag(set, tag) /\ set[findWayIdx(set, tag)].dirty

canEvict(set, tag) == ~isBusy(set, tag)

getSectorBits(set, tag) ==
  IF HasTag(set, tag) THEN set[findWayIdx(set, tag)].sectorValids ELSE {}

getUsedSectors(set, tag) ==
  IF HasTag(set, tag) THEN set[findWayIdx(set, tag)].usedSectors ELSE {}

getDirtySectors(set, tag) ==
  IF HasTag(set, tag) THEN set[findWayIdx(set, tag)].dirtySectors ELSE {}

areSectorsValid(set, tag, sectors) == sectors \subseteq getSectorBits(set, tag)

findMissingSectors(set, tag, sectors) == sectors \ getSectorBits(set, tag)

\* The tag of the first way that is not recently used.
findVictim(set) == set[Min({i \in Ways(set) : ~set[i].mru})].tag

\* Way i is the most recently used one; when all ways are, the others are
\* forgotten.
Touch(set, i) ==
  IF \A j \in Ways(set) \ {i} : set[j].mru
  THEN [j \in Ways(set) |-> [set[j] EXCEPT !.mru = (j = i)]]
  ELSE [set EXCEPT ![i].mru = TRUE]

\* "Accessing an unexisting sector"
accessAsserts(set, tag, sectors) ==
  HasTag(set, tag) /\ sectors \subseteq getSectorBits(set, tag)

\* Mutant of access: a write does not record its sectors.
accessForgetsWrite(set, tag, sectors, isWrite) ==
  LET i == findWayIdx(set, tag)
  IN  Touch([set EXCEPT ![i].usedSectors = @ \cup sectors], i)

access(set, tag, sectors, isWrite) ==
  LET i == findWayIdx(set, tag)
  IN  Touch([set EXCEPT ![i].usedSectors = @ \cup sectors,
                        ![i].dirtySectors = IF isWrite THEN @ \cup sectors ELSE @], i)

insert(set, oldTag, newTag) ==
  LET i == findWayIdx(set, oldTag)
  IN  Touch([set EXCEPT ![i].tag = newTag, ![i].sectorValids = {},
                        ![i].usedSectors = {}, ![i].dirtySectors = {}], i)

validate(set, tag)  == [set EXCEPT ![findWayIdx(set, tag)].valid = TRUE]
makeBusy(set, tag)  == [set EXCEPT ![findWayIdx(set, tag)].busy = TRUE]
makeIdle(set, tag)  == [set EXCEPT ![findWayIdx(set, tag)].busy = FALSE]
makeDirty(set, tag) == [set EXCEPT ![findWayIdx(set, tag)].dirty = TRUE]

insertSectors(set, tag, sectors) ==
  [set EXCEPT ![findWayIdx(set, tag)].sectorValids = @ \cup sectors]

\* "More sectors used than brought at the time of eviction", "Evicting a busy
\* cache block"
evictAsserts(set, tag) ==
  ~isBusy(set, tag) /\ getUsedSectors(set, tag) \subseteq getSectorBits(set, tag)

\* The way is emptied but keeps its tag.
evictWay(set, tag) ==
  [set EXCEPT ![findWayIdx(set, tag)] = [EmptyWay EXCEPT !.tag = tag]]

=============================================================================
