-------------------------------- MODULE Cache --------------------------------
(***************************************************************************)
(* The cache hierarchy (Cache.h, Cache.cpp) between the cores and the      *)
(* memory: private L1 and L2 caches, a shared inclusive L3, their MSHRs    *)
(* and retry lists, and the two lists of CacheSystem, with sectoredDRAM on *)
(* and no prefetcher.  Every cache is one set, so a block is its tag.      *)
(*                                                                         *)
(* send and callback are calls down and up the hierarchy that end within   *)
(* one cycle: each is one operator on the state of the whole hierarchy, a  *)
(* record h with the fields sets, mshr, retry, wait, hit and asserts.  The *)
(* memory is external: it takes a request of wait_list when it likes,      *)
(* answers reads in any order and keeps writes.                            *)
(***************************************************************************)
EXTENDS CacheSet, SequencesExt

CONSTANTS
  caches,         \* the caches, in an order with the higher ones first
  lower,          \* lower_cache; a cache without one is the last level
  level,          \* 0, 1, 2 for L1, L2, L3
  nWays,          \* ways of each cache
  mshr_entry_num, \* MSHRs of each cache
  Core, L1,       \* the cores and the first cache of each
  Shape,          \* the accesses a core may make
  Prediction,     \* what the spatial predictor may answer
  MaxSends        \* bound: accesses the caches accept in a behaviour

Caches == {caches[i] : i \in 1..Len(caches)}

\* A set has two ways at least: "MRU bits should never be all one" (CacheSet.cpp:51).
ASSUME HierarchyAssumption ==
  /\ caches \in Seq(Caches)
  /\ nWays \in [Caches -> Nat \ {0, 1}]
  /\ mshr_entry_num \in [Caches -> Nat]
  /\ lower \in [Caches -> Caches \cup {"memory"}]
  /\ level \in [Caches -> 0..2]
  /\ \A c \in Caches : IF level[c] = 2 THEN lower[c] = "memory"
                        ELSE lower[c] \in Caches /\ level[lower[c]] = level[c] + 1
  /\ \A i, j \in 1..Len(caches) : level[caches[i]] < level[caches[j]] => i < j
  /\ L1 \in [Core -> {c \in Caches : level[c] = 0}]

\* A core sends the sectors of its access and those the trace lookahead adds.
ASSUME AccessAssumption ==
  /\ Shape \subseteq [type : {"READ", "WRITE"}, block : Block,
                      sectors : SUBSET Sector, actual : (SUBSET Sector) \ {{}}]
  /\ \A s \in Shape : s.actual \subseteq s.sectors
  /\ Prediction \subseteq SUBSET Sector
  /\ MaxSends \in Nat

VARIABLES
  sets,       \* the set of each cache
  mshr,       \* mshr_entries of each cache
  retry_list, \* requests the lower cache refused
  wait_list,  \* requests for the memory
  hit_list,   \* requests that hit, waiting for the latency of the cache
  asserts,    \* the asserts that failed: any of them ends the simulation
  inflight,   \* reads the memory has taken
  window,     \* reads a core waits for and the sectors still missing
  refused,    \* the access each core must send again
  sends,      \* accesses accepted
  unsaved     \* history: sectors of a block written and not written back

vars == <<sets, mshr, retry_list, wait_list, hit_list, asserts, inflight,
          window, refused, sends, unsaved>>

\* bits[l] is sector_bits[l]: what the request asks of level l, 3 being the
\* memory.  hit is hit_level, or 3 if no cache counted the request as a hit.
Request ==
  [id : 1..MaxSends, type : {"READ", "WRITE"}, block : Block \cup {0},
   bits : [0..3 -> SUBSET Sector], actual : SUBSET Sector, hit : 0..3]

mshr_entry_type ==
  [block : Block, sectors : SUBSET Sector, dirty : BOOLEAN,
   will_be_used : SUBSET Sector, will_be_dirty : SUBSET Sector]

NoAccess == [type |-> "NONE"]

Hierarchy ==
  [sets |-> sets, mshr |-> mshr, retry |-> retry_list, wait |-> wait_list,
   hit |-> hit_list, asserts |-> asserts]

Init ==
  /\ sets = [c \in Caches |-> [i \in 1..nWays[c] |-> EmptyWay]]
  /\ mshr = [c \in Caches |-> << >>]
  /\ retry_list = [c \in Caches |-> << >>]
  /\ wait_list = {}
  /\ hit_list = << >>
  /\ asserts = {}
  /\ inflight = {}
  /\ window = {}
  /\ refused = [k \in Core |-> NoAccess]
  /\ sends = 0
  /\ unsaved = [b \in Block |-> {}]

-----------------------------------------------------------------------------
(***************************************************************************)
(* Calls on the set of one cache, with what they assert.  A call on a      *)
(* block that has no way changes nothing more: the assert has failed.      *)
(***************************************************************************)
\* The asserts are named for what they say: "Accessing an unexisting sector"
\* (UnexistingSector), "No MSHRs match the block, but the block is busy" (BusyWithNoMshr).
Asserting(h, holds, what) == IF holds THEN h ELSE [h EXCEPT !.asserts = @ \cup {what}]

Access(h, c, b, sectors, isWrite) ==
  IF accessAsserts(h.sets[c], b, sectors)
  THEN [h EXCEPT !.sets[c] = access(@, b, sectors, isWrite)]
  ELSE Asserting(h, FALSE, "UnexistingSector")

Fill(h, c, b, sectors) == [h EXCEPT !.sets[c] = insertSectors(@, b, sectors)]

\* The sectors of an access are there from now on, read or written.
FillAccess(h, c, r) ==
  Access(Fill(h, c, r.block, r.actual), c, r.block, r.actual, r.type = "WRITE")

-----------------------------------------------------------------------------
(***************************************************************************)
(* Eviction.  A block leaves a cache with its copies in all higher caches; *)
(* each copy gives its sectors to the cache below (update).                *)
(***************************************************************************)
Higher(c) == {x \in Caches : lower[x] = c}

Tree(c) == {c} \cup Higher(c) \cup UNION {Higher(x) : x \in Higher(c)}

evictable(h, c, b) == \A x \in Tree(c) : canEvict(h.sets[x], b)

update(h, c, b, dirty, way) ==
  LET known  == isValid(h.sets[c], b) \/ isBusy(h.sets[c], b)
      filled == Access(Fill(h, c, b, way.sectorValids), c, b, way.usedSectors, FALSE)
      soiled == [filled EXCEPT !.sets[c] = makeDirty(@, b)]
  IN  IF ~known THEN Asserting(h, FALSE, "NonExistentBlock")
      ELSE IF dirty THEN Access(soiled, c, b, way.dirtySectors, TRUE)
      ELSE filled

\* One cache of evictBlock; e.dirty is what the calls made so far return.
EvictFrom(e, c, b) ==
  LET set     == e.h.sets[c]
      above   == \E x \in Higher(c) : e.dirty[x]
      dirty   == above \/ isDirty(set, b)
      updated == IF level[c] = 2 THEN e.h
                 ELSE update(e.h, lower[c], b, dirty, set[findWayIdx(set, b)])
      checked == Asserting(updated, evictAsserts(set, b), "MoreUsedThanBrought")
  IN  IF isValid(set, b) /\ canEvict(set, b)
      THEN [h |-> [checked EXCEPT !.sets[c] = evictWay(@, b)],
            dirty |-> [e.dirty EXCEPT ![c] = dirty]]
      ELSE [e EXCEPT !.dirty[c] = above]

\* Mutant of evictBlock: the copies in the higher caches stay.
evictBlockAlone(h, c, b) ==
  EvictFrom([h |-> h, dirty |-> [x \in Caches |-> FALSE]], c, b)

evictBlock(h, c, b) ==
  LET evicted[i \in 0..Len(caches)] ==
        IF i = 0 THEN [h |-> h, dirty |-> [x \in Caches |-> FALSE]]
        ELSE IF caches[i] \in Tree(c) THEN EvictFrom(evicted[i - 1], caches[i], b)
        ELSE evicted[i - 1]
  IN  evicted[Len(caches)]

WriteBack(id, b, sectors) ==
  [id |-> id, type |-> "WRITE", block |-> b, actual |-> {}, hit |-> 3,
   bits |-> [l \in 0..3 |-> IF l = 3 THEN sectors ELSE {}]]

\* e is what evictBlock has made of the hierarchy: a dirty block leaves the last
\* level for the memory with the dirty sectors of all its copies.
WriteDirty(e, c, b, id, sectors) ==
  LET checked == Asserting(e.h, sectors # {}, "DirtyWithNoDirtySectors")
  IN  IF level[c] = 2 /\ e.dirty[c]
      THEN [checked EXCEPT !.wait = @ \cup {WriteBack(id, b, sectors)}]
      ELSE e.h

\* Block b leaves cache c to make room for request id.
evict(h, c, b, id) ==
  WriteDirty(evictBlock(h, c, b), c, b, id,
             UNION {getDirtySectors(h.sets[x], b) : x \in Tree(c)})

-----------------------------------------------------------------------------
(***************************************************************************)
(* send: request r arrives at cache c and is accepted or refused; ask is   *)
(* the request that goes on to the level below, if there is one.           *)
(***************************************************************************)
Accept(h)  == [h |-> h, ok |-> TRUE, ask |-> << >>]
Refuse(h)  == [h |-> h, ok |-> FALSE, ask |-> << >>]

Wanted(c, r) == r.bits[level[c]]

\* Mutant of MshrFull: one MSHR more.
MshrFullLate(h, c) == Len(h.mshr[c]) > mshr_entry_num[c]

MshrFull(h, c) == Len(h.mshr[c]) = mshr_entry_num[c]

Matching(h, c, b) == {i \in 1..Len(h.mshr[c]) : h.mshr[c][i].block = b}

Remaining(h, c, r) ==
  Wanted(c, r) \ UNION {h.mshr[c][i].sectors : i \in Matching(h, c, r.block)}

\* Mutant of CoveredByMshrs: an MSHR of the block is enough.
CoveredByAny(h, c, r) == Matching(h, c, r.block) # {}

\* Some MSHR, or several of them together, bring all that r asks for.
CoveredByMshrs(h, c, r) ==
  Matching(h, c, r.block) # {} /\ Remaining(h, c, r) = {}

\* MSHRs of the block learn of the access, up to the first that covers it.
MarkMshrs(h, c, r) ==
  LET covers == {i \in Matching(h, c, r.block) : Wanted(c, r) \subseteq h.mshr[c][i].sectors}
      reached == {i \in Matching(h, c, r.block) : \A j \in covers : i <= j}
      write  == r.type = "WRITE"
      mark(m) == [m EXCEPT !.dirty = @ \/ write,
                           !.will_be_dirty = @ \cup (IF write THEN r.actual ELSE {}),
                           !.will_be_used = @ \cup r.actual]
  IN  [h EXCEPT !.mshr[c] = [i \in 1..Len(@) |-> IF i \in reached THEN mark(@[i]) ELSE @[i]]]

HitAt(h, c, r) == [h EXCEPT !.hit = Append(@, [r EXCEPT !.hit = level[c]])]

\* A new MSHR brings `sectors`, and r goes on to ask for them as a READ.
\* `predicted` is not empty in the first level only; the processor is told
\* that it gets those sectors too.
Fetch(h, c, r, sectors, predicted, dirty, will_be_dirty) ==
  LET entry == [block |-> r.block, sectors |-> sectors, dirty |-> dirty,
                will_be_used |-> {}, will_be_dirty |-> will_be_dirty]
      asked == [r EXCEPT !.bits[level[c] + 1] = sectors,
                         !.bits[0] = @ \cup predicted,
                         !.type = "READ"]
      with  == Asserting([h EXCEPT !.mshr[c] = Append(@, entry)], sectors # {},
                         "ZeroSectorsDemanded")
  IN  [h |-> with, ok |-> TRUE, ask |-> <<asked>>]

\* The block misses and some MSHR brings other sectors of it.
MissWithMshr(h, c, r, predicted) ==
  LET filtered == findMissingSectors(h.sets[c], r.block, Remaining(h, c, r))
  IN  IF r.type = "WRITE" THEN Accept(FillAccess(h, c, r))
      ELSE IF filtered = {} THEN Accept(HitAt(h, c, r))
      ELSE IF MshrFull(h, c) THEN Refuse(h)
      ELSE Fetch(h, c, r, filtered \cup predicted, predicted, FALSE, {})

\* Block b has got a way, which is busy now.
Placed(h, c, b) ==
  Asserting(h, ~isValid(h.sets[c], b) /\ isBusy(h.sets[c], b), "NotValidAndBusyExpected")

\* The block misses and nothing brings it: a way is freed for it.
MissWithoutMshr(h, c, r, predicted) ==
  LET set      == h.sets[c]
      victim   == findVictim(set)
      empty    == ~isValid(set, victim) /\ ~isBusy(set, victim)
      mayEvict == evictable(h, c, victim) /\ ~isBusy(set, victim)
      freed    == IF empty THEN h ELSE evict(h, c, victim, r.id)
      placed   == [freed EXCEPT !.sets[c] = makeBusy(insert(@, victim, r.block), r.block)]
      sectors  == Wanted(c, r) \cup predicted
  IN  IF isBusy(set, r.block)
      THEN Accept(Asserting(h, FALSE, "BusyWithNoMshr"))
      ELSE IF ~(empty \/ mayEvict) \/ MshrFull(h, c) THEN Refuse(h)
      ELSE Fetch(Placed(placed, c, r.block), c, r, sectors, predicted, r.type = "WRITE", sectors \cap r.actual)

BlockMiss(h, c, r, predicted) ==
  LET marked == MarkMshrs(h, c, r)
  IN  IF CoveredByMshrs(h, c, r) THEN Accept(marked)
      ELSE IF Matching(h, c, r.block) # {} THEN MissWithMshr(marked, c, r, predicted)
      ELSE MissWithoutMshr(h, c, r, predicted)

SectorHit(h, c, r) ==
  Accept(HitAt(Access(h, c, r.block, r.actual \cap Wanted(c, r), r.type = "WRITE"), c, r))

\* The block is there but not all of its sectors.
SectorMiss(h, c, r, predicted) ==
  LET filtered == findMissingSectors(h.sets[c], r.block, Remaining(h, c, r))
      busy     == [h EXCEPT !.sets[c] = makeBusy(@, r.block)]
  IN  IF r.type = "WRITE" \/ CoveredByMshrs(h, c, r) THEN Accept(FillAccess(h, c, r))
      ELSE IF MshrFull(h, c) THEN Refuse(h)
      ELSE IF filtered = {} THEN Accept(HitAt(FillAccess(h, c, r), c, r))
      ELSE Fetch(busy, c, r, filtered \cup predicted, predicted, FALSE, {})

\* The call of send at one cache
sendHere(h, c, r, predicted) ==
  IF ~isValid(h.sets[c], r.block) THEN BlockMiss(h, c, r, predicted)
  ELSE IF areSectorsValid(h.sets[c], r.block, Wanted(c, r)) THEN SectorHit(h, c, r)
  ELSE SectorMiss(h, c, r, predicted)

\* The last level leaves what it asks for to the memory.
ToMemory(here) == [here EXCEPT !.h.wait = @ \cup {here.ask[i] : i \in 1..Len(here.ask)}]

sendLast(h, c, r, predicted) == ToMemory(sendHere(h, c, r, predicted))

\* Cache c asked for here.ask, and `below` is what the level below made of it: a
\* request it refused will be sent again.
SentBelow(here, c, below) ==
  IF here.ask = << >> THEN here
  ELSE IF below.ok THEN [here EXCEPT !.h = below.h]
  ELSE [here EXCEPT !.h = [below.h EXCEPT !.retry[c] = @ \o here.ask]]

AskLast(here, c) == SentBelow(here, c, sendLast(here.h, lower[c], here.ask[1], {}))

sendMiddle(h, c, r, predicted) == AskLast(sendHere(h, c, r, predicted), c)

AskMiddle(here, c) == SentBelow(here, c, sendMiddle(here.h, lower[c], here.ask[1], {}))

sendFirst(h, c, r, predicted) == AskMiddle(sendHere(h, c, r, predicted), c)

send(h, c, r, predicted) ==
  CASE level[c] = 0 -> sendFirst(h, c, r, predicted)
    [] level[c] = 1 -> sendMiddle(h, c, r, predicted)
    [] level[c] = 2 -> sendLast(h, c, r, predicted)

(***************************************************************************)
(* tick: the requests of the retry list are sent again.  The loop steps    *)
(* past the request that follows an accepted one, and erasing the last one *)
(* takes it back to the beginning (the step over the end of a std::list).  *)
(* One run of its body, at the request loop.i, comes first.                *)
(***************************************************************************)
Tried(loop, c, sent) ==
  LET list == loop.h.retry[c]
      rest == RemoveAt(list, loop.i)
  IN  IF loop.i > Len(list) THEN loop
      ELSE IF ~sent.ok THEN [h |-> sent.h, i |-> loop.i + 1]
      ELSE [h |-> [sent.h EXCEPT !.retry[c] = rest],
            i |-> IF loop.i > Len(rest) THEN 1 ELSE loop.i + 1]

RetryStep(loop, c) == Tried(loop, c, send(loop.h, lower[c], loop.h.retry[c][loop.i], {}))

\* Between two accepted requests, and after the last, none is refused twice: the
\* loop ends within as many steps as are followed here.
RetryLoop(h, c) ==
  LET most == (Len(h.retry[c]) + 1) * (Len(h.retry[c]) + 1)
      after[n \in 0..most] ==
        IF n = 0 THEN [h |-> h, i |-> 1] ELSE RetryStep(after[n - 1], c)
  IN  after[most].h

\* Mutant of Retry: a request refused again is given up.
RetryOnce(h, c) ==
  LET tried == RetryLoop(h, c)
  IN  [tried EXCEPT !.retry[c] = << >>]

Retry(h, c) == RetryLoop(h, c)

tick(h, c) == Retry(Retry(h, lower[c]), c)

-----------------------------------------------------------------------------
(***************************************************************************)
(* callback: the answer to r reaches every cache above the one it hit in.  *)
(* Each clears the sectors from all MSHRs of the block, whoever they wait  *)
(* for, and fills the block with what the cleared ones brought.            *)
(***************************************************************************)
\* MSHR m has got its last sectors.
Arrived(h, c, r, m) ==
  LET got     == r.bits[level[c] + 1]
      checked == Asserting(h, isBusy(h.sets[c], r.block), "DataToIdleBlock")
      soiled  == IF m.dirty THEN [checked EXCEPT !.sets[c] = makeDirty(@, r.block)] ELSE checked
      used    == Access(Fill(soiled, c, r.block, got \cup m.will_be_used), c, r.block,
                        (r.actual \cap got) \cup m.will_be_used, FALSE)
  IN  IF m.dirty THEN Access(used, c, r.block, m.will_be_dirty, TRUE) ELSE used

\* Mutant of Settle: the first MSHR that is cleared makes the block idle.
SettleEarly(h, c, b) ==
  [h EXCEPT !.sets[c] = validate(makeIdle(@, b), b)]

\* The block is there once no MSHR waits for more of it.
Settle(h, c, b) ==
  IF Matching(h, c, b) # {} THEN h
  ELSE [h EXCEPT !.sets[c] = validate(makeIdle(@, b), b)]

\* The MSHRs but for those with the indices in gone
Erase(entries, gone) ==
  LET kept[i \in 0..Len(entries)] ==
        IF i = 0 THEN << >>
        ELSE IF i \in gone THEN kept[i - 1] ELSE Append(kept[i - 1], entries[i])
  IN  kept[Len(entries)]

CallbackAt(h, c, r) ==
  LET entries == h.mshr[c]
      mine    == Matching(h, c, r.block)
      left(i) == entries[i].sectors \ r.bits[level[c] + 1]
      cleared == {i \in mine : left(i) = {}}
      shrunk  == [i \in 1..Len(entries) |->
                    IF i \in mine THEN [entries[i] EXCEPT !.sectors = left(i)] ELSE entries[i]]
      filled[i \in 0..Len(entries)] ==
        IF i = 0 THEN [h EXCEPT !.mshr[c] = Erase(shrunk, cleared)]
        ELSE IF i \in cleared THEN Arrived(filled[i - 1], c, r, entries[i])
        ELSE filled[i - 1]
      last    == filled[Len(entries)]
  IN  IF r.hit <= level[c] THEN h
      ELSE IF cleared = {} THEN last
      ELSE Settle(last, c, r.block)

callback(h, r) ==
  LET called[i \in 0..Len(caches)] ==
        IF i = 0 THEN h ELSE CallbackAt(called[i - 1], caches[i], r)
  IN  called[Len(caches)]

\* Mutant of set_ready: the bits of L2 are taken, as a comment in Core::receive has it.
set_readyLevel1(r) ==
  {w \in {[v EXCEPT !.left = IF v.block = r.block THEN @ \ r.bits[1] ELSE @] : v \in window} :
     w.left # {}}

\* The windows of all cores take the sectors of r.
set_ready(r) ==
  {w \in {[v EXCEPT !.left = IF v.block = r.block THEN @ \ r.bits[0] ELSE @] : v \in window} :
     w.left # {}}

-----------------------------------------------------------------------------
(***************************************************************************)
(* Actions.                                                                *)
(***************************************************************************)
\* The hierarchy becomes h; `left` is what was unsaved but for the write backs
\* that h adds to wait_list.
Become(h, left) ==
  LET saved(b) == UNION {w.bits[3] : w \in {w \in h.wait \ wait_list :
                                              w.type = "WRITE" /\ w.block = b}}
  IN
  /\ sets' = h.sets
  /\ mshr' = h.mshr
  /\ retry_list' = h.retry
  /\ wait_list' = h.wait
  /\ hit_list' = h.hit
  /\ asserts' = h.asserts
  /\ unsaved' = [b \in Block |-> left[b] \ saved(b)]

Running == asserts = {}

NewRequest(shape) ==
  [id |-> sends + 1, type |-> shape.type, block |-> shape.block,
   bits |-> [l \in 0..3 |-> IF l = 3 THEN {} ELSE shape.sectors],
   actual |-> shape.actual, hit |-> 3]

\* An access was sent, with result res; a read that was accepted waits in the window.
Sent(k, shape, res) ==
  \/ /\ res.ok
     /\ sends' = sends + 1
     /\ refused' = [refused EXCEPT ![k] = NoAccess]
     /\ window' = window \cup
          (IF shape.type = "READ"
           THEN {[id |-> sends + 1, block |-> shape.block, left |-> shape.sectors]} ELSE {})
     /\ Become(res.h, IF shape.type = "WRITE"
                      THEN [unsaved EXCEPT ![shape.block] = @ \cup shape.actual] ELSE unsaved)
  \/ /\ ~res.ok
     /\ refused' = [refused EXCEPT ![k] = shape]
     /\ Become(res.h, unsaved)
     /\ UNCHANGED <<sends, window>>

\* Core k sends its next access to its L1; a refused one is sent again until
\* it is accepted.
CoreSend(k, shape, predicted) ==
  /\ Running /\ sends < MaxSends
  /\ refused[k] \in {NoAccess, shape}
  /\ Sent(k, shape, send(Hierarchy, L1[k], NewRequest(shape), predicted))
  /\ UNCHANGED inflight

CacheTick(k) ==
  /\ Running
  /\ retry_list[L1[k]] # << >> \/ retry_list[lower[L1[k]]] # << >>
  /\ Become(tick(Hierarchy, L1[k]), unsaved)
  /\ UNCHANGED <<inflight, window, refused, sends>>

\* CacheSystem::tick hands a request to the memory, which may refuse some and
\* take later ones.
SendMemory(r) ==
  /\ Running
  /\ r \in wait_list
  /\ wait_list' = wait_list \ {r}
  /\ inflight' = IF r.type = "READ" THEN inflight \cup {r} ELSE inflight
  /\ UNCHANGED <<sets, mshr, retry_list, hit_list, asserts, window, refused, sends, unsaved>>

\* Processor::receive for a read the memory answers
Answer(r) ==
  /\ Running
  /\ r \in inflight
  /\ inflight' = inflight \ {r}
  /\ window' = set_ready(r)
  /\ Become(callback(Hierarchy, r), unsaved)
  /\ UNCHANGED <<refused, sends>>

\* ... and for a request whose hit latency has passed.  A hit in a higher level
\* takes less time, so it may overtake but never be overtaken by lower ones.
HitDone(i) ==
  LET r == hit_list[i]
  IN
  /\ Running
  /\ \A j \in 1..(i - 1) : hit_list[j].hit > r.hit
  /\ window' = set_ready(r)
  /\ Become(callback([Hierarchy EXCEPT !.hit = RemoveAt(@, i)], r), unsaved)
  /\ UNCHANGED <<inflight, refused, sends>>

\* Nothing is under way and the accesses are used up, or an assert has failed.
Finished ==
  /\ \/ ~Running
     \/ /\ sends = MaxSends /\ wait_list = {} /\ inflight = {} /\ hit_list = << >>
        /\ \A c \in Caches : retry_list[c] = << >>
  /\ UNCHANGED vars

Next ==
  \/ \E k \in Core : \E shape \in Shape : \E p \in Prediction : CoreSend(k, shape, p)
  \/ \E k \in Core : CacheTick(k)
  \/ \E r \in wait_list : SendMemory(r)
  \/ \E r \in inflight : Answer(r)
  \/ \E i \in 1..Len(hit_list) : HitDone(i)
  \/ Finished

Spec == Init /\ [][Next]_vars

\* Every cycle calls all of this, and the memory takes and answers what it is
\* sent.  Each condition is weak fairness of the action it names: the actions
\* are recognised by the list they take an element from, and that a call of
\* tick changes something is written out.
TickHelps(k) == Running /\ tick(Hierarchy, L1[k]) # Hierarchy

FairSpec ==
  /\ Spec
  /\ \A k \in Core : []<>~TickHelps(k) \/ []<><<CacheTick(k)>>_vars
  /\ WF_wait_list(Running /\ \E r \in wait_list : wait_list' = wait_list \ {r})
  /\ WF_inflight(Running /\ \E r \in inflight : inflight' = inflight \ {r})
  /\ WF_hit_list(Running /\ \E i \in 1..Len(hit_list) : hit_list' = RemoveAt(hit_list, i))

-----------------------------------------------------------------------------
(***************************************************************************)
(* Properties.                                                             *)
(***************************************************************************)
\* Every variable has its type; no cache holds more MSHRs than it has, which
\* remove_indices of callback is sized for.
TypeOK ==
  /\ \A c \in Caches :
       /\ sets[c] \in [1..nWays[c] -> Way]
       /\ Len(mshr[c]) <= mshr_entry_num[c]
       /\ \A i \in 1..Len(mshr[c]) : mshr[c][i] \in mshr_entry_type
       /\ \A i \in 1..Len(retry_list[c]) : retry_list[c][i] \in Request
  /\ wait_list \cup inflight \subseteq Request
  /\ \A i \in 1..Len(hit_list) : hit_list[i] \in Request
  /\ \A w \in window : w.block \in Block /\ w.left \subseteq Sector
  /\ unsaved \in [Block -> SUBSET Sector]

\* No assert of Cache.cpp or CacheSet.cpp fails: every access finds its sectors,
\* MSHRs bring data to busy blocks, copies that leave a cache find their block
\* in the cache below, and a dirty block is written back with dirty sectors.
NoAssertionFails == asserts = {}

\* A block is busy in a cache exactly while some MSHR of the cache waits for
\* it, whatever requests were merged, refused, retried or answered early.
BusyMatchesMshr ==
  Running => \A c \in Caches, b \in Block :
               isBusy(sets[c], b) <=> \E i \in 1..Len(mshr[c]) : mshr[c][i].block = b

\* The hierarchy is inclusive: a block in a cache is in the cache below, or on
\* its way there, so an eviction below finds every copy.
Inclusive ==
  Running => \A c \in Caches, b \in Block :
               (level[c] < 2 /\ isValid(sets[c], b)) =>
                  isValid(sets[lower[c]], b) \/ isBusy(sets[lower[c]], b)

UnderWay ==
  wait_list \cup inflight \cup {hit_list[i] : i \in 1..Len(hit_list)} \cup
  UNION {{retry_list[c][i] : i \in 1..Len(retry_list[c])} : c \in Caches}

\* A request a cache swallows because MSHRs cover it is answered with theirs:
\* for every sector a read waits for, some request under way brings it.
NoReadForgotten ==
  Running => \A w \in window : \A s \in w.left :
               \E r \in UnderWay : r.block = w.block /\ s \in r.bits[0]

\* Every accepted read gets its sectors, although a request may be refused by
\* each cache below and the retry pass skips requests.
EveryReadReturns ==
  \A i \in 1..MaxSends : (\E w \in window : w.id = i) ~> (\A w \in window : w.id # i)

\* What the hierarchy owes the cores behaves as they rely on: it grows by whole
\* accesses, an answer is for one block and all windows, and in the end nothing is
\* owed, so the cores may be checked and proved on CachePort alone.
Port ==
  INSTANCE CachePort WITH
    Part <- Sector,
    owed <- UNION {{w.block} \X w.left : w \in window}

ImplementsPort == Port!Spec /\ Port!Answered

(***************************************************************************)
(* Statements of the repository that the code does not meet.               *)
(***************************************************************************)
\* "Evict the cache block @return true if dirty" (CacheSet.h:28-31), so that a
\* dirty block is written to memory: a sector that was written stays recorded
\* as dirty in some cache until it is written back.
WrittenSectorsKept ==
  Running => \A b \in Block : \A s \in unsaved[b] :
               \E c \in Caches :
                  \/ s \in getDirtySectors(sets[c], b)
                  \/ \E i \in 1..Len(mshr[c]) :
                       mshr[c][i].block = b /\ s \in mshr[c][i].will_be_dirty

=============================================================================
