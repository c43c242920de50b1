------------------------------ MODULE Memory_proofs ------------------------------
(***************************************************************************)
(* Proofs about Memory, for any number of cores, pages, frames and         *)
(* channels, any capacity of the queues and any configuration.             *)
(***************************************************************************)
EXTENDS Memory, FiniteSetTheorems, WellFoundedInduction, TLAPS

LEMMA ConstantTypes ==
  /\ NumFrames \in Nat /\ NumFrames > 0 /\ Channels \in Nat /\ Channels > 0
  /\ queue_max \in Nat /\ queue_max > 0 /\ MaxSends \in Nat
  /\ channel_of \in [Frame -> Channel] /\ Page \subseteq Frame
  /\ \A k \in Core : k # NoCore
BY MemoryAssumption DEF NoCore

LEMMA ConfigTypes ==
  ASSUME NEW c \in Configs
  PROVE  c.DGMS \in BOOLEAN /\ c.sends \in 0..MaxSends
BY MemoryAssumption

LEMMA FrameTypes == IsFiniteSet(Frame) /\ Cardinality(Frame) = NumFrames /\ NoFrame \notin Frame
BY ConstantTypes, FS_Interval DEF Frame, NoFrame

-----------------------------------------------------------------------------
(***************************************************************************)
(* The search for a free frame.                                            *)
(***************************************************************************)
\* Of the intervals 0..n for n in S there is a smallest one.
LEMMA MinExists ==
  ASSUME NEW S \in SUBSET Nat, S # {}
  PROVE  Min(S) \in S /\ \A y \in S : Min(S) <= y
<1> DEFINE T == {0..n : n \in S}
           R == StrictSubsetOrdering(Nat)
<1>1. IsWellFoundedOn(R, FiniteSubsetsOf(Nat))
  BY FS_StrictSubsetOrderingWellFounded
<1>2. T # {}
  OBVIOUS
<1>3. T \subseteq FiniteSubsetsOf(Nat)
  <2>1. \A n \in S : n \in Int /\ 0..n \in SUBSET Nat
    OBVIOUS
  <2>2. \A n \in S : IsFiniteSet(0..n)
    BY <2>1, FS_Interval
  <2>3. QED
    BY <2>1, <2>2 DEF FiniteSubsetsOf
<1> HIDE DEF R
<1>4. \E x \in T : \A y \in T : ~(<<y, x>> \in R)
  BY <1>1, <1>2, <1>3, WFMin
<1>5. PICK n \in S : \A m \in S : <<0..m, 0..n>> \notin R
  BY <1>4
<1>6. ASSUME NEW m \in S
      PROVE n <= m
  <2>1. CASE m < n
    <3>1. 0..m \subseteq 0..n /\ n \in 0..n /\ n \notin 0..m /\ 0..m \subseteq Nat /\ 0..n \subseteq Nat
      BY <2>1
    <3>2. <<0..m, 0..n>> \in R
      BY <3>1 DEF R, StrictSubsetOrdering
    <3>3. QED
      BY <1>5, <3>2
  <2>2. QED
    BY <2>1
<1>7. \E x \in S : \A y \in S : x <= y
  BY <1>6
<1>8. QED
  BY <1>7 DEF Min

\* The search from any frame ends at a free one, if there is one, so it takes fewer
\* than NumFrames steps.
LEMMA ProbedIsFree ==
  ASSUME NEW start \in Frame, NEW f \in Frame, IsFree(f)
  PROVE  Probed(start) \in Frame /\ IsFree(Probed(start))
<1> DEFINE S == {n \in 0..NumFrames : n = NumFrames \/ IsFree((start + n) % NumFrames)}
           steps == Min(S)
<1>1. /\ start \in Nat /\ start < NumFrames /\ f \in Nat /\ f < NumFrames
      /\ NumFrames \in Nat /\ NumFrames > 0
  BY ConstantTypes DEF Frame
<1>2. S \in SUBSET Nat /\ NumFrames \in S
  BY <1>1
<1>3. steps \in S /\ \A y \in S : steps <= y
  BY <1>2, MinExists
<1>4. Probed(start) = (start + steps) % NumFrames
  BY DEF Probed
<1>5. steps \in 0..NumFrames /\ (steps = NumFrames \/ IsFree((start + steps) % NumFrames))
  BY <1>3
<1> HIDE DEF steps
<1>6. PICK n \in 0..(NumFrames - 1) : (start + n) % NumFrames = f
  <2>1. CASE start <= f
    <3>1. f - start \in 0..(NumFrames - 1) /\ start + (f - start) = f /\ f % NumFrames = f
      BY <1>1, <2>1
    <3>2. QED
      BY <3>1
  <2>2. CASE f < start
    <3>1. /\ f - start + NumFrames \in 0..(NumFrames - 1)
          /\ start + (f - start + NumFrames) = f + NumFrames
          /\ (f + NumFrames) % NumFrames = f
      BY <1>1, <2>2
    <3>2. QED
      BY <3>1
  <2>3. QED
    BY <1>1, <2>1, <2>2
<1>7. n \in S
  BY <1>1, <1>6
<1>8. steps <= n
  BY <1>3, <1>7
<1>9. IsFree((start + steps) % NumFrames) /\ (start + steps) % NumFrames \in 0..(NumFrames - 1)
  BY <1>1, <1>5, <1>6, <1>8
<1>10. QED
  BY <1>4, <1>9 DEF Frame

-----------------------------------------------------------------------------
(***************************************************************************)
(* Pages.                                                                  *)
(***************************************************************************)
PageType ==
  /\ page_translation \in [Target -> Frame \cup {NoFrame}]
  /\ free_physical_pages \in [Frame -> Core \cup {NoCore}]
  /\ free_physical_pages_remaining \in 0..NumFrames
  /\ physical_page_replacement \in Nat

PageInv == PageType /\ FreeCount /\ PagesApart

FreeFrames == {f \in Frame : IsFree(f)}

LEMMA FreeFinite == IsFiniteSet(FreeFrames) /\ Cardinality(FreeFrames) \in 0..NumFrames
<1>1. FreeFrames \in SUBSET Frame
  BY DEF FreeFrames
<1>2. IsFiniteSet(FreeFrames) /\ Cardinality(FreeFrames) <= Cardinality(Frame)
  BY <1>1, FS_Subset, FrameTypes
<1>3. Cardinality(FreeFrames) \in Nat
  BY <1>2, FS_CardinalityType
<1>4. QED
  BY <1>2, <1>3, FrameTypes, ConstantTypes

LEMMA PagesInit ==
  ASSUME Init
  PROVE  PageInv
<1>1. PageType
  BY ConstantTypes DEF Init, PageType
<1>2. FreeFrames = Frame
  BY DEF Init, FreeFrames, IsFree
<1>3. \A t \in Target : page_translation[t] = NoFrame
  BY DEF Init
<1>4. FreeCount
  BY <1>2, <1>3, FrameTypes DEF Init, FreeCount, FreeFrames
<1>5. PagesApart
  BY <1>3 DEF PagesApart
<1>6. QED
  BY <1>1, <1>4, <1>5 DEF PageInv

LEMMA FreeAssigned ==
  ASSUME PageInv, NEW k \in Core, NEW v \in Page, free_physical_pages_remaining # 0,
         page_translation[<<k, v>>] = NoFrame, AssignFree(k, v)
  PROVE  PageInv'
<1> USE DEF Target
<1>1. PageType /\ FreeCount /\ PagesApart /\ <<k, v>> \in Target
  BY DEF PageInv
<1>2. FreeFrames # {}
  BY <1>1, FS_EmptySet DEF FreeCount, FreeFrames
<1>3. PICK start \in Frame :
        /\ page_translation' = [page_translation EXCEPT ![<<k, v>>] = Probed(start)]
        /\ free_physical_pages' = [free_physical_pages EXCEPT ![Probed(start)] = k]
        /\ free_physical_pages_remaining' = free_physical_pages_remaining - 1
        /\ physical_page_replacement' = physical_page_replacement
  BY DEF AssignFree
<1> DEFINE f == Probed(start)
<1>4. f \in Frame /\ IsFree(f)
  BY <1>2, ProbedIsFree DEF FreeFrames
<1> HIDE DEF f
<1>5. /\ page_translation' = [page_translation EXCEPT ![<<k, v>>] = f]
      /\ free_physical_pages' = [free_physical_pages EXCEPT ![f] = k]
  BY <1>3 DEF f
<1>6. PageType'
  <2>1. free_physical_pages_remaining' \in 0..NumFrames
    <3>1. free_physical_pages_remaining \in 0..NumFrames
      BY <1>1 DEF PageType
    <3>2. QED
      BY <1>3, <3>1, ConstantTypes
  <2>2. page_translation' \in [Target -> Frame \cup {NoFrame}]
    BY <1>1, <1>4, <1>5 DEF PageType
  <2>3. free_physical_pages' \in [Frame -> Core \cup {NoCore}]
    BY <1>1, <1>4, <1>5 DEF PageType
  <2>4. QED
    BY <1>1, <1>3, <2>1, <2>2, <2>3 DEF PageType
<1>7. \A g \in Frame : IsFree(g)' <=> IsFree(g) /\ g # f
  BY <1>1, <1>4, <1>5, ConstantTypes DEF IsFree, PageType
<1>8. FreeFrames' = FreeFrames \ {f} /\ f \in FreeFrames
  BY <1>4, <1>7 DEF FreeFrames
<1>9. Cardinality(FreeFrames') = Cardinality(FreeFrames) - 1
  BY <1>8, FreeFinite, FS_RemoveElement
<1>10. \A t \in Target : page_translation'[t] = IF t = <<k, v>> THEN f ELSE page_translation[t]
  BY <1>1, <1>5 DEF PageType
<1>11. FreeCount'
  <2>1. free_physical_pages_remaining' = Cardinality(FreeFrames')
    BY <1>1, <1>3, <1>9 DEF FreeCount, FreeFrames
  <2>2. ASSUME NEW t \in Target, page_translation'[t] # NoFrame
        PROVE  free_physical_pages'[page_translation'[t]] # NoCore
    <3>1. CASE t = <<k, v>>
      BY <1>1, <1>4, <1>5, <1>10, <3>1, ConstantTypes DEF PageType
    <3>2. CASE t # <<k, v>>
      <4>1. page_translation'[t] = page_translation[t] /\ page_translation[t] \in Frame
        BY <1>1, <1>10, <2>2, <3>2 DEF PageType
      <4>2. ~IsFree(page_translation[t])
        BY <1>1, <2>2, <4>1 DEF FreeCount
      <4>3. QED
        BY <1>7, <4>1, <4>2 DEF IsFree
    <3>3. QED
      BY <3>1, <3>2
  <2>3. QED
    BY <2>1, <2>2 DEF FreeCount, FreeFrames, IsFree
<1>12. PagesApart'
  <2>1. \A t \in Target : page_translation[t] # f
    BY <1>1, <1>4, FrameTypes DEF FreeCount
  <2>2. QED
    BY <1>1, <1>3, <1>10, <2>1 DEF PagesApart
<1>13. QED
  BY <1>6, <1>11, <1>12 DEF PageInv

LEMMA FrameShared ==
  ASSUME PageInv, NEW k \in Core, NEW v \in Page, free_physical_pages_remaining = 0,
         ShareFrame(k, v)
  PROVE  PageInv'
<1> USE DEF Target
<1>1. PageType /\ FreeCount /\ <<k, v>> \in Target
  BY DEF PageInv
<1>2. FreeFrames = {}
  BY <1>1, FreeFinite, FS_EmptySet DEF FreeCount, FreeFrames
<1>3. PICK f \in Frame : page_translation' = [page_translation EXCEPT ![<<k, v>>] = f]
  BY DEF ShareFrame
<1>4. /\ physical_page_replacement' = physical_page_replacement + 1
      /\ free_physical_pages' = free_physical_pages
      /\ free_physical_pages_remaining' = free_physical_pages_remaining
  BY DEF ShareFrame
<1>5. PageType'
  BY <1>1, <1>3, <1>4 DEF PageType
<1>6. \A t \in Target : page_translation'[t] = IF t = <<k, v>> THEN f ELSE page_translation[t]
  BY <1>1, <1>3 DEF PageType
<1>7. FreeCount'
  <2>1. \A t \in Target :
          page_translation'[t] # NoFrame => free_physical_pages[page_translation'[t]] # NoCore
    BY <1>1, <1>2, <1>3, <1>6 DEF FreeCount, FreeFrames, IsFree
  <2>2. QED
    BY <1>1, <1>4, <2>1 DEF FreeCount, IsFree
<1>8. PagesApart'
  BY <1>1, <1>4 DEF PagesApart, PageType
<1>9. QED
  BY <1>5, <1>7, <1>8 DEF PageInv

LEMMA PagesKept ==
  ASSUME PageInv, [Next]_vars
  PROVE  PageInv'
<1>1. CASE UNCHANGED pages
  BY <1>1 DEF pages, PageInv, PageType, FreeCount, PagesApart, IsFree
<1>2. ASSUME NEW k \in Core, NEW v \in Page, page_allocator(k, v)
      PROVE  PageInv'
  BY <1>2, FreeAssigned, FrameShared DEF page_allocator
<1>3. CASE Send
  BY <1>1, <1>3 DEF Send, send
<1>4. CASE Tick
  BY <1>1, <1>4 DEF Tick, tick
<1>5. QED
  BY <1>1, <1>2, <1>3, <1>4 DEF Next, Allocate, vars

LEMMA PageInvariant == Spec => []PageInv
<1>1. Init => PageInv
  BY PagesInit
<1>2. PageInv /\ [Next]_vars => PageInv'
  BY PagesKept
<1>3. QED
  BY <1>1, <1>2, PTL DEF Spec

\* page_allocator's count is that of the free frames, so the search ends and its
\* assertions hold (Memory.h:614, 635).
THEOREM FreeFramesAreCounted == Spec => []FreeCount
<1>1. PageInv => FreeCount
  BY DEF PageInv
<1>2. QED
  BY <1>1, PageInvariant, PTL

\* No two pages share a frame before page_allocator had to replace one (Memory.h:612).
THEOREM PagesStayApart == Spec => []PagesApart
<1>1. PageInv => PagesApart
  BY DEF PageInv
<1>2. QED
  BY <1>1, PageInvariant, PTL

-----------------------------------------------------------------------------
(***************************************************************************)
(* The requests.                                                           *)
(***************************************************************************)
Queued(c) == readq[c] \cup writeq[c] \cup pending[c]

RequestType ==
  /\ config \in Configs
  /\ num_dram_cycles \in Channel
  /\ accepted \in SUBSET Request /\ IsFiniteSet(accepted) /\ Cardinality(accepted) <= MaxSends
  /\ answered \in SUBSET ((1..MaxSends) \X Channel)
  /\ readq \in [Channel -> SUBSET Request]
  /\ writeq \in [Channel -> SUBSET Request]
  /\ pending \in [Channel -> SUBSET Request]

Bounded ==
  \A c \in Channel : /\ IsFiniteSet(readq[c]) /\ Cardinality(readq[c]) <= queue_max
                     /\ IsFiniteSet(writeq[c]) /\ Cardinality(writeq[c]) <= queue_max

(***************************************************************************)
(* The id of a new request is that of none before, reads and writes are    *)
(* kept apart, and no channel has two parts of one read.                   *)
(***************************************************************************)
Numbered ==
  /\ \A r \in accepted : r.id <= Cardinality(accepted)
  /\ \A e \in answered : e[1] <= Cardinality(accepted)
  /\ \A c \in Channel :
       /\ \A p \in Queued(c) : p.id <= Cardinality(accepted)
       /\ \A p \in readq[c] \cup pending[c] : p.type = "READ"
       /\ \A p \in writeq[c] : p.type = "WRITE"
       /\ \A p, q \in readq[c] \cup pending[c] : p.id = q.id => p = q

\* Sector s of request n waits in the read queue of channel c, or is on its way back.
Waits(c, n, s)   == \E p \in readq[c] : p.id = n /\ s \in p.sectors
Returns(c, n, s) == \E p \in pending[c] : p.id = n /\ s \in p.sectors

HeldOnce(n, s) ==
  IF <<n, s>> \in answered
  THEN \A c \in Channel : ~Waits(c, n, s) /\ ~Returns(c, n, s)
  ELSE \E c \in Channel :
         /\ Waits(c, n, s) <=> ~Returns(c, n, s)
         /\ \A d \in Channel : d # c => ~Waits(d, n, s) /\ ~Returns(d, n, s)

ReadsHeld == \A r \in accepted : r.type = "READ" => \A s \in r.sectors : HeldOnce(r.id, s)

RequestInv == RequestType /\ Bounded /\ Numbered /\ ReadsHeld

-----------------------------------------------------------------------------
\* The number of the next request is fresh.
LEMMA FreshRequest ==
  ASSUME RequestInv, NEW r \in Request, r.id = Cardinality(accepted) + 1
  PROVE  /\ Cardinality(accepted) \in Nat
         /\ r \notin accepted
         /\ IsFiniteSet(accepted \cup {r})
         /\ Cardinality(accepted \cup {r}) = Cardinality(accepted) + 1
<1>1. IsFiniteSet(accepted) /\ Cardinality(accepted) \in Nat
  BY FS_CardinalityType DEF RequestInv, RequestType
<1>2. r \notin accepted
  BY <1>1 DEF RequestInv, Numbered
<1>3. QED
  BY <1>1, <1>2, FS_AddElement

LEMMA Scheduled ==
  ASSUME RequestInv, NEW c \in Channel, NEW type \in {"READ", "WRITE"}, can_schedule(c, type)
  PROVE  Cardinality(QueueOf(type)[c]) < queue_max
<1>1. QueueOf(type) \in {readq, writeq}
  BY DEF QueueOf
<1>2. Cardinality(QueueOf(type)[c]) \in Nat /\ Cardinality(QueueOf(type)[c]) <= queue_max
  BY <1>1, FS_CardinalityType DEF RequestInv, Bounded
<1>3. QED
  BY <1>2, ConstantTypes DEF can_schedule

\* What enqueue adds to the queues of a channel.
LEMMA Enqueued ==
  ASSUME NEW part, NEW to, enqueue(part, to), NEW c \in Channel
  PROVE  LET takes == c \in to /\ can_schedule(c, part[c].type)
             fwd   == Forwarded(c, part[c])
         IN  /\ readq'[c] = readq[c] \cup (IF takes /\ part[c].type = "READ" /\ ~fwd THEN {part[c]} ELSE {})
             /\ writeq'[c] = writeq[c] \cup (IF takes /\ part[c].type = "WRITE" THEN {part[c]} ELSE {})
             /\ pending'[c] = pending[c] \cup (IF takes /\ fwd THEN {part[c]} ELSE {})
             /\ fwd => part[c].type = "READ"
BY DEF enqueue, Forwarded

(***************************************************************************)
(* send                                                                    *)
(***************************************************************************)
\* What send hands to the channels, and to which.
Handed(r) == [c \in Channel |-> IF config.DGMS THEN Part(r, c) ELSE r]
Targets(r) == IF config.DGMS THEN r.sectors ELSE {channel_of[r.frame]}

LEMMA SendHands ==
  ASSUME PageInv, RequestInv, NEW k \in Core, NEW v \in Page, NEW type \in {"READ", "WRITE"},
         NEW sectors \in (SUBSET Channel) \ {{}}, send(k, v, type, sectors)
  PROVE  \E r \in Request :
           /\ r.id = Cardinality(accepted) + 1
           /\ r.type = type /\ r.sectors = sectors
           /\ accepted' = accepted \cup {r}
           /\ enqueue(Handed(r), Targets(r))
           /\ \A c \in Targets(r) : can_schedule(c, type)
           /\ Targets(r) \subseteq Channel
<1> DEFINE r == [id |-> Cardinality(accepted) + 1, type |-> type,
                 frame |-> Translated(k, v), sectors |-> sectors]
<1>1. /\ Translated(k, v) # NoFrame /\ Cardinality(accepted) < config.sends
      /\ Accepts(r) /\ accepted' = accepted \cup {r}
      /\ IF config.DGMS THEN enqueue([c \in Channel |-> Part(r, c)], sectors)
         ELSE enqueue([c \in Channel |-> r], {channel_of[r.frame]})
  BY DEF send
<1>2. Cardinality(accepted) \in Nat /\ config.sends \in 0..MaxSends
  BY FS_CardinalityType, ConfigTypes DEF RequestInv, RequestType
<1>3. Translated(k, v) \in Frame
  <2>1. v \in Frame /\ <<k, v>> \in Target
    BY ConstantTypes DEF Target
  <2>2. page_translation[<<k, v>>] \in Frame \cup {NoFrame}
    BY <2>1 DEF PageInv, PageType
  <2>3. QED
    BY <1>1, <2>1, <2>2 DEF Translated
<1>4. Cardinality(accepted) + 1 \in 1..MaxSends
  BY <1>1, <1>2, ConstantTypes
<1>5. r \in Request
  BY <1>3, <1>4 DEF Request
<1>6. enqueue(Handed(r), Targets(r))
  <2>1. CASE config.DGMS
    BY <1>1, <2>1 DEF Handed, Targets
  <2>2. CASE ~config.DGMS
    BY <1>1, <2>2 DEF Handed, Targets
  <2>3. QED
    BY <2>1, <2>2
<1>7. \A c \in Targets(r) : c \in Channel /\ can_schedule(c, type)
  BY <1>1, <1>3, ConstantTypes DEF Accepts, Targets
<1>8. QED
  BY <1>1, <1>5, <1>6, <1>7

\* The parts of a request, and the queues after send.
LEMMA SendQueues ==
  ASSUME RequestInv, NEW r \in Request, r.id = Cardinality(accepted) + 1,
         enqueue(Handed(r), Targets(r)), \A c \in Targets(r) : can_schedule(c, r.type),
         NEW c \in Channel
  PROVE  LET g == Handed(r)[c]
             takes == c \in Targets(r)
         IN  /\ g \in Request /\ g.id = r.id /\ g.type = r.type /\ g.sectors \subseteq r.sectors
             /\ writeq'[c] = writeq[c] \cup (IF takes /\ r.type = "WRITE" THEN {g} ELSE {})
             /\ \/ /\ readq'[c] = readq[c] \cup (IF takes /\ r.type = "READ" THEN {g} ELSE {})
                   /\ pending'[c] = pending[c]
                \/ /\ pending'[c] = pending[c] \cup (IF takes /\ r.type = "READ" THEN {g} ELSE {})
                   /\ readq'[c] = readq[c]
<1> DEFINE g == Handed(r)[c]
<1>1. g = IF config.DGMS THEN Part(r, c) ELSE r
  BY DEF Handed
<1>2. Part(r, c) \in Request /\ Part(r, c).id = r.id /\ Part(r, c).type = r.type
      /\ Part(r, c).sectors = r.sectors \cap {c}
  BY DEF Part, Request
<1>3. g \in Request /\ g.id = r.id /\ g.type = r.type /\ g.sectors \subseteq r.sectors
  BY <1>1, <1>2
<1>4. r.type \in {"READ", "WRITE"}
  BY DEF Request
<1> HIDE DEF g
<1>5. c \in Targets(r) => can_schedule(c, g.type)
  BY <1>3
<1>6. LET takes == c \in Targets(r) /\ can_schedule(c, g.type)
          fwd   == Forwarded(c, g)
      IN  /\ readq'[c] = readq[c] \cup (IF takes /\ g.type = "READ" /\ ~fwd THEN {g} ELSE {})
          /\ writeq'[c] = writeq[c] \cup (IF takes /\ g.type = "WRITE" THEN {g} ELSE {})
          /\ pending'[c] = pending[c] \cup (IF takes /\ fwd THEN {g} ELSE {})
          /\ fwd => g.type = "READ"
  BY Enqueued DEF g
<1>7. writeq'[c] = writeq[c] \cup (IF c \in Targets(r) /\ r.type = "WRITE" THEN {g} ELSE {})
  BY <1>3, <1>5, <1>6
<1>8. CASE Forwarded(c, g)
  BY <1>3, <1>5, <1>6, <1>7, <1>8 DEF g
<1>9. CASE ~Forwarded(c, g)
  BY <1>3, <1>5, <1>6, <1>7, <1>9 DEF g
<1>10. QED
  BY <1>8, <1>9

LEMMA SendKeeps ==
  ASSUME PageInv, RequestInv, NEW k \in Core, NEW v \in Page, NEW type \in {"READ", "WRITE"},
         NEW sectors \in (SUBSET Channel) \ {{}}, send(k, v, type, sectors)
  PROVE  RequestInv'
<1>1. RequestType /\ Bounded /\ Numbered /\ ReadsHeld
  BY DEF RequestInv
<1>2. PICK r \in Request :
        /\ r.id = Cardinality(accepted) + 1
        /\ r.type = type /\ r.sectors = sectors
        /\ accepted' = accepted \cup {r}
        /\ enqueue(Handed(r), Targets(r))
        /\ \A c \in Targets(r) : can_schedule(c, type)
        /\ Targets(r) \subseteq Channel
  BY SendHands
<1>3. PICK n \in Nat : n = Cardinality(accepted)
  BY FS_CardinalityType, <1>1 DEF RequestType
<1> DEFINE g(c) == Handed(r)[c]
           read(c) == IF c \in Targets(r) /\ r.type = "READ" THEN {g(c)} ELSE {}
<1>4. /\ n \in Nat /\ r \notin accepted /\ IsFiniteSet(accepted') /\ Cardinality(accepted') = n + 1
  BY <1>2, <1>3, FreshRequest
<1>5. ASSUME NEW c \in Channel
      PROVE  /\ g(c) \in Request /\ g(c).id = n + 1 /\ g(c).type = r.type
             /\ g(c).sectors \subseteq r.sectors
             /\ writeq'[c] = writeq[c] \cup (IF c \in Targets(r) /\ r.type = "WRITE" THEN {g(c)} ELSE {})
             /\ \/ readq'[c] = readq[c] \cup read(c) /\ pending'[c] = pending[c]
                \/ pending'[c] = pending[c] \cup read(c) /\ readq'[c] = readq[c]
  BY <1>2, <1>3, SendQueues
<1>6. UNCHANGED <<config, num_dram_cycles, answered>>
  BY DEF send
<1>7. n + 1 <= MaxSends
  BY <1>2, <1>3, ConstantTypes DEF Request
<1> HIDE DEF g
<1>8. ASSUME NEW c \in Channel
      PROVE  /\ readq'[c] \subseteq readq[c] \cup read(c)
             /\ pending'[c] \subseteq pending[c] \cup read(c)
             /\ readq'[c] \cup pending'[c] = readq[c] \cup pending[c] \cup read(c)
             /\ writeq'[c] \subseteq writeq[c] \cup {g(c)}
  BY <1>5
<1>9. RequestType'
  <2>1. \A c \in Channel : /\ readq'[c] \in SUBSET Request /\ writeq'[c] \in SUBSET Request
                           /\ pending'[c] \in SUBSET Request
    BY <1>1, <1>5, <1>8 DEF RequestType
  <2>2. /\ DOMAIN readq' = Channel /\ readq' = [c \in Channel |-> readq'[c]]
        /\ DOMAIN writeq' = Channel /\ writeq' = [c \in Channel |-> writeq'[c]]
        /\ DOMAIN pending' = Channel /\ pending' = [c \in Channel |-> pending'[c]]
    BY <1>2 DEF enqueue
  <2>3. /\ readq' \in [Channel -> SUBSET Request] /\ writeq' \in [Channel -> SUBSET Request]
        /\ pending' \in [Channel -> SUBSET Request]
    BY <2>1, <2>2
  <2>4. accepted' \in SUBSET Request
    BY <1>1, <1>2 DEF RequestType
  <2>5. QED
    BY <1>1, <1>4, <1>6, <1>7, <2>3, <2>4 DEF RequestType
<1>10. Bounded'
  <2> SUFFICES ASSUME NEW c \in Channel
               PROVE  /\ IsFiniteSet(readq'[c]) /\ Cardinality(readq'[c]) <= queue_max
                      /\ IsFiniteSet(writeq'[c]) /\ Cardinality(writeq'[c]) <= queue_max
    BY DEF Bounded
  <2>1. /\ IsFiniteSet(readq[c]) /\ Cardinality(readq[c]) <= queue_max /\ Cardinality(readq[c]) \in Nat
        /\ IsFiniteSet(writeq[c]) /\ Cardinality(writeq[c]) <= queue_max /\ Cardinality(writeq[c]) \in Nat
    BY <1>1, FS_CardinalityType DEF Bounded
  <2>2. c \in Targets(r) => Cardinality(QueueOf(type)[c]) < queue_max
    BY <1>2, Scheduled
  <2>3. IsFiniteSet(readq'[c]) /\ Cardinality(readq'[c]) <= queue_max
    <3>1. CASE readq'[c] = readq[c]
      BY <2>1, <3>1
    <3>2. CASE c \in Targets(r) /\ r.type = "READ" /\ readq'[c] = readq[c] \cup {g(c)}
      <4>1. Cardinality(readq[c]) < queue_max
        BY <1>2, <2>2, <3>2 DEF QueueOf
      <4>2. /\ IsFiniteSet(readq[c] \cup {g(c)})
            /\ Cardinality(readq[c] \cup {g(c)})
                 = IF g(c) \in readq[c] THEN Cardinality(readq[c]) ELSE Cardinality(readq[c]) + 1
        BY <2>1, FS_AddElement
      <4>3. QED
        BY <2>1, <3>2, <4>1, <4>2, ConstantTypes
    <3>3. QED
      BY <1>5, <3>1, <3>2
  <2>4. IsFiniteSet(writeq'[c]) /\ Cardinality(writeq'[c]) <= queue_max
    <3>1. CASE writeq'[c] = writeq[c]
      BY <2>1, <3>1
    <3>2. CASE c \in Targets(r) /\ r.type = "WRITE" /\ writeq'[c] = writeq[c] \cup {g(c)}
      <4>1. Cardinality(writeq[c]) < queue_max
        BY <1>2, <2>2, <3>2 DEF QueueOf
      <4>2. /\ IsFiniteSet(writeq[c] \cup {g(c)})
            /\ Cardinality(writeq[c] \cup {g(c)})
                 = IF g(c) \in writeq[c] THEN Cardinality(writeq[c]) ELSE Cardinality(writeq[c]) + 1
        BY <2>1, FS_AddElement
      <4>3. QED
        BY <2>1, <3>2, <4>1, <4>2, ConstantTypes
    <3>3. QED
      BY <1>5, <3>1, <3>2
  <2>5. QED
    BY <2>3, <2>4
<1>11. \A c \in Channel : \A p \in Queued(c) : p.id \in Nat /\ p.id <= n
  BY <1>1, <1>3 DEF Numbered, RequestType, Request, Queued
<1>12. Numbered'
  <2>1. \A a \in accepted' : a.id <= n + 1
    BY <1>1, <1>2, <1>4, <1>3 DEF Numbered, RequestType, Request
  <2>2. \A e \in answered' : e[1] <= n + 1
    BY <1>1, <1>4, <1>6, <1>3 DEF Numbered, RequestType
  <2>3. ASSUME NEW c \in Channel
        PROVE  /\ \A p \in readq'[c] \cup writeq'[c] \cup pending'[c] : p.id <= n + 1
               /\ \A p \in readq'[c] \cup pending'[c] : p.type = "READ"
               /\ \A p \in writeq'[c] : p.type = "WRITE"
               /\ \A p, q \in readq'[c] \cup pending'[c] : p.id = q.id => p = q
    <3>1. \A p \in readq'[c] \cup writeq'[c] \cup pending'[c] : p.id <= n + 1
      BY <1>4, <1>5, <1>8, <1>11 DEF Queued
    <3>2. \A p \in readq'[c] \cup pending'[c] : p.type = "READ"
      BY <1>1, <1>5, <1>8 DEF Numbered
    <3>3. \A p \in writeq'[c] : p.type = "WRITE"
      BY <1>1, <1>5 DEF Numbered
    <3>4. ASSUME NEW p \in readq'[c] \cup pending'[c], NEW q \in readq'[c] \cup pending'[c], p.id = q.id
          PROVE  p = q
      <4>1. \A x \in readq[c] \cup pending[c] : x.id # n + 1
        BY <1>4, <1>11 DEF Queued
      <4>2. \A x, y \in readq[c] \cup pending[c] : x.id = y.id => x = y
        BY <1>1 DEF Numbered
      <4>3. \A x \in readq'[c] \cup pending'[c] :
              x \in readq[c] \cup pending[c] \/ (x = g(c) /\ x.id = n + 1)
        BY <1>5, <1>8
      <4>4. QED
        BY <3>4, <4>1, <4>2, <4>3
    <3>5. QED
      BY <3>1, <3>2, <3>3, <3>4
  <2>4. QED
    BY <1>4, <2>1, <2>2, <2>3 DEF Numbered, Queued
<1>13. ASSUME NEW c \in Channel, NEW m, NEW s, m # n + 1
       PROVE  (Waits(c, m, s)' <=> Waits(c, m, s)) /\ (Returns(c, m, s)' <=> Returns(c, m, s))
  BY <1>5, <1>13 DEF Waits, Returns
<1>14. ASSUME NEW a \in accepted, a.type = "READ", NEW s \in a.sectors
       PROVE  HeldOnce(a.id, s)'
  <2>1. HeldOnce(a.id, s)
    BY <1>1, <1>14 DEF ReadsHeld
  <2>2. a.id # n + 1
    BY <1>1, <1>4, <1>3 DEF Numbered, RequestType, Request
  <2>3. QED
    BY <1>6, <1>13, <2>1, <2>2 DEF HeldOnce
<1>15. ASSUME r.type = "READ", NEW s \in r.sectors
       PROVE  HeldOnce(n + 1, s)'
  <2>1. <<n + 1, s>> \notin answered
    BY <1>1, <1>4, <1>3 DEF Numbered
  <2>2. \A c \in Channel : ~Waits(c, n + 1, s) /\ ~Returns(c, n + 1, s)
    BY <1>4, <1>11 DEF Waits, Returns, Queued
  <2>3. PICK c \in Channel : c \in Targets(r) /\ s \in g(c).sectors
                             /\ \A d \in Channel : d # c => d \notin Targets(r) \/ s \notin g(d).sectors
    <3>1. CASE config.DGMS
      <4>1. s \in Channel /\ s \in Targets(r)
        BY <1>2, <3>1 DEF Targets, Request
      <4>2. \A d \in Channel : g(d).sectors = r.sectors \cap {d}
        BY <3>1 DEF g, Handed, Part, Request
      <4>3. QED
        BY <4>1, <4>2
    <3>2. CASE ~config.DGMS
      <4>1. Targets(r) = {channel_of[r.frame]} /\ \A d \in Channel : g(d) = r
        BY <3>2 DEF g, Handed, Targets
      <4>2. QED
        BY <1>2, <4>1
    <3>3. QED
      BY <3>1, <3>2
  <2>4. Waits(c, n + 1, s)' <=> ~Returns(c, n + 1, s)'
    <3>1. CASE readq'[c] = readq[c] \cup {g(c)} /\ pending'[c] = pending[c]
      BY <1>5, <2>2, <2>3, <3>1 DEF Waits, Returns
    <3>2. CASE pending'[c] = pending[c] \cup {g(c)} /\ readq'[c] = readq[c]
      BY <1>5, <2>2, <2>3, <3>2 DEF Waits, Returns
    <3>3. QED
      BY <1>5, <1>15, <2>3, <3>1, <3>2
  <2>5. ASSUME NEW d \in Channel, d # c
        PROVE  ~Waits(d, n + 1, s)' /\ ~Returns(d, n + 1, s)'
    BY <1>8, <2>2, <2>3, <2>5 DEF Waits, Returns
  <2>6. QED
    BY <1>6, <2>1, <2>4, <2>5 DEF HeldOnce
<1>16. ReadsHeld'
  <2> SUFFICES ASSUME NEW a \in accepted', a.type = "READ", NEW s \in a.sectors
               PROVE  HeldOnce(a.id, s)'
    BY DEF ReadsHeld
  <2>1. CASE a \in accepted
    BY <1>14, <2>1
  <2>2. CASE a = r
    BY <1>2, <1>15, <1>3, <2>2
  <2>3. QED
    BY <1>2, <2>1, <2>2
<1>17. QED
  BY <1>9, <1>10, <1>12, <1>16 DEF RequestInv

(***************************************************************************)
(* tick                                                                    *)
(***************************************************************************)
LEMMA TickMoves ==
  ASSUME RequestInv, Tick
  PROVE  \E back, issued :
           /\ \A c \in Channel : /\ back[c] = {} \/ \E b \in pending[c] : back[c] = {b}
                                 /\ issued[c] = {} \/ \E x \in readq[c] \cup writeq[c] : issued[c] = {x}
           /\ tick(back, issued)
<1>1. PICK back \in BackMoves, issued \in IssueMoves : tick(back, issued)
  BY DEF Tick
<1>2. ASSUME NEW c \in Channel
      PROVE  /\ back[c] = {} \/ \E b \in pending[c] : back[c] = {b}
             /\ issued[c] = {} \/ \E x \in readq[c] \cup writeq[c] : issued[c] = {x}
  <2>1. back[c] \in Back(c) /\ issued[c] \in Issues(c)
    BY <1>1 DEF tick
  <2>2. QED
    BY <2>1 DEF Back, Issues
<1>3. QED
  BY <1>1, <1>2

LEMMA TickKeeps ==
  ASSUME RequestInv, Tick
  PROVE  RequestInv'
<1>1. RequestType /\ Bounded /\ Numbered /\ ReadsHeld
  BY DEF RequestInv
<1>2. PICK back, issued :
        /\ \A c \in Channel : /\ back[c] = {} \/ \E b \in pending[c] : back[c] = {b}
                              /\ issued[c] = {} \/ \E x \in readq[c] \cup writeq[c] : issued[c] = {x}
        /\ tick(back, issued)
  BY TickMoves
<1> DEFINE moved(c) == {x \in issued[c] : x.type = "READ"}
<1>3. /\ UNCHANGED <<config, accepted>>
      /\ num_dram_cycles' = (num_dram_cycles + 1) % Channels
      /\ answered' = answered \cup UNION {Parts(back[c]) : c \in Channel}
      /\ readq' = [c \in Channel |-> readq[c] \ issued[c]]
      /\ writeq' = [c \in Channel |-> writeq[c] \ issued[c]]
      /\ pending' = [c \in Channel |-> (pending[c] \ back[c]) \cup moved(c)]
  BY <1>2 DEF tick
<1>4. ASSUME NEW c \in Channel
      PROVE  /\ readq[c] \in SUBSET Request /\ writeq[c] \in SUBSET Request
             /\ pending[c] \in SUBSET Request
             /\ back[c] \subseteq pending[c] /\ moved(c) \subseteq readq[c]
             /\ moved(c) = issued[c] \cap readq[c]
             /\ readq'[c] = readq[c] \ moved(c) /\ writeq'[c] \subseteq writeq[c]
             /\ pending'[c] = (pending[c] \ back[c]) \cup moved(c)
  <2>1. /\ \A p \in readq[c] : p.type = "READ"
        /\ \A p \in writeq[c] : p.type = "WRITE"
    BY <1>1 DEF Numbered
  <2>2. /\ readq[c] \in SUBSET Request /\ writeq[c] \in SUBSET Request
        /\ pending[c] \in SUBSET Request
    BY <1>1 DEF RequestType
  <2>3. back[c] \subseteq pending[c] /\ issued[c] \subseteq readq[c] \cup writeq[c]
    BY <1>2
  <2>4. moved(c) = issued[c] \cap readq[c]
    BY <2>1, <2>3
  <2>5. /\ readq'[c] = readq[c] \ issued[c] /\ writeq'[c] = writeq[c] \ issued[c]
        /\ pending'[c] = (pending[c] \ back[c]) \cup moved(c)
    BY <1>3
  <2> HIDE DEF moved
  <2>6. QED
    BY <2>2, <2>3, <2>4, <2>5
<1> HIDE DEF moved
<1>5. ASSUME NEW n, NEW s
      PROVE  <<n, s>> \in answered' <=>
               \/ <<n, s>> \in answered
               \/ \E c \in Channel : \E b \in back[c] : b.id = n /\ s \in b.sectors
  <2>1. \A c \in Channel : <<n, s>> \in Parts(back[c]) <=> \E b \in back[c] : b.id = n /\ s \in b.sectors
    BY DEF Parts
  <2>2. QED
    BY <1>3, <2>1
<1>6. RequestType'
  <2>1. num_dram_cycles' \in Channel
    <3>1. num_dram_cycles \in Nat
      BY <1>1 DEF RequestType, Channel
    <3>2. QED
      BY <1>3, <3>1, ConstantTypes DEF Channel
  <2>2. \A c \in Channel : /\ readq'[c] \in SUBSET Request
                           /\ writeq'[c] \in SUBSET Request
                           /\ pending'[c] \in SUBSET Request
    BY <1>4
  <2>3. /\ readq' \in [Channel -> SUBSET Request] /\ writeq' \in [Channel -> SUBSET Request]
        /\ pending' \in [Channel -> SUBSET Request]
    <3>1. /\ DOMAIN readq' = Channel /\ readq' = [c \in Channel |-> readq'[c]]
          /\ DOMAIN writeq' = Channel /\ writeq' = [c \in Channel |-> writeq'[c]]
          /\ DOMAIN pending' = Channel /\ pending' = [c \in Channel |-> pending'[c]]
      BY <1>3
    <3>2. QED
      BY <2>2, <3>1
  <2>4. answered' \in SUBSET ((1..MaxSends) \X Channel)
    <3>1. ASSUME NEW c \in Channel, NEW e \in Parts(back[c])
          PROVE  e \in (1..MaxSends) \X Channel
      <4>1. PICK b \in back[c] : e \in {b.id} \X b.sectors
        BY <3>1 DEF Parts
      <4>2. b \in Request
        BY <1>4, <4>1
      <4>3. QED
        BY <4>1, <4>2 DEF Request
    <3>2. QED
      BY <1>1, <1>3, <3>1 DEF RequestType
  <2>5. QED
    BY <1>1, <1>3, <2>1, <2>3, <2>4 DEF RequestType
<1>7. Bounded'
  <2> SUFFICES ASSUME NEW c \in Channel
               PROVE  /\ IsFiniteSet(readq'[c]) /\ Cardinality(readq'[c]) <= queue_max
                      /\ IsFiniteSet(writeq'[c]) /\ Cardinality(writeq'[c]) <= queue_max
    BY DEF Bounded
  <2>1. /\ IsFiniteSet(readq[c]) /\ Cardinality(readq[c]) <= queue_max
        /\ IsFiniteSet(writeq[c]) /\ Cardinality(writeq[c]) <= queue_max
    BY <1>1 DEF Bounded
  <2>2. readq'[c] \in SUBSET readq[c] /\ writeq'[c] \in SUBSET writeq[c]
    BY <1>4
  <2>3. /\ IsFiniteSet(readq'[c]) /\ Cardinality(readq'[c]) <= Cardinality(readq[c])
        /\ IsFiniteSet(writeq'[c]) /\ Cardinality(writeq'[c]) <= Cardinality(writeq[c])
    BY <2>1, <2>2, FS_Subset
  <2>4. /\ Cardinality(readq[c]) \in Nat /\ Cardinality(readq'[c]) \in Nat
        /\ Cardinality(writeq[c]) \in Nat /\ Cardinality(writeq'[c]) \in Nat
    BY <2>1, <2>3, FS_CardinalityType
  <2>5. QED
    BY <2>1, <2>3, <2>4, ConstantTypes
<1>8. ASSUME NEW c \in Channel
      PROVE  readq'[c] \cup pending'[c] \subseteq readq[c] \cup pending[c]
  BY <1>4
<1>9. Numbered'
  <2>1. \A e \in answered' : e[1] <= Cardinality(accepted)
    <3>1. ASSUME NEW e \in answered', e \notin answered
          PROVE  e[1] <= Cardinality(accepted)
      <4>0. PICK c \in Channel : e \in Parts(back[c])
        BY <1>3, <3>1
      <4>1. PICK b \in back[c] : e \in {b.id} \X b.sectors
        BY <4>0 DEF Parts
      <4>2. b \in Queued(c)
        BY <1>4, <4>1 DEF Queued
      <4>3. QED
        BY <1>1, <4>1, <4>2 DEF Numbered
    <3>2. QED
      BY <1>1, <3>1 DEF Numbered
  <2>2. ASSUME NEW c \in Channel
        PROVE  /\ \A p \in readq'[c] \cup writeq'[c] \cup pending'[c] : p.id <= Cardinality(accepted)
               /\ \A p \in readq'[c] \cup pending'[c] : p.type = "READ"
               /\ \A p \in writeq'[c] : p.type = "WRITE"
               /\ \A p, q \in readq'[c] \cup pending'[c] : p.id = q.id => p = q
    <3>1. readq'[c] \cup writeq'[c] \cup pending'[c] \subseteq Queued(c)
      BY <1>4 DEF Queued
    <3>2. QED
      BY <1>1, <1>4, <1>8, <3>1 DEF Numbered
  <2>3. QED
    BY <1>1, <1>3, <2>1, <2>2 DEF Numbered, Queued
<1>10. ASSUME NEW a \in accepted, a.type = "READ", NEW s \in a.sectors
       PROVE  HeldOnce(a.id, s)'
  <2> DEFINE n == a.id
             At(p) == p.id = n /\ s \in p.sectors
  <2>1. HeldOnce(n, s)
    BY <1>1, <1>10 DEF ReadsHeld
  <2>2. \A c \in Channel : \A p, q \in readq[c] \cup pending[c] : At(p) /\ At(q) => p = q
    BY <1>1 DEF Numbered
  <2>3. \A c \in Channel : /\ Waits(c, n, s) <=> \E p \in readq[c] : At(p)
                           /\ Returns(c, n, s) <=> \E p \in pending[c] : At(p)
    BY DEF Waits, Returns
  <2>4. ASSUME NEW c \in Channel
        PROVE  /\ Waits(c, n, s)' <=> \E p \in readq[c] \ moved(c) : At(p)
               /\ Returns(c, n, s)' <=> \E p \in (pending[c] \ back[c]) \cup moved(c) : At(p)
    BY <1>4 DEF Waits, Returns
  <2>5. <<n, s>> \in answered' <=> <<n, s>> \in answered \/ \E c \in Channel : \E b \in back[c] : At(b)
    BY <1>5
  <2> HIDE DEF n, At
  <2>6. HeldOnce(n, s)' <=>
          IF <<n, s>> \in answered'
          THEN \A c \in Channel : ~(Waits(c, n, s)') /\ ~(Returns(c, n, s)')
          ELSE \E c \in Channel :
                 /\ Waits(c, n, s)' <=> ~(Returns(c, n, s)')
                 /\ \A d \in Channel : d # c => ~(Waits(d, n, s)') /\ ~(Returns(d, n, s)')
    BY DEF HeldOnce, n
  <2>7. CASE <<n, s>> \in answered
    <3>1. \A c \in Channel : ~(\E p \in readq[c] : At(p)) /\ ~(\E p \in pending[c] : At(p))
      BY <2>1, <2>3, <2>7 DEF HeldOnce
    <3>2. \A c \in Channel : ~(Waits(c, n, s)') /\ ~(Returns(c, n, s)')
      BY <1>4, <2>4, <3>1
    <3>3. QED
      BY <2>5, <2>6, <2>7, <3>2 DEF n
  <2>8. CASE <<n, s>> \notin answered
    <3>1. PICK c \in Channel :
            /\ (\E p \in readq[c] : At(p)) <=> ~(\E p \in pending[c] : At(p))
            /\ \A d \in Channel : d # c => \A p \in readq[d] \cup pending[d] : ~At(p)
      BY <2>1, <2>3, <2>8 DEF HeldOnce
    <3>2. ASSUME NEW d \in Channel, d # c
          PROVE  ~(Waits(d, n, s)') /\ ~(Returns(d, n, s)') /\ \A b \in back[d] : ~At(b)
      BY <1>4, <2>4, <3>1, <3>2
    <3>3. PICK p \in readq[c] \cup pending[c] : At(p)
      BY <3>1
    <3>4. \A q \in readq[c] \cup pending[c] : At(q) => q = p
      BY <2>2, <3>3
    <3>5. CASE p \in back[c]
      <4>1. <<n, s>> \in answered'
        BY <2>5, <3>3, <3>5
      <4>2. p \in pending[c] /\ \A q \in readq[c] : ~At(q)
        BY <1>4, <3>1, <3>3, <3>5
      <4>3. ~(Waits(c, n, s)') /\ ~(Returns(c, n, s)')
        BY <1>4, <2>4, <3>4, <3>5, <4>2
      <4>4. QED
        BY <2>6, <3>2, <4>1, <4>3 DEF n
    <3>6. CASE p \notin back[c]
      <4>1. <<n, s>> \notin answered'
        BY <1>4, <2>5, <2>8, <3>2, <3>4, <3>6
      <4>2. Waits(c, n, s)' <=> ~(Returns(c, n, s)')
        <5>1. CASE p \in pending[c]
          <6>1. \A q \in readq[c] : ~At(q)
            BY <3>1, <3>3, <5>1
          <6>2. QED
            BY <1>4, <2>4, <3>3, <3>6, <5>1, <6>1
        <5>2. CASE p \in readq[c]
          <6>1. \A q \in pending[c] : ~At(q)
            BY <3>1, <3>3, <5>2
          <6>2. Waits(c, n, s)' <=> p \notin moved(c)
            BY <2>4, <3>3, <3>4, <5>2
          <6>3. Returns(c, n, s)' <=> p \in moved(c)
            BY <1>4, <2>4, <3>3, <3>4, <6>1
          <6>4. QED
            BY <6>2, <6>3
        <5>3. QED
          BY <3>3, <5>1, <5>2
      <4>3. QED
        BY <2>6, <3>2, <4>1, <4>2 DEF n
    <3>7. QED
      BY <3>5, <3>6
  <2>9. QED
    BY <2>7, <2>8
<1>11. ReadsHeld'
  BY <1>3, <1>10 DEF ReadsHeld
<1>12. QED
  BY <1>6, <1>7, <1>9, <1>11 DEF RequestInv

-----------------------------------------------------------------------------
LEMMA RequestInit == Init => RequestInv
<1> SUFFICES ASSUME Init
             PROVE  RequestInv
  OBVIOUS
<1>1. IsFiniteSet({}) /\ Cardinality({}) = 0
  BY FS_EmptySet
<1>2. RequestType
  BY <1>1, ConstantTypes DEF Init, RequestType, Channel
<1>3. Bounded
  BY <1>1, ConstantTypes DEF Init, Bounded
<1>4. Numbered /\ ReadsHeld
  BY DEF Init, Numbered, Queued, ReadsHeld
<1>5. QED
  BY <1>2, <1>3, <1>4 DEF RequestInv

LEMMA RequestsKept == PageInv /\ RequestInv /\ [Next]_vars => RequestInv'
<1> SUFFICES ASSUME PageInv, RequestInv, [Next]_vars
             PROVE  RequestInv'
  OBVIOUS
<1>1. CASE UNCHANGED <<config, ctrls, num_dram_cycles, accepted, answered>>
  BY <1>1 DEF ctrls, RequestInv, RequestType, Bounded, Numbered, Queued, ReadsHeld, HeldOnce,
              Waits, Returns
<1>2. CASE Allocate
  BY <1>1, <1>2 DEF Allocate, page_allocator
<1>3. CASE Send
  BY <1>3, SendKeeps DEF Send
<1>4. CASE Tick
  BY <1>4, TickKeeps
<1>5. CASE UNCHANGED vars
  BY <1>1, <1>5 DEF vars
<1>6. QED
  BY <1>2, <1>3, <1>4, <1>5 DEF Next

LEMMA RequestInvariant == Spec => [](PageInv /\ RequestInv)
<1>1. Init => PageInv /\ RequestInv
  BY PagesInit, RequestInit
<1>2. PageInv /\ RequestInv /\ [Next]_vars => PageInv' /\ RequestInv'
  BY PagesKept, RequestsKept
<1>3. QED
  BY <1>1, <1>2, PTL DEF Spec

\* Every variable of the front end has its type, and no queue outgrows its capacity
\* although the answer of enqueue is dropped (Memory.h:386).
THEOREM TypesHold == Spec => []TypeOK
<1>1. PageInv /\ RequestInv => TypeOK
  BY DEF PageInv, PageType, RequestInv, RequestType, Bounded, TypeOK
<1>2. QED
  BY <1>1, RequestInvariant, PTL

(***************************************************************************)
(* Each sector of an accepted read came back, or one channel has it in one *)
(* place: no part of a split request is dropped or doubled (Memory.h:377). *)
(***************************************************************************)
THEOREM NoPartIsLost == Spec => []NothingLost
<1>1. ASSUME RequestInv, NEW r \in accepted, r.type = "READ", NEW s \in r.sectors
      PROVE  Cardinality(Held(<<r.id, s>>)) = IF <<r.id, s>> \in answered THEN 0 ELSE 1
  <2> DEFINE n == r.id
             H == Held(<<n, s>>)
  <2>1. HeldOnce(n, s)
    BY <1>1 DEF RequestInv, ReadsHeld
  <2>2. \A h \in H : \E d \in Channel : h = <<"readq", d>> \/ h = <<"pending", d>>
    <3>1. \A h \in H : h \in {"readq", "pending"} \X Channel
      BY DEF Held
    <3>2. QED
      BY <3>1
  <2>3. \A c \in Channel : /\ <<"readq", c>> \in H <=> Waits(c, n, s)
                           /\ <<"pending", c>> \in H <=> Returns(c, n, s)
    <3>1. ASSUME NEW rs
          PROVE  <<n, s>> \in Parts(rs) <=> \E p \in rs : p.id = n /\ s \in p.sectors
      BY DEF Parts
    <3>2. \A c \in Channel : /\ <<"readq", c>> \in H <=> <<n, s>> \in Parts(readq[c])
                             /\ <<"pending", c>> \in H <=> <<n, s>> \in Parts(pending[c])
      BY DEF Held
    <3>3. QED
      BY <3>1, <3>2 DEF Waits, Returns
  <2> HIDE DEF n, H
  <2>4. CASE <<n, s>> \in answered
    <3>1. H = {}
      BY <2>1, <2>2, <2>3, <2>4 DEF HeldOnce
    <3>2. QED
      BY <2>4, <3>1, FS_EmptySet DEF H, n
  <2>5. CASE <<n, s>> \notin answered
    <3>1. PICK c \in Channel : /\ Waits(c, n, s) <=> ~Returns(c, n, s)
                               /\ \A d \in Channel : d # c => ~Waits(d, n, s) /\ ~Returns(d, n, s)
      BY <2>1, <2>5 DEF HeldOnce
    <3>2. H = {<<"readq", c>>} \/ H = {<<"pending", c>>}
      <4>1. \A h \in H : h \in {<<"readq", c>>, <<"pending", c>>}
        BY <2>2, <2>3, <3>1
      <4>2. <<"readq", c>> \in H <=> ~(<<"pending", c>> \in H)
        BY <2>3, <3>1
      <4>3. QED
        BY <4>1, <4>2
    <3>3. Cardinality(H) = 1
      BY <3>2, FS_Singleton
    <3>4. QED
      BY <2>5, <3>3 DEF H, n
  <2>6. QED
    BY <2>4, <2>5
<1>2. PageInv /\ RequestInv => NothingLost
  BY <1>1 DEF NothingLost
<1>3. QED
  BY <1>2, RequestInvariant, PTL

=============================================================================
