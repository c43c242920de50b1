-------------------------------- MODULE Memory --------------------------------
(***************************************************************************)
(* The front end of the memory (class Memory of Memory.h): it gives the    *)
(* pages of the cores frames when they are first used, and hands requests  *)
(* to the controllers of the channels.  With DGMS each sector of a block   *)
(* has a channel of its own: a request is split, and the channels take     *)
(* turns on the command bus.                                               *)
(*                                                                         *)
(* A controller is seen as its read and write queue and the reads on their *)
(* way back; module Controller has what it does to them.                   *)
(***************************************************************************)
EXTENDS Integers, FiniteSets, FiniteSetsExt

CONSTANTS
  Core,
  Page, NumFrames,    \* virtual pages of a core, frames of the memory
  Channels,           \* number of channels, with DGMS that of the sectors (8)
  channel_of,         \* the channel that the address mapping gives a frame's block
  queue_max,          \* capacity of a queue (32)
  Configs,            \* configurations: DGMS, translation, and a bound on the
                      \* requests that are accepted
  MaxSends            \* the largest of those bounds

Frame   == 0..(NumFrames - 1)
Channel == 0..(Channels - 1)

ASSUME MemoryAssumption ==
  /\ {NumFrames, Channels, queue_max} \subseteq Nat \ {0}
  /\ MaxSends \in Nat
  /\ channel_of \in [Frame -> Channel]
  /\ \A c \in Configs :
       c.DGMS \in BOOLEAN /\ c.translation \in {"None", "Random"} /\ c.sends \in 0..MaxSends
  /\ Core \cap Int = {} /\ Page \subseteq Frame

VARIABLES
  config,
  page_translation,            \* per core and page: its frame, or NoFrame
  free_physical_pages,         \* per frame: the core it was first given to, or NoCore
  free_physical_pages_remaining,
  physical_page_replacement,   \* pages that got a frame that was not free
  readq, writeq, pending,      \* per channel
  num_dram_cycles,             \* modulo Channels
  accepted,                    \* history: requests send has accepted
  answered                     \* history: ids and sectors of reads that came back

pages == <<page_translation, free_physical_pages, free_physical_pages_remaining,
           physical_page_replacement>>
ctrls == <<readq, writeq, pending>>
vars  == <<config, pages, ctrls, num_dram_cycles, accepted, answered>>

NoFrame == -1
NoCore  == -1

Target == Core \X Page

Init ==
  /\ config \in Configs
  /\ page_translation = [t \in Target |-> NoFrame]
  /\ free_physical_pages = [f \in Frame |-> NoCore]
  /\ free_physical_pages_remaining = NumFrames
  /\ physical_page_replacement = 0
  /\ readq = [c \in Channel |-> {}]
  /\ writeq = [c \in Channel |-> {}]
  /\ pending = [c \in Channel |-> {}]
  /\ num_dram_cycles = 0
  /\ accepted = {}
  /\ answered = {}

-----------------------------------------------------------------------------
(***************************************************************************)
(* page_allocator, called for the next access of a core.                   *)
(***************************************************************************)
IsFree(f) == free_physical_pages[f] = NoCore

\* Mutant of Probed: the search ends at the frame after a used one.
ProbedOnce(start) ==
  IF IsFree(start) THEN start ELSE (start + 1) % NumFrames

\* The search from a random frame goes on to the next free one.
Probed(start) ==
  LET steps == Min({n \in 0..NumFrames : n = NumFrames \/ IsFree((start + n) % NumFrames)})
  IN  (start + steps) % NumFrames

\* Mutant of AssignFree: the count of free frames is left alone.
AssignFreeUncounted(k, v) ==
  \E start \in Frame :
    /\ page_translation' = [page_translation EXCEPT ![<<k, v>>] = Probed(start)]
    /\ free_physical_pages' = [free_physical_pages EXCEPT ![Probed(start)] = k]
    /\ UNCHANGED <<free_physical_pages_remaining, physical_page_replacement>>

AssignFree(k, v) ==
  \E start \in Frame :
    /\ page_translation' = [page_translation EXCEPT ![<<k, v>>] = Probed(start)]
    /\ free_physical_pages' = [free_physical_pages EXCEPT ![Probed(start)] = k]
    /\ free_physical_pages_remaining' = free_physical_pages_remaining - 1
    /\ UNCHANGED physical_page_replacement

\* "if physical page doesn't remain, replace a previous assigned physical page":
\* the page it was assigned to keeps it as well.
ShareFrame(k, v) ==
  /\ physical_page_replacement' = physical_page_replacement + 1
  /\ \E f \in Frame : page_translation' = [page_translation EXCEPT ![<<k, v>>] = f]
  /\ UNCHANGED <<free_physical_pages, free_physical_pages_remaining>>

page_allocator(k, v) ==
  /\ config.translation = "Random"
  /\ page_translation[<<k, v>>] = NoFrame
  /\ IF free_physical_pages_remaining = 0 THEN ShareFrame(k, v) ELSE AssignFree(k, v)
  /\ UNCHANGED <<config, ctrls, num_dram_cycles, accepted, answered>>

\* The frame of a page that was allocated
Translated(k, v) == IF config.translation = "None" THEN v ELSE page_translation[<<k, v>>]

-----------------------------------------------------------------------------
(***************************************************************************)
(* send                                                                    *)
(***************************************************************************)
QueueOf(type) == IF type = "READ" THEN readq ELSE writeq

\* Mutant of can_schedule: the bound is off by one.
can_scheduleOneMore(c, type) == Cardinality(QueueOf(type)[c]) # queue_max + 1

can_schedule(c, type) == Cardinality(QueueOf(type)[c]) # queue_max

\* The part of a request for channel c; nothing of it goes to other channels.
Part(r, c) == [r EXCEPT !.sectors = @ \cap {c}]

\* A read of a block that a queued write of the channel is for is answered from it.
Forwarded(c, r) == r.type = "READ" /\ \E w \in writeq[c] : w.frame = r.frame

\* The request is enqueued in the channels `to`, as far as their queues have room.
enqueue(part, to) ==
  LET takes(c) == c \in to /\ can_schedule(c, part[c].type) IN
  /\ readq' = [c \in Channel |->
       readq[c] \cup IF takes(c) /\ part[c].type = "READ" /\ ~Forwarded(c, part[c])
                     THEN {part[c]} ELSE {}]
  /\ writeq' = [c \in Channel |->
       writeq[c] \cup IF takes(c) /\ part[c].type = "WRITE" THEN {part[c]} ELSE {}]
  /\ pending' = [c \in Channel |->
       pending[c] \cup IF takes(c) /\ Forwarded(c, part[c]) THEN {part[c]} ELSE {}]

\* Mutant of Accepts: only one of the channels is asked.
AcceptsAny(r) ==
  IF config.DGMS THEN \E c \in Channel : can_schedule(c, r.type)
  ELSE can_schedule(channel_of[r.frame], r.type)

\* All channels are asked before a split request is enqueued anywhere, also those
\* that get no part.
Accepts(r) ==
  IF config.DGMS THEN \A c \in Channel : can_schedule(c, r.type)
  ELSE can_schedule(channel_of[r.frame], r.type)

send(k, v, type, sectors) ==
  LET r == [id |-> Cardinality(accepted) + 1, type |-> type,
            frame |-> Translated(k, v), sectors |-> sectors]
  IN
  /\ Translated(k, v) # NoFrame
  /\ Cardinality(accepted) < config.sends
  /\ Accepts(r)
  /\ accepted' = accepted \cup {r}
  /\ IF config.DGMS THEN enqueue([c \in Channel |-> Part(r, c)], sectors)
     ELSE enqueue([c \in Channel |-> r], {channel_of[r.frame]})
  /\ UNCHANGED <<config, pages, num_dram_cycles, answered>>

-----------------------------------------------------------------------------
(***************************************************************************)
(* tick                                                                    *)
(***************************************************************************)
\* Mutant of HasSlot: the slots are counted from 1.
HasSlotLate(c) == ~config.DGMS \/ num_dram_cycles = c + 1

\* "we allow the controller to schedule a command only if another command was not
\* scheduled"; the counter has already moved on.
HasSlot(c) == ~config.DGMS \/ (num_dram_cycles + 1) % Channels = c

\* What channel c does in a cycle: at most one read comes back, and in its slot it
\* may issue the last command of at most one request.
Back(c)    == {{}} \cup {{r} : r \in pending[c]}
Issues(c)  == {{}} \cup IF HasSlot(c) THEN {{r} : r \in readq[c] \cup writeq[c]} ELSE {}

Parts(rs) == UNION {{r.id} \X r.sectors : r \in rs}

tick(back, issued) ==
  /\ \A c \in Channel : back[c] \in Back(c) /\ issued[c] \in Issues(c)
  /\ num_dram_cycles' = (num_dram_cycles + 1) % Channels
  /\ readq' = [c \in Channel |-> readq[c] \ issued[c]]
  /\ writeq' = [c \in Channel |-> writeq[c] \ issued[c]]
  /\ pending' = [c \in Channel |->
       (pending[c] \ back[c]) \cup {r \in issued[c] : r.type = "READ"}]
  /\ answered' = answered \cup UNION {Parts(back[c]) : c \in Channel}
  /\ UNCHANGED <<config, pages, accepted>>

\* What the channels may do together
Moves(choices) ==
  {m \in [Channel -> UNION {choices[c] : c \in Channel}] : \A c \in Channel : m[c] \in choices[c]}

BackMoves  == Moves([c \in Channel |-> Back(c)])
IssueMoves == Moves([c \in Channel |-> Issues(c)])

Tick == \E back \in BackMoves, issued \in IssueMoves : tick(back, issued)

-----------------------------------------------------------------------------
Send == \E k \in Core, v \in Page, type \in {"READ", "WRITE"}, sectors \in (SUBSET Channel) \ {{}} :
          send(k, v, type, sectors)

Allocate == \E k \in Core, v \in Page : page_allocator(k, v)

Next == Allocate \/ Send \/ Tick

Spec == Init /\ [][Next]_vars

(***************************************************************************)
(* Fairness.  Cycles go on; a read on its way comes back; and a controller *)
(* that is given its slot over and over issues each queued request in the  *)
(* end (module Controller: EveryRequestFinishes).                          *)
(***************************************************************************)
ComesBack(c, n) == \E back \in BackMoves, issued \in IssueMoves :
  (\E r \in back[c] : r.id = n) /\ tick(back, issued)

IsIssued(c, n) == \E back \in BackMoves, issued \in IssueMoves :
  (\E r \in issued[c] : r.id = n) /\ tick(back, issued)

FairSpec ==
  /\ Spec
  /\ WF_vars(Tick)
  /\ \A c \in Channel, n \in 1..MaxSends : WF_vars(ComesBack(c, n)) /\ SF_vars(IsIssued(c, n))

-----------------------------------------------------------------------------
Request == [id : 1..MaxSends, type : {"READ", "WRITE"}, frame : Frame,
            sectors : SUBSET Channel]

(***************************************************************************)
(* The type of the state.  No queue outgrows its capacity: enqueue tests   *)
(* it, but with DGMS nobody looks at its answer (Memory.h:386).            *)
(***************************************************************************)
TypeOK ==
  /\ config \in Configs
  /\ page_translation \in [Target -> Frame \cup {NoFrame}]
  /\ free_physical_pages \in [Frame -> Core \cup {NoCore}]
  /\ free_physical_pages_remaining \in 0..NumFrames
  /\ physical_page_replacement \in Nat
  /\ num_dram_cycles \in Channel
  /\ accepted \subseteq Request
  /\ answered \subseteq (1..MaxSends) \X Channel
  /\ \A q \in {readq, writeq, pending} : q \in [Channel -> SUBSET Request]
  /\ \A q \in {readq, writeq}, c \in Channel : Cardinality(q[c]) <= queue_max

(***************************************************************************)
(* The count of free frames is that of the frames without a core, so the   *)
(* search for one ends at a free one and the assertions of page_allocator  *)
(* (Memory.h:614, 635) hold; a frame without a core has no page.           *)
(***************************************************************************)
FreeCount ==
  /\ free_physical_pages_remaining = Cardinality({f \in Frame : IsFree(f)})
  /\ \A t \in Target : page_translation[t] # NoFrame => ~IsFree(page_translation[t])

(***************************************************************************)
(* As long as no page got a used frame, two pages never share one: no core *)
(* sees the blocks of another, and a read is never answered from another   *)
(* page's write.                                                           *)
(***************************************************************************)
PagesApart ==
  physical_page_replacement = 0 =>
    \A t, u \in Target : t # u /\ page_translation[t] # NoFrame
                           => page_translation[t] # page_translation[u]

(***************************************************************************)
(* A request that was accepted was accepted by all channels it has sectors *)
(* for: each sector of a read came back or is held in exactly one queue,   *)
(* though the parts of a split request are enqueued one after the other    *)
(* and enqueue's answer is not looked at.                                  *)
(***************************************************************************)
Held(part) ==
  {h \in {"readq", "pending"} \X Channel :
     part \in Parts((IF h[1] = "readq" THEN readq ELSE pending)[h[2]])}

NothingLost ==
  \A r \in {a \in accepted : a.type = "READ"} : \A s \in r.sectors :
    Cardinality(Held(<<r.id, s>>)) = IF <<r.id, s>> \in answered THEN 0 ELSE 1

(***************************************************************************)
(* Every sector of every accepted read comes back, also when the channels  *)
(* share the command bus in slots (Memory.h:314).                          *)
(***************************************************************************)
EveryPartAnswered ==
  \A n \in 1..MaxSends, s \in Channel :
    (\E r \in accepted : r.id = n /\ r.type = "READ" /\ s \in r.sectors)
      ~> <<n, s>> \in answered

=============================================================================
