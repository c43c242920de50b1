------------------------------ MODULE Processor ------------------------------
(***************************************************************************)
(* The processor (Processor.h, Processor.cpp): its cores, each with a      *)
(* trace, the access that comes next and an instruction window, on top of  *)
(* caches that are seen through CachePort.  ProcTick is one whole call of  *)
(* Processor::tick after CacheSystem::tick: it ticks every core once.  An  *)
(* answer of the caches or the memory is one call of Processor::receive,   *)
(* which tells it to the windows of all cores.                             *)
(***************************************************************************)
EXTENDS Trace, Window

CONSTANTS
  Core,
  Block,               \* physical blocks
  page_allocator,      \* where the memory puts a block of a core
  expected_limit_insts,
  dynamic_policy,      \* whether the controller switches sectoring off and on
  InstBound            \* bound: cpu_inst stops counting here

ASSUME ProcessorAssumption ==
  /\ Block \subseteq Nat
  /\ \A k \in Core : \A i \in DOMAIN Pieces : page_allocator[k][Pieces[i].block] \in Block
  /\ {expected_limit_insts, InstBound} \subseteq Nat
  /\ expected_limit_insts < InstBound
  /\ dynamic_policy \in BOOLEAN

VARIABLES
  core,        \* the state of each core
  dynamicOn,   \* sectoring is on in the traces
  owed         \* what the caches have yet to answer

pvars == <<core, dynamicOn, owed>>

\* A request without sector bits is answered as a whole.
Whole == -1
Part  == Sector \cup {Whole}
Needs(sectors) == IF sectors = {} THEN {Whole} ELSE sectors

Port == INSTANCE CachePort

-----------------------------------------------------------------------------
(***************************************************************************)
(* Core::tick.                                                             *)
(***************************************************************************)
\* "stop cores that have already finished executing": only those that stand
\* exactly at their limit.
Stopped(c) == c.reached_limit /\ expected_limit_insts = c.cpu_inst

Room(c) == IF depth - c.window.load < ipc THEN depth - c.window.load ELSE ipc

\* Bubbles come before the access, as many in a cycle as there is room for.
Bubbles(c) == IF c.access.bubble_cnt < Room(c) THEN c.access.bubble_cnt ELSE Room(c)

\* Whether this cycle gets as far as send: a write needs no place in the window.
Sends(c) ==
  /\ ~Stopped(c)
  /\ Bubbles(c) = c.access.bubble_cnt
  /\ c.access.type = "READ" => Bubbles(c) < Room(c)

Physical(k, c) == page_allocator[k][c.access.block]

\* m more instructions are issued.  The limit is noticed at the instruction
\* that meets it exactly.
Count(c, m) ==
  [c EXCEPT !.cpu_inst = IF @ + m > InstBound THEN InstBound ELSE @ + m,
            !.reached_limit = @ \/ expected_limit_insts \in (c.cpu_inst + 1)..(c.cpu_inst + m)]

\* The cycle of core c without its access
IssueBubbles(c) ==
  Count([c EXCEPT !.window = insertBubbles(@, Bubbles(c)),
                  !.access.bubble_cnt = @ - Bubbles(c)], Bubbles(c))

\* The cycle of core c with its access accepted: a read waits in the window, and
\* the next request of the trace becomes the access.
Issue(k, c) ==
  LET next   == get_unfiltered_request(c.trace, dynamicOn)
      window == insertBubbles(c.window, Bubbles(c))
  IN  Count([c EXCEPT !.window = IF c.access.type = "READ"
                                 THEN insertRead(window, Physical(k, c), c.access.sectors)
                                 ELSE window,
                      !.access = next.access,
                      !.trace  = next.trace], Bubbles(c) + 1)

\* Core k ticks: n instructions retire, and send, if called, returns `accepted`.
Ticked(k, n, accepted) ==
  LET c == [core[k] EXCEPT !.window = retire(@, n)]
  IN  IF Stopped(c) THEN c
      ELSE IF Sends(c) /\ accepted THEN Issue(k, c) ELSE IssueBubbles(c)

\* What core k is owed if its access is accepted in this cycle.
Asked(k, n, accepted) ==
  LET c == [core[k] EXCEPT !.window = retire(@, n)]
  IN  IF Sends(c) /\ accepted /\ c.access.type = "READ"
      THEN {Physical(k, c)} \X Needs(c.access.sectors) ELSE {}

-----------------------------------------------------------------------------
(***************************************************************************)
(* Actions.                                                                *)
(***************************************************************************)
\* The first request is read, with the whole buffer, while the traces are still
\* switched off; the constructor of the processor switches them on afterwards.
NewCore ==
  LET first == get_unfiltered_request([read |-> 0, pretrace_buffer |-> << >>], FALSE)
  IN  [trace |-> first.trace, access |-> first.access, window |-> EmptyWindow,
       cpu_inst |-> 0, reached_limit |-> FALSE]

ProcInit ==
  /\ core = [k \in Core |-> NewCore]
  /\ dynamicOn = ~dynamic_policy
  /\ Port!Init

ProcTick(accepted) ==
  \E n \in [Core -> 0..ipc] :
    /\ \A k \in Core : Retires(core[k].window, n[k])
    /\ core' = [k \in Core |-> Ticked(k, n[k], accepted[k])]
    /\ Port!Accept(UNION {Asked(k, n[k], accepted[k]) : k \in Core})
    /\ UNCHANGED dynamicOn

\* The callback of some request brings `parts` of block b.
receive(b, parts) ==
  /\ Port!Answer(b, parts)
  /\ core' = [k \in Core |-> [core[k] EXCEPT !.window = set_ready(@, b, parts)]]
  /\ UNCHANGED dynamicOn

\* turnSectorDRAMOn and turnSectorDRAMOff, called by the controller every 1000
\* cycles when the average length of its queue crosses 30
turnSectorDRAM(on) ==
  /\ dynamic_policy /\ dynamicOn # on
  /\ dynamicOn' = on
  /\ UNCHANGED <<core, owed>>

\* The instructions are counted from 0 again; reached_limit stays.
reset_stats ==
  /\ core' = [k \in Core |-> [core[k] EXCEPT !.cpu_inst = 0]]
  /\ UNCHANGED <<dynamicOn, owed>>

ProcNext ==
  \/ \E accepted \in [Core -> BOOLEAN] : ProcTick(accepted)
  \/ \E b \in Block, parts \in SUBSET Part : receive(b, parts)
  \/ \E on \in BOOLEAN : turnSectorDRAM(on)
  \/ reset_stats

ProcSpec == ProcInit /\ [][ProcNext]_pvars

-----------------------------------------------------------------------------
(***************************************************************************)
(* Properties.                                                             *)
(***************************************************************************)
\* What an instruction in the window still waits for is owed by the caches, so
\* it will be woken: no answer is missed between the call of send and the
\* insertion, and none is spent on an older instruction for the same block.
WaitingIsOwed ==
  \A k \in Core : LET w == core[k].window IN
    \A i \in Live(w) :
      ~w.ready_list[i] => {w.addr_list[i]} \X Needs(w.sector_list[i]) \subseteq owed

\* An instruction is ready, and may retire, only when no sector is missing,
\* whoever asked for the answers that woke it.
ReadyIsComplete ==
  \A k \in Core : LET w == core[k].window IN
    \A i \in Live(w) : w.ready_list[i] => w.sector_list[i] = {}

\* A line that starts and ends where sectors do, or lies within one
Aligned(l) ==
  \/ l.size % sector_size = 0 /\ l.addr % sector_size = 0
  \/ (l.addr % sector_size) + l.size <= sector_size

\* "Sector bits are unexpectedly large" (Processor.cpp:700) never holds: an access
\* asks for no sector beyond its block, wherever its line starts and ends.  "Which
\* sectors in the cache block are we going to access" (Processor.cpp:693): it asks for
\* every sector that its line touches of its block, if the line is aligned or crosses
\* the end of the block.  Both hold whatever the policy and the lookahead add.
AccessCoversLine ==
  \A k \in Core : LET c == core[k].access  l == Lines[core[k].access.line] IN
    /\ c.sectors \subseteq Sector
    /\ c.type \in SectorTypes /\ (Aligned(l) \/ Divided(l)) =>
         Touched(l, c.block) \subseteq c.sectors

\* The window as a queue, oldest instruction first.
Waiting(w) ==
  [n \in 1..w.load |-> [ready |-> w.ready_list[PlaceOf(w, n - 1)],
                        left  |-> w.sector_list[PlaceOf(w, n - 1)]]]

\* The ring implements a queue that retires its instructions in order.
Queue == INSTANCE InOrderWindow WITH waiting <- [k \in Core |-> Waiting(core[k].window)]

WindowInOrder == Queue!Spec

=============================================================================
