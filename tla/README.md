# TLA+ models of Sectored DRAM

Sectored DRAM is a cycle-level simulator of a processor whose caches, memory
controller and DRAM work on *sectors*, parts of a cache block that can be
fetched, written back and activated on their own.  The program is
`ramulator/src` (C++); what it issues is fed to DRAMPower (`DRAMPower/src`), which
counts commands and cycles for the energy.  This directory holds TLA+ models of
the parts of both that keep state, the TLC configurations that check them, and
proofs checked with TLAPS.

Contents: [The system](#the-system) · [Modules](#modules) ·
[How each part is modelled](#how-each-part-is-modelled) · [Runs](#runs) ·
[Where code and comments disagree](#where-code-and-comments-disagree) ·
[Proofs](#proofs) · [Not modelled](#not-modelled) · [Plan](#plan)

## The system

Everything is driven by one loop (`Main.cpp`, `run_cputrace`): the processor is
ticked `cpu_tick` times for every `mem_tick` ticks of the memory.  There are no
threads.  What makes the program hard is that a request lives for many cycles in
several queues, is copied between them, and meets others there in orders that
depend on timing.

| Component | State | Operations | Talks to |
|---|---|---|---|
| `Trace` (`Processor.cpp`) | buffer of requests read ahead | read a line, split it, lookahead | asked by `Core` |
| `Core`, `Window` (`Processor.cpp`) | next access, reorder window with the sectors each read still misses, instruction count | `tick`, `set_ready`, `retire`, `reset_stats` | `Cache::send` of L1; woken by `Processor::receive` |
| `Cache` (L1, L2 per core, shared L3) | sets, MSHRs, retry list | `send`, `tick`, `callback`, `evict`, `evictBlock`, `update` | `send` down, `callback` up, `update` down on eviction |
| `CacheSet` | tags, valid/busy/dirty/MRU bits, sectors present, used, dirty | `access`, `insert`, `evict`, `findVictim`, ... | called by `Cache` |
| `CacheSystem` | `wait_list`, `hit_list` | `tick` | `Memory::send`; the callback of each request |
| `SpatialPredictor` | pattern table, rolling average | `predict`, `update` | asked on a miss, told of evictions by the first cache of a core |
| `StridePrefetcher` | regions and their strides | `miss`, `hit`, `train` | told by L3, sends prefetches into it |
| `Memory` | page table, frames, slot of the command bus | `page_allocator`, `send`, `tick` | `Controller::enqueue` and `tick` of the channels |
| `Controller` | `readq`, `writeq`, `actq`, `otherq`, `pending`, write mode, tFAW budget | `enqueue`, `tick` | scheduler, row table, refresh, DRAM; the callback of each read |
| `Scheduler`, `RowTable` (`Scheduler.h`) | open rows and hits to them | `get_head`, `update`, `get_hits` | asked and told by `Controller` |
| `Refresh` | cycles since the last refresh | `tick_ref` | `Controller::enqueue` |
| `DRAM`, `DDR4` | open row and open sectors of each bank, first cycle each command is allowed in | `decode`, `check`, `update` | asked and told by `Controller` |
| `CommandAnalysis` (DRAMPower) | state of a rank, when things happened last, counters | one handler per command, end of a window | given the commands of each window |

What is hard, and which properties make a component correct:

* **Controller.**  A request whose row was activated moves from its queue to
  `actq`; a read may be answered out of the write queue; refreshes are injected
  at any phase and close all rows; the guard against "useless activates" forbids
  most requests to close a row nobody has used.  Correct means: no request is
  lost or duplicated, all of them finish, refreshes are issued, the row table
  agrees with the DRAM, the guard never blocks for ever, and the tFAW budget and
  the counter of requests in service are never lost or counted twice.
* **Sectors in the controller.**  An activate opens the sectors that the
  requests in its queue have accumulated.  A row may be open with too few
  sectors for a request, which then needs PRE and ACT again.
* **Caches.**  A block may be present with some sectors, be fetched by several
  MSHRs, be written while it is fetched and be wanted by an eviction from below,
  all at the same time.  Requests are swallowed when MSHRs cover them, refused
  when MSHRs or ways run out, and kept in retry lists.  Correct means: the
  asserts hold, busy bits match MSHRs, the hierarchy is inclusive, every read
  returns, and no write is lost.
* **Several cores.**  Answers are broadcast to the private caches of all cores.
* **Processor.**  An answer wakes instructions anywhere in a ring that wraps;
  sends are refused and repeated; requests over the end of a block become two; the
  lookahead and the dynamic policy change the sectors of requests that are already
  in the buffer.  Correct means: what waits is owed an answer, nothing retires out
  of order or with a sector missing, an access asks for the sectors it touches,
  the two clocks keep their ratio and the simulation ends.
* **Tables.**  Predictor and prefetcher replace, alias and start from entries
  nobody wrote.  Their answers must stem from what they were told, and counters that
  are compared with `==` must not pass each other.
* **Memory.**  Frames run out; a split request is checked against all queues and
  then enqueued part by part with the answers ignored; channels share the bus.
* **DRAMPower.**  Windows cut refreshes, power-downs and self-refreshes at any
  cycle, and cycles are counted before they pass or after.  Correct means: every
  cycle is counted once, and activates and precharges pair up.

`PROJECT.json` lists these hazards at their lines, with the properties that
cover them, and the ones that no property covers with the reason.

## Modules

| Module | Models | Builds on |
|---|---|---|
| `DDR4` | bank state, prerequisite command, timing tables: `DDR4.h`, `DDR4.cpp`, the tree walk of `DRAM.h` | |
| `Controller` | `Controller.h`, `Controller.cpp`, `Scheduler.h`, `Refresh.h` | `DDR4` |
| `CacheSet` | the methods of `CacheSet.cpp` as operators on one set | |
| `CachePort` | abstract: what a core may rely on once its cache accepted a read | |
| `Cache` | `Cache.cpp`, `CacheSystem`, the part of `Processor.cpp` that uses them | `CacheSet`; implements `CachePort` |
| `Trace` | class `Trace`: lines, split requests, buffer, lookahead | |
| `Window` | class `Window` as operators on a ring | |
| `InOrderWindow` | abstract: a queue that retires in order | |
| `Processor` | `Core::tick`, `Processor::receive`, `reset_stats`, the switch of sectoring | `Trace`, `Window`, composed with `CachePort`; implements `InOrderWindow` |
| `Simulation` | `run_cputrace`: warm-up, clocks, limits, end | `Processor` |
| `SpatialPredictor` | `SpatialPredictor.cpp` | |
| `StridePrefetcher` | `StridePrefetcher.cpp` | |
| `Memory` | `Memory.h`: page allocator, `send` with and without DGMS, `tick` | |
| `CommandAnalysis` | `CommandAnalysis.cc`, `CmdHandlers.cc` of DRAMPower | |
| `MC...` | small instances of the module they are named for | |
| `..._proofs` | theorems about the module they are named for; `CacheChain_proofs` about `Cache` with one core | TLAPS |

Operators and variables keep the names of the source where TLA+ allows it.  An
operator whose comment starts with "Mutant of" is not part of the model: it is the
form a mistake would give the operator after it, and `PROJECT.json` pairs it with
the property that notices.

**How the parts are put together.**  Three interfaces join the modules.

* Core and caches meet at `CachePort`: everything a read asked for is *owed* until an
  answer brings it, and answers come in any order, for one block at a time, with
  parts nobody asked for.  `Processor` is composed with it and checked on any
  hierarchy that keeps it; `Cache` is shown to keep it (`ImplementsPort`).
* Caches and controller meet at the request.  In `Cache` the memory takes requests,
  answers reads in any order and keeps writes; in `Controller` the environment
  enqueues any request of a set `Shape`.  The controller is such a memory: it refuses
  only when a queue is full (`Enqueue` is disabled) and answers every accepted read
  (`EveryRequestFinishes`).
* `Memory` sees a controller as queues that finish what they hold when given their
  slot over and over, which is again `EveryRequestFinishes`.

## How each part is modelled

### Controller

One channel with one rank and one bank per bank group, open-row policy,
FRFCFS_Cap scheduling (the policies `Scheduler.h` selects).

* **A request** is its position in the order of acceptance.  `reqs` holds its
  fields: type, block, the sectors it asks for (`sector_bits[3]`), the sectors its
  activate opens (`acts`, for `sector_bits[4]`), a stamp and `is_first_command`.
  The stamp orders requests as their cycle of arrival does: requests accepted
  between two ticks share one, as they share `clk` in the code.  PREFETCH is READ
  for the controller.
* **Enqueue** is `Controller::enqueue` for one request, with the accumulation of
  sectors into the requests of the same row in the queue it joins and the answer
  out of `writeq`.  As in the code the request joins the queue for the
  accumulation even when it is answered at once.
* **Tick** is one whole call of `Controller::tick`.  What every call does is in
  operators with the suffix `Now` (the head of `pending`, the tFAW queue, refresh,
  write mode); the command of the cycle is one of the actions `Activate`,
  `Precharge`, `Access`, `PrechargeAll`, `RefreshRank`, or `Idle` when there is
  none, or `SkipScheduling` for a call with `can_schedule` false.  A command is
  chosen as in the code: a ready head of `actq`, else `otherq` if it is not empty,
  else `readq` or `writeq`, and only if the guard against useless activates allows
  it.  A head without enough tFAW budget ends the cycle (`FawStall`).
* **Time.**  The code compares the clock with the first cycle each command is
  allowed in.  The model keeps the distance to that cycle, counted down to 0, so
  time needs no bound.  `pending` holds the cycles a read has left and
  `faw_queue` the age of each activate.
* **Timing parameters** are the constant `speed_entry`; the proofs hold for all
  values, TLC uses small ones that keep commands in the order of DDR4_3200
  (activate to access, then precharge, then activate again; write-to-read
  turnaround; refresh last).  Cycles a command needs on paths the model
  leaves out (sibling ranks, a second bank in the group) are left out.
* **Refresh.**  In the code the interval is 12480 cycles.  Its phase against the
  traffic is arbitrary, so `Tick` may inject a refresh in any cycle; `MaxRefresh`
  bounds how many.

### Caches

One set per cache, so that a block number is a tag; sectors on; prefetcher off; no
PREFETCH requests.  `lower` and `level` describe the hierarchy, so one core, or
several with a shared L3, are instances.

* **`send`, `callback`, `evict` and `update`** are calls down and up the hierarchy
  that end within one cycle.  Each is an operator on a record of the state of all
  caches, and each branch of `Cache::send` is an operator: `SectorHit`,
  `SectorMiss`, `MissWithMshr`, `MissWithoutMshr`, covered by MSHRs or refused.
  `Fetch` is the tail they share (a new MSHR, and the request that goes on to the level
  below).  `sendLast`, `sendMiddle` and `sendFirst` are `send` at the three levels, each
  written with the one below it, so that nothing is recursive but functions on lists.
* **Asserts.**  Every assert on these paths adds to `asserts` when it fails.  The
  program ends there, so nothing happens afterwards.
* **The retry loop** erases an accepted request and then increments the iterator.
  `RetryStep` and `RetryLoop` follow it: the next request is skipped, and after the last one
  the loop starts again at the beginning (a step past the end of a `std::list`
  in the build's standard library; undefined by the language).
* **Tags** stay in their way after an eviction and ways start with tag 0, as in the
  code; lookups find the first way with the tag whether it is valid or not.
* **Latencies** are dropped: `wait_list` is a set, and `hit_list` lets a hit in a
  higher level overtake one in a lower level but never the reverse, which is what
  the latencies (4, 16, 47 cycles) allow.  The memory answers in any order.
* **The predictor** may answer any member of `Prediction`, in the places where the
  first level calls it.
* **The core** sends any access of `Shape`, the same one again after a refusal, and
  keeps accepted reads in `window` with the sectors they miss (`set_ready`).  An
  access asks for at least the sectors it touches (`actual`); the trace lookahead
  may add more.
* `unsaved` is a history variable used by one property only: the sectors of a block
  that were written and are in no write back yet.
* **Refinement.**  `ImplementsPort` maps `owed` to the sectors the reads in `window`
  miss; every step of the hierarchy is an acceptance, an answer or a stutter of
  `CachePort`.

### Trace, window and core

* **A line** of the trace is a record of bubbles, type, byte address and size.
  `PiecesOf` gives the requests it stands for: none if it is larger than a block, two
  if it crosses the end of one.  The three formulas for sectors are those of the
  code, in byte units of a small block.  The file starts again at its end, so what is
  read is the sequence `Pieces` for ever; a last line without newline is never used
  and left out of `Lines`.
* **The buffer** is filled as a whole, and a divided request may overfill it by one.
  The lookahead merges the sectors of later requests of the buffer for the same
  block.  `Entry` has the change the dynamic policy makes while it is off, with its
  condition for divided requests.
* **The window** is the ring of the code, with what earlier instructions left in its
  dead places.  `Retires` says how many instructions the loop of `retire` takes.
* **A tick** of a core is one step: retire, bubbles, then the access with `send`
  accepted or refused.  What `send` returns is chosen freely, for each core.  Limits
  are noticed at the instruction that meets them exactly, and `reached_limit` is not
  reset after the warm-up, as in the code.
* **Answers** are one step per call of `receive`: for all cores, with any sectors of
  the block, wanted or not.
* **Refinement.**  `WindowInOrder` maps the live places of the ring, oldest first, to
  the queue of `InOrderWindow`.

### Main loop

`Simulation` follows `run_cputrace`: `TickProcessor` or `SkipProcessor` is the first
half of an iteration, `TickMemory` (once for each call due) the second.  The warm-up
loop counts one way and the measured loop another, as in the code; `drift` is a
history variable that compares the clocks.  An answer may come before or after any
tick, but not between two cores, since it is given in `CacheSystem::tick` or in a tick
of the memory.

### Predictor and prefetcher

* `SpatialPredictor` has the table with its ways and the infinite table.  Index and
  tag are functions of the instruction: the bits of the block address the code mixes
  in are always zero (`load_addr >> 3 & 7` of a block address), and the fold
  `x ^ (x >> 12)` can be undone, so that index and tag name one instruction.  The
  rolling average is kept multiplied by the window, `rolling_sum`; the floats of the
  code are exact while the window is a power of two.  A way that was never written
  holds tag 0 and so seems trained for it.  `rand()` is a free choice in the range the
  code gives it, which for two ways is one way only (`TwoWaysActAsOne`).
* `StridePrefetcher` has one step per call of `miss` or `hit`, with all prefetches it
  sends; the cache may refuse any of them, which ends the call.  The two tables are
  allocated without being initialised, so entries start with any member of `Garbage`;
  entries made by `create_new_entry` are in `created`, and the properties are about
  those.  `last_access` has 32 bits in the code; that the clock stays within them is
  assumed, so no stamp wraps.

### Memory

`page_allocator` starts its search at any frame and, when frames run out, gives away a
used one.  `send` is one step: all channels are asked first, then each part is
enqueued if its queue has room and dropped otherwise, since the code ignores the
answer of `enqueue`; that nothing is dropped is `NothingLost`.  `tick` is one cycle of
all channels: in each a read may come back, and the channel whose slot it is may
finish a request.  The slot is `num_dram_cycles` modulo the number of channels, 8 in
the code.

### DRAMPower

`CommandAnalysis` has an action for each handler of `CmdHandlers.cc`, with the mats of
partial activates, and `Window` for `calcWindowEnergy` and `clearStats`.  The library
gets the commands of a window as a list and evaluates it in the order of times; here a
command is evaluated when it is given, which is the same since nothing is read in
between.  A command comes at any time after the last one and after the rank is ready
(`ready`: the time a controller has to wait after a refresh or an exit).  A command at the
very cycle in which a window ends belongs to the next window, which leaves the sums over
windows as they are.  The times of the code that are compared with the command are fields
of `at`.  `past` is a history
variable: cycles and open rows of earlier windows.

## Runs

All runs check deadlock except `stride_prefetcher`, whose accesses are bounded by
`MaxTrains` (the prefetcher itself never stops).  States are distinct states.

| Run | States | Bounds | What it shows |
|---|---|---|---|
| `controller_safety` | 325 k | 3 requests of 5 kinds, 2 banks, 2 rows, 2 sectors, 1 refresh, budget of one activate per tFAW | requests are neither lost nor doubled (`NoRequestLost`); row table and DRAM agree; a row the guard keeps open has its opener waiting; `serving` and the budget balance; no more than the budget is activated in a window; an activate opens what its queue has accumulated |
| `controller_liveness` | 31.7 k | 3 requests of 4 kinds that conflict, 1 refresh, `cap` 1 | every accepted request finishes and every refresh is issued |
| `caches` | 40.8 k | 4 accesses of 7 kinds by one core, 3 blocks in 2 ways, L1 with two MSHRs, L2 and L3 with one, no predictions | no assert fails, busy bits match MSHRs, the hierarchy is inclusive, no swallowed read is forgotten; every read returns although lower levels refuse; the hierarchy implements `CachePort` |
| `simulation` | 4.6 k | a trace of 5 lines read in a circle, 6 instructions, ring of 3, buffer of 2, clock ratio 3 : 2, switches of sectoring | what waits is owed; what is ready is complete; an access covers its bytes; clocks keep step; the ring implements a queue; the simulation ends |
| `spatial_predictor` | 330 k | 4 updates, 3 instructions that compete for rows, 1, 2 and 3 ways and the infinite table | predictions stem from the instruction and are the latest; the average is exact; two ways act as one |
| `stride_prefetcher` | 943 k | 8 accesses, 3 regions in 2 entries, entries with arbitrary contents at the start | counts meet what they are compared with; training needs a run of strides; only refusals let prefetches run ahead; no stride leaves its region |
| `memory` | 13.4 k | 2 cores with 2 pages in 3 frames; 2 channels with room for 1 request; DGMS on and off | frames are counted and not shared too early; no part of a split request is lost; each comes back |
| `power` | 397 k | 2 banks, 2 mats, 6 cycles, windows that end anywhere | every cycle is counted once; activates and precharges pair up; idle cycles are within those of the rank |
| `write_back`, `two_cores`, `predicted_sectors`, `bank_within_rank` | | one shape of accesses each, and the bounds of `power` for the last; `predicted_sectors` has 6 accesses, 3 ways in L2 and L3 and two answers of the predictor | see below: TLC finds each violated |

**Why the bounds are enough.**  They were chosen by the cases that must happen, and
each property has a mistake in the code's place (`mutants` in `PROJECT.json`) that the
same bounds reveal.

* Three requests are the fewest with which one opens a row, one hits it with another
  sector and one wants another row; a budget of one activate makes every second
  activate wait; one refresh falls into any phase of the others.
* Three blocks in two ways make each eviction a choice; with two sectors a block can
  be missing one; four accesses fill the MSHRs of L1 and the retry list behind the one of L2.
* A ring of three with lines of up to two bubbles wraps at every place; clocks 3 : 2
  give every remainder the two loops distinguish; the limit of 6 instructions is
  met after the ring has wrapped twice.
* Four updates fill the window of the average twice and every way of a row.
* Eight accesses train one entry, confirm it, miss the stride and have it replaced.
* Six cycles of a window hold a whole refresh (4) or self-refresh with its exit, and
  the end of a window can cut each.

**Fairness**, and why the code justifies it.

* `Controller`: weak fairness of `Tick` with scheduling allowed.  `Memory::tick` calls
  the controller in every cycle.  With DGMS a channel gets its slot every eighth
  cycle; the run has `can_schedule` always true, `controller_safety` has both.
* `Cache`: weak fairness of a core's `Cache::tick` while that call changes something
  (`TickHelps`), of `CacheSystem` passing requests on and finishing hits, and of the
  memory answering.  All of it happens in each cycle.  The core need not send anything.
* `Simulation`: weak fairness of the loop and of the answer for each owed sector, which
  is what `EveryReadReturns` shows of the caches; and strong fairness of a send being
  accepted (`Accepted`): a core that tries for ever is not refused for ever, since
  MSHRs become free when answers arrive.
* `Memory`: weak fairness of cycles and of reads coming back after their latency, strong
  fairness of a request being issued in its channel (`IsIssued`), which is
  `EveryRequestFinishes` for a controller that gets its slot over and over.

The temporal properties are checked without symmetry and without a state constraint.

## Where code and comments disagree

Four runs check what a comment says and are expected to fail.

* **`write_back`** (`WrittenSectorsKept`).  A write that hits records the dirty sector
  but not the dirty bit of the block (`Cache.cpp:617`), so the eviction takes the block
  for clean and its data is never written to memory.
* **`two_cores`** (`NoAssertionFails`).  An answer for one core takes sectors out of the
  MSHRs of the other (`Cache.cpp:1092`); a later one then finds its sector missing and
  an assert of `CacheSet` fails.  It needs two cores that share a block, which they do
  when translation is off.
* **`predicted_sectors`** (`NoReadForgotten`).  A request that an MSHR covers is swallowed,
  "in this case we are fine" (`Cache.cpp:326`).  A predicted sector is asked for although
  an MSHR waits for it (`Cache.cpp:394`, `538`, `737`).  L2 asks only for the sectors it
  misses, but the answer takes all of them from the MSHRs of L1, whose block may then be
  evicted while L2 still waits for the predicted one.  A read of both sectors is covered
  by that MSHR in L2, and the answer to come brings one of them only.
* **`bank_within_rank`** (`BankWithinRank`).  No activate notes the first active cycle of
  its bank, although the comment on `first_act_cycle_banks` says so; a bank is counted
  active for longer than its rank.

Other behaviour that is easy to take for a mistake, that no comment speaks against,
and that the models follow:

* A read is answered out of `writeq` without a look at `actq`, where the write may be by
  then, and whatever sectors the write has (`Controller.h:563`).
* A refresh closes rows that were opened for a request and not used yet.
* A hit in a higher level may be answered before an earlier hit in a lower one.
* When cores share blocks, a read that L3 merges into the other core's MSHR may get fewer
  sectors than it waits for, and the hierarchy is no longer inclusive (see the end of
  [Proofs](#proofs)).
* With predictions, one core is enough for two more cases of the same kind: the answer
  that takes more than it brings leaves a write without its sector, as in `two_cores`
  (`NoAssertionFails` is false with 7 accesses and L1 with 4 MSHRs), and a hit of L2 that waits
  in `hit_list` while memory answers may reach L1 when L2 has lost the block (`Inclusive` is
  false with 9 accesses).  No run has these bounds.
* `reached_limit` is not reset after the warm-up, so a core that met its limit there stays
  stopped.
* The prefetcher replaces the region used *last* (`Victim`), and the predictor with two ways
  uses one (`TwoWaysActAsOne`).
* A self-refresh may be left before the end of the refresh it starts with
  (`CmdHandlers.cc:540`), the last tRP cycles of which are a precharge.  When a window has
  ended within these, what it counted of them is subtracted from `pre_cycles` and then
  added again by `tRP - pre_cycles` (`CmdHandlers.cc:571-582`): the precharge is counted
  for longer than tRP and `last_pre_cycle` moves past the end of the refresh by as much.
  With tRFC 4 and tRP 2, a self-refresh that begins in cycle 1, a window and an exit in
  cycle 4 have the refresh over in 5, and `last_pre_cycle` is 6.  The model does the same.
  `CyclesCountedOnce` holds nevertheless, since it compares the cycles counted with the
  stamp from which the code counts next, and both move.  No property is about this.
* A way of the predictor nobody wrote has tag 0 and predicts no sector to the
  instructions whose tag is 0 (`LooksTrained`).
* The number of sectors of an access that starts within a sector is computed from its size
  alone and may leave out the last sector it touches; the second part of `AccessCoversLine`
  is therefore about aligned accesses (`Aligned`).  The first, that no sector beyond the
  block is asked for (the asserts of `Processor.cpp:700`), is about all.

## Proofs

Each `..._proofs` module extends the module it is about and is checked by `tlapm`.  The
theorems hold for every value of the constants; what is assumed of these is the named
`ASSUME` of each module, which TLC evaluates in every run.  Three theorems about `Cache`
assume more, in their statements.  Each argument is an
inductive invariant, shown to hold at the start and to be kept by each action; TLC
checks the properties on small instances.

| Module | Theorem | States |
|---|---|---|
| `Controller_proofs` | `TypeCorrect` | `Spec => []TypeOK` |
| | `RowTableCorrect` | `Spec => []RowTableMirrorsBanks` |
| | `GuardedRowHasOpener` | `Spec => []OpenerStillWaiting` |
| | `FawWindowKept` | `Spec => []FawWindow` |
| | `NoRequestIsLost` | `Spec => []NoRequestLost` |
| | `RequestsInServiceAreCounted` | `Spec => []ServingBalance` |
| | `ActivateOpensWhatIsQueued` | `Spec => ActivateOpensQueuedSectors`, about steps |
| | `BudgetIsBalanced` | `Spec => []FawBudgetBalance` |
| `Cache_proofs` | `TypesHold` | `Spec => []TypeOK` |
| | `BusyIsMatched` | `Spec => []BusyMatchesMshr` |
| | `OtherAssertsHold` | `Spec => []OnlyExcusable`: five of the eight asserts never fail |
| | `PortIsKept` | `Spec => Port!Spec`, the safety half of `ImplementsPort` |
| `CacheChain_proofs` | `AssertionsHold` | `Spec => []NoAssertionFails`, from `OneChain`, `NoPredictor` |
| | `InclusionHolds` | `Spec => []Inclusive`, from the same |
| | `NoneForgotten` | `Spec => []NoReadForgotten`, from the same |
| `CommandAnalysis_proofs` | `CyclesAreCountedOnce` | `Spec => []CyclesCountedOnce` |
| | `CountsAreTyped` | `Spec => []TypeOK` |
| | `RowsArePaired` | `Spec => []RowsPaired` |
| | `IdleIsWithin` | `Spec => []IdleWithin` |
| `Simulation_proofs` | `WaitingIsAlwaysOwed` | `Spec => []WaitingIsOwed` |
| | `ReadyIsAlwaysComplete` | `Spec => []ReadyIsComplete` |
| | `AccessesCoverTheirLine` | `Spec => []AccessCoversLine` |
| | `ClocksStayInStep` | `Spec => []ClocksInStep` |
| | `WindowRefines` | `Spec => WindowInOrder`, a refinement |
| `SpatialPredictor_proofs` | `PredictionsWereRecorded` | `Spec => []PredictionWasRecorded` |
| | `PredictionsAreLatest` | `Spec => []PredictionIsLatest` |
| | `SecondWayIsUnused` | `Spec => []TwoWaysActAsOne` |
| | `AverageIsExact` | `Spec => []RollingAverageExact` |
| `StridePrefetcher_proofs` | `CountsMeetTheorem` | `Spec => []CountsMeet` |
| | `TrainedOnRunTheorem` | `Spec => []TrainedOnRun` |
| | `RunsAheadTheorem` | `Spec => []RunsAhead` |
| | `StridesFitTheorem` | `Spec => []StridesFit` |
| `Memory_proofs` | `TypesHold` | `Spec => []TypeOK` |
| | `FreeFramesAreCounted` | `Spec => []FreeCount` |
| | `PagesStayApart` | `Spec => []PagesApart` |
| | `NoPartIsLost` | `Spec => []NothingLost` |

* **Controller.**  `BankInv` joins the types, `RowTableMirrorsBanks`,
  `OpenerStillWaiting` and `AccumulatesOwnSectors` (a request opens at least the sectors
  it asks for).  None of them is inductive alone: that a row kept by the guard has its
  opener waiting is broken by the step in which a request leaves `actq`, unless its
  access clears the row's entry, which needs the row table to agree with the banks, and
  that it is the row's opener at all needs the sectors it accumulated.  `FawWindow` is
  inductive with the types alone, since the ages in `faw_queue` decrease strictly.
* **Requests in the controller.**  `RequestInv` sees the three queues and `pending` as one
  function from names to lists (`Lists`) and says that no request is at two places of it
  (`Apart`) and that what it does not hold is done.  Each step takes a request out of a
  list (`DropApart`), adds one to a list (`PushApart`) or does one after the other.
  `ServiceInv` adds `ServingBalance`: a request that waits in a queue is not done, which
  is why a first command always raises the number of those in service.  `ShareInv` adds
  that `readq` and `writeq` are in the order of arrival and that each request has the
  sectors of the later ones for its row.  Requests for one closed row are equally ready
  and have the same hits (`HeadShares`), so an activate is for the first of them.
* **Sums.**  `FawBudgetBalance` and `RollingAverageExact` are about a sum, computed by a
  recursive function over a sequence and over a set.  That the function exists, and what
  an element that is added, removed or replaced does to it, follows by induction over a
  set of numbers and over the subsets of a finite set (`Induction`, `SubsetInduction`),
  both from finite sets being well founded under inclusion.  The rolling average is then
  bounded by the number of sectors times the window, so no clamp changes it.
* **Caches.**  `Inv` is about the hierarchy as one record, since all calls are operators on
  it.  `Typed` has the types, the bound on MSHRs, that what waits to be sent again
  demands something of the level below, and of each set (`SetOK`) that some way is not
  most recently used, that of the ways with one tag only the first is in use, and that
  the sectors used are present; `Matched` is the property that busy blocks are those
  with an MSHR.  Neither is inductive without the other: a block with an MSHR is not
  chosen as victim only because it is busy, and an MSHR is only removed with its block
  made idle because lookups find the way in use, not one with a stale copy of the tag.
  Calls that evict nothing keep which blocks are in use (`Same`), `evict` may only end
  the use of blocks that are not busy (`Shrunk`), and `send` at a level is followed
  after those below it (`SentOK`, `DoneOK`).  Loops over lists are recursive functions;
  that they exist and stay in a set follows by induction over numbers (`IterateExists`,
  `IterateIn`).  The same invariant shows that five asserts cannot fail, with any number
  of cores: those about an idle block with an MSHR, a busy block without one, a demand
  for no sectors, a block that is valid when a way is given to it and more sectors used
  than present.  `PortIsKept`
  follows a step to the port: only an accepted read and `set_ready` change what is owed.
* **Caches of one core.**  `OneChain` says that there are three caches, one of each level, and
  `NoPredictor` that the predictor adds no sectors; the run `caches` is an instance, and
  `two_cores` and `predicted_sectors` show that neither hypothesis can be left out.  The
  inductive invariant `CInv` adds to `Inv` what ties the caches to each other.  A read
  that has passed `d` caches is a *job* of depth `d`: it waits in the retry list of the
  last of them, in `hit_list` for the cache below, or, with `d` = 3, in `wait_list` or in
  the memory (`IsJob`).  `Tied` says that the MSHRs of the cache of level `l` are those of the jobs
  deeper than `l`, one for each, with the sectors the job asks of the next level
  (`Row`), and that jobs for one block ask for different sectors (`Apart`).  A job
  therefore never finds its sectors covered below the first cache (`NeverCovered`),
  so that only L1 swallows reads, and its answer clears one MSHR in every cache it
  passes and shrinks no other (`JobDone`).  `Nested` is inclusion.  It is kept by an
  answer because a job that hit in L2 has its block in use there until it is answered
  (`JobOK`), and by an eviction because that takes the block from all caches above.
  `Honest` and `MarksOK` say that dirty ways and dirty MSHRs have dirty sectors, which the
  assert about them needs.  `Fed` says that whatever a core waits for is among the sectors
  some request under way brings: a merged read has the jobs it was merged with, and
  what an answer takes from the windows is all it stops to carry.  The retry loop is
  followed step by step (`LoopingStep`), so what it skips or tries twice does not
  matter.  Without the invariant as a whole no part is inductive: inclusion needs
  that an answer fills blocks whose copies below are in use, which `Tied` gives, and `Tied` is
  kept by an eviction because busy blocks are not evicted.
* **CommandAnalysis.**  `CycleInv` adds to the property types, the modes that exclude each
  other, and `Stamps`: the times from which cycles will be counted next do not lie in
  the future of the next command, and in a self-refresh `window_ref`, the part of its
  refresh that earlier windows counted, is what the time before them made due.  Without
  `Stamps` a guard against negative numbers could swallow cycles, and a window that
  ends inside a refresh could count some twice.  `RowInv` says of each bank that the
  activates counted of each width exceed the precharges by one for the width it is open
  with and by none for the others; a precharge is counted with the width its activate
  was.  For `IdleWithin`, `Idle` says that the idle cycles counted so far lie before the end
  of the last operation and before the last command, so that none is counted again, and
  `Refs` bounds what earlier windows have counted of a refresh.  `CyclesAreCountedOnce`
  speaks of cycles up to the stamp from which the code counts next, and does not say that
  the stamp is right (see the exit from self-refresh above).
* **Window and main loop.**  `WindowInv` says of each core that its ring is well formed (places
  that are not live are closed to answers), that a read in a live place is owed what
  it misses, and that ready places miss nothing.  The proof looks at the ring by age
  (`Ready`, `Reads`, `Left` of the m-th oldest); `CycleOfWindow` follows a tick through
  retirement, bubbles and the access, `WindowAnswered` an answer through a ring that
  wraps.  The refinement needs the invariant: an instruction that retires leaves
  the head of the queue only because ready places are complete.
* **Clocks.**  `ClocksInStep` compares two products.  `ClockInv` says that the loop counter has
  passed exactly `p` multiples of one period and `q` of the other (`FirstFrom`) and that
  `drift` is their difference; a step of the counter passes a multiple or it does not,
  and at the multiples of both the two agree again.
* **Accesses.**  For `AccessCoversLine` every request that is in a trace, a buffer or a core is
  a piece of some line (`PiecesOf`), with at least the sectors of that piece.  That the
  pieces read are those of the lines is an induction over the lines; the lookahead
  adds sectors of the block and removes none; for an aligned access the code's formula for the
  number of sectors agrees with the sectors its bytes are in.
* **StridePrefetcher.**  `PrefetcherInv` says of each entry that was created (`Counts`) that no
  count has passed the number it is compared with, in all states of the table of
  strides, and in single stride mode (`Single`) how the run of equal strides seen so
  far, the count and the distance of the last prefetch depend on each other.  The
  distance a call reaches by its prefetches is an induction over the prefetches it
  sends; what the uninitialised entries hold is left open.  For `StridesFit`, `FitInv` says that the
  last line of an entry lies in its region and that all its strides are shorter than the
  region: only `Learn` makes a stride, as the difference of two lines of the region, and all
  other operations copy one (`NoNewStride`).  `CountsMeet` and `TrainedOnRun` need
  `ThresholdAssumption`, that `single_stride_threshold` exceeds one: the configurations in the repository have 4 and 2, but
  the default of `Config.h` is 0 and the code does not check it.
* **SpatialPredictor.**  Each invariant says of every instruction a way *would* be found for what
  the property says of the last prediction; it relies on index and tag naming one
  instruction, which is an assumption on the constants.
* **Memory.**  The search for a free frame ends at one (`ProbedIsFree`): the smallest number of
  steps exists because intervals of numbers are well founded under inclusion.  `PageInv`
  counts frames.  `RequestInv` adds that the number of a request is fresh and that a
  channel has at most one part of it: then the step that moves a part from `readq` to
  `pending`, or answers it, moves its sector and no other.  That `enqueue` drops nothing
  follows from `Accepts` and from the queues being within their bound.

**Only model-checked.**

* Liveness, since TLAPS has no `ENABLED`: `EveryRequestFinishes`, `RefreshIsIssued`,
  `EveryReadReturns`, `SimulationEnds`, `EveryPartAnswered`, and the half of
  `ImplementsPort` that says answers come (`Port!Answered`).
* What two cores or predictions break of `NoAssertionFails`, `Inclusive` and
  `NoReadForgotten`, by runs that find it (`two_cores`, `predicted_sectors`) or as described
  above.  `Inclusive` fails for two cores when an answer to one reaches the other, whose L1
  waits for the block while its L2 has refused the request; and a read that asked L1
  for two sectors and the levels below for one is forgotten when L3 swallows it,
  because the answer to the other core brings one sector only.

## Not modelled

* **Controller:** parallel activation of subarrays, burst chop, partial activation,
  fine-grained and half DRAM, other schedulers and row policies, several ranks.  The
  policy that switches sectoring at run time is modelled by what it does to the
  traces (`turnSectorDRAM`), not by when it does it.
* **Caches:** prefetch requests, several sets, the switch of sectoring at run time,
  `evictLLC` and `gatherFromHigherLevels` at the end of a run.
* **Main loop:** the trace-only mode (`run_dramtrace`), parsing of options,
  statistics.  Configuration values are CONSTANTS.
* **Memory:** mapping files and the mapping of address bits (a constant function);
  writes are not followed to their end, since nobody waits for them.
* **DRAMPower:** commands with auto-precharge, which the open-row policy never
  issues; the formulas for energy; the XML parser and the command line tools.
* Other DRAM standards, gem5 and DSARP code: not reachable from `Main.cpp`.
* CACTI, McPAT, the Rambus model, the Pin tools of the trace generator, CLI11 and XML
  parsers: vendored formulas, parsers or scripts without interaction.  They are nine
  tenths of the lines of the repository, so that the lines the modules stand for are a
  small share of it although they hold most of the program's own control.

## Plan

What is left, in order of importance.

1. Prefetch requests in `Cache`, so that `StridePrefetcher` is composed with it as
   `SpatialPredictor` is by `Prediction`; more than one set.
2. `gatherFromHigherLevels` and `evictLLC`: that at the end of a run every dirty sector
   is written once.
3. The trace-only mode, where requests carry no sector bits.
4. Auto-precharge in `CommandAnalysis`, and other row policies in `Controller`.
