----------------------------- MODULE Controller -----------------------------
(***************************************************************************)
(* The memory controller of one channel (Controller.h, Controller.cpp)     *)
(* with its scheduler and row table (Scheduler.h), its refresh             *)
(* (Refresh.h) and the rank of DDR4 it drives.                             *)
(*                                                                         *)
(* The environment (Memory::send) enqueues READ and WRITE requests between *)
(* two cycles; Tick is one whole call of Controller::tick.  A request is a *)
(* natural number, its position in the order of acceptance; reqs keeps its *)
(* fields and the queues hold the numbers.  A PREFETCH is treated as a     *)
(* READ everywhere in the controller and is not distinguished.             *)
(***************************************************************************)
EXTENDS DDR4, Sequences, FiniteSets

CONSTANTS
  Addr,          \* cache block addresses
  BankOf, RowOf, \* the bank and the row an address is mapped to (Memory::send)
  Shape,         \* the requests the environment may send
  sectoredDRAM,  \* FALSE: the conventional baseline
  CanSchedule,   \* values of tick's argument; FALSE occurs with DGMS only
  cap,           \* FRFCFS_Cap: row hits after which a ready request is ordinary
  QMax,          \* Queue::max
  WrHigh, WrLow, \* write queue watermarks, already multiplied by QMax
  FawActs,       \* full activates per tFAW window (4 in the code)
  MaxReqs,       \* bound: requests accepted in a behaviour
  MaxRefresh     \* bound: refresh intervals that elapse in a behaviour

ASSUME MappingAssumption == BankOf \in [Addr -> Bank] /\ RowOf \in [Addr -> Row]

ASSUME SectorAssumption == IsFiniteSet(Sector) /\ Sector # {}

\* Memory::send asserts that no request comes with an empty set of sectors.
ASSUME ShapeAssumption ==
  Shape \subseteq [type : {"READ", "WRITE"}, addr : Addr, sectors : (SUBSET Sector) \ {{}}]

ASSUME ConfigAssumption ==
  /\ sectoredDRAM \in BOOLEAN
  /\ CanSchedule \subseteq BOOLEAN
  /\ {cap, QMax, WrHigh, WrLow, FawActs, MaxReqs, MaxRefresh} \subseteq Nat
  /\ FawActs > 0

VARIABLES
  reqs,        \* the fields of every request accepted so far
  queue,       \* readq, writeq and actq: sequences of requests
  otherq,      \* number of REFRESH requests in otherq
  pending,     \* reads on their way back: request and cycles left to depart
  done,        \* reads called back and writes issued
  write_mode,
  banks,       \* state of the DRAM banks
  next,        \* cycles until a bank may take a command
  nextRank,    \* cycles until the rank may take PREA or REF
  rowtable,    \* per bank: the row it believes open, and the hits to it
  budget,      \* tFAW_budget
  faw_queue,   \* activates of the current tFAW window: age and sectors
  serving,     \* cur_serving_requests of the channel
  fresh,       \* no request was accepted since the last cycle
  refreshes    \* refresh intervals elapsed

vars == <<reqs, queue, otherq, pending, done, write_mode, banks, next, nextRank,
          rowtable, budget, faw_queue, serving, fresh, refreshes>>

RequestQueue == {"readq", "writeq", "actq"}

Accepted == 1..Len(reqs)

BankAt(r) == BankOf[reqs[r].addr]
RowAt(r)  == RowOf[reqs[r].addr]

RowEntry == [row : SUBSET Row, hits : Nat]
NoEntry  == [row |-> {}, hits |-> 0]

MaxBudget == IF sectoredDRAM THEN FawActs * Cardinality(Sector) ELSE FawActs

Elems(q) == {q[i] : i \in 1..Len(q)}

\* Mutant of Without: the front is erased, whatever request was served.
WithoutFront(q, i) == Tail(q)

Without(q, i) == SubSeq(q, 1, i - 1) \o SubSeq(q, i + 1, Len(q))

Init ==
  /\ reqs = << >>
  /\ queue = [q \in RequestQueue |-> << >>]
  /\ otherq = 0
  /\ pending = << >>
  /\ done = {}
  /\ write_mode = FALSE
  /\ banks = [b \in Bank |-> Closed]
  /\ next = [b \in Bank |-> [c \in BankCmd |-> 0]]
  /\ nextRank = [c \in RankCmd |-> 0]
  /\ rowtable = [b \in Bank |-> NoEntry]
  /\ budget = MaxBudget
  /\ faw_queue = << >>
  /\ serving = 0
  /\ fresh = TRUE
  /\ refreshes = 0

-----------------------------------------------------------------------------
(***************************************************************************)
(* enqueue.  The queue that takes the request first gives its sectors to   *)
(* the requests for the same row that are already in it.  A read of a      *)
(* block with a write in writeq is answered from there one cycle later.    *)
(***************************************************************************)
QueueOf(type) == IF type = "READ" THEN "readq" ELSE "writeq"

\* Stamps are ordered as the cycles of arrival are: requests accepted between
\* two cycles share one.
ArriveStamp ==
  IF reqs = << >> THEN 0
  ELSE reqs[Len(reqs)].arrive + (IF fresh THEN 1 ELSE 0)

\* Mutant of Accumulate: no request learns of the later ones.
AccumulateNothing(q, shape) == reqs

\* Mutant of Accumulate: the bits are assigned and not or-ed.
AccumulateOverwrite(q, shape) ==
  [r \in Accepted |->
     IF /\ r \in Elems(queue[q])
        /\ BankAt(r) = BankOf[shape.addr]
        /\ RowAt(r) = RowOf[shape.addr]
     THEN [reqs[r] EXCEPT !.acts = shape.sectors]
     ELSE reqs[r]]

\* sector_bits[4] of the requests after a request shape joins queue q
Accumulate(q, shape) ==
  [r \in Accepted |->
     IF /\ sectoredDRAM
        /\ r \in Elems(queue[q])
        /\ BankAt(r) = BankOf[shape.addr]
        /\ RowAt(r) = RowOf[shape.addr]
     THEN [reqs[r] EXCEPT !.acts = @ \cup shape.sectors]
     ELSE reqs[r]]

NewRequest(shape) ==
  [type |-> shape.type, addr |-> shape.addr, sectors |-> shape.sectors,
   acts |-> shape.sectors, arrive |-> ArriveStamp, is_first_command |-> TRUE]

WriteQueued(addr) == \E w \in Elems(queue["writeq"]) : reqs[w].addr = addr

Enqueue(shape) ==
  LET q  == QueueOf(shape.type)
      r  == Len(reqs) + 1
  IN
  /\ Len(reqs) < MaxReqs
  /\ Len(queue[q]) < QMax
  /\ reqs' = Append(Accumulate(q, shape), NewRequest(shape))
  /\ \/ /\ shape.type = "READ" /\ WriteQueued(shape.addr)
        /\ pending' = Append(pending, [req |-> r, left |-> 1])
        /\ UNCHANGED queue
     \/ /\ ~(shape.type = "READ" /\ WriteQueued(shape.addr))
        /\ queue' = [queue EXCEPT ![q] = Append(@, r)]
        /\ UNCHANGED pending
  /\ fresh' = FALSE
  /\ UNCHANGED <<otherq, done, write_mode, banks, next, nextRank, rowtable,
                 budget, faw_queue, serving, refreshes>>

-----------------------------------------------------------------------------
(***************************************************************************)
(* The part of a tick before scheduling.  The operators give the values    *)
(* the rest of the tick works with, after clk++.                           *)
(***************************************************************************)
\* 1. Only the head of pending is looked at, so at most one read is called
\*    back in a cycle.
\* Mutant of Serve: a read is called back in the cycle it departs in or never.
ServeOnTime == pending # << >> /\ pending[1].left = 1

Serve == pending # << >> /\ pending[1].left <= 1

PendingNow ==
  LET aged == [i \in 1..Len(pending) |->
                 [req |-> pending[i].req, left |-> Elapse(pending[i].left)]]
  IN  IF Serve THEN Tail(aged) ELSE aged

DoneNow == IF Serve THEN done \cup {pending[1].req} ELSE done

\* Mutant of ServingNow: forwarded reads are counted out too.
ServingNowForwarded == IF Serve THEN serving - 1 ELSE serving

\* depart - arrive > 1 tells the reads that went to DRAM from forwarded ones
ServingNow ==
  IF Serve /\ ~reqs[pending[1].req].is_first_command THEN serving - 1 ELSE serving

\* The tFAW window: at most one activate leaves it in a cycle.
FawAged ==
  [i \in 1..Len(faw_queue) |->
     [age |-> faw_queue[i].age + 1, sectors |-> faw_queue[i].sectors]]
\* Mutant of FawPop: an activate stays one cycle too long.
FawPopLate == faw_queue # << >> /\ FawAged[1].age > T.nFAW + 1

FawPop  == faw_queue # << >> /\ FawAged[1].age > T.nFAW
FawNow  == IF FawPop THEN Tail(FawAged) ELSE FawAged
\* Mutant of BudgetNow: an activate gives back one sector.
BudgetNowOne == IF FawPop THEN budget + 1 ELSE budget

BudgetNow == IF FawPop THEN budget + faw_queue[1].sectors ELSE budget

NextNow     == ElapseBanks(next)
NextRankNow == ElapseRank(nextRank)

\* 2. tick_ref: a refresh is injected (ref = 1) every nREFI cycles, at any
\*    phase against the traffic.
OtherNow(ref) == otherq + ref

Refresh(ref) ==
  /\ ref \in {0, 1}
  /\ refreshes + ref <= MaxRefresh
  /\ refreshes' = refreshes + ref

\* 3. write mode hysteresis
WriteModeNow ==
  IF write_mode
  THEN ~(Len(queue["writeq"]) < WrLow /\ queue["readq"] # << >>)
  ELSE Len(queue["writeq"]) > WrHigh \/ queue["readq"] = << >>

-----------------------------------------------------------------------------
(***************************************************************************)
(* Scheduler: the head of a queue under FRFCFS_Cap.  get_head keeps the    *)
(* earlier position on a tie.                                              *)
(***************************************************************************)
translate(r) == IF reqs[r].type = "READ" THEN "RD" ELSE "WR"

get_first_cmd(r) ==
  prereq(banks[BankAt(r)], translate(r), RowAt(r), reqs[r].sectors)

is_ready(r) == Elapse(next[BankAt(r)][get_first_cmd(r)]) = 0

get_hits(r) ==
  IF RowAt(r) \in rowtable[BankAt(r)].row THEN rowtable[BankAt(r)].hits ELSE 0

Preferred(r) == is_ready(r) /\ get_hits(r) <= cap

Before(q, i, j) ==
  IF Preferred(q[i]) # Preferred(q[j]) THEN Preferred(q[i])
  ELSE \/ reqs[q[i]].arrive < reqs[q[j]].arrive
       \/ reqs[q[i]].arrive = reqs[q[j]].arrive /\ i <= j

IsHead(q, i) == i \in 1..Len(q) /\ \A j \in 1..Len(q) : Before(q, i, j)

(***************************************************************************)
(* 4. The queue that schedules in this cycle: actq if its head is ready,   *)
(* else otherq if it is not empty, else readq or writeq.                   *)
(***************************************************************************)
ActqReady ==
  \E i \in 1..Len(queue["actq"]) :
     IsHead(queue["actq"], i) /\ is_ready(queue["actq"][i])

Scheduling(q, ref) ==
  IF ActqReady THEN q = "actq"
  ELSE IF OtherNow(ref) > 0 THEN q = "otherq"
  ELSE q = IF WriteModeNow THEN "writeq" ELSE "readq"

\* A command from another queue than actq may not close a row nobody has
\* read or written yet.
UselessClose(r) ==
  /\ is_closing(get_first_cmd(r))
  /\ rowtable[BankAt(r)].row # {}
  /\ rowtable[BankAt(r)].hits = 0

\* Request r at position i of q is the one this cycle works for.
Candidate(q, i, ref) ==
  /\ Scheduling(q, ref)
  /\ IsHead(queue[q], i)
  /\ is_ready(queue[q][i])
  /\ q # "actq" => ~UselessClose(queue[q][i])

RankCommand == prereqREF(banks)

RankCandidate(ref) ==
  Scheduling("otherq", ref) /\ Elapse(nextRank[RankCommand]) = 0

NoCandidate(ref) ==
  /\ ~RankCandidate(ref)
  /\ ~\E q \in RequestQueue : \E i \in 1..Len(queue[q]) : Candidate(q, i, ref)

count_activated_sectors(r) == IF sectoredDRAM THEN Cardinality(reqs[r].acts) ELSE 1

\* "we do not have enough budget, controller will remember this"
FawStall(r) ==
  get_first_cmd(r) = "ACT" /\ BudgetNow - count_activated_sectors(r) < 0

-----------------------------------------------------------------------------
(***************************************************************************)
(* Actions of a tick.  Each names what the cycle does with the command     *)
(* bus.  Elapsing is what all of them do before scheduling.                *)
(***************************************************************************)
Elapsing(ref) ==
  /\ Refresh(ref)
  /\ fresh' = TRUE

\* The parts of the state no command touches.
Housekeeping(ref) ==
  /\ Elapsing(ref)
  /\ otherq' = OtherNow(ref)
  /\ write_mode' = WriteModeNow

\* No budget is spent.
NoActivate ==
  /\ budget' = BudgetNow
  /\ faw_queue' = FawNow

\* No request starts, returns from DRAM or ends in this cycle but the one
\* called back.
NoProgress ==
  /\ pending' = PendingNow
  /\ done' = DoneNow
  /\ serving' = ServingNow

\* tick(false): the cycle ends before scheduling.
SkipScheduling(ref) ==
  /\ Elapsing(ref)
  /\ NoActivate
  /\ NoProgress
  /\ otherq' = OtherNow(ref)
  /\ next' = NextNow
  /\ nextRank' = NextRankNow
  /\ UNCHANGED <<reqs, queue, write_mode, banks, rowtable>>

\* No command is issued.
Idle(ref) ==
  /\ Housekeeping(ref)
  /\ NoActivate
  /\ NoProgress
  /\ next' = NextNow
  /\ nextRank' = NextRankNow
  /\ UNCHANGED <<reqs, queue, banks, rowtable>>

\* The first command for a request makes it one the channel is serving.
FirstCommand(r) == reqs' = [reqs EXCEPT ![r].is_first_command = FALSE]

ServingWith(r) == ServingNow + (IF reqs[r].is_first_command THEN 1 ELSE 0)

\* What command cmd to bank b does to the timing of the rank.
Timing(cmd, b) ==
  /\ next' = UpdateBanks(NextNow, cmd, b)
  /\ nextRank' = UpdateRank(NextRankNow, cmd)

\* ACT: the sectors accumulated in sector_bits[4] are opened and the request
\* moves to actq.  table.insert keeps an entry that is already there.
Activate(q, i, ref) ==
  LET r == queue[q][i]
      b == BankAt(r)
      rest == [queue EXCEPT ![q] = Without(@, i)]
  IN
  /\ get_first_cmd(r) = "ACT"
  /\ ~FawStall(r)
  /\ Housekeeping(ref)
  /\ FirstCommand(r)
  /\ queue' = [rest EXCEPT !["actq"] = Append(@, r)]
  /\ banks' = [banks EXCEPT ![b] =
                 Opened(RowAt(r), IF sectoredDRAM THEN reqs[r].acts ELSE {})]
  /\ rowtable' = [rowtable EXCEPT ![b] =
                    IF @.row = {} THEN [row |-> {RowAt(r)}, hits |-> 0] ELSE @]
  /\ Timing("ACT", b)
  /\ budget' = BudgetNow - count_activated_sectors(r)
  /\ faw_queue' = Append(FawNow, [age |-> 0, sectors |-> count_activated_sectors(r)])
  /\ pending' = PendingNow
  /\ done' = DoneNow
  /\ serving' = ServingWith(r)

\* PRE: the request stays where it is.
Precharge(q, i, ref) ==
  LET r == queue[q][i]
      b == BankAt(r)
  IN
  /\ get_first_cmd(r) = "PRE"
  /\ Housekeeping(ref)
  /\ NoActivate
  /\ FirstCommand(r)
  /\ banks' = [banks EXCEPT ![b] = Closed]
  /\ rowtable' = [rowtable EXCEPT ![b] = NoEntry]
  /\ Timing("PRE", b)
  /\ pending' = PendingNow
  /\ done' = DoneNow
  /\ serving' = ServingWith(r)
  /\ UNCHANGED queue

\* RowTable::update for an access to bank b.
RowHit(b) == [rowtable EXCEPT ![b].hits = @ + 1]

\* RD or WR: the last command of the request, which leaves its queue.  A read
\* comes back read_latency cycles later; a write is finished.
Access(q, i, ref) ==
  LET r == queue[q][i]
      b == BankAt(r)
  IN
  /\ is_accessing(get_first_cmd(r))
  /\ Housekeeping(ref)
  /\ NoActivate
  /\ FirstCommand(r)
  /\ queue' = [queue EXCEPT ![q] = Without(@, i)]
  /\ rowtable' = RowHit(b)
  /\ Timing(translate(r), b)
  /\ \/ /\ reqs[r].type = "READ"
        /\ pending' = Append(PendingNow, [req |-> r, left |-> read_latency])
        /\ done' = DoneNow
        /\ serving' = ServingWith(r)
     \/ /\ reqs[r].type = "WRITE"
        /\ pending' = PendingNow
        /\ done' = DoneNow \cup {r}
        /\ serving' = ServingWith(r) - 1
  /\ UNCHANGED banks

\* Mutant of RowsClosed: closing the rank leaves the table alone.
RowsKept == rowtable

\* RowTable::update for a command that closes every bank.
RowsClosed == [b \in Bank |-> NoEntry]

\* PREA: a refresh closes every bank of the rank first.  Its address names
\* no bank, so the guard against useless activates finds no entry for it.
PrechargeAll(ref) ==
  /\ RankCandidate(ref)
  /\ RankCommand = "PREA"
  /\ Housekeeping(ref)
  /\ NoActivate
  /\ NoProgress
  /\ banks' = [b \in Bank |-> Closed]
  /\ rowtable' = RowsClosed
  /\ next' = UpdateAllBanks(NextNow, "PREA")
  /\ nextRank' = UpdateRank(NextRankNow, "PREA")
  /\ UNCHANGED <<reqs, queue>>

\* REF: the refresh request is finished.
RefreshRank(ref) ==
  /\ RankCandidate(ref)
  /\ RankCommand = "REF"
  /\ Elapsing(ref)
  /\ NoActivate
  /\ NoProgress
  /\ otherq' = OtherNow(ref) - 1
  /\ write_mode' = WriteModeNow
  /\ next' = UpdateAllBanks(NextNow, "REF")
  /\ nextRank' = UpdateRank(NextRankNow, "REF")
  /\ UNCHANGED <<reqs, queue, banks, rowtable>>

\* A cycle that works for request queue[q][i].
Serving(q, i, ref) ==
  /\ Candidate(q, i, ref)
  /\ \/ FawStall(queue[q][i]) /\ Idle(ref)
     \/ Activate(q, i, ref)
     \/ Precharge(q, i, ref)
     \/ Access(q, i, ref)

\* tick(true), given ref refreshes that are due
Scheduled(ref) ==
  /\ TRUE \in CanSchedule
  /\ \/ NoCandidate(ref) /\ Idle(ref)
     \/ \E q \in RequestQueue : \E i \in 1..Len(queue[q]) : Serving(q, i, ref)
     \/ PrechargeAll(ref)
     \/ RefreshRank(ref)

Tick ==
  \E ref \in {0, 1} :
    \/ FALSE \in CanSchedule /\ SkipScheduling(ref)
    \/ Scheduled(ref)

Next ==
  \/ \E shape \in Shape : Enqueue(shape)
  \/ Tick

Spec == Init /\ [][Next]_vars

\* The simulation loop of Main.cpp ticks the memory forever, and with DGMS every
\* eighth tick of a controller schedules (Memory.h:315).
FairSpec == Spec /\ WF_vars(\E ref \in {0, 1} : Scheduled(ref))

-----------------------------------------------------------------------------
(***************************************************************************)
(* Properties.                                                             *)
(***************************************************************************)
RequestFields ==
  [type : {"READ", "WRITE"}, addr : Addr, sectors : SUBSET Sector,
   acts : SUBSET Sector, arrive : Nat, is_first_command : BOOLEAN]

PendingEntry == [req : Nat, left : Nat]

FawEntry == [age : Nat, sectors : Nat]

\* The types of the controller's state; reqs, the queues and pending hold only
\* requests that were accepted.
TypeOK ==
  /\ reqs \in Seq(RequestFields)
  /\ queue \in [RequestQueue -> Seq(Nat)]
  /\ \A q \in RequestQueue : \A i \in 1..Len(queue[q]) : queue[q][i] \in Accepted
  /\ otherq \in Nat
  /\ pending \in Seq(PendingEntry)
  /\ \A i \in 1..Len(pending) : pending[i].req \in Accepted
  /\ done \subseteq Accepted
  /\ write_mode \in BOOLEAN
  /\ banks \in [Bank -> BankState]
  /\ next \in [Bank -> [BankCmd -> Nat]]
  /\ nextRank \in [RankCmd -> Nat]
  /\ rowtable \in [Bank -> RowEntry]
  /\ budget \in Int
  /\ faw_queue \in Seq(FawEntry)
  /\ serving \in Int
  /\ fresh \in BOOLEAN
  /\ refreshes \in Nat

\* The places a request may be in before it is finished, and who is there.
PlaceOf(q, n) == {<<q, i>> : i \in 1..n}

Places ==
  PlaceOf("pending", Len(pending)) \cup UNION {PlaceOf(q, Len(queue[q])) : q \in RequestQueue}

Held(p) == IF p[1] = "pending" THEN pending[p[2]].req ELSE queue[p[1]][p[2]]

\* An accepted request is in exactly one of readq, writeq, actq, pending and
\* the finished ones: the copies between the lists (promotion to actq, the
\* push to pending, the forwarded read) neither lose nor duplicate it.  A read
\* in readq and a write in writeq, never the other way round.
NoRequestLost ==
  /\ \A p, o \in Places : Held(p) = Held(o) => p = o
  /\ done = Accepted \ {Held(p) : p \in Places}
  /\ \A r \in Elems(queue["readq"]) : reqs[r].type = "READ"
  /\ \A r \in Elems(queue["writeq"]) : reqs[r].type = "WRITE"

\* The row table, which is updated from the commands on its own, agrees with
\* the banks: what the assertions of RowTable::update (entry found, row equal,
\* an entry removed by every closing command) rely on.
RowTableMirrorsBanks ==
  \A b \in Bank :
     /\ rowtable[b].row = banks[b].row_state
     /\ banks[b].row_state = {} => rowtable[b].hits = 0

\* A row that is open and was not accessed since its activate still has the
\* request it was opened for, or another promoted one, waiting in actq with
\* all its sectors open.  The guard in tick keeps every other request from
\* closing such a row, so this is what keeps the guard from blocking a bank
\* for ever.
OpenerStillWaiting ==
  \A b \in Bank :
     banks[b].row_state # {} /\ rowtable[b].hits = 0 =>
        \E r \in Elems(queue["actq"]) :
           /\ BankAt(r) = b
           /\ RowAt(r) \in banks[b].row_state
           /\ SectorsOpen(banks[b], reqs[r].sectors)

\* sector_bits[4] of a request includes the sectors it asks for.
AccumulatesOwnSectors == \A r \in Accepted : reqs[r].sectors \subseteq reqs[r].acts

\* The inductive invariant behind the theorems of Controller_proofs.
BankInv == TypeOK /\ AccumulatesOwnSectors /\ RowTableMirrorsBanks /\ OpenerStillWaiting

\* cur_serving_requests counts the requests some command was issued for and
\* that are not finished; in particular it never goes below zero, which
\* update_serving_requests asserts.  Forwarded reads are never counted.
InService == {r \in Accepted : ~reqs[r].is_first_command /\ r \notin done}

ServingBalance == serving = Cardinality(InService)

\* The tFAW budget: what is left and the activates still in the window add up to
\* the whole budget, so none is lost or given back twice.
FawSum[i \in Nat] == IF i = 0 THEN 0 ELSE faw_queue[i].sectors + FawSum[i - 1]

FawBudgetBalance == budget + FawSum[Len(faw_queue)] = MaxBudget

\* The budget is never overdrawn, and although a cycle takes at most one
\* activate out of the window, none stays in it longer than nFAW cycles and
\* no two of them entered it in the same cycle.
FawWindow ==
  /\ budget >= 0
  /\ \A i \in 1..Len(faw_queue) : faw_queue[i].age <= T.nFAW
  /\ \A i, j \in 1..Len(faw_queue) : i < j => faw_queue[i].age > faw_queue[j].age

\* "try to make earlier requests open later requests' sectors too"
\* (Controller.h:547): an activate for a request in readq or writeq opens the
\* sectors of every request for that row waiting in the same queue, so none of
\* them will miss a sector because of it.
ActivateOpensQueuedSectors ==
  [][\A q \in {"readq", "writeq"} : \A i \in 1..Len(queue[q]) :
       LET r == queue[q][i] IN
       (Len(queue'["actq"]) > Len(queue["actq"]) /\ r \in Elems(queue'["actq"])) =>
          \A o \in Elems(queue[q]) :
             (BankAt(o) = BankAt(r) /\ RowAt(o) = RowAt(r)) =>
                SectorsOpen(banks'[BankAt(r)], reqs[o].sectors)]_vars

\* Every accepted request is finished: no read waits for ever and no write is
\* stuck, whatever refreshes, write mode, tFAW stalls and the guard against
\* useless activates do, once no further requests arrive.
EveryRequestFinishes ==
  \A r \in 1..MaxReqs : (r <= Len(reqs)) ~> (r \in done)

\* An injected refresh is issued, although actq has precedence over it.
RefreshIsIssued == (otherq > 0) ~> (otherq = 0)

=============================================================================
