----------------------------- MODULE Simulation -----------------------------
(***************************************************************************)
(* The main loop (run_cputrace of Main.cpp) around the processor and the   *)
(* memory: a warm-up until every core has issued its instructions, then    *)
(* the measured simulation until every core has reached its limit.  The    *)
(* two loops tick the processor cpu_tick times for every mem_tick ticks of *)
(* the memory, each in a way of its own.                                   *)
(***************************************************************************)
EXTENDS Processor

CONSTANTS cpu_tick, mem_tick, warmup_insts

ASSUME SimulationAssumption ==
  /\ {cpu_tick, mem_tick} \subseteq Nat \ {0}
  /\ warmup_insts \in 0..InstBound

VARIABLES
  phase,     \* "warmup", "run" or "ended"
  i,         \* the loop counter, modulo the period of the loop
  pc,        \* "proc" or "memory": the half of the iteration
  due,       \* calls of Memory::tick left in this iteration
  drift      \* history: cpu cycles of this loop times mem_tick, less memory
             \* cycles times cpu_tick

vars == <<core, dynamicOn, owed, phase, i, pc, due, drift>>

loop == <<phase, i, pc, due, drift>>

tick_mult == cpu_tick * mem_tick

Period == IF phase = "warmup" THEN cpu_tick ELSE tick_mult

\* Mutant of ProcDue: the two clocks are swapped.
ProcDueSwapped == phase = "warmup" \/ (i % tick_mult) % cpu_tick = 0

\* "When the CPU is ticked cpu_tick times, the memory controller should be
\* ticked mem_tick times"
ProcDue == phase = "warmup" \/ (i % tick_mult) % mem_tick = 0

\* Calls of Memory::tick in this iteration
MemoryDue ==
  IF phase = "warmup" THEN (IF i % cpu_tick = cpu_tick - 1 THEN mem_tick ELSE 0)
  ELSE IF (i % tick_mult) % cpu_tick = 0 THEN 1 ELSE 0

has_reached_limit == \A k \in Core : core[k].reached_limit

WarmingUp == \E k \in Core : core[k].cpu_inst < warmup_insts

Init ==
  /\ ProcInit
  /\ phase = IF warmup_insts = 0 THEN "run" ELSE "warmup"
  /\ i = 0 /\ pc = "proc" /\ due = 0 /\ drift = 0

\* The processor's half of an iteration.
TickProcessor(accepted) ==
  /\ phase # "ended" /\ pc = "proc" /\ ProcDue
  /\ ProcTick(accepted)
  /\ pc' = "memory" /\ due' = MemoryDue
  /\ drift' = drift + mem_tick
  /\ UNCHANGED <<phase, i>>

SkipProcessor ==
  /\ phase # "ended" /\ pc = "proc" /\ ~ProcDue
  /\ pc' = "memory" /\ due' = MemoryDue
  /\ UNCHANGED <<core, dynamicOn, owed, phase, i, drift>>

\* The measured simulation ends right after a tick of the processor.
Ends == phase = "run" /\ pc = "memory" /\ ProcDue
        /\ expected_limit_insts # 0 /\ has_reached_limit

End ==
  /\ Ends
  /\ phase' = "ended"
  /\ UNCHANGED <<core, dynamicOn, owed, i, pc, due, drift>>

\* Memory::tick, which may also switch sectoring.  Its answers are actions of
\* their own.
TickMemory ==
  /\ phase # "ended" /\ pc = "memory" /\ ~Ends /\ due > 0
  /\ due' = due - 1
  /\ drift' = drift - cpu_tick
  /\ \/ UNCHANGED pvars
     \/ \E on \in BOOLEAN : turnSectorDRAM(on)
  /\ UNCHANGED <<phase, i, pc>>

NextIteration ==
  /\ phase # "ended" /\ pc = "memory" /\ ~Ends /\ due = 0
  /\ phase = "warmup" => WarmingUp /\ ~has_reached_limit
  /\ i' = (i + 1) % Period
  /\ pc' = "proc"
  /\ UNCHANGED <<core, dynamicOn, owed, phase, due, drift>>

\* The warm-up is complete, or a core reached the end of its trace in it.
EndWarmup ==
  /\ phase = "warmup" /\ pc = "memory" /\ due = 0
  /\ ~WarmingUp \/ has_reached_limit
  /\ reset_stats
  /\ phase' = "run" /\ i' = 0 /\ pc' = "proc" /\ due' = 0 /\ drift' = 0

\* An answer: in CacheSystem::tick, which opens the processor's half, or in a tick
\* of the memory.  Never between two cores.
Receive(b, parts) ==
  /\ phase # "ended"
  /\ receive(b, parts)
  /\ UNCHANGED loop

Ended == phase = "ended" /\ UNCHANGED vars

Loop ==
  \/ \E accepted \in [Core -> BOOLEAN] : TickProcessor(accepted)
  \/ SkipProcessor \/ End \/ TickMemory \/ NextIteration \/ EndWarmup

Next ==
  \/ Loop
  \/ \E b \in Block, parts \in SUBSET Part : parts # {} /\ Receive(b, parts)
  \/ Ended

Spec == Init /\ [][Next]_vars

\* Whether the tick of the processor that comes next calls send for core k
Calls(k) ==
  /\ phase # "ended" /\ pc = "proc" /\ ProcDue
  /\ \E n \in 0..ipc :
       /\ Retires(core[k].window, n)
       /\ Sends([core[k] EXCEPT !.window = retire(@, n)])

Sending(k) == Calls(k) /\ \E accepted \in [Core -> BOOLEAN] : accepted[k] /\ TickProcessor(accepted)

\* A core whose access was refused sends it again in its next cycle, and the
\* caches accept it in the end: SF_vars(Sending(k)), Calls(k) being the states
\* that enable it.
Accepted(k) == []<>Calls(k) => []<><<Sending(k)>>_vars

FairSpec ==
  /\ Spec
  /\ WF_vars(Loop)
  /\ \A k \in Core : Accepted(k)
  /\ \A b \in Block, p \in Part : WF_vars(<<b, p>> \in owed /\ Receive(b, {p}))

-----------------------------------------------------------------------------
(***************************************************************************)
(* Properties.                                                             *)
(***************************************************************************)
\* The processor gets cpu_tick cycles for every mem_tick cycles of the memory in
\* both loops: neither ever runs ahead of the other by more than one period.
ClocksInStep == drift \in (-tick_mult)..tick_mult

\* The simulation ends, whatever the caches refuse and in whatever order answers
\* come, when there is a limit.
SimulationEnds == <>(phase = "ended")

=============================================================================
