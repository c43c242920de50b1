------------------------------- MODULE Window -------------------------------
(***************************************************************************)
(* The instruction window of a core (class Window of Processor.h,          *)
(* Processor.cpp): a ring of `depth` places, each with a ready flag, the   *)
(* block its instruction reads and the sectors it still misses.  A window  *)
(* is a record; the operators are the methods of the class.  What is in    *)
(* the places outside the load instructions from tail on is left over from *)
(* earlier ones.                                                           *)
(***************************************************************************)
EXTENDS Integers

CONSTANTS
  ipc,    \* instructions issued and retired in a cycle (4)
  depth   \* instructions in the window (128)

ASSUME WindowAssumption == {ipc, depth} \subseteq Nat \ {0}

\* The address of an instruction that does not access memory.
NoBlock == -1

Place == 0..(depth - 1)

EmptyWindow ==
  [ready_list  |-> [i \in Place |-> FALSE],
   addr_list   |-> [i \in Place |-> NoBlock],
   sector_list |-> [i \in Place |-> {}],
   head |-> 0, tail |-> 0, load |-> 0]

\* The place of the n-th oldest instruction, counted from 0.
PlaceOf(w, n) == (w.tail + n) % depth

Live(w) == {PlaceOf(w, n) : n \in 0..(w.load - 1)}

\* n instructions without memory access enter the window.
insertBubbles(w, n) ==
  LET new == {(w.head + i) % depth : i \in 0..(n - 1)}
  IN  [w EXCEPT !.ready_list  = [i \in Place |-> i \in new \/ @[i]],
                !.addr_list   = [i \in Place |-> IF i \in new THEN NoBlock ELSE @[i]],
                !.sector_list = [i \in Place |-> IF i \in new THEN {} ELSE @[i]],
                !.head = (@ + n) % depth,
                !.load = @ + n]

\* A read enters the window.
insertRead(w, block, sectors) ==
  [w EXCEPT !.ready_list[w.head] = FALSE,
            !.addr_list[w.head] = block,
            !.sector_list[w.head] = sectors,
            !.head = (@ + 1) % depth,
            !.load = @ + 1]

\* Mutant of Retires: the check of the oldest instruction is left out.
RetiresUnchecked(w, n) ==
  n \in 0..ipc /\ n <= w.load /\ (n = ipc \/ n = w.load)

\* A cycle retires the n oldest instructions: no more than ipc, and none that
\* is not ready or younger than one that is not.
Retires(w, n) ==
  /\ n \in 0..ipc /\ n <= w.load
  /\ \A i \in 0..(n - 1) : w.ready_list[PlaceOf(w, i)]
  /\ n = ipc \/ n = w.load \/ ~w.ready_list[PlaceOf(w, n)]

retire(w, n) == [w EXCEPT !.tail = (@ + n) % depth, !.load = @ - n]

\* Mutant of set_ready: a block with some of its sectors will do.
set_readyByBlock(w, block, sectors) ==
  LET woken == {i \in Live(w) : w.addr_list[i] = block}
  IN  [w EXCEPT !.ready_list = [i \in Place |-> i \in woken \/ @[i]]]

\* Mutant of set_ready: the search stops at the oldest instruction for the block.
set_readyOldest(w, block, sectors) ==
  LET mine == {i \in Live(w) : w.addr_list[i] = block}
      old  == {PlaceOf(w, n) : n \in {n \in 0..(w.load - 1) :
                 PlaceOf(w, n) \in mine /\ \A m \in 0..(n - 1) : PlaceOf(w, m) \notin mine}}
      left(i) == w.sector_list[i] \ sectors
  IN  [w EXCEPT !.sector_list = [i \in Place |-> IF i \in old THEN left(i) ELSE @[i]],
                !.ready_list  = [i \in Place |-> (i \in old /\ left(i) = {}) \/ @[i]]]

\* Sectors of a block have come: every instruction of the window that reads
\* the block gets those it misses, and one that misses none is ready.
set_ready(w, block, sectors) ==
  LET mine == {i \in Live(w) : w.addr_list[i] = block}
      left(i) == w.sector_list[i] \ sectors
  IN  [w EXCEPT !.sector_list = [i \in Place |-> IF i \in mine THEN left(i) ELSE @[i]],
                !.ready_list  = [i \in Place |-> (i \in mine /\ left(i) = {}) \/ @[i]]]

=============================================================================
