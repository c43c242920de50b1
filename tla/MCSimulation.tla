---------------------------- MODULE MCSimulation ----------------------------
(***************************************************************************)
(* Small instances of the simulation: blocks of 4 bytes with 2 sectors.    *)
(***************************************************************************)
EXTENDS Simulation

OneCore  == {"core0"}

Line(bubbles, type, addr, size) ==
  [bubbles |-> bubbles, type |-> type, addr |-> addr, size |-> size]

\* Bubbles that fill the window and a read, a write, a line to ignore, a read that
\* crosses the end of the block, and a read that starts within a sector and ends
\* in the next one.
MixedLines ==
  << Line(2, "READ", 0, 2), Line(0, "WRITE", 6, 2), Line(9, "READ", 0, 5),
     Line(0, "READ", 2, 4), Line(1, "READ", 1, 2) >>

MCBlock == {0, 1}

\* Blocks stay where they are.
SameFrame == [k \in Core |-> [b \in MCBlock |-> b]]

=============================================================================
