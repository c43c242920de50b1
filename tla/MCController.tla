---------------------------- MODULE MCController ----------------------------
(***************************************************************************)
(* Small instances of the controller.  Timing parameters are small numbers *)
(* in the order the DDR4_3200 row of speed_table has them in, so the same  *)
(* commands get ready before others.                                       *)
(***************************************************************************)
EXTENDS Controller

CONSTANTS b1, b2, s1, s2

MCBank   == {b1, b2}
MCRow    == {1, 2}
MCSector == {s1, s2}

\* Two blocks in row 1 and one in row 2 of bank b1, one block in bank b2.
MCAddr   == {"a1", "a1x", "a2", "z1"}
MCBankOf == [a \in MCAddr |-> IF a = "z1" THEN b2 ELSE b1]
MCRowOf  == [a \in MCAddr |-> IF a = "a2" THEN 2 ELSE 1]

MCSpeed ==
  [nBL |-> 1, nCL |-> 1, nCWL |-> 1, nRCD |-> 2, nRP |-> 1, nRAS |-> 4, nRC |-> 5,
   nRTP |-> 1, nWR |-> 1, nCCDS |-> 1, nCCDL |-> 2, nWTRS |-> 1, nWTRL |-> 1,
   nRRDS |-> 1, nRRDL |-> 1, nRFC |-> 2, nFAW |-> 4]

Read(a, S)  == [type |-> "READ", addr |-> a, sectors |-> S]
Write(a, S) == [type |-> "WRITE", addr |-> a, sectors |-> S]

\* Requests that hit, miss a sector, conflict in a bank and turn the bus around; a
\* block whose write holds one of the sectors a read of it asks for.
MixedShape ==
  {Read("a1", {s1}), Read("a1x", {s2}), Read("a2", {s1, s2}), Write("a2", {s2}),
   Read("z1", {s1})}

\* Two rows of one bank and writes against reads: the refresh, the write mode
\* and the tFAW budget all get in the way.
ConflictShape ==
  {Read("a1", {s1}), Read("a2", {s1, s2}), Write("a1", {s2}), Write("z1", {s1})}

=============================================================================
