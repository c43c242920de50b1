------------------------------- MODULE MCCache -------------------------------
(***************************************************************************)
(* Small instances of the cache hierarchy.                                 *)
(***************************************************************************)
EXTENDS Cache

CONSTANTS s1, s2

MCSector == {s1, s2}

\* One core: L1, L2 and L3 on top of each other.
OneCore   == {"core0"}
OneL1     == [k \in OneCore |-> "L1"]
OneCaches == <<"L1", "L2", "L3">>
OneLower  == [L1 |-> "L2", L2 |-> "L3", L3 |-> "memory"]
OneLevel  == [L1 |-> 0, L2 |-> 1, L3 |-> 2]

TwoWays == [c \in Caches |-> 2]

\* L1 is smaller than the caches below it.
SmallL1 == [c \in Caches |-> IF level[c] = 0 THEN 2 ELSE 3]

TwoMshrs == [c \in Caches |-> 2]

\* The lower caches run out of MSHRs first and L1 has to retry.
FewMshrsBelow == [c \in Caches |-> IF level[c] = 0 THEN 2 ELSE 1]

\* Two cores with L1 and L2 of their own that share L3.
TwoCores  == {"core0", "core1"}
TwoL1     == [core0 |-> "L1a", core1 |-> "L1b"]
TwoCaches == <<"L1a", "L1b", "L2a", "L2b", "L3">>
TwoLower  == [L1a |-> "L2a", L1b |-> "L2b", L2a |-> "L3", L2b |-> "L3", L3 |-> "memory"]
TwoLevel  == [L1a |-> 0, L1b |-> 0, L2a |-> 1, L2b |-> 1, L3 |-> 2]

Read(b, S, a)  == [type |-> "READ", block |-> b, sectors |-> S, actual |-> {a}]
Write(b, S, a) == [type |-> "WRITE", block |-> b, sectors |-> S, actual |-> {a}]

\* Reads of one and of two sectors and writes of a block, and two more blocks
\* that compete with it for the two ways.
MixedShape ==
  {Read(1, {s1}, s1), Read(1, {s1, s2}, s2), Write(1, {s1}, s1), Write(1, {s1, s2}, s2),
   Read(2, {s1}, s1), Read(3, {s1}, s1), Write(2, {s2}, s2)}

\* Reads of the sectors of a block, one by one and together, and of two more
\* blocks that drive it out of a small L1.
PredictedShape ==
  {Read(1, {s1}, s1), Read(1, {s2}, s2), Read(1, {s1, s2}, s1), Read(2, {s1, s2}, s1),
   Read(3, {s1, s2}, s1)}

\* One block that all cores read and write.
SharedShape == {Read(1, {s1}, s1), Read(1, {s1, s2}, s2), Write(1, {s1}, s1)}

NoPrediction == {{}}
FirstPredicted == {{}, {s1}}

=============================================================================
