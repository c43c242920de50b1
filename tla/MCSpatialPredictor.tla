-------------------------- MODULE MCSpatialPredictor --------------------------
(***************************************************************************)
(* A small instance of the spatial predictor: a table with two rows.       *)
(***************************************************************************)
EXTENDS SpatialPredictor, TLC

CONSTANTS s1, s2

MCSector == {s1, s2}

\* Instructions by what find_index and find_tag split: two that compete for row 0
\* and one of row 1 with tag 0.
MCInst    == {1, 2, 4}
MCIndex   == {0, 1}
MCIndexOf == [x \in MCInst |-> x % 2]
MCTag     == 0..2
MCTagOf   == [x \in MCInst |-> x \div 2]

\* x ^ b for the two blocks: the keys of the infinite table collide.
MCBlock == {0, 6}
MCKey   == 0..7
Xor6    == 1 :> 7 @@ 2 :> 4 @@ 4 :> 2
MCKeyOf == [p \in MCInst \X MCBlock |-> IF p[2] = 0 THEN p[1] ELSE Xor6[p[1]]]

SectorSymmetry == Permutations(MCSector)

Table(ways, win, none) ==
  [infinite_table |-> FALSE, ways |-> ways, window |-> win, untrained_policy_no_prediction |-> none]

MCConfigs ==
  { Table(1, 2, TRUE), Table(2, 2, FALSE), Table(3, 0, TRUE),
    [infinite_table |-> TRUE, ways |-> 1, window |-> 0, untrained_policy_no_prediction |-> FALSE] }

=============================================================================
