------------------------------ MODULE CachePort ------------------------------
(***************************************************************************)
(* What the cores rely on when the first cache of a core has accepted a    *)
(* read: every part of the block it asked for is owed to them until an     *)
(* answer for the block brings it.  Answers come for one block at a time,  *)
(* in any order, with any of its parts, also parts nobody asked for; and   *)
(* nothing stays owed for ever.  Cache implements this specification, and  *)
(* Processor is composed with it.                                          *)
(***************************************************************************)
CONSTANTS
  Block,   \* block addresses
  Part     \* what can be asked of a block

VARIABLE owed   \* pairs of a block and a part of it

Init == owed = {}

Accept(wanted) ==
  /\ wanted \subseteq Block \X Part
  /\ owed' = owed \cup wanted

Answer(b, parts) == owed' = owed \ ({b} \X parts)

Next ==
  \/ \E wanted \in SUBSET (Block \X Part) : Accept(wanted)
  \/ \E b \in Block, parts \in SUBSET Part : Answer(b, parts)

Spec == Init /\ [][Next]_owed

\* Everything owed is answered.
Answered == \A b \in Block, p \in Part : (<<b, p>> \in owed) ~> (<<b, p>> \notin owed)

=============================================================================
