------------------------------- MODULE MCMemory -------------------------------
(***************************************************************************)
(* Instance of Memory for TLC: two cores with two pages each share three   *)
(* frames, so the fourth page gets a used one; two channels with room for  *)
(* one request each.                                                       *)
(***************************************************************************)
EXTENDS Memory

CONSTANTS k1, k2

MCCore == {k1, k2}
MCPage == {0, 1}
MCChannelOf == [f \in Frame |-> f % Channels]
MCConfigs == {[DGMS |-> TRUE, translation |-> "None", sends |-> 2],
               [DGMS |-> FALSE, translation |-> "Random", sends |-> 1]}
=============================================================================
