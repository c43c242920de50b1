-------------------------- MODULE MCStridePrefetcher --------------------------
(***************************************************************************)
(* A small instance of the stride prefetcher: two entries for three        *)
(* regions, the lines of the first of which are accessed in any order.     *)
(***************************************************************************)
EXTENDS StridePrefetcher

MCLines == {0, 1, 2, 3, 8, 16}

Untouched ==
  [trained |-> FALSE, train_count_mode |-> FALSE, num_states |-> 1, curr_state |-> 0,
   last_index |-> 0, stride |-> <<0, 0>>, s_cnt |-> <<0, 0>>, strans |-> <<0, 0>>,
   recnt |-> 0, count |-> 0, pref_count |-> 0, pref_curr_state |-> 0,
   pref_last_index |-> 0, pref_sent |-> 0]

\* Memory that is zero, and memory that seems to be a trained entry of region 2.
MCGarbage ==
  { [region |-> [tag |-> 0, valid |-> FALSE, last_access |-> 0], index |-> Untouched],
    [region |-> [tag |-> 2, valid |-> TRUE, last_access |-> 3],
     index |-> [Untouched EXCEPT !.trained = TRUE, !.stride = <<7, 7>>]] }

=============================================================================
