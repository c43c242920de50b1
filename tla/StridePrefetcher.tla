--------------------------- MODULE StridePrefetcher ---------------------------
(***************************************************************************)
(* The stride prefetcher of the shared cache (StridePrefetcher.h, .cpp).   *)
(* Each miss and hit there of a request that is not itself a prefetch      *)
(* trains the entry of its region; a trained entry sends prefetches back   *)
(* into the cache, which refuses them when it has no MSHR left.  One call  *)
(* of miss or hit is one step, with all the prefetches it sends.           *)
(*                                                                         *)
(* The two tables are allocated without being initialised, so before its   *)
(* first use an entry may seem valid and hold anything.                    *)
(***************************************************************************)
EXTENDS Integers

CONSTANTS
  num_entries,
  Modes,                  \* SINGLE_STRIDE is 0, any other mode follows two strides
  single_stride_threshold, multi_stride_threshold,
  stride_start_dist, stride_degree, stride_dist,
  Lines, RegionLines,     \* cache lines, lines of a region (1024)
  Garbage,                \* what uninitialised entries of both tables may hold
  MaxTrains               \* bound: calls of train

\* The members of the two structures
RegionFields == {"tag", "valid", "last_access"}

IndexFields ==
  {"trained", "train_count_mode", "num_states", "curr_state", "last_index", "stride", "s_cnt",
   "strans", "recnt", "count", "pref_count", "pref_curr_state", "pref_last_index", "pref_sent"}

ASSUME PrefetcherAssumption ==
  /\ {num_entries, RegionLines, single_stride_threshold, multi_stride_threshold,
      stride_degree, stride_dist} \subseteq Nat \ {0}
  /\ {stride_start_dist, MaxTrains} \subseteq Nat
  /\ Lines \subseteq Nat
  /\ \A g \in Garbage : DOMAIN g.region = RegionFields /\ DOMAIN g.index = IndexFields

\* The code does not see to this, and a configuration that does not set the threshold
\* leaves it 0 (Config.h:34), which trains entries with no stride at all; the ones that
\* set it have 2 or 4.
ASSUME ThresholdAssumption == single_stride_threshold > 1

VARIABLES
  mode,
  region_table, index_table,
  created,      \* history: entries made for a new region
  run,          \* history: per entry its last stride and how often it came in a row
  skipped,      \* history: per entry the prefetches refused since it was trained
  clk           \* the clock; two calls never share a cycle here, and it never goes
                \* past the 32 bits of last_access

vars == <<mode, region_table, index_table, created, run, skipped, clk>>

Entry == 1..num_entries

STRIDE_REGION(line) == line \div RegionLines

\* Mutant of Blank: the last line of the entry's former region stays.
BlankStale(line, old) ==
  [old EXCEPT !.trained = FALSE, !.train_count_mode = FALSE, !.num_states = 1, !.curr_state = 0,
              !.stride = <<0, 0>>, !.s_cnt = <<0, 0>>, !.strans = <<0, 0>>,
              !.recnt = 0, !.count = 0, !.pref_sent = 0]

\* What create_new_entry leaves; the fields for prefetching stay as they were, and
\* are written before they are used.
Blank(line, old) ==
  [old EXCEPT !.trained = FALSE, !.train_count_mode = FALSE, !.num_states = 1, !.curr_state = 0,
              !.last_index = line, !.stride = <<0, 0>>, !.s_cnt = <<0, 0>>, !.strans = <<0, 0>>,
              !.recnt = 0, !.count = 0, !.pref_sent = 0]

\* The state of an entry, 0 or 1, picks one of two strides, counts and transitions.
At(pair, state) == pair[state + 1]
Other(state) == 1 - state

Init ==
  /\ mode \in Modes
  /\ \E g \in [Entry -> Garbage] :
       /\ region_table = [n \in Entry |-> g[n].region]
       /\ index_table = [n \in Entry |-> g[n].index]
  /\ created = {}
  /\ run = [n \in Entry |-> [stride |-> 0, length |-> 0]]
  /\ skipped = [n \in Entry |-> 0]
  /\ clk = 0

-----------------------------------------------------------------------------
(***************************************************************************)
(* Training an entry e with a stride.                                      *)
(***************************************************************************)
\* Mutant of Learn: a new stride does not start a new count.
LearnCounting(e, stride) ==
  LET s == e.curr_state + 1
  IN  [e EXCEPT !.stride[s] = stride, !.s_cnt[s] = @ + 1]

\* Looking for strides: a stride in a row counts, another one starts again, or ends
\* the first of two strides, or the second: then the counts are to be confirmed.
Learn(e, stride) ==
  LET s    == e.curr_state + 1
      back == e.curr_state = 1
  IN  IF e.stride[s] = 0 \/ (e.stride[s] # stride /\ mode = 0)
      THEN [e EXCEPT !.stride[s] = stride, !.s_cnt[s] = 1]
      ELSE IF e.stride[s] = stride THEN [e EXCEPT !.s_cnt[s] = @ + 1]
      ELSE [e EXCEPT !.strans[s] = stride,
                     !.num_states = 2,
                     !.curr_state = Other(@),
                     !.train_count_mode = back,
                     !.count = IF back THEN 0 ELSE @,
                     !.recnt = IF back THEN 0 ELSE @]

Stays(e, stride) ==
  stride = At(e.stride, e.curr_state) /\ e.count < At(e.s_cnt, e.curr_state)

Turns(e, stride) ==
  stride = At(e.strans, e.curr_state) /\ e.count = At(e.s_cnt, e.curr_state)

\* Mutant of Follow: the count goes on at a transition.
FollowOn(e, stride) ==
  IF Stays(e, stride) THEN [e EXCEPT !.count = @ + 1]
  ELSE [e EXCEPT !.count = @ + 1, !.curr_state = Other(@)]

Follow(e, stride) ==
  IF Stays(e, stride) THEN [e EXCEPT !.count = @ + 1]
  ELSE [e EXCEPT !.count = 0, !.curr_state = Other(@)]

\* Confirming the counts of two strides
Confirm(e, stride, line) ==
  IF Stays(e, stride) \/ Turns(e, stride) THEN [Follow(e, stride) EXCEPT !.recnt = @ + 1]
  ELSE Blank(line, e)

\* The next line of the two strides is prefetched.
Ahead(e) ==
  IF e.pref_count = At(e.s_cnt, e.pref_curr_state)
  THEN [e EXCEPT !.pref_last_index = @ + At(e.strans, e.pref_curr_state),
                 !.pref_count = 0, !.pref_curr_state = Other(@)]
  ELSE [e EXCEPT !.pref_last_index = @ + At(e.stride, e.pref_curr_state),
                 !.pref_count = @ + 1]

AheadBy(e, n) ==
  LET ahead[i \in 0..n] == IF i = 0 THEN e ELSE Ahead(ahead[i - 1])
  IN  ahead[n]

\* A single stride was found in the current state; the first stride is used.
SingleTrained(e) ==
  IF At(e.s_cnt, e.curr_state) < single_stride_threshold THEN e
  ELSE [e EXCEPT !.trained = TRUE, !.num_states = 1, !.curr_state = 0,
                 !.pref_last_index = e.last_index + At(e.stride, 0) * stride_start_dist]

MultiTrained(e) ==
  IF e.recnt < multi_stride_threshold THEN e
  ELSE AheadBy([e EXCEPT !.trained = TRUE, !.pref_count = e.count,
                         !.pref_curr_state = e.curr_state, !.pref_last_index = e.last_index],
               stride_start_dist)

Untrained(e, stride, line) ==
  MultiTrained(SingleTrained(IF e.train_count_mode THEN Confirm(e, stride, line)
                             ELSE Learn(e, stride)))

-----------------------------------------------------------------------------
(***************************************************************************)
(* Prefetching with a trained entry e.                                     *)
(***************************************************************************)
\* Prefetches a call may send
Budget(e) ==
  LET left == stride_dist - e.pref_sent
  IN  IF left < 0 THEN 0 ELSE IF left < stride_degree THEN left ELSE stride_degree

\* Mutant of SendSingle: the refused line is counted as sent.
SendSingleCounted(e, n, refused) ==
  [e EXCEPT !.pref_last_index = @ + At(e.stride, 0) * n,
            !.pref_sent = @ + n + (IF refused THEN 1 ELSE 0)]

\* n prefetches are accepted.  With a single stride a refused line is passed over...
SendSingle(e, n, refused) ==
  [e EXCEPT !.pref_last_index = @ + At(e.stride, 0) * (n + (IF refused THEN 1 ELSE 0)),
            !.pref_sent = @ + n]

\* ... with two strides it is sent again next time.
SendMulti(e, n) == [AheadBy(e, n) EXCEPT !.pref_sent = @ + n]

Forgotten(e) == Blank(e.last_index, e)

Settled(e) == IF e.pref_sent > 0 THEN [e EXCEPT !.pref_sent = @ - 1] ELSE e

SingleMatch(e, stride) == e.num_states = 1 /\ stride = At(e.stride, 0)

Trained(e, stride, n, refused) ==
  IF SingleMatch(e, stride) THEN SendSingle(e, n, refused)
  ELSE IF Stays(e, stride) \/ Turns(e, stride) THEN SendMulti(Follow(e, stride), n)
  ELSE Forgotten(e)

-----------------------------------------------------------------------------
(***************************************************************************)
(* train                                                                   *)
(***************************************************************************)
Finds(n, line) == region_table[n].valid /\ region_table[n].tag = STRIDE_REGION(line)

Found(n, line) == Finds(n, line) /\ \A m \in Entry : m < n => ~Finds(m, line)

\* The first unused entry, else the first one with the latest access.
Victim(n) ==
  IF \E m \in Entry : ~region_table[m].valid
  THEN ~region_table[n].valid /\ \A m \in Entry : m < n => region_table[m].valid
  ELSE \A m \in Entry : /\ region_table[n].last_access >= region_table[m].last_access
                        /\ m < n => region_table[n].last_access > region_table[m].last_access

\* A hit creates no entry.
create_new_entry(line) ==
  /\ \A n \in Entry : ~Finds(n, line)
  /\ \E n \in Entry :
       /\ Victim(n)
       /\ region_table' =
            [region_table EXCEPT ![n] = [tag |-> STRIDE_REGION(line), valid |-> TRUE,
                                         last_access |-> clk]]
       /\ index_table' = [index_table EXCEPT ![n] = Blank(line, @)]
       /\ created' = created \cup {n}
       /\ run' = [run EXCEPT ![n] = [stride |-> 0, length |-> 0]]
       /\ skipped' = [skipped EXCEPT ![n] = 0]

\* What the history notes of a stride of entry n
Noted(n, stride) ==
  run' = [run EXCEPT ![n] =
            [stride |-> stride, length |-> IF @.stride = stride THEN @.length + 1 ELSE 1]]

train_entry(n, line) ==
  LET e      == [index_table[n] EXCEPT !.last_index = line]
      stride == line - index_table[n].last_index
  IN
  /\ Found(n, line)
  /\ region_table' = [region_table EXCEPT ![n].last_access = clk]
  /\ Noted(n, stride)
  /\ UNCHANGED created
  /\ \/ /\ ~e.trained
        /\ index_table' = [index_table EXCEPT ![n] = Untrained(e, stride, line)]
        /\ skipped' = [skipped EXCEPT ![n] = 0]
     \/ /\ e.trained
        /\ \E sent \in 0..Budget(Settled(e)) :
             LET refused == sent < Budget(Settled(e)) IN
             /\ index_table' = [index_table EXCEPT ![n] = Trained(Settled(e), stride, sent, refused)]
             /\ skipped' = [skipped EXCEPT ![n] =
                             IF refused /\ SingleMatch(e, stride) THEN @ + 1 ELSE @]

Tick == clk < MaxTrains /\ clk' = clk + 1 /\ UNCHANGED mode

miss(line) ==
  /\ Tick
  /\ create_new_entry(line) \/ \E n \in Entry : train_entry(n, line)

hit(line) ==
  /\ Tick
  /\ \/ \E n \in Entry : train_entry(n, line)
     \/ /\ \A n \in Entry : ~Finds(n, line)
        /\ UNCHANGED <<region_table, index_table, created, run, skipped>>

Next == \E line \in Lines : miss(line) \/ hit(line)

Spec == Init /\ [][Next]_vars

-----------------------------------------------------------------------------
(***************************************************************************)
(* Properties, of the entries that were created.                           *)
(***************************************************************************)
\* Both counts are compared with == only, so neither may ever pass the number of
\* strides it counts to: the entry would follow one stride for ever.
CountsMeet ==
  \A n \in created : LET e == index_table[n] IN
    e.train_count_mode =>
      /\ e.count <= At(e.s_cnt, e.curr_state)
      /\ e.trained => e.pref_count <= At(e.s_cnt, e.pref_curr_state)

\* In single stride mode an entry is trained by that many equal strides in a row,
\* none of them 0, and sends prefetches only while the stride goes on.
TrainedOnRun ==
  \A n \in created : LET e == index_table[n] IN
    mode = 0 /\ e.trained =>
      /\ At(e.stride, 0) # 0 /\ run[n].stride = At(e.stride, 0)
      /\ run[n].length >= single_stride_threshold

\* In single stride mode the last prefetch is ahead of the last access by at least
\* stride_start_dist - 1 strides and those under way, and by no more than
\* stride_start_dist, those under way and those that were refused: only
\* refusals let it run further ahead than stride_dist.
RunsAhead ==
  \A n \in created : LET e == index_table[n] IN
    mode = 0 /\ e.trained =>
      \E k \in (stride_start_dist - 1)..(stride_start_dist + skipped[n]) :
        e.pref_last_index = e.last_index + At(e.stride, 0) * (k + e.pref_sent)

\* The two tables agree on the region of an entry, however often it was made for
\* another one, so that every stride and transition it holds is shorter than a region:
\* a difference of longs that train keeps in an int (StridePrefetcher.cpp:65).
StridesFit ==
  \A n \in created : LET e == index_table[n] IN
    /\ STRIDE_REGION(e.last_index) = region_table[n].tag
    /\ \A s \in {0, 1} :
         {At(e.stride, s), At(e.strans, s)} \subseteq (1 - RegionLines)..(RegionLines - 1)

=============================================================================
