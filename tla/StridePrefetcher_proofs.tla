----------------------- MODULE StridePrefetcher_proofs -----------------------
(***************************************************************************)
(* Proofs about StridePrefetcher, for tables of any size, any thresholds,  *)
(* distances and degree, and whatever uninitialised entries hold.          *)
(***************************************************************************)
EXTENDS StridePrefetcher, FiniteSetTheorems, WellFoundedInduction, TLAPS

LEMMA ConstantTypes ==
  /\ single_stride_threshold \in Nat /\ single_stride_threshold > 1
  /\ multi_stride_threshold \in Nat /\ multi_stride_threshold > 0
  /\ stride_start_dist \in Nat
  /\ stride_degree \in Nat /\ stride_degree > 0 /\ stride_dist \in Nat /\ stride_dist > 0
  /\ num_entries \in Nat
  /\ RegionLines \in Nat /\ RegionLines > 0
BY PrefetcherAssumption, ThresholdAssumption

\* Induction over the natural numbers, for a set.
LEMMA Induction ==
  ASSUME NEW S \in SUBSET Nat, 0 \in S, \A n \in S : n + 1 \in S
  PROVE  S = Nat
<1> SUFFICES ASSUME Nat \ S # {}
             PROVE  FALSE
  OBVIOUS
<1> DEFINE Upto == {0..n : n \in Nat \ S}
           R == StrictSubsetOrdering(Nat)
<1>1. IsWellFoundedOn(R, FiniteSubsetsOf(Nat))
  BY FS_StrictSubsetOrderingWellFounded
<1>2. Upto # {} /\ Upto \subseteq FiniteSubsetsOf(Nat)
  <2>1. \A n \in Nat \ S : n \in Int /\ 0..n \in SUBSET Nat /\ IsFiniteSet(0..n)
    BY FS_Interval
  <2>2. QED
    BY <2>1 DEF FiniteSubsetsOf
<1> HIDE DEF R
<1>3. PICK n \in Nat \ S : \A m \in Nat \ S : <<0..m, 0..n>> \notin R
  <2>1. \E x \in Upto : \A y \in Upto : ~(<<y, x>> \in R)
    BY <1>1, <1>2, WFMin
  <2>2. QED
    BY <2>1
<1>4. n # 0 /\ n - 1 \in Nat \ S
  BY <1>3
<1>5. 0..(n - 1) \subseteq 0..n /\ n \in 0..n /\ n \notin 0..(n - 1)
      /\ 0..(n - 1) \subseteq Nat /\ 0..n \subseteq Nat
  BY <1>4
<1>6. <<0..(n - 1), 0..n>> \in R
  BY <1>5 DEF R, StrictSubsetOrdering
<1>7. QED
  BY <1>3, <1>4, <1>6

-----------------------------------------------------------------------------
(***************************************************************************)
(* AheadBy.                                                                *)
(***************************************************************************)
AheadTo(f, e, n) == f = [i \in 0..n |-> IF i = 0 THEN e ELSE Ahead(f[i - 1])]

LEMMA AheadExists ==
  ASSUME NEW e, NEW n \in Nat
  PROVE  \E f : AheadTo(f, e, n)
<1> DEFINE Good == {m \in Nat : \E f : AheadTo(f, e, m)}
<1>1. 0 \in Good
  <2>1. AheadTo([i \in 0..0 |-> e], e, 0)
    BY DEF AheadTo
  <2>2. QED
    BY <2>1
<1>2. ASSUME NEW m \in Good
      PROVE  m + 1 \in Good
  <2>1. PICK g : AheadTo(g, e, m)
    OBVIOUS
  <2>2. m \in Nat
    OBVIOUS
  <2> DEFINE h == [i \in 0..(m + 1) |-> IF i = m + 1 THEN Ahead(g[m]) ELSE g[i]]
  <2>3. ASSUME NEW i \in 0..(m + 1)
        PROVE  h[i] = IF i = 0 THEN e ELSE Ahead(h[i - 1])
    <3>1. CASE i = m + 1
      BY <2>2, <3>1
    <3>2. CASE i # m + 1
      <4>1. i \in 0..m /\ (i # 0 => i - 1 \in 0..(m + 1) /\ i - 1 # m + 1)
        BY <2>2, <3>2
      <4>2. g[i] = IF i = 0 THEN e ELSE Ahead(g[i - 1])
        BY <2>1, <4>1 DEF AheadTo
      <4>3. QED
        BY <3>2, <4>1, <4>2
    <3>3. QED
      BY <3>1, <3>2
  <2>4. AheadTo(h, e, m + 1)
    <3>1. h = [i \in 0..(m + 1) |-> h[i]]
      OBVIOUS
    <3> HIDE DEF h
    <3>2. QED
      BY <2>3, <3>1 DEF AheadTo
  <2>5. m + 1 \in Nat
    BY <2>2
  <2>6. QED
    BY <2>4, <2>5
<1>3. Good = Nat
  <2>1. Good \in SUBSET Nat
    OBVIOUS
  <2> HIDE DEF Good
  <2>2. QED
    BY <1>1, <1>2, <2>1, Induction
<1>4. QED
  BY <1>3

-----------------------------------------------------------------------------
(***************************************************************************)
(* What holds of an entry that was created.                                *)
(***************************************************************************)
Typed(e) ==
  /\ DOMAIN e = IndexFields
  /\ e.num_states \in {1, 2} /\ e.curr_state \in {0, 1} /\ e.last_index \in Int
  /\ e.stride \in [1..2 -> Int] /\ e.strans \in [1..2 -> Int] /\ e.s_cnt \in [1..2 -> Nat]
  /\ e.recnt \in Nat /\ e.count \in Nat /\ e.pref_sent \in Nat

\* Counts that are followed do not pass the number of strides they count to...
Following(e) ==
  e.train_count_mode => e.count <= At(e.s_cnt, e.curr_state)

\* ... nor do those of the prefetches.
Prefetching(e) ==
  e.train_count_mode /\ e.trained =>
    /\ e.pref_count \in Nat /\ e.pref_curr_state \in {0, 1}
    /\ e.pref_count <= At(e.s_cnt, e.pref_curr_state)

\* An entry is trained as soon as one of its counts reaches the threshold, and repetitions
\* are counted only of two strides.
Unripe(e) ==
  /\ ~e.trained => \A s \in 1..2 : e.s_cnt[s] < single_stride_threshold
  /\ ~e.train_count_mode => e.recnt = 0

Counts(e) == Typed(e) /\ Following(e) /\ Prefetching(e) /\ Unripe(e)

\* In single stride mode there is one state, and the last strides were the one of the entry;
\* r is the run of strides that the history has noted.
Alone(e, r) ==
  /\ e.num_states = 1 /\ e.curr_state = 0 /\ ~e.train_count_mode /\ e.count = 0
  /\ r.length \in Nat
  /\ IF e.stride[1] = 0 THEN e.s_cnt[1] <= 1
     ELSE r.stride = e.stride[1] /\ e.s_cnt[1] <= r.length

Settles(e) == e.trained => e.s_cnt[1] >= single_stride_threshold

\* The last prefetch is k strides and those under way ahead of the last access; p is the
\* number of lines that were passed over.
AheadOf(e, p) ==
  \E k \in Int :
    /\ stride_start_dist - 1 <= k /\ k <= stride_start_dist + p
    /\ e.pref_sent = 0 => stride_start_dist <= k
    /\ e.pref_last_index = e.last_index + e.stride[1] * (k + e.pref_sent)

Distance(e, p) == IF e.trained THEN AheadOf(e, p) ELSE e.pref_sent = 0

Single(e, r, p) == Alone(e, r) /\ Settles(e) /\ p \in Nat /\ Distance(e, p)

\* What neither following two strides nor prefetching changes
Same(y, e) ==
  /\ DOMAIN y = IndexFields
  /\ y.trained = e.trained /\ y.train_count_mode = e.train_count_mode
  /\ y.num_states = e.num_states /\ y.last_index = e.last_index /\ y.pref_sent = e.pref_sent
  /\ y.stride = e.stride /\ y.strans = e.strans /\ y.s_cnt = e.s_cnt

\* y holds no stride or transition that e did not hold, but 0.
NoNewStride(y, e) ==
  /\ y.last_index = e.last_index
  /\ \A s \in 1..2 : y.stride[s] \in {e.stride[s], 0} /\ y.strans[s] \in {e.strans[s], 0}

-----------------------------------------------------------------------------
LEMMA Pairs ==
  /\ <<0, 0>> \in [1..2 -> Nat] /\ <<0, 0>> \in [1..2 -> Int]
  /\ <<0, 0>>[1] = 0 /\ \A s \in 1..2 : <<0, 0>>[s] = 0
OBVIOUS

LEMMA Blanked ==
  ASSUME NEW line \in Int, NEW old, DOMAIN old = IndexFields
  PROVE  LET e == Blank(line, old) IN
         /\ Counts(e) /\ ~e.trained /\ ~e.train_count_mode
         /\ e.num_states = 1 /\ e.curr_state = 0 /\ e.count = 0 /\ e.pref_sent = 0
         /\ e.stride = <<0, 0>> /\ e.strans = <<0, 0>> /\ e.s_cnt = <<0, 0>>
         /\ e.last_index = line
<1> DEFINE e == Blank(line, old)
<1>1. DOMAIN e = IndexFields
  BY DEF Blank
<1>2. /\ ~e.trained /\ ~e.train_count_mode
      /\ e.num_states = 1 /\ e.curr_state = 0 /\ e.last_index = line /\ e.stride = <<0, 0>>
      /\ e.s_cnt = <<0, 0>> /\ e.strans = <<0, 0>> /\ e.recnt = 0 /\ e.count = 0 /\ e.pref_sent = 0
  BY DEF Blank, IndexFields
<1> HIDE DEF e
<1>3. Typed(e)
  BY <1>1, <1>2, Pairs DEF Typed
<1>4. Following(e) /\ Prefetching(e)
  BY <1>2 DEF Following, Prefetching
<1>5. Unripe(e)
  BY <1>2, Pairs, ConstantTypes DEF Unripe
<1>6. Counts(e) /\ ~e.trained /\ ~e.train_count_mode
      /\ e.num_states = 1 /\ e.curr_state = 0 /\ e.count = 0 /\ e.pref_sent = 0
      /\ e.stride = <<0, 0>> /\ e.strans = <<0, 0>> /\ e.s_cnt = <<0, 0>> /\ e.last_index = line
  BY <1>2, <1>3, <1>4, <1>5 DEF Counts
<1>7. QED
  BY <1>6 DEF e

\* Whatever is not trained yet and might now be: all but the count of the current state is
\* below the threshold.
Ripening(e) ==
  /\ Typed(e) /\ ~e.trained /\ Following(e)
  /\ \A s \in 1..2 : s # e.curr_state + 1 => e.s_cnt[s] < single_stride_threshold
  /\ IF e.train_count_mode THEN \A s \in 1..2 : e.s_cnt[s] < single_stride_threshold
     ELSE e.recnt = 0

\* The two ways a stride counts
LEMMA Counted ==
  ASSUME NEW e, Counts(e), ~e.trained, ~e.train_count_mode, NEW y,
         DOMAIN y = IndexFields, ~y.trained, ~y.train_count_mode, y.num_states = e.num_states,
         y.last_index = e.last_index, y.pref_sent = e.pref_sent, y.strans = e.strans,
         y.curr_state = e.curr_state, y.recnt = e.recnt, y.count = e.count,
         y.stride \in [1..2 -> Int], y.s_cnt \in [1..2 -> Nat],
         \A i \in 1..2 : i # e.curr_state + 1 => y.s_cnt[i] = e.s_cnt[i]
  PROVE  Ripening(y)
<1>1. Typed(y)
  BY DEF Counts, Typed
<1>2. Following(y)
  BY DEF Following
<1>3. \A s \in 1..2 : e.s_cnt[s] < single_stride_threshold
  BY DEF Counts, Unripe
<1>4. e.recnt = 0
  BY DEF Counts, Unripe
<1>5. QED
  BY <1>1, <1>2, <1>3, <1>4 DEF Ripening

LEMMA Learnt ==
  ASSUME NEW e, Counts(e), ~e.trained, ~e.train_count_mode, NEW x \in Int
  PROVE  LET y == Learn(e, x) IN
         /\ Ripening(y) /\ y.last_index = e.last_index /\ y.pref_sent = e.pref_sent
<1> DEFINE s == e.curr_state + 1
           y == Learn(e, x)
<1>1. /\ Typed(e) /\ e.recnt = 0 /\ s \in 1..2 /\ Other(e.curr_state) \in {0, 1}
      /\ \A i \in 1..2 : e.s_cnt[i] < single_stride_threshold /\ e.s_cnt[i] \in Nat
  BY DEF Counts, Unripe, Typed, Other
<1>2. CASE e.stride[s] = 0 \/ (e.stride[s] # x /\ mode = 0)
  <2>1. y = [e EXCEPT !.stride[s] = x, !.s_cnt[s] = 1]
    BY <1>2 DEF Learn
  <2>2. /\ DOMAIN y = IndexFields /\ ~y.trained /\ ~y.train_count_mode
        /\ y.num_states = e.num_states /\ y.last_index = e.last_index /\ y.pref_sent = e.pref_sent
        /\ y.strans = e.strans /\ y.curr_state = e.curr_state /\ y.recnt = e.recnt
        /\ y.count = e.count
        /\ y.stride = [e.stride EXCEPT ![s] = x] /\ y.s_cnt = [e.s_cnt EXCEPT ![s] = 1]
    BY <1>1, <2>1 DEF Typed, IndexFields
  <2> HIDE DEF y
  <2>3. y.stride \in [1..2 -> Int] /\ y.s_cnt \in [1..2 -> Nat]
        /\ \A i \in 1..2 : i # e.curr_state + 1 => y.s_cnt[i] = e.s_cnt[i]
    BY <1>1, <2>2 DEF Typed
  <2>4. Ripening(y)
    BY <2>2, <2>3, Counted
  <2>5. QED
    BY <2>2, <2>4 DEF y
<1>3. CASE ~(e.stride[s] = 0 \/ (e.stride[s] # x /\ mode = 0)) /\ e.stride[s] = x
  <2>1. y = [e EXCEPT !.s_cnt[s] = @ + 1]
    BY <1>3 DEF Learn
  <2>2. /\ DOMAIN y = IndexFields /\ ~y.trained /\ ~y.train_count_mode
        /\ y.num_states = e.num_states /\ y.last_index = e.last_index /\ y.pref_sent = e.pref_sent
        /\ y.strans = e.strans /\ y.curr_state = e.curr_state /\ y.recnt = e.recnt
        /\ y.count = e.count
        /\ y.stride = e.stride /\ y.s_cnt = [e.s_cnt EXCEPT ![s] = @ + 1]
    BY <1>1, <2>1 DEF Typed, IndexFields
  <2> HIDE DEF y
  <2>3. y.stride \in [1..2 -> Int] /\ y.s_cnt \in [1..2 -> Nat]
        /\ \A i \in 1..2 : i # e.curr_state + 1 => y.s_cnt[i] = e.s_cnt[i]
    BY <1>1, <2>2 DEF Typed
  <2>4. Ripening(y)
    BY <2>2, <2>3, Counted
  <2>5. QED
    BY <2>2, <2>4 DEF y
<1>4. CASE ~(e.stride[s] = 0 \/ (e.stride[s] # x /\ mode = 0)) /\ e.stride[s] # x
  <2> DEFINE back == e.curr_state = 1
  <2>1. y = [e EXCEPT !.strans[s] = x, !.num_states = 2, !.curr_state = Other(@),
                      !.train_count_mode = back, !.count = IF back THEN 0 ELSE @,
                      !.recnt = IF back THEN 0 ELSE @]
    BY <1>4 DEF Learn
  <2>2. /\ DOMAIN y = IndexFields /\ y.strans = [e.strans EXCEPT ![s] = x]
        /\ y.num_states = 2 /\ y.curr_state = Other(e.curr_state) /\ (y.train_count_mode <=> back)
        /\ y.count = (IF back THEN 0 ELSE e.count) /\ y.recnt = 0
        /\ y.trained = e.trained /\ y.last_index = e.last_index /\ y.stride = e.stride
        /\ y.s_cnt = e.s_cnt /\ y.pref_sent = e.pref_sent
    BY <1>1, <2>1 DEF Typed, IndexFields
  <2> HIDE DEF y
  <2>3. Typed(y)
    BY <1>1, <2>2 DEF Typed
  <2>4. Following(y)
    <3>1. ASSUME back PROVE y.count = 0 /\ y.curr_state = 0
      BY <2>2, <3>1 DEF Other
    <3>2. e.s_cnt[1] >= 0
      BY <1>1
    <3>3. QED
      BY <2>2, <3>1, <3>2 DEF Following, At
  <2>5. Ripening(y)
    BY <1>1, <2>2, <2>3, <2>4 DEF Ripening
  <2>6. QED
    BY <2>2, <2>5 DEF y
<1>5. QED
  BY <1>2, <1>3, <1>4

\* Following a stride keeps the count in its bounds.
LEMMA Followed ==
  ASSUME NEW e, Typed(e), NEW x, Stays(e, x) \/ Turns(e, x)
  PROVE  LET y == Follow(e, x) IN
         /\ Typed(y) /\ Following(y) /\ Same(y, e) /\ y.recnt = e.recnt
         /\ y.pref_count = e.pref_count /\ y.pref_curr_state = e.pref_curr_state
<1> DEFINE y == Follow(e, x)
<1>1. Other(e.curr_state) \in {0, 1} /\ e.count \in Nat
      /\ \A c \in {0, 1} : At(e.s_cnt, c) \in Nat
  BY DEF Typed, Other, At
<1>2. CASE Stays(e, x)
  <2>1. y = [e EXCEPT !.count = @ + 1]
    BY <1>2 DEF Follow
  <2>2. /\ Same(y, e) /\ y.recnt = e.recnt /\ y.curr_state = e.curr_state
        /\ y.pref_count = e.pref_count /\ y.pref_curr_state = e.pref_curr_state
        /\ y.count = e.count + 1
    BY <2>1 DEF Typed, IndexFields, Same
  <2> HIDE DEF y
  <2>3. Typed(y)
    BY <1>1, <2>2 DEF Typed, Same
  <2>4. y.count <= At(y.s_cnt, y.curr_state)
    <3>1. e.count < At(e.s_cnt, e.curr_state)
      BY <1>2 DEF Stays
    <3>2. At(e.s_cnt, e.curr_state) \in Nat /\ y.s_cnt = e.s_cnt
      BY <1>1, <2>2 DEF Typed, Same
    <3>3. QED
      BY <1>1, <2>2, <3>1, <3>2
  <2>5. QED
    BY <2>2, <2>3, <2>4 DEF Following, y
<1>3. CASE ~Stays(e, x)
  <2>1. y = [e EXCEPT !.count = 0, !.curr_state = Other(@)]
    BY <1>3 DEF Follow
  <2>2. /\ Same(y, e) /\ y.recnt = e.recnt /\ y.curr_state = Other(e.curr_state)
        /\ y.pref_count = e.pref_count /\ y.pref_curr_state = e.pref_curr_state
        /\ y.count = 0
    BY <2>1 DEF Typed, IndexFields, Same
  <2> HIDE DEF y
  <2>3. Typed(y)
    BY <1>1, <2>2 DEF Typed, Same
  <2>4. y.count <= At(y.s_cnt, y.curr_state)
    BY <1>1, <2>2 DEF Same
  <2>5. QED
    BY <2>2, <2>3, <2>4 DEF Following, y
<1>4. QED
  BY <1>2, <1>3

LEMMA Confirmed ==
  ASSUME NEW e, Counts(e), ~e.trained, e.train_count_mode, NEW x, NEW line \in Int,
         e.last_index = line
  PROVE  LET y == Confirm(e, x, line) IN
         Ripening(y) /\ y.last_index = line /\ NoNewStride(y, e)
<1> DEFINE y == Confirm(e, x, line)
<1>1. Typed(e) /\ Following(e) /\ \A s \in 1..2 : e.s_cnt[s] < single_stride_threshold
  BY DEF Counts, Unripe
<1>2. CASE Stays(e, x) \/ Turns(e, x)
  <2> DEFINE z == Follow(e, x)
  <2>1. Typed(z) /\ Following(z) /\ Same(z, e)
    BY <1>1, <1>2, Followed
  <2>2. y = [z EXCEPT !.recnt = @ + 1]
    BY <1>2 DEF Confirm
  <2> HIDE DEF z
  <2>3. Same(y, z) /\ y.recnt = z.recnt + 1 /\ y.curr_state = z.curr_state /\ y.count = z.count
    <3>1. DOMAIN z = IndexFields
      BY <2>1 DEF Same
    <3>2. QED
      BY <2>2, <3>1 DEF IndexFields, Same
  <2> HIDE DEF y
  <2>4. Typed(y)
    BY <2>1, <2>3 DEF Typed, Same
  <2>5. Following(y)
    BY <2>1, <2>3 DEF Following, Same
  <2>6. y.s_cnt = e.s_cnt /\ ~y.trained /\ y.train_count_mode /\ y.last_index = line
    BY <2>1, <2>3 DEF Same
  <2>7. Ripening(y)
    BY <1>1, <2>4, <2>5, <2>6 DEF Ripening
  <2>8. NoNewStride(y, e)
    BY <2>1, <2>3 DEF NoNewStride, Same
  <2>9. QED
    BY <2>6, <2>7, <2>8 DEF y
<1>3. CASE ~(Stays(e, x) \/ Turns(e, x))
  <2>1. y = Blank(line, e) /\ DOMAIN e = IndexFields
    BY <1>1, <1>3 DEF Confirm, Typed
  <2>2. /\ Counts(y) /\ ~y.trained /\ ~y.train_count_mode /\ y.last_index = line
        /\ y.stride = <<0, 0>> /\ y.strans = <<0, 0>>
    BY <2>1, Blanked
  <2> HIDE DEF y
  <2>3. Ripening(y)
    BY <2>2 DEF Counts, Unripe, Ripening
  <2>4. NoNewStride(y, e)
    BY <2>2, Pairs DEF NoNewStride
  <2>5. QED
    BY <2>2, <2>3, <2>4 DEF y
<1>4. QED
  BY <1>2, <1>3

\* A single stride trains the entry before its count could go on.
LEMMA TrainedSingly ==
  ASSUME NEW e, Ripening(e)
  PROVE  LET y == SingleTrained(e) IN
         /\ Counts(y) /\ y.last_index = e.last_index
         /\ e.train_count_mode => ~y.trained
         /\ y.trained => y.recnt = 0
         /\ y.stride = e.stride /\ y.strans = e.strans
<1> DEFINE y == SingleTrained(e)
<1>1. Typed(e) /\ At(e.s_cnt, e.curr_state) \in Nat
  BY DEF Ripening, Typed, At
<1>2. CASE At(e.s_cnt, e.curr_state) < single_stride_threshold
  <2>1. y = e
    BY <1>2 DEF SingleTrained
  <2>2. \A s \in 1..2 : e.s_cnt[s] < single_stride_threshold
    BY <1>2 DEF Ripening, At
  <2>3. Counts(e)
    BY <2>2 DEF Ripening, Counts, Unripe, Prefetching
  <2>4. QED
    BY <2>1, <2>3 DEF Ripening
<1>3. CASE ~(At(e.s_cnt, e.curr_state) < single_stride_threshold)
  <2>1. ~e.train_count_mode /\ e.recnt = 0
    BY <1>1, <1>3 DEF Ripening, At, Typed
  <2>2. y = [e EXCEPT !.trained = TRUE, !.num_states = 1, !.curr_state = 0,
                      !.pref_last_index = e.last_index + At(e.stride, 0) * stride_start_dist]
    BY <1>3 DEF SingleTrained
  <2>3. /\ DOMAIN y = IndexFields /\ y.trained /\ y.num_states = 1 /\ y.curr_state = 0
        /\ y.train_count_mode = e.train_count_mode /\ y.last_index = e.last_index
        /\ y.pref_sent = e.pref_sent /\ y.stride = e.stride /\ y.strans = e.strans
        /\ y.s_cnt = e.s_cnt /\ y.recnt = e.recnt /\ y.count = e.count
    BY <1>1, <2>2 DEF Typed, IndexFields
  <2> HIDE DEF y
  <2>4. Typed(y)
    BY <1>1, <2>3 DEF Typed
  <2>5. Counts(y)
    BY <2>1, <2>3, <2>4 DEF Counts, Following, Prefetching, Unripe
  <2>6. QED
    BY <2>1, <2>3, <2>5 DEF y
<1>4. QED
  BY <1>2, <1>3

-----------------------------------------------------------------------------
\* The prefetches ahead of e
Onward(x, e) ==
  /\ Same(x, e) /\ x.curr_state = e.curr_state /\ x.recnt = e.recnt /\ x.count = e.count
  /\ Prefetching(x)

LEMMA AheadOnward ==
  ASSUME NEW e, Counts(e), NEW x, Onward(x, e)
  PROVE  Onward(Ahead(x), e)
<1> DEFINE y == Ahead(x)
           used == e.train_count_mode /\ e.trained
<1>1. /\ used => x.train_count_mode /\ x.trained
      /\ x.s_cnt = e.s_cnt /\ DOMAIN x = IndexFields
  BY DEF Onward, Same
<1>2. used =>
        /\ x.pref_count \in Nat /\ x.pref_curr_state \in {0, 1}
        /\ x.pref_count <= At(x.s_cnt, x.pref_curr_state)
  BY <1>1 DEF Onward, Prefetching
<1>3. \A c \in {0, 1} : At(e.s_cnt, c) \in Nat /\ Other(c) \in {0, 1}
  BY DEF Counts, Typed, At, Other
<1>4. CASE x.pref_count = At(x.s_cnt, x.pref_curr_state)
  <2>1. y = [x EXCEPT !.pref_last_index = @ + At(x.strans, x.pref_curr_state),
                      !.pref_count = 0, !.pref_curr_state = Other(@)]
    BY <1>4 DEF Ahead
  <2>2. /\ y.pref_count = 0 /\ y.pref_curr_state = Other(x.pref_curr_state)
        /\ Same(y, x) /\ y.curr_state = x.curr_state /\ y.recnt = x.recnt /\ y.count = x.count
    BY <1>1, <2>1 DEF IndexFields, Same
  <2> HIDE DEF y
  <2>3. Same(y, e) /\ y.curr_state = e.curr_state /\ y.recnt = e.recnt /\ y.count = e.count
    BY <2>2 DEF Onward, Same
  <2>4. y.s_cnt = e.s_cnt /\ (y.train_count_mode /\ y.trained => used)
    BY <2>3 DEF Same
  <2>5. Prefetching(y)
    BY <1>2, <1>3, <2>2, <2>4 DEF Prefetching
  <2>6. QED
    BY <2>3, <2>5 DEF Onward, y
<1>5. CASE x.pref_count # At(x.s_cnt, x.pref_curr_state)
  <2>1. y = [x EXCEPT !.pref_last_index = @ + At(x.stride, x.pref_curr_state),
                      !.pref_count = @ + 1]
    BY <1>5 DEF Ahead
  <2>2. /\ y.pref_count = x.pref_count + 1 /\ y.pref_curr_state = x.pref_curr_state
        /\ Same(y, x) /\ y.curr_state = x.curr_state /\ y.recnt = x.recnt /\ y.count = x.count
    BY <1>1, <2>1 DEF IndexFields, Same
  <2> HIDE DEF y
  <2>3. Same(y, e) /\ y.curr_state = e.curr_state /\ y.recnt = e.recnt /\ y.count = e.count
    BY <2>2 DEF Onward, Same
  <2>4. y.s_cnt = e.s_cnt /\ (y.train_count_mode /\ y.trained => used)
    BY <2>3 DEF Same
  <2>5. Prefetching(y)
    <3>1. used => At(e.s_cnt, x.pref_curr_state) \in Nat
      BY <1>2, <1>3
    <3>2. used => x.pref_count + 1 <= At(e.s_cnt, x.pref_curr_state)
      BY <1>1, <1>2, <1>5, <3>1
    <3>3. QED
      BY <1>2, <2>2, <2>4, <3>2 DEF Prefetching
  <2>6. QED
    BY <2>3, <2>5 DEF Onward, y
<1>6. QED
  BY <1>4, <1>5

\* Prefetches ahead change nothing but where they are.
LEMMA AheadKeeps ==
  ASSUME NEW e, Counts(e), NEW n \in Nat
  PROVE  LET y == AheadBy(e, n) IN Counts(y) /\ Onward(y, e)
<1> DEFINE f == CHOOSE g : AheadTo(g, e, n)
<1>1. AheadTo(f, e, n)
  BY AheadExists
<1>2. AheadBy(e, n) = f[n]
  BY DEF AheadBy, AheadTo
<1> HIDE DEF f
<1> DEFINE S == {i \in Nat : i <= n => Onward(f[i], e)}
<1>3. 0 \in S
  <2>1. f[0] = e
    BY <1>1 DEF AheadTo
  <2>2. Onward(e, e)
    BY DEF Counts, Typed, Onward, Same
  <2>3. QED
    BY <2>1, <2>2
<1>4. ASSUME NEW i \in S
      PROVE  i + 1 \in S
  <2>1. CASE i + 1 <= n
    <3>1. i \in Nat /\ i + 1 \in 0..n /\ i + 1 # 0 /\ (i + 1) - 1 = i /\ Onward(f[i], e)
      BY <2>1
    <3>2. f[i + 1] = Ahead(f[i])
      BY <1>1, <3>1 DEF AheadTo
    <3>3. Onward(Ahead(f[i]), e)
      BY <3>1, AheadOnward
    <3>4. QED
      BY <3>1, <3>2, <3>3
  <2>2. CASE ~(i + 1 <= n)
    BY <2>2
  <2>3. QED
    BY <2>1, <2>2
<1>5. S = Nat
  <2>1. S \in SUBSET Nat
    OBVIOUS
  <2> HIDE DEF S
  <2>2. QED
    BY <1>3, <1>4, <2>1, Induction
<1> DEFINE y == AheadBy(e, n)
<1>6. Onward(y, e)
  BY <1>2, <1>5
<1> HIDE DEF y
<1>7. Typed(y)
  BY <1>6 DEF Onward, Same, Counts, Typed
<1>8. Following(y) /\ Unripe(y)
  BY <1>6 DEF Onward, Same, Counts, Following, Unripe
<1>9. Counts(y) /\ Onward(y, e)
  BY <1>6, <1>7, <1>8 DEF Counts, Onward
<1>10. QED
  BY <1>9 DEF y

\* Nor do they change which fields there are.
LEMMA AheadFields ==
  ASSUME NEW e, DOMAIN e = IndexFields, NEW n \in Nat
  PROVE  DOMAIN AheadBy(e, n) = IndexFields
<1> DEFINE f == CHOOSE g : AheadTo(g, e, n)
<1>1. AheadTo(f, e, n)
  BY AheadExists
<1>2. AheadBy(e, n) = f[n]
  BY DEF AheadBy, AheadTo
<1> HIDE DEF f
<1> DEFINE S == {i \in Nat : i <= n => DOMAIN f[i] = IndexFields}
<1>3. 0 \in S
  BY <1>1 DEF AheadTo
<1>4. ASSUME NEW i \in S
      PROVE  i + 1 \in S
  <2>1. CASE i + 1 <= n
    <3>1. i \in Nat /\ i + 1 \in 0..n /\ i + 1 # 0 /\ (i + 1) - 1 = i /\ DOMAIN f[i] = IndexFields
      BY <2>1
    <3>2. f[i + 1] = Ahead(f[i])
      BY <1>1, <3>1 DEF AheadTo
    <3>3. DOMAIN Ahead(f[i]) = IndexFields
      BY <3>1 DEF Ahead
    <3>4. QED
      BY <3>1, <3>2, <3>3
  <2>2. CASE ~(i + 1 <= n)
    BY <2>2
  <2>3. QED
    BY <2>1, <2>2
<1>5. S = Nat
  <2>1. S \in SUBSET Nat
    OBVIOUS
  <2> HIDE DEF S
  <2>2. QED
    BY <1>3, <1>4, <2>1, Induction
<1>6. QED
  BY <1>2, <1>5

LEMMA TrainingFields ==
  ASSUME NEW e, DOMAIN e = IndexFields, NEW x, NEW line, NEW n \in Nat, NEW refused
  PROVE  /\ DOMAIN Untrained(e, x, line) = IndexFields
         /\ DOMAIN Trained(Settled(e), x, n, refused) = IndexFields
<1>1. ASSUME NEW d, DOMAIN d = IndexFields
      PROVE  /\ DOMAIN Follow(d, x) = IndexFields /\ DOMAIN Blank(line, d) = IndexFields
             /\ DOMAIN Learn(d, x) = IndexFields /\ DOMAIN SingleTrained(d) = IndexFields
             /\ DOMAIN Settled(d) = IndexFields /\ DOMAIN SendSingle(d, n, refused) = IndexFields
             /\ DOMAIN Forgotten(d) = IndexFields
  BY <1>1 DEF Follow, Blank, Learn, SingleTrained, Settled, SendSingle, Forgotten
<1>2. ASSUME NEW d, DOMAIN d = IndexFields
      PROVE  DOMAIN Confirm(d, x, line) = IndexFields
  BY <1>1, <1>2 DEF Confirm
<1>3. ASSUME NEW d, DOMAIN d = IndexFields
      PROVE  DOMAIN MultiTrained(d) = IndexFields
  <2> DEFINE z == [d EXCEPT !.trained = TRUE, !.pref_count = d.count,
                            !.pref_curr_state = d.curr_state, !.pref_last_index = d.last_index]
  <2>1. DOMAIN z = IndexFields
    BY <1>3
  <2>2. MultiTrained(d) = IF d.recnt < multi_stride_threshold THEN d
                          ELSE AheadBy(z, stride_start_dist)
    BY DEF MultiTrained
  <2> HIDE DEF z
  <2>3. DOMAIN AheadBy(z, stride_start_dist) = IndexFields
    BY <2>1, AheadFields, ConstantTypes
  <2>4. QED
    BY <1>3, <2>2, <2>3
<1>4. ASSUME NEW d, DOMAIN d = IndexFields
      PROVE  DOMAIN SendMulti(d, n) = IndexFields
  <2>1. DOMAIN AheadBy(d, n) = IndexFields
    BY <1>4, AheadFields
  <2>2. QED
    BY <2>1 DEF SendMulti
<1>5. DOMAIN Untrained(e, x, line) = IndexFields
  <2> DEFINE c == IF e.train_count_mode THEN Confirm(e, x, line) ELSE Learn(e, x)
  <2>1. DOMAIN c = IndexFields
    BY <1>1, <1>2
  <2>2. Untrained(e, x, line) = MultiTrained(SingleTrained(c))
    BY DEF Untrained
  <2> HIDE DEF c
  <2>3. DOMAIN SingleTrained(c) = IndexFields
    BY <1>1, <2>1
  <2>4. QED
    BY <1>3, <2>2, <2>3
<1>6. ASSUME NEW d, DOMAIN d = IndexFields
      PROVE  DOMAIN Trained(d, x, n, refused) = IndexFields
  <2>1. DOMAIN SendMulti(Follow(d, x), n) = IndexFields
    BY <1>1, <1>4, <1>6
  <2>2. DOMAIN SendSingle(d, n, refused) = IndexFields /\ DOMAIN Forgotten(d) = IndexFields
    BY <1>1, <1>6
  <2>3. QED
    BY <2>1, <2>2 DEF Trained
<1>7. QED
  BY <1>1, <1>5, <1>6

-----------------------------------------------------------------------------
(***************************************************************************)
(* The counts stay in their bounds.                                        *)
(***************************************************************************)
LEMMA TrainedDoubly ==
  ASSUME NEW e, Counts(e)
  PROVE  /\ Counts(MultiTrained(e)) /\ NoNewStride(MultiTrained(e), e)
         /\ ~e.train_count_mode => MultiTrained(e) = e
<1>1. CASE e.recnt < multi_stride_threshold
  BY <1>1 DEF MultiTrained, NoNewStride
<1>2. CASE ~(e.recnt < multi_stride_threshold)
  <2>1. e.train_count_mode
    BY <1>2, ConstantTypes DEF Counts, Unripe
  <2> DEFINE z == [e EXCEPT !.trained = TRUE, !.pref_count = e.count,
                            !.pref_curr_state = e.curr_state, !.pref_last_index = e.last_index]
  <2>2. MultiTrained(e) = AheadBy(z, stride_start_dist)
    BY <1>2 DEF MultiTrained
  <2>3. DOMAIN e = IndexFields
    BY DEF Counts, Typed
  <2>4. /\ DOMAIN z = IndexFields /\ z.trained /\ z.train_count_mode = e.train_count_mode
        /\ z.num_states = e.num_states /\ z.last_index = e.last_index
        /\ z.curr_state = e.curr_state
        /\ z.pref_sent = e.pref_sent /\ z.stride = e.stride /\ z.strans = e.strans
        /\ z.s_cnt = e.s_cnt /\ z.recnt = e.recnt /\ z.count = e.count
        /\ z.pref_count = e.count /\ z.pref_curr_state = e.curr_state
    BY <2>3 DEF IndexFields
  <2> HIDE DEF z
  <2>5. Typed(z)
    BY <2>4 DEF Counts, Typed
  <2>6. Following(z) /\ Prefetching(z)
    BY <2>1, <2>4 DEF Counts, Typed, Following, Prefetching
  <2>7. Unripe(z)
    BY <2>1, <2>4 DEF Unripe
  <2>8. Counts(z)
    BY <2>5, <2>6, <2>7 DEF Counts
  <2>9. Counts(AheadBy(z, stride_start_dist)) /\ Onward(AheadBy(z, stride_start_dist), z)
    BY <2>8, AheadKeeps, ConstantTypes
  <2>10. NoNewStride(AheadBy(z, stride_start_dist), e)
    BY <2>4, <2>9 DEF Onward, Same, NoNewStride
  <2>11. QED
    BY <2>1, <2>2, <2>9, <2>10
<1>3. QED
  BY <1>1, <1>2

LEMMA UntrainedCounts ==
  ASSUME NEW e, Counts(e), ~e.trained, NEW x \in Int, NEW line \in Int, e.last_index = line
  PROVE  Counts(Untrained(e, x, line))
<1> DEFINE c == IF e.train_count_mode THEN Confirm(e, x, line) ELSE Learn(e, x)
<1>1. Ripening(c)
  <2>1. CASE e.train_count_mode
    BY <2>1, Confirmed
  <2>2. CASE ~e.train_count_mode
    BY <2>2, Learnt
  <2>3. QED
    BY <2>1, <2>2
<1>2. Untrained(e, x, line) = MultiTrained(SingleTrained(c))
  BY DEF Untrained
<1> HIDE DEF c
<1>3. Counts(SingleTrained(c))
  BY <1>1, TrainedSingly
<1>4. QED
  BY <1>2, <1>3, TrainedDoubly

\* A new last index, and prefetches counted, leave the counts as they are.
LEMMA Placed ==
  ASSUME NEW e, Counts(e), NEW line \in Int
  PROVE  LET y == [e EXCEPT !.last_index = line] IN
         /\ Counts(y) /\ y.last_index = line /\ y.pref_sent = e.pref_sent /\ y.trained = e.trained
         /\ y.pref_last_index = e.pref_last_index /\ y.stride = e.stride /\ y.s_cnt = e.s_cnt
         /\ y.num_states = e.num_states /\ y.curr_state = e.curr_state /\ y.count = e.count
         /\ y.train_count_mode = e.train_count_mode /\ y.strans = e.strans
<1> DEFINE y == [e EXCEPT !.last_index = line]
<1>1. DOMAIN e = IndexFields
  BY DEF Counts, Typed
<1>2. /\ DOMAIN y = IndexFields /\ y.last_index = line
      /\ y.trained = e.trained /\ y.train_count_mode = e.train_count_mode
      /\ y.num_states = e.num_states /\ y.curr_state = e.curr_state /\ y.pref_sent = e.pref_sent
      /\ y.stride = e.stride /\ y.strans = e.strans /\ y.s_cnt = e.s_cnt
      /\ y.recnt = e.recnt /\ y.count = e.count /\ y.pref_last_index = e.pref_last_index
      /\ y.pref_count = e.pref_count /\ y.pref_curr_state = e.pref_curr_state
  BY <1>1 DEF IndexFields
<1> HIDE DEF y
<1>3. Typed(y)
  BY <1>2 DEF Counts, Typed
<1>4. Following(y) /\ Prefetching(y)
  BY <1>2 DEF Counts, Following, Prefetching
<1>5. Unripe(y)
  BY <1>2 DEF Counts, Unripe
<1>6. Counts(y)
  BY <1>3, <1>4, <1>5 DEF Counts
<1>7. QED
  BY <1>2, <1>6 DEF y

LEMMA Sent ==
  ASSUME NEW e, Counts(e), NEW y, DOMAIN y = IndexFields, y.pref_sent \in Nat,
         y.trained = e.trained, y.train_count_mode = e.train_count_mode,
         y.num_states = e.num_states, y.last_index = e.last_index,
         y.stride = e.stride, y.strans = e.strans, y.s_cnt = e.s_cnt,
         y.recnt = e.recnt, y.count = e.count, y.curr_state = e.curr_state,
         Prefetching(y)
  PROVE  Counts(y)
<1>1. Typed(y)
  BY DEF Counts, Typed
<1>2. Following(y)
  BY DEF Counts, Following
<1>3. Unripe(y)
  BY DEF Counts, Unripe
<1>4. QED
  BY <1>1, <1>2, <1>3 DEF Counts

LEMMA SettledCounts ==
  ASSUME NEW e, Counts(e)
  PROVE  LET y == Settled(e) IN
         /\ Counts(y) /\ y.trained = e.trained /\ y.last_index = e.last_index
         /\ y.pref_last_index = e.pref_last_index /\ y.stride = e.stride /\ y.s_cnt = e.s_cnt
         /\ y.num_states = e.num_states /\ y.curr_state = e.curr_state /\ y.count = e.count
         /\ y.train_count_mode = e.train_count_mode /\ y.strans = e.strans
         /\ y.pref_sent = IF e.pref_sent > 0 THEN e.pref_sent - 1 ELSE 0
<1> DEFINE y == Settled(e)
<1>1. DOMAIN e = IndexFields /\ e.pref_sent \in Nat
  BY DEF Counts, Typed
<1>2. CASE e.pref_sent > 0
  <2>1. y = [e EXCEPT !.pref_sent = @ - 1]
    BY <1>2 DEF Settled
  <2>2. /\ DOMAIN y = IndexFields /\ y.pref_sent = e.pref_sent - 1
        /\ y.trained = e.trained /\ y.train_count_mode = e.train_count_mode
        /\ y.num_states = e.num_states /\ y.last_index = e.last_index
        /\ y.stride = e.stride /\ y.strans = e.strans /\ y.s_cnt = e.s_cnt
        /\ y.recnt = e.recnt /\ y.count = e.count /\ y.pref_last_index = e.pref_last_index
        /\ y.curr_state = e.curr_state
        /\ y.pref_count = e.pref_count /\ y.pref_curr_state = e.pref_curr_state
    BY <1>1, <2>1 DEF IndexFields
  <2> HIDE DEF y
  <2>3. Prefetching(y)
    BY <2>2 DEF Counts, Prefetching
  <2>4. y.pref_sent \in Nat
    BY <1>1, <1>2, <2>2
  <2>5. Counts(y)
    BY <2>2, <2>3, <2>4, Sent
  <2>6. QED
    BY <1>2, <2>2, <2>5 DEF y
<1>3. CASE ~(e.pref_sent > 0)
  BY <1>1, <1>3 DEF Settled
<1>4. QED
  BY <1>2, <1>3

LEMMA TrainedCounts ==
  ASSUME NEW e, Counts(e), NEW x, NEW n \in Nat, NEW refused
  PROVE  Counts(Trained(e, x, n, refused)) /\ NoNewStride(Trained(e, x, n, refused), e)
<1>1. CASE SingleMatch(e, x)
  <2> DEFINE y == SendSingle(e, n, refused)
  <2>1. DOMAIN e = IndexFields /\ e.pref_sent \in Nat
    BY DEF Counts, Typed
  <2>2. /\ DOMAIN y = IndexFields /\ y.pref_sent = e.pref_sent + n
        /\ y.trained = e.trained /\ y.train_count_mode = e.train_count_mode
        /\ y.num_states = e.num_states /\ y.last_index = e.last_index
        /\ y.stride = e.stride /\ y.strans = e.strans /\ y.s_cnt = e.s_cnt
        /\ y.recnt = e.recnt /\ y.count = e.count /\ y.curr_state = e.curr_state
        /\ y.pref_count = e.pref_count /\ y.pref_curr_state = e.pref_curr_state
    BY <2>1 DEF IndexFields, SendSingle
  <2> HIDE DEF y
  <2>3. Prefetching(y)
    BY <2>2 DEF Counts, Prefetching
  <2>4. y.pref_sent \in Nat
    BY <2>1, <2>2
  <2>5. Counts(y) /\ NoNewStride(y, e)
    BY <2>2, <2>3, <2>4, Sent DEF NoNewStride
  <2>6. QED
    BY <1>1, <2>5 DEF y, Trained
<1>2. CASE ~SingleMatch(e, x) /\ (Stays(e, x) \/ Turns(e, x))
  <2> DEFINE z == Follow(e, x)
             a == AheadBy(z, n)
             y == [a EXCEPT !.pref_sent = @ + n]
  <2>1. /\ Typed(z) /\ Following(z) /\ Same(z, e) /\ z.recnt = e.recnt
        /\ z.pref_count = e.pref_count /\ z.pref_curr_state = e.pref_curr_state
    BY <1>2, Followed DEF Counts
  <2>2. Trained(e, x, n, refused) = y
    BY <1>2 DEF Trained, SendMulti
  <2> HIDE DEF z
  <2>3. Prefetching(z)
    BY <2>1 DEF Counts, Prefetching, Same
  <2>4. Unripe(z)
    BY <2>1 DEF Counts, Unripe, Same
  <2>5. Counts(z)
    BY <2>1, <2>3, <2>4 DEF Counts
  <2>6. Counts(a) /\ Onward(a, z)
    BY <2>5, AheadKeeps
  <2> HIDE DEF a
  <2>7. DOMAIN a = IndexFields /\ a.pref_sent \in Nat
    BY <2>6 DEF Counts, Typed
  <2>8. /\ DOMAIN y = IndexFields /\ y.pref_sent = a.pref_sent + n
        /\ y.trained = a.trained /\ y.train_count_mode = a.train_count_mode
        /\ y.num_states = a.num_states /\ y.last_index = a.last_index
        /\ y.stride = a.stride /\ y.strans = a.strans /\ y.s_cnt = a.s_cnt
        /\ y.recnt = a.recnt /\ y.count = a.count /\ y.curr_state = a.curr_state
        /\ y.pref_count = a.pref_count /\ y.pref_curr_state = a.pref_curr_state
    BY <2>7 DEF IndexFields
  <2> HIDE DEF y
  <2>9. Prefetching(y)
    BY <2>6, <2>8 DEF Counts, Prefetching
  <2>10. y.pref_sent \in Nat
    BY <2>7, <2>8
  <2>11. Counts(y)
    BY <2>6, <2>8, <2>9, <2>10, Sent
  <2>12. NoNewStride(y, e)
    BY <2>1, <2>6, <2>8 DEF Onward, Same, NoNewStride
  <2>13. QED
    BY <2>2, <2>11, <2>12
<1>3. CASE ~SingleMatch(e, x) /\ ~(Stays(e, x) \/ Turns(e, x))
  <2>1. Trained(e, x, n, refused) = Blank(e.last_index, e)
    BY <1>3 DEF Trained, Forgotten
  <2>2. DOMAIN e = IndexFields /\ e.last_index \in Int
    BY DEF Counts, Typed
  <2> DEFINE y == Blank(e.last_index, e)
  <2>3. /\ Counts(y) /\ y.last_index = e.last_index
        /\ y.stride = <<0, 0>> /\ y.strans = <<0, 0>>
    BY <2>2, Blanked
  <2> HIDE DEF y
  <2>4. Counts(y) /\ NoNewStride(y, e)
    BY <2>3, Pairs DEF NoNewStride
  <2>5. QED
    BY <2>1, <2>4 DEF y
<1>4. QED
  BY <1>1, <1>2, <1>3

-----------------------------------------------------------------------------
(***************************************************************************)
(* Single stride mode.  x is the stride of this call, r the run before it. *)
(***************************************************************************)
Longer(r, x) == [stride |-> x, length |-> IF r.stride = x THEN r.length + 1 ELSE 1]

LEMMA BlankedSingle ==
  ASSUME NEW line \in Int, NEW old, DOMAIN old = IndexFields, NEW r, r.length \in Nat,
         NEW p \in Nat
  PROVE  Single(Blank(line, old), r, p)
<1> DEFINE e == Blank(line, old)
<1>1. /\ Counts(e) /\ ~e.trained /\ ~e.train_count_mode
      /\ e.num_states = 1 /\ e.curr_state = 0 /\ e.count = 0 /\ e.pref_sent = 0
      /\ e.stride = <<0, 0>> /\ e.s_cnt = <<0, 0>> /\ e.last_index = line
  BY Blanked
<1> HIDE DEF e
<1>2. Alone(e, r)
  BY <1>1, Pairs DEF Alone
<1>3. Settles(e) /\ Distance(e, p)
  BY <1>1 DEF Settles, Distance
<1>4. QED
  BY <1>2, <1>3 DEF Single, e

LEMMA LearntSingle ==
  ASSUME NEW e, Counts(e), ~e.trained, NEW r, Alone(e, r), NEW x \in Int, mode = 0
  PROVE  LET y == Learn(e, x) IN
         /\ Alone(y, Longer(r, x))
         /\ y.s_cnt[1] >= single_stride_threshold => y.stride[1] # 0
<1> DEFINE y == Learn(e, x)
           q == Longer(r, x)
<1>1. /\ DOMAIN e = IndexFields /\ e.stride \in [1..2 -> Int] /\ e.s_cnt \in [1..2 -> Nat]
      /\ e.curr_state + 1 = 1 /\ r.length \in Nat
  BY DEF Counts, Typed, Alone
<1>2. q.stride = x /\ q.length = (IF r.stride = x THEN r.length + 1 ELSE 1)
  BY DEF Longer
<1> HIDE DEF q
<1>3. q.length \in Nat /\ q.length >= 1
  BY <1>1, <1>2
<1>4. CASE e.stride[1] = 0 \/ e.stride[1] # x
  <2>1. y = [e EXCEPT !.stride[1] = x, !.s_cnt[1] = 1]
    BY <1>1, <1>4 DEF Learn
  <2>2. /\ ~y.train_count_mode /\ y.num_states = 1 /\ y.curr_state = 0 /\ y.count = 0
        /\ y.stride[1] = x /\ y.s_cnt[1] = 1
    BY <1>1, <2>1 DEF IndexFields, Alone
  <2> HIDE DEF y
  <2>3. Alone(y, q)
    BY <1>2, <1>3, <2>2 DEF Alone
  <2>4. ~(y.s_cnt[1] >= single_stride_threshold)
    BY <2>2, ConstantTypes
  <2>5. QED
    BY <2>3, <2>4 DEF y, q
<1>5. CASE e.stride[1] # 0 /\ e.stride[1] = x
  <2>1. y = [e EXCEPT !.s_cnt[1] = @ + 1]
    BY <1>1, <1>5 DEF Learn
  <2>2. /\ ~y.train_count_mode /\ y.num_states = 1 /\ y.curr_state = 0 /\ y.count = 0
        /\ y.stride[1] = x /\ y.s_cnt[1] = e.s_cnt[1] + 1
    BY <1>1, <1>5, <2>1 DEF IndexFields, Alone
  <2> HIDE DEF y
  <2>3. r.stride = x /\ e.s_cnt[1] <= r.length /\ e.s_cnt[1] \in Nat
    BY <1>1, <1>5 DEF Alone
  <2>4. Alone(y, q)
    BY <1>1, <1>2, <1>3, <1>5, <2>2, <2>3 DEF Alone
  <2>5. QED
    BY <1>5, <2>2, <2>4 DEF y, q
<1>6. QED
  BY <1>4, <1>5

LEMMA UntrainedSingle ==
  ASSUME NEW e, Counts(e), ~e.trained, NEW r, Alone(e, r), e.pref_sent = 0,
         NEW x \in Int, NEW line \in Int, e.last_index = line, mode = 0
  PROVE  Single(Untrained(e, x, line), Longer(r, x), 0)
<1> DEFINE c == Learn(e, x)
           y == SingleTrained(c)
           q == Longer(r, x)
<1>1. ~e.train_count_mode
  BY DEF Alone
<1>2. Ripening(c) /\ c.last_index = e.last_index /\ c.pref_sent = e.pref_sent
  BY <1>1, Learnt
<1>3. Alone(c, q) /\ (c.s_cnt[1] >= single_stride_threshold => c.stride[1] # 0)
  BY LearntSingle
<1>4. Untrained(e, x, line) = MultiTrained(y)
  BY <1>1 DEF Untrained
<1> HIDE DEF c, q
<1>5. DOMAIN c = IndexFields /\ ~c.trained /\ c.last_index \in Int /\ c.stride[1] \in Int
      /\ c.s_cnt[1] \in Nat
  BY <1>2 DEF Ripening, Typed
<1>6. At(c.s_cnt, c.curr_state) = c.s_cnt[1] /\ At(c.stride, 0) = c.stride[1]
  BY <1>3 DEF Alone, At
<1>7. Counts(y)
  BY <1>2, TrainedSingly
<1>8. ~y.train_count_mode /\ Single(y, q, 0)
  <2>1. CASE c.s_cnt[1] < single_stride_threshold
    <3>1. y = c
      BY <1>6, <2>1 DEF SingleTrained
    <3> HIDE DEF y
    <3>2. Settles(y) /\ Distance(y, 0)
      BY <1>2, <1>5, <3>1 DEF Settles, Distance
    <3>3. QED
      BY <1>3, <3>1, <3>2 DEF Single, Alone
  <2>2. CASE ~(c.s_cnt[1] < single_stride_threshold)
    <3>1. y = [c EXCEPT !.trained = TRUE, !.num_states = 1, !.curr_state = 0,
                        !.pref_last_index = c.last_index + c.stride[1] * stride_start_dist]
      BY <1>6, <2>2 DEF SingleTrained
    <3>2. /\ y.trained /\ y.train_count_mode = c.train_count_mode /\ y.num_states = 1
          /\ y.curr_state = 0 /\ y.count = c.count /\ y.stride = c.stride /\ y.s_cnt = c.s_cnt
          /\ y.pref_sent = 0 /\ y.last_index = c.last_index
          /\ y.pref_last_index = c.last_index + c.stride[1] * stride_start_dist
      BY <1>2, <1>5, <3>1 DEF IndexFields
    <3> HIDE DEF y
    <3>3. Alone(y, q)
      BY <1>3, <3>2 DEF Alone
    <3>4. Settles(y)
      BY <1>5, <2>2, <3>2, ConstantTypes DEF Settles
    <3>5. AheadOf(y, 0)
      <4>1. stride_start_dist + 0 = stride_start_dist /\ stride_start_dist \in Int
            /\ stride_start_dist - 1 <= stride_start_dist
        BY ConstantTypes
      <4>2. QED
        BY <3>2, <4>1 DEF AheadOf
    <3>6. QED
      BY <3>2, <3>3, <3>4, <3>5 DEF Single, Distance, Alone
  <2>3. QED
    BY <2>1, <2>2
<1>9. MultiTrained(y) = y
  BY <1>7, <1>8, TrainedDoubly
<1>10. QED
  BY <1>4, <1>8, <1>9 DEF q

\* The arithmetic of one stride that goes on: t prefetches were under way, one of them
\* is passed by now, n more are sent and m lines passed over.
LEMMA StrideArithmetic ==
  ASSUME NEW l \in Int, NEW v \in Int, NEW k \in Int, NEW t \in Int, NEW d \in Int,
         NEW n \in Int, NEW m \in Int
  PROVE  l + v * (k + t) + v * (n + m) = (l + v) + v * ((k - d + m) + ((t - 1 + d) + n))
<1>1. (k - d + m) + ((t - 1 + d) + n) = (k + t) + (n + m) - 1
  OBVIOUS
<1> DEFINE a == k + t
           b == n + m
<1>2. a \in Int /\ b \in Int
  OBVIOUS
<1> HIDE DEF a, b
<1>3. l + v * a + v * b = (l + v) + v * (a + b - 1)
  BY <1>2
<1>4. QED
  BY <1>1, <1>3 DEF a, b

LEMMA BudgetLeft ==
  ASSUME NEW e, e.pref_sent \in Nat
  PROVE  Budget(e) \in Nat /\ (e.pref_sent = 0 => Budget(e) > 0)
<1> DEFINE left == stride_dist - e.pref_sent
<1>1. left \in Int /\ (e.pref_sent = 0 => left > 0)
  BY ConstantTypes
<1>2. Budget(e) = IF left < 0 THEN 0 ELSE IF left < stride_degree THEN left ELSE stride_degree
  BY DEF Budget
<1> HIDE DEF left
<1>3. QED
  BY <1>1, <1>2, ConstantTypes

LEMMA MatchSingle ==
  ASSUME NEW e, Counts(e), e.trained, NEW x \in Int, NEW r, Alone(e, r), Settles(e),
         e.stride[1] = x, NEW p \in Nat,
         \E k \in Int :
           /\ stride_start_dist - 1 <= k /\ k <= stride_start_dist + p
           /\ e.pref_sent = 0 => stride_start_dist <= k
           /\ e.pref_last_index = (e.last_index - x) + e.stride[1] * (k + e.pref_sent),
         NEW n \in Nat, n <= Budget(Settled(e))
  PROVE  LET refused == n < Budget(Settled(e)) IN
         Single(SendSingle(Settled(e), n, refused), Longer(r, x), IF refused THEN p + 1 ELSE p)
<1> DEFINE s == Settled(e)
           refused == n < Budget(s)
           m == IF refused THEN 1 ELSE 0
           q == Longer(r, x)
           y == SendSingle(s, n, refused)
           t == e.pref_sent
           d == IF t > 0 THEN 0 ELSE 1
           l == e.last_index - x
<1>1. /\ Counts(s) /\ s.trained = e.trained /\ s.last_index = e.last_index
      /\ s.pref_last_index = e.pref_last_index /\ s.stride = e.stride /\ s.s_cnt = e.s_cnt
      /\ s.num_states = e.num_states /\ s.curr_state = e.curr_state /\ s.count = e.count
      /\ s.train_count_mode = e.train_count_mode
      /\ s.pref_sent = IF e.pref_sent > 0 THEN e.pref_sent - 1 ELSE 0
  BY SettledCounts
<1>2. t \in Nat /\ l \in Int /\ e.last_index \in Int /\ e.s_cnt[1] \in Nat /\ r.length \in Nat
  <2>1. e.pref_sent \in Nat /\ e.last_index \in Int /\ e.s_cnt[1] \in Nat
    BY DEF Counts, Typed
  <2>2. r.length \in Nat
    BY DEF Alone
  <2>3. QED
    BY <2>1, <2>2
<1>3. s.pref_sent = t - 1 + d /\ s.pref_sent \in Nat /\ d \in {0, 1} /\ (t > 0 <=> d = 0)
  BY <1>1, <1>2
<1>4. Budget(s) \in Nat /\ (s.pref_sent = 0 => Budget(s) > 0)
  BY <1>3, BudgetLeft
<1>5. m \in {0, 1} /\ (refused <=> m = 1) /\ (s.pref_sent + n = 0 => m = 1)
  BY <1>3, <1>4
<1>6. PICK k \in Int :
        /\ stride_start_dist - 1 <= k /\ k <= stride_start_dist + p
        /\ t = 0 => stride_start_dist <= k
        /\ e.pref_last_index = l + x * (k + t)
  OBVIOUS
<1>7. x # 0 /\ r.stride = x /\ e.s_cnt[1] <= r.length
  BY <1>2, ConstantTypes DEF Alone, Settles
<1>8. y = [s EXCEPT !.pref_last_index = @ + At(s.stride, 0) * (n + m), !.pref_sent = @ + n]
  BY DEF SendSingle
<1>9. DOMAIN s = IndexFields /\ At(s.stride, 0) = x
  BY <1>1 DEF Counts, Typed, At
<1> HIDE DEF s, m, refused, q, d, t, l
<1>10. /\ y.trained /\ ~y.train_count_mode /\ y.num_states = 1 /\ y.curr_state = 0
       /\ y.count = 0 /\ y.stride = e.stride /\ y.s_cnt = e.s_cnt /\ y.last_index = e.last_index
       /\ y.pref_sent = s.pref_sent + n
       /\ y.pref_last_index = e.pref_last_index + x * (n + m)
  BY <1>1, <1>8, <1>9 DEF IndexFields, Alone
<1> HIDE DEF y
<1>11. Alone(y, q)
  <2>1. q.stride = x /\ q.length = r.length + 1
    BY <1>7 DEF q, Longer
  <2>2. e.s_cnt[1] <= q.length /\ q.length \in Nat
    BY <1>2, <1>7, <2>1
  <2>3. QED
    BY <1>7, <1>10, <2>1, <2>2 DEF Alone
<1>12. Settles(y)
  BY <1>10 DEF Settles
<1> DEFINE j == k - d + m
           u == t - 1 + d + n
<1>13. y.pref_last_index = (l + x) + x * (j + u)
  BY <1>2, <1>3, <1>5, <1>6, <1>10, StrideArithmetic
<1>14. l + x = e.last_index /\ u = y.pref_sent
  BY <1>2, <1>3, <1>10 DEF l
<1>15. /\ j \in Int /\ stride_start_dist - 1 <= j
       /\ j <= stride_start_dist + (p + m)
       /\ u = 0 => stride_start_dist <= j
  <2>1. d = 1 => t = 0
    BY <1>2, <1>3
  <2>2. u = 0 => m = 1
    BY <1>3, <1>5
  <2>3. QED
    BY <1>3, <1>5, <1>6, <2>1, <2>2, ConstantTypes
<1> HIDE DEF j, u
<1>16. AheadOf(y, p + m)
  BY <1>10, <1>13, <1>14, <1>15 DEF AheadOf
<1>17. p + m \in Nat /\ p + m = IF refused THEN p + 1 ELSE p
  BY <1>5
<1>18. Single(y, q, IF refused THEN p + 1 ELSE p)
  BY <1>10, <1>11, <1>12, <1>16, <1>17 DEF Single, Distance
<1>19. QED
  BY <1>18 DEF y, q, refused, s, l

LEMMA TrainedSingle ==
  ASSUME NEW e, Counts(e), e.trained, NEW x \in Int, NEW r, Alone(e, r), Settles(e),
         NEW p \in Nat,
         \E k \in Int :
           /\ stride_start_dist - 1 <= k /\ k <= stride_start_dist + p
           /\ e.pref_sent = 0 => stride_start_dist <= k
           /\ e.pref_last_index = (e.last_index - x) + e.stride[1] * (k + e.pref_sent),
         NEW n \in Nat, n <= Budget(Settled(e))
  PROVE  LET refused == n < Budget(Settled(e)) IN
         Single(Trained(Settled(e), x, n, refused), Longer(r, x),
                IF refused /\ SingleMatch(e, x) THEN p + 1 ELSE p)
<1> DEFINE s == Settled(e)
           refused == n < Budget(s)
           q == Longer(r, x)
<1>1. /\ Counts(s) /\ s.last_index = e.last_index /\ s.stride = e.stride /\ s.s_cnt = e.s_cnt
      /\ s.num_states = e.num_states /\ s.curr_state = e.curr_state /\ s.count = e.count
  BY SettledCounts
<1>2. CASE e.stride[1] = x
  <2>1. SingleMatch(e, x) /\ SingleMatch(s, x)
    BY <1>1, <1>2 DEF SingleMatch, Alone, At
  <2>2. Single(SendSingle(s, n, refused), q, IF refused THEN p + 1 ELSE p)
    BY <1>2, MatchSingle
  <2>3. QED
    BY <2>1, <2>2 DEF Trained
<1>3. CASE e.stride[1] # x
  <2>1. ~SingleMatch(e, x) /\ ~SingleMatch(s, x)
    BY <1>1, <1>3 DEF SingleMatch, At
  <2>2. s.curr_state = 0 /\ s.count = 0 /\ At(s.stride, 0) # x /\ At(s.s_cnt, 0) # 0
    BY <1>1, <1>3, ConstantTypes DEF Alone, At, Settles
  <2>3. ~Stays(s, x) /\ ~Turns(s, x)
    BY <2>2 DEF Stays, Turns
  <2>4. Trained(s, x, n, refused) = Blank(s.last_index, s)
    BY <2>1, <2>3 DEF Trained, Forgotten
  <2>5. DOMAIN s = IndexFields /\ s.last_index \in Int
    BY <1>1 DEF Counts, Typed
  <2>6. q.length \in Nat
    <3>1. r.length \in Nat
      BY DEF Alone
    <3>2. QED
      BY <3>1 DEF Longer
  <2> HIDE DEF s, q, refused
  <2>7. Single(Blank(s.last_index, s), q, p)
    BY <2>5, <2>6, BlankedSingle
  <2>8. QED
    BY <2>1, <2>4, <2>7 DEF s, q, refused
<1>4. QED
  BY <1>2, <1>3

-----------------------------------------------------------------------------
(***************************************************************************)
(* The invariant.                                                          *)
(***************************************************************************)
Tables ==
  /\ clk \in Nat /\ created \subseteq Entry
  /\ DOMAIN index_table = Entry /\ DOMAIN region_table = Entry
  /\ DOMAIN run = Entry /\ DOMAIN skipped = Entry
  /\ \A n \in Entry : DOMAIN index_table[n] = IndexFields /\ DOMAIN region_table[n] = RegionFields

\* An entry that was created keeps its region, trains as the lemmas say, and has no
\* more to fear from what its memory held before.
EntryInv(n) ==
  /\ region_table[n].valid /\ region_table[n].last_access \in Nat
  /\ Counts(index_table[n])
  /\ mode = 0 => Single(index_table[n], run[n], skipped[n])

PrefetcherInv == Tables /\ \A n \in created : EntryInv(n)

\* The step of one entry that is made or trained; the others stay as they are.
LEMMA OneEntry ==
  ASSUME PrefetcherInv, NEW n \in Entry, UNCHANGED mode, clk' \in Nat,
         created' = created \/ created' = created \cup {n},
         DOMAIN index_table' = Entry, DOMAIN region_table' = Entry,
         DOMAIN run' = Entry, DOMAIN skipped' = Entry,
         DOMAIN index_table'[n] = IndexFields, DOMAIN region_table'[n] = RegionFields,
         \A m \in Entry \ {n} :
           /\ index_table'[m] = index_table[m] /\ region_table'[m] = region_table[m]
           /\ run'[m] = run[m] /\ skipped'[m] = skipped[m],
         n \in created' => EntryInv(n)'
  PROVE  PrefetcherInv'
<1>1. Tables'
  BY DEF PrefetcherInv, Tables, Entry
<1>2. ASSUME NEW m \in created'
      PROVE  EntryInv(m)'
  <2>1. CASE m = n
    BY <1>2, <2>1
  <2>2. CASE m # n
    <3>1. m \in created /\ m \in Entry /\ EntryInv(m)
      BY <1>2, <2>2 DEF PrefetcherInv, Tables
    <3>2. /\ index_table'[m] = index_table[m] /\ region_table'[m] = region_table[m]
          /\ run'[m] = run[m] /\ skipped'[m] = skipped[m] /\ mode' = mode
      BY <2>2, <3>1
    <3>3. mode' = 0 => Single(index_table'[m], run'[m], skipped'[m])
      BY <3>1, <3>2 DEF EntryInv
    <3>4. QED
      BY <3>1, <3>2, <3>3 DEF EntryInv
  <2>3. QED
    BY <2>1, <2>2
<1>3. QED
  BY <1>1, <1>2 DEF PrefetcherInv

LEMMA InitInv == Init => PrefetcherInv
<1> SUFFICES ASSUME Init PROVE PrefetcherInv
  OBVIOUS
<1>1. PICK g \in [Entry -> Garbage] :
        /\ region_table = [n \in Entry |-> g[n].region]
        /\ index_table = [n \in Entry |-> g[n].index]
  BY DEF Init
<1>2. \A n \in Entry : DOMAIN g[n].region = RegionFields /\ DOMAIN g[n].index = IndexFields
  BY PrefetcherAssumption
<1>3. \A n \in Entry : DOMAIN index_table[n] = IndexFields /\ DOMAIN region_table[n] = RegionFields
  BY <1>1, <1>2
<1>4. QED
  BY <1>1, <1>3 DEF Init, PrefetcherInv, Tables

LEMMA CreateInv ==
  ASSUME PrefetcherInv, UNCHANGED mode, clk' \in Nat, NEW line \in Lines, create_new_entry(line)
  PROVE  PrefetcherInv'
<1>1. PICK n \in Entry :
        /\ Victim(n)
        /\ region_table' =
             [region_table EXCEPT ![n] = [tag |-> STRIDE_REGION(line), valid |-> TRUE,
                                          last_access |-> clk]]
        /\ index_table' = [index_table EXCEPT ![n] = Blank(line, @)]
        /\ created' = created \cup {n}
        /\ run' = [run EXCEPT ![n] = [stride |-> 0, length |-> 0]]
        /\ skipped' = [skipped EXCEPT ![n] = 0]
  BY DEF create_new_entry
<1>2. Tables /\ line \in Int
  BY PrefetcherAssumption DEF PrefetcherInv
<1>3. /\ DOMAIN index_table' = Entry /\ DOMAIN region_table' = Entry
      /\ DOMAIN run' = Entry /\ DOMAIN skipped' = Entry
      /\ \A m \in Entry \ {n} :
           /\ index_table'[m] = index_table[m] /\ region_table'[m] = region_table[m]
           /\ run'[m] = run[m] /\ skipped'[m] = skipped[m]
  BY <1>1, <1>2 DEF Tables
<1>4. /\ index_table'[n] = Blank(line, index_table[n])
      /\ region_table'[n] = [tag |-> STRIDE_REGION(line), valid |-> TRUE, last_access |-> clk]
      /\ run'[n] = [stride |-> 0, length |-> 0] /\ skipped'[n] = 0
  BY <1>1, <1>2 DEF Tables
<1>5. Counts(index_table'[n]) /\ DOMAIN index_table[n] = IndexFields
  <2>1. DOMAIN index_table[n] = IndexFields
    BY <1>2 DEF Tables
  <2>2. QED
    BY <1>2, <1>4, <2>1, Blanked
<1>6. Single(index_table'[n], run'[n], skipped'[n])
  <2>1. run'[n].length \in Nat /\ skipped'[n] \in Nat
    BY <1>4
  <2>2. QED
    BY <1>2, <1>4, <1>5, <2>1, BlankedSingle
<1>7. /\ region_table'[n].valid /\ region_table'[n].last_access \in Nat
      /\ DOMAIN region_table'[n] = RegionFields
  BY <1>2, <1>4 DEF Tables, RegionFields
<1>8. EntryInv(n)'
  BY <1>5, <1>6, <1>7 DEF EntryInv
<1>9. DOMAIN index_table'[n] = IndexFields
  BY <1>5 DEF Counts, Typed
<1>10. QED
  BY <1>1, <1>3, <1>7, <1>8, <1>9, OneEntry

LEMMA TrainInv ==
  ASSUME PrefetcherInv, UNCHANGED mode, clk' \in Nat, NEW line \in Lines, NEW n \in Entry,
         train_entry(n, line)
  PROVE  PrefetcherInv'
<1> DEFINE old == index_table[n]
           e == [old EXCEPT !.last_index = line]
           x == line - old.last_index
<1>1. Tables /\ line \in Int
  BY PrefetcherAssumption DEF PrefetcherInv
<1>2. /\ region_table' = [region_table EXCEPT ![n].last_access = clk]
      /\ run' = [run EXCEPT ![n] =
                   [stride |-> x, length |-> IF @.stride = x THEN @.length + 1 ELSE 1]]
      /\ created' = created
      /\ \/ /\ ~e.trained
            /\ index_table' = [index_table EXCEPT ![n] = Untrained(e, x, line)]
            /\ skipped' = [skipped EXCEPT ![n] = 0]
         \/ /\ e.trained
            /\ \E sent \in 0..Budget(Settled(e)) :
                 LET refused == sent < Budget(Settled(e)) IN
                 /\ index_table' = [index_table EXCEPT ![n] = Trained(Settled(e), x, sent, refused)]
                 /\ skipped' = [skipped EXCEPT ![n] =
                                 IF refused /\ SingleMatch(e, x) THEN @ + 1 ELSE @]
  BY DEF train_entry, Noted
<1>3. PICK new, p :
        /\ index_table' = [index_table EXCEPT ![n] = new]
        /\ skipped' = [skipped EXCEPT ![n] = p]
        /\ \/ ~e.trained /\ new = Untrained(e, x, line) /\ p = 0
           \/ /\ e.trained
              /\ \E sent \in 0..Budget(Settled(e)) :
                   LET refused == sent < Budget(Settled(e)) IN
                   /\ new = Trained(Settled(e), x, sent, refused)
                   /\ p = IF refused /\ SingleMatch(e, x) THEN skipped[n] + 1 ELSE skipped[n]
  <2>1. CASE /\ ~e.trained
             /\ index_table' = [index_table EXCEPT ![n] = Untrained(e, x, line)]
             /\ skipped' = [skipped EXCEPT ![n] = 0]
    BY <2>1
  <2>2. CASE /\ e.trained
             /\ \E sent \in 0..Budget(Settled(e)) :
                  LET refused == sent < Budget(Settled(e)) IN
                  /\ index_table' = [index_table EXCEPT ![n] = Trained(Settled(e), x, sent, refused)]
                  /\ skipped' = [skipped EXCEPT ![n] =
                                  IF refused /\ SingleMatch(e, x) THEN @ + 1 ELSE @]
    <3>1. PICK sent \in 0..Budget(Settled(e)) :
            LET refused == sent < Budget(Settled(e)) IN
            /\ index_table' = [index_table EXCEPT ![n] = Trained(Settled(e), x, sent, refused)]
            /\ skipped' = [skipped EXCEPT ![n] =
                            IF refused /\ SingleMatch(e, x) THEN @ + 1 ELSE @]
      BY <2>2
    <3>2. skipped' = [skipped EXCEPT ![n] =
                       IF sent < Budget(Settled(e)) /\ SingleMatch(e, x) THEN skipped[n] + 1
                       ELSE skipped[n]]
      BY <3>1
    <3> HIDE DEF e, x
    <3>3. QED
      BY <2>2, <3>1, <3>2
  <2>3. QED
    BY <1>2, <2>1, <2>2
<1>4. /\ DOMAIN index_table' = Entry /\ DOMAIN region_table' = Entry
      /\ DOMAIN run' = Entry /\ DOMAIN skipped' = Entry
      /\ \A m \in Entry \ {n} :
           /\ index_table'[m] = index_table[m] /\ region_table'[m] = region_table[m]
           /\ run'[m] = run[m] /\ skipped'[m] = skipped[m]
  BY <1>1, <1>2, <1>3 DEF Tables
<1>5. index_table'[n] = new /\ skipped'[n] = p
  BY <1>1, <1>3 DEF Tables
<1>6. run'[n] = Longer(run[n], x)
  BY <1>1, <1>2 DEF Tables, Longer
<1>7. /\ DOMAIN region_table'[n] = RegionFields /\ region_table'[n].last_access = clk
      /\ region_table'[n].valid = region_table[n].valid
  BY <1>1, <1>2 DEF Tables, RegionFields
<1>8. DOMAIN old = IndexFields /\ DOMAIN e = IndexFields
  BY <1>1 DEF Tables
<1>9. DOMAIN new = IndexFields
  <2> HIDE DEF e, x
  <2>1. CASE new = Untrained(e, x, line)
    BY <1>8, <2>1, TrainingFields
  <2>2. CASE \E sent \in 0..Budget(Settled(e)) :
               new = Trained(Settled(e), x, sent, sent < Budget(Settled(e)))
    <3>1. PICK sent \in 0..Budget(Settled(e)) :
            new = Trained(Settled(e), x, sent, sent < Budget(Settled(e)))
      BY <2>2
    <3>2. sent \in Nat
      OBVIOUS
    <3>3. QED
      BY <1>8, <3>1, <3>2, TrainingFields
  <2>3. QED
    BY <1>3, <2>1, <2>2
<1>10. ASSUME n \in created'
       PROVE  EntryInv(n)'
  <2>1. EntryInv(n) /\ clk \in Nat
    BY <1>1, <1>2, <1>10 DEF PrefetcherInv, Tables
  <2>2. Counts(old) /\ (mode = 0 => Single(old, run[n], skipped[n]))
    BY <2>1 DEF EntryInv
  <2>3. x \in Int
    BY <1>1, <2>2 DEF Counts, Typed
  <2>4. /\ Counts(e) /\ e.last_index = line /\ e.pref_sent = old.pref_sent
        /\ e.trained = old.trained
        /\ e.pref_last_index = old.pref_last_index /\ e.stride = old.stride /\ e.s_cnt = old.s_cnt
        /\ e.num_states = old.num_states /\ e.curr_state = old.curr_state /\ e.count = old.count
        /\ e.train_count_mode = old.train_count_mode
    BY <1>1, <2>2, Placed
  <2>5. old.last_index = line - x
    BY <1>1, <2>2 DEF Counts, Typed
  <2> HIDE DEF e, x, old
  <2>6. mode = 0 => Alone(e, run[n]) /\ Settles(e) /\ skipped[n] \in Nat
    BY <2>2, <2>4 DEF Single, Alone, Settles
  <2>7. Counts(new) /\ (mode = 0 => Single(new, Longer(run[n], x), p))
    <3>1. CASE ~e.trained /\ new = Untrained(e, x, line) /\ p = 0
      <4>1. Counts(new)
        BY <1>1, <2>3, <2>4, <3>1, UntrainedCounts
      <4>2. ASSUME mode = 0
            PROVE  Single(new, Longer(run[n], x), p)
        <5>1. e.pref_sent = 0
          BY <2>2, <2>4, <3>1, <4>2 DEF Single, Distance
        <5>2. QED
          BY <1>1, <2>3, <2>4, <2>6, <3>1, <4>2, <5>1, UntrainedSingle
      <4>3. QED
        BY <4>1, <4>2
    <3>2. CASE /\ e.trained
               /\ \E sent \in 0..Budget(Settled(e)) :
                    LET refused == sent < Budget(Settled(e)) IN
                    /\ new = Trained(Settled(e), x, sent, refused)
                    /\ p = IF refused /\ SingleMatch(e, x) THEN skipped[n] + 1 ELSE skipped[n]
      <4>1. PICK sent \in 0..Budget(Settled(e)) :
              LET refused == sent < Budget(Settled(e)) IN
              /\ new = Trained(Settled(e), x, sent, refused)
              /\ p = IF refused /\ SingleMatch(e, x) THEN skipped[n] + 1 ELSE skipped[n]
        BY <3>2
      <4>2. Counts(Settled(e)) /\ Settled(e).pref_sent \in Nat
        <5>1. Counts(Settled(e))
          BY <2>4, SettledCounts
        <5>2. QED
          BY <5>1 DEF Counts, Typed
      <4>3. Budget(Settled(e)) \in Nat
        BY <4>2, BudgetLeft
      <4>4. sent \in Nat /\ sent <= Budget(Settled(e))
        BY <4>3
      <4>5. Counts(new)
        <5>1. Counts(Trained(Settled(e), x, sent, sent < Budget(Settled(e))))
          BY <4>2, <4>4, TrainedCounts
        <5>2. QED
          BY <4>1, <5>1
      <4>6. ASSUME mode = 0
            PROVE  Single(new, Longer(run[n], x), p)
        <5>1. AheadOf(old, skipped[n])
          BY <2>2, <2>4, <3>2, <4>6 DEF Single, Distance
        <5>2. \E k \in Int :
                /\ stride_start_dist - 1 <= k /\ k <= stride_start_dist + skipped[n]
                /\ e.pref_sent = 0 => stride_start_dist <= k
                /\ e.pref_last_index = (e.last_index - x) + e.stride[1] * (k + e.pref_sent)
          BY <2>4, <2>5, <5>1 DEF AheadOf
        <5>3. LET refused == sent < Budget(Settled(e)) IN
              Single(Trained(Settled(e), x, sent, refused), Longer(run[n], x),
                     IF refused /\ SingleMatch(e, x) THEN skipped[n] + 1 ELSE skipped[n])
          BY <2>3, <2>4, <2>6, <3>2, <4>4, <4>6, <5>2, TrainedSingle
        <5>4. QED
          BY <4>1, <5>3
      <4>7. QED
        BY <4>5, <4>6
    <3>3. QED
      BY <1>3, <3>1, <3>2 DEF e, x, old
  <2>8. region_table'[n].valid /\ region_table'[n].last_access \in Nat
    BY <1>7, <2>1 DEF EntryInv
  <2>9. QED
    BY <1>5, <1>6, <2>7, <2>8 DEF EntryInv, x, old
<1>11. QED
  BY <1>2, <1>4, <1>5, <1>7, <1>9, <1>10, OneEntry

LEMMA StepInv ==
  ASSUME PrefetcherInv, [Next]_vars
  PROVE  PrefetcherInv'
<1>1. CASE UNCHANGED vars
  BY <1>1 DEF vars, PrefetcherInv, Tables, EntryInv
<1>2. ASSUME NEW line \in Lines, miss(line) \/ hit(line)
      PROVE  PrefetcherInv'
  <2>1. UNCHANGED mode /\ clk' \in Nat
    BY <1>2 DEF miss, hit, Tick, PrefetcherInv, Tables
  <2>2. CASE create_new_entry(line)
    BY <2>1, <2>2, CreateInv
  <2>3. CASE \E n \in Entry : train_entry(n, line)
    BY <2>1, <2>3, TrainInv
  <2>4. CASE UNCHANGED <<region_table, index_table, created, run, skipped>>
    <3>1. Tables'
      BY <2>1, <2>4 DEF PrefetcherInv, Tables, Entry
    <3>2. \A n \in created' : EntryInv(n)'
      BY <2>1, <2>4 DEF PrefetcherInv, EntryInv
    <3>3. QED
      BY <3>1, <3>2 DEF PrefetcherInv
  <2>5. QED
    BY <1>2, <2>2, <2>3, <2>4 DEF miss, hit
<1>3. QED
  BY <1>1, <1>2 DEF Next

LEMMA Invariance == Spec => []PrefetcherInv
<1>1. PrefetcherInv /\ [Next]_vars => PrefetcherInv'
  BY StepInv
<1>2. QED
  BY InitInv, <1>1, PTL DEF Spec

-----------------------------------------------------------------------------
\* Neither count of an entry that follows two strides passes the number of strides it
\* counts to, whatever the calls, the thresholds and what the memory held: == is enough
\* where train compares them (StridePrefetcher.cpp:98-113, 155-182).
THEOREM CountsMeetTheorem == Spec => []CountsMeet
<1>1. PrefetcherInv => CountsMeet
  <2> SUFFICES ASSUME PrefetcherInv, NEW n \in created, index_table[n].train_count_mode
               PROVE  LET e == index_table[n] IN
                      /\ e.count <= At(e.s_cnt, e.curr_state)
                      /\ e.trained => e.pref_count <= At(e.s_cnt, e.pref_curr_state)
    BY DEF CountsMeet
  <2>1. Counts(index_table[n])
    BY DEF PrefetcherInv, EntryInv
  <2>2. QED
    BY <2>1 DEF Counts, Following, Prefetching
<1>2. QED
  BY <1>1, Invariance, PTL

\* In single stride mode a trained entry follows a stride that came as often in a row as
\* the threshold says, up to this call, and is not 0 (StridePrefetcher.cpp:72-84, 114-120).
THEOREM TrainedOnRunTheorem == Spec => []TrainedOnRun
<1>1. PrefetcherInv => TrainedOnRun
  <2> SUFFICES ASSUME PrefetcherInv, NEW n \in created, mode = 0, index_table[n].trained
               PROVE  LET e == index_table[n] IN
                      /\ At(e.stride, 0) # 0 /\ run[n].stride = At(e.stride, 0)
                      /\ run[n].length >= single_stride_threshold
    BY DEF TrainedOnRun
  <2> DEFINE e == index_table[n]
  <2>1. Counts(e) /\ Single(e, run[n], skipped[n])
    BY DEF PrefetcherInv, EntryInv
  <2> HIDE DEF e
  <2>2. e.trained
    BY DEF e
  <2>3. e.s_cnt[1] >= single_stride_threshold /\ e.s_cnt[1] \in Nat
    BY <2>1, <2>2 DEF Single, Settles, Counts, Typed
  <2>4. Alone(e, run[n])
    BY <2>1 DEF Single
  <2>5. /\ e.stride[1] # 0 /\ run[n].stride = e.stride[1]
        /\ run[n].length >= single_stride_threshold
    BY <2>3, <2>4, ConstantTypes DEF Alone
  <2>6. QED
    BY <2>5 DEF At, e
<1>2. QED
  BY <1>1, Invariance, PTL

\* In single stride mode the prefetches stay ahead of the accesses by the distance that is
\* configured, those under way and those that were refused (StridePrefetcher.cpp:117-154).
THEOREM RunsAheadTheorem == Spec => []RunsAhead
<1>1. PrefetcherInv => RunsAhead
  <2> SUFFICES ASSUME PrefetcherInv, NEW n \in created, mode = 0, index_table[n].trained
               PROVE  LET e == index_table[n] IN
                      \E k \in (stride_start_dist - 1)..(stride_start_dist + skipped[n]) :
                        e.pref_last_index = e.last_index + At(e.stride, 0) * (k + e.pref_sent)
    BY DEF RunsAhead
  <2> DEFINE e == index_table[n]
  <2>1. Single(e, run[n], skipped[n])
    BY DEF PrefetcherInv, EntryInv
  <2> HIDE DEF e
  <2>2. e.trained
    BY DEF e
  <2>3. PICK k \in Int :
          /\ stride_start_dist - 1 <= k /\ k <= stride_start_dist + skipped[n]
          /\ e.pref_last_index = e.last_index + e.stride[1] * (k + e.pref_sent)
    BY <2>1, <2>2 DEF Single, Distance, AheadOf
  <2>4. skipped[n] \in Nat
    BY <2>1 DEF Single
  <2>5. k \in (stride_start_dist - 1)..(stride_start_dist + skipped[n])
    BY <2>3, <2>4, ConstantTypes
  <2>6. e.pref_last_index = e.last_index + At(e.stride, 0) * (k + e.pref_sent)
    BY <2>3 DEF At
  <2>7. QED
    BY <2>5, <2>6 DEF e
<1>2. QED
  BY <1>1, Invariance, PTL

-----------------------------------------------------------------------------
(***************************************************************************)
(* Strides are shorter than a region.                                      *)
(***************************************************************************)
Leap == (1 - RegionLines)..(RegionLines - 1)

Leaps(e) == \A s \in 1..2 : e.stride[s] \in Leap /\ e.strans[s] \in Leap

\* The entry of region r
Fits(e, r) == e.last_index \in Nat /\ STRIDE_REGION(e.last_index) = r /\ Leaps(e)

FitInv == \A n \in created : Fits(index_table[n], region_table[n].tag)

\* Two lines of a region are less than a region apart.
LEMMA RegionSpan ==
  ASSUME NEW a \in Nat, NEW b \in Nat, STRIDE_REGION(a) = STRIDE_REGION(b)
  PROVE  a - b \in Leap
<1> DEFINE q == a \div RegionLines
           m == q * RegionLines
<1>1. q \in Nat /\ a = m + (a % RegionLines) /\ a % RegionLines \in 0..(RegionLines - 1)
  BY ConstantTypes
<1>2. b \div RegionLines = q
  BY DEF STRIDE_REGION
<1>3. b = (b \div RegionLines) * RegionLines + (b % RegionLines)
      /\ b % RegionLines \in 0..(RegionLines - 1)
  BY ConstantTypes
<1>4. m \in Nat /\ b = m + (b % RegionLines)
  BY <1>1, <1>2, <1>3, ConstantTypes
<1> HIDE DEF m
<1>5. QED
  BY <1>1, <1>3, <1>4, ConstantTypes DEF Leap

LEMMA NoNewLeap ==
  ASSUME NEW e, Leaps(e), NEW y, NoNewStride(y, e)
  PROVE  Leaps(y)
<1>1. 0 \in Leap
  BY ConstantTypes DEF Leap
<1>2. QED
  BY <1>1 DEF Leaps, NoNewStride

LEMMA LearntLeaps ==
  ASSUME NEW e, Counts(e), Leaps(e), NEW x \in Leap
  PROVE  Leaps(Learn(e, x))
<1> DEFINE s == e.curr_state + 1
           y == Learn(e, x)
<1>1. /\ DOMAIN e = IndexFields /\ s \in 1..2
      /\ DOMAIN e.stride = 1..2 /\ DOMAIN e.strans = 1..2
  BY DEF Counts, Typed
<1>2. /\ y.stride = e.stride \/ y.stride = [e.stride EXCEPT ![s] = x]
      /\ y.strans = e.strans \/ y.strans = [e.strans EXCEPT ![s] = x]
  <2>1. CASE e.stride[s] = 0 \/ (e.stride[s] # x /\ mode = 0)
    <3>1. y = [e EXCEPT !.stride[s] = x, !.s_cnt[s] = 1]
      BY <2>1 DEF Learn
    <3>2. QED
      BY <1>1, <3>1 DEF IndexFields
  <2>2. CASE ~(e.stride[s] = 0 \/ (e.stride[s] # x /\ mode = 0)) /\ e.stride[s] = x
    <3>1. y = [e EXCEPT !.s_cnt[s] = @ + 1]
      BY <2>2 DEF Learn
    <3>2. QED
      BY <1>1, <3>1 DEF IndexFields
  <2>3. CASE ~(e.stride[s] = 0 \/ (e.stride[s] # x /\ mode = 0)) /\ e.stride[s] # x
    <3> DEFINE back == e.curr_state = 1
    <3>1. y = [e EXCEPT !.strans[s] = x, !.num_states = 2, !.curr_state = Other(@),
                        !.train_count_mode = back, !.count = IF back THEN 0 ELSE @,
                        !.recnt = IF back THEN 0 ELSE @]
      BY <2>3 DEF Learn
    <3>2. QED
      BY <1>1, <3>1 DEF IndexFields
  <2>4. QED
    BY <2>1, <2>2, <2>3
<1> HIDE DEF y
<1>3. ASSUME NEW i \in 1..2
      PROVE  y.stride[i] \in Leap /\ y.strans[i] \in Leap
  BY <1>1, <1>2, <1>3 DEF Leaps
<1>4. QED
  BY <1>3 DEF Leaps, y

LEMMA UntrainedLeaps ==
  ASSUME NEW e, Counts(e), ~e.trained, Leaps(e), NEW x \in Leap, NEW line \in Int,
         e.last_index = line
  PROVE  LET y == Untrained(e, x, line) IN Leaps(y) /\ y.last_index = line
<1> DEFINE c == IF e.train_count_mode THEN Confirm(e, x, line) ELSE Learn(e, x)
<1>1. Ripening(c) /\ c.last_index = line /\ Leaps(c)
  <2>1. CASE e.train_count_mode
    <3>1. LET z == Confirm(e, x, line) IN
          Ripening(z) /\ z.last_index = line /\ NoNewStride(z, e)
      BY <2>1, Confirmed
    <3>2. QED
      BY <2>1, <3>1, NoNewLeap
  <2>2. CASE ~e.train_count_mode
    <3>1. x \in Int
      BY ConstantTypes DEF Leap
    <3>2. QED
      BY <2>2, <3>1, Learnt, LearntLeaps
  <2>3. QED
    BY <2>1, <2>2
<1>2. Untrained(e, x, line) = MultiTrained(SingleTrained(c))
  BY DEF Untrained
<1> HIDE DEF c
<1> DEFINE d == SingleTrained(c)
<1>3. Counts(d) /\ d.last_index = line /\ d.stride = c.stride /\ d.strans = c.strans
  BY <1>1, TrainedSingly
<1> HIDE DEF d
<1>4. Leaps(d)
  BY <1>1, <1>3 DEF Leaps
<1>5. NoNewStride(MultiTrained(d), d)
  BY <1>3, TrainedDoubly
<1>6. Leaps(MultiTrained(d)) /\ MultiTrained(d).last_index = line
  BY <1>3, <1>4, <1>5, NoNewLeap DEF NoNewStride
<1>7. QED
  BY <1>2, <1>6 DEF d

\* One call with an entry e that was accessed last at line - x
LEMMA TrainingFits ==
  ASSUME NEW old, Counts(old), NEW r, Fits(old, r), NEW line \in Nat, STRIDE_REGION(line) = r,
         NEW e, e = [old EXCEPT !.last_index = line], NEW x, x = line - old.last_index, NEW new,
         \/ ~e.trained /\ new = Untrained(e, x, line)
         \/ \E sent \in 0..Budget(Settled(e)) :
              new = Trained(Settled(e), x, sent, sent < Budget(Settled(e)))
  PROVE  Fits(new, r)
<1>1. x \in Leap
  BY RegionSpan DEF Fits
<1>2. /\ Counts(e) /\ e.last_index = line /\ e.stride = old.stride /\ e.strans = old.strans
  BY Placed
<1>3. Leaps(e)
  BY <1>2 DEF Fits, Leaps
<1>4. Leaps(new) /\ new.last_index = line
  <2>1. CASE ~e.trained /\ new = Untrained(e, x, line)
    <3>1. ~e.trained /\ line \in Int
      BY <2>1
    <3>2. LET y == Untrained(e, x, line) IN Leaps(y) /\ y.last_index = line
      BY <1>1, <1>2, <1>3, <3>1, UntrainedLeaps
    <3>3. QED
      BY <2>1, <3>2
  <2>2. CASE \E sent \in 0..Budget(Settled(e)) :
               new = Trained(Settled(e), x, sent, sent < Budget(Settled(e)))
    <3> DEFINE z == Settled(e)
    <3>1. /\ Counts(z) /\ z.last_index = line /\ z.stride = e.stride /\ z.strans = e.strans
      BY <1>2, SettledCounts
    <3> HIDE DEF z
    <3>2. Leaps(z)
      BY <1>3, <3>1 DEF Leaps
    <3>3. PICK sent \in 0..Budget(z) : new = Trained(z, x, sent, sent < Budget(z))
      BY <2>2 DEF z
    <3>4. NoNewStride(new, z)
      <4>1. sent \in Nat
        OBVIOUS
      <4>2. QED
        BY <3>1, <3>3, <4>1, TrainedCounts
    <3>5. QED
      BY <3>1, <3>2, <3>4, NoNewLeap DEF NoNewStride
  <2>3. QED
    BY <2>1, <2>2
<1>5. QED
  BY <1>4 DEF Fits

LEMMA FitStep ==
  ASSUME PrefetcherInv, FitInv, [Next]_vars
  PROVE  FitInv'
<1>1. CASE UNCHANGED vars
  BY <1>1 DEF vars, FitInv
<1>2. ASSUME NEW line \in Lines, create_new_entry(line)
      PROVE  FitInv'
  <2>1. PICK n \in Entry :
          /\ region_table' =
               [region_table EXCEPT ![n] = [tag |-> STRIDE_REGION(line), valid |-> TRUE,
                                            last_access |-> clk]]
          /\ index_table' = [index_table EXCEPT ![n] = Blank(line, @)]
          /\ created' = created \cup {n}
    BY <1>2 DEF create_new_entry
  <2>2. Tables /\ line \in Nat
    BY PrefetcherAssumption DEF PrefetcherInv
  <2>3. ASSUME NEW m \in created', m # n
        PROVE  Fits(index_table[m], region_table[m].tag)'
    <3>1. m \in created /\ m \in Entry
      BY <2>1, <2>2, <2>3 DEF Tables
    <3>2. index_table'[m] = index_table[m] /\ region_table'[m] = region_table[m]
      BY <2>1, <2>2, <2>3, <3>1 DEF Tables
    <3>3. QED
      BY <3>1, <3>2 DEF FitInv
  <2>4. Fits(index_table[n], region_table[n].tag)'
    <3> DEFINE y == Blank(line, index_table[n])
    <3>1. index_table'[n] = y /\ region_table'[n].tag = STRIDE_REGION(line)
      BY <2>1, <2>2 DEF Tables
    <3>2. y.last_index = line /\ y.stride = <<0, 0>> /\ y.strans = <<0, 0>>
      BY <2>2, Blanked DEF Tables
    <3> HIDE DEF y
    <3>3. 0 \in Leap
      BY ConstantTypes DEF Leap
    <3>4. Leaps(y)
      BY <3>2, <3>3, Pairs DEF Leaps
    <3>5. QED
      BY <2>2, <3>1, <3>2, <3>4 DEF Fits
  <2>5. QED
    BY <2>3, <2>4 DEF FitInv
<1>3. ASSUME NEW line \in Lines, NEW n \in Entry, train_entry(n, line)
      PROVE  FitInv'
  <2> DEFINE old == index_table[n]
             e == [old EXCEPT !.last_index = line]
             x == line - old.last_index
  <2>1. /\ region_table' = [region_table EXCEPT ![n].last_access = clk]
        /\ created' = created /\ region_table[n].tag = STRIDE_REGION(line)
    BY <1>3 DEF train_entry, Found, Finds
  <2>2. PICK new :
          /\ index_table' = [index_table EXCEPT ![n] = new]
          /\ \/ ~e.trained /\ new = Untrained(e, x, line)
             \/ \E sent \in 0..Budget(Settled(e)) :
                  new = Trained(Settled(e), x, sent, sent < Budget(Settled(e)))
    BY <1>3 DEF train_entry
  <2>3. Tables /\ line \in Nat
    BY PrefetcherAssumption DEF PrefetcherInv
  <2>4. index_table'[n] = new /\ region_table'[n].tag = region_table[n].tag
        /\ \A m \in Entry \ {n} :
             index_table'[m] = index_table[m] /\ region_table'[m] = region_table[m]
    BY <2>1, <2>2, <2>3 DEF Tables, RegionFields
  <2>5. ASSUME n \in created
        PROVE  Fits(new, region_table[n].tag)
    <3>1. Counts(old) /\ Fits(old, region_table[n].tag)
      BY <2>5 DEF PrefetcherInv, EntryInv, FitInv
    <3> HIDE DEF old
    <3>2. QED
      BY <2>1, <2>2, <2>3, <3>1, TrainingFits
  <2>6. ASSUME NEW m \in created'
        PROVE  Fits(index_table[m], region_table[m].tag)'
    <3>1. m \in created /\ m \in Entry
      BY <2>1, <2>3 DEF Tables
    <3>2. CASE m = n
      BY <2>4, <2>5, <3>1, <3>2
    <3>3. CASE m # n
      BY <2>4, <3>1, <3>3 DEF FitInv
    <3>4. QED
      BY <3>2, <3>3
  <2>7. QED
    BY <2>6 DEF FitInv
<1>4. CASE UNCHANGED <<region_table, index_table, created>>
  BY <1>4 DEF FitInv
<1>5. QED
  BY <1>1, <1>2, <1>3, <1>4 DEF Next, miss, hit

\* The tables agree on the region of an entry through all the calls that make it anew, and
\* its strides are shorter than the region, so that the int of train holds each of them
\* (StridePrefetcher.cpp:65).  A region has RegionLines lines, 1024 in the code.
THEOREM StridesFitTheorem == Spec => []StridesFit
<1>1. Init => FitInv
  BY DEF Init, FitInv
<1>2. PrefetcherInv /\ FitInv /\ [Next]_vars => FitInv'
  BY FitStep
<1>3. FitInv => StridesFit
  <2> SUFFICES ASSUME FitInv, NEW n \in created
               PROVE  LET e == index_table[n] IN
                      /\ STRIDE_REGION(e.last_index) = region_table[n].tag
                      /\ \A s \in {0, 1} :
                           {At(e.stride, s), At(e.strans, s)}
                             \subseteq (1 - RegionLines)..(RegionLines - 1)
    BY DEF StridesFit
  <2> DEFINE e == index_table[n]
  <2>1. Fits(e, region_table[n].tag)
    BY DEF FitInv
  <2> HIDE DEF e
  <2>2. ASSUME NEW s \in {0, 1}
        PROVE  At(e.stride, s) \in Leap /\ At(e.strans, s) \in Leap
    <3>1. s + 1 \in 1..2
      BY <2>2
    <3>2. QED
      BY <2>1, <3>1 DEF Fits, Leaps, At
  <2>3. QED
    BY <2>1, <2>2 DEF Fits, Leap, e
<1>4. QED
  BY <1>1, <1>2, <1>3, Invariance, PTL DEF Spec

=============================================================================
