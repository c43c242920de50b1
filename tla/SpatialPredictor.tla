--------------------------- MODULE SpatialPredictor ---------------------------
(***************************************************************************)
(* The spatial predictor of a core (SpatialPredictor.h, .cpp).  The first  *)
(* cache of the core tells it which sectors of a block were used when the  *)
(* block is evicted (update), and asks it which sectors to fetch with a    *)
(* miss (predict).                                                         *)
(*                                                                         *)
(* The caches call it with the address of an instruction and of a block.   *)
(* The alignment bits it mixes into index and tag, (load_addr >> 3) & 7,   *)
(* are bits of a block address and always 0; what is left, the instruction *)
(* address with its upper bits folded in by x ^ (x >> 12), can be undone:  *)
(* index and tag together name one instruction.                            *)
(***************************************************************************)
EXTENDS Integers, FiniteSets, FiniteSetsExt

CONSTANTS
  Sector,
  Inst,          \* instructions
  Block,         \* blocks
  Index, Tag,    \* rows of the pattern table, tags in it
  index_of, tag_of,  \* find_index and find_tag of the table
  Key, key_of,   \* find_tag of the infinite table: inst_addr ^ load_addr
  Configs,       \* configurations, one of which the predictor is built with
  HalfUsed,      \* average number of used sectors from which all are fetched (4)
  MaxUpdates     \* bound: calls of update

ASSUME PredictorAssumption ==
  /\ IsFiniteSet(Sector) /\ IsFiniteSet(Inst)
  /\ index_of \in [Inst -> Index] /\ tag_of \in [Inst -> Tag] /\ 0 \in Tag
  /\ \A x, y \in Inst : index_of[x] = index_of[y] /\ tag_of[x] = tag_of[y] => x = y
  /\ key_of \in [Inst \X Block -> Key]
  /\ {HalfUsed, MaxUpdates} \subseteq Nat
  /\ \A c \in Configs :
       /\ c.infinite_table \in BOOLEAN /\ c.untrained_policy_no_prediction \in BOOLEAN
       /\ c.ways \in Nat \ {0} /\ c.window \in Nat
       \* "not compatible with infinite table"
       /\ c.infinite_table => c.window = 0

VARIABLES
  config,
  tag_array, pattern_table,      \* per way and index
  way_meta,                      \* per index: the way of the last prediction
  rolling_average_utilization,   \* sectors used in each of the last evictions
  rolling_average_counter,
  rolling_sum,                   \* rolling_average times the window: the floats are
                                 \* exact while the window is a power of two
  hashtable,                     \* the infinite table, a set of pairs
  predicted,                     \* history: the last prediction
  recorded,                      \* history: keys and the patterns recorded for them
  latest,                        \* history: keys and the last patterns recorded
  updates

table  == <<tag_array, pattern_table, way_meta>>
window == <<rolling_average_utilization, rolling_average_counter, rolling_sum>>
vars   == <<config, table, window, hashtable, predicted, recorded, latest, updates>>

Way   == 0..(config.ways - 1)
Place == 0..(config.window - 1)

\* What an access is told apart by
KeyOf(x, b) == IF config.infinite_table THEN <<"key", key_of[<<x, b>>]>> ELSE <<"inst", x>>

NoPrediction == [key |-> <<"none">>, found |-> FALSE, pattern |-> {}, fresh |-> FALSE]

Init ==
  /\ config \in Configs
  /\ tag_array = [w \in Way |-> [i \in Index |-> 0]]
  /\ pattern_table = [w \in Way |-> [i \in Index |-> {}]]
  /\ way_meta = [i \in Index |-> 0]
  /\ rolling_average_utilization = [n \in Place |-> 0]
  /\ rolling_average_counter = 0
  /\ rolling_sum = 0
  /\ hashtable = {}
  /\ predicted = NoPrediction
  /\ recorded = {}
  /\ latest = {}
  /\ updates = 0

-----------------------------------------------------------------------------
(***************************************************************************)
(* predict                                                                 *)
(***************************************************************************)
\* "(1 << (64/sector_size)) - 1", or nothing
UntrainedPattern ==
  IF config.window # 0 /\ rolling_sum >= HalfUsed * config.window THEN Sector
  ELSE IF config.untrained_policy_no_prediction THEN {} ELSE Sector

Told(x, b, found, pattern) ==
  predicted' = [key |-> KeyOf(x, b), found |-> found, pattern |-> pattern,
                fresh |-> <<KeyOf(x, b), pattern>> \in latest]

\* The first way that holds the tag
Holds(w, x) == tag_array[w][index_of[x]] = tag_of[x]

FoundIn(w, x) == Holds(w, x) /\ \A v \in Way : v < w => ~Holds(v, x)

predict(x, b) ==
  /\ ~config.infinite_table
  /\ \/ \E w \in Way :
          /\ FoundIn(w, x)
          /\ way_meta' = [way_meta EXCEPT ![index_of[x]] = w]
          /\ Told(x, b, TRUE, pattern_table[w][index_of[x]])
     \/ /\ \A w \in Way : ~Holds(w, x)
        /\ Told(x, b, FALSE, UntrainedPattern)
        /\ UNCHANGED way_meta
  /\ UNCHANGED <<config, tag_array, pattern_table, window, hashtable, recorded, latest, updates>>

predictInfinite(x, b) ==
  /\ config.infinite_table
  /\ \/ \E e \in hashtable : e[1] = key_of[<<x, b>>] /\ Told(x, b, TRUE, e[2])
     \/ /\ \A e \in hashtable : e[1] # key_of[<<x, b>>]
        /\ Told(x, b, FALSE,
                IF config.untrained_policy_no_prediction THEN {} ELSE Sector)
  /\ UNCHANGED <<config, table, window, hashtable, recorded, latest, updates>>

-----------------------------------------------------------------------------
(***************************************************************************)
(* update                                                                  *)
(***************************************************************************)
\* Mutant of update_rolling_average_util: the counter moves on before the write.
update_rolling_average_util_Early(n) ==
  LET oldest == rolling_average_counter
      next   == (oldest + 1) % config.window
  IN  /\ rolling_sum' = rolling_sum - rolling_average_utilization[oldest] + n
      /\ rolling_average_utilization' = [rolling_average_utilization EXCEPT ![next] = n]
      /\ rolling_average_counter' = next

\* "if (rolling_average > 8)", and below 0
Clamped(sum) ==
  LET most == Cardinality(Sector) * config.window
  IN  IF sum > most THEN most ELSE IF sum < 0 THEN 0 ELSE sum

\* The eviction replaces the oldest one of the window.
update_rolling_average_util(n) ==
  LET oldest == rolling_average_counter
  IN  /\ rolling_sum' = Clamped(rolling_sum - rolling_average_utilization[oldest] + n)
      /\ rolling_average_utilization' = [rolling_average_utilization EXCEPT ![oldest] = n]
      /\ rolling_average_counter' = (oldest + 1) % config.window

\* Mutant of ReplacementWay: the most recently used way is never replaced.
ReplacementWayAfter(i, way) ==
  IF config.ways > 1
  THEN \E r \in 0..(config.ways - 2) : way = (way_meta[i] + 1 + r) % config.ways
  ELSE way = 0

\* rand() chooses among all ways but the one before the most recently used.
ReplacementWay(i, way) ==
  IF config.ways > 1
  THEN \E r \in 0..(config.ways - 2) : way = (way_meta[i] + r) % config.ways
  ELSE way = 0

Recording(x, b, used) ==
  /\ updates < MaxUpdates
  /\ updates' = updates + 1
  /\ recorded' = recorded \cup {<<KeyOf(x, b), used>>}
  /\ latest' = {e \in latest : e[1] # KeyOf(x, b)} \cup {<<KeyOf(x, b), used>>}
  /\ UNCHANGED <<config, predicted>>

\* Mutant of Write: the pattern goes to the way of the last prediction.
WritePattern(i, way, tag, used) ==
  /\ tag_array' = [tag_array EXCEPT ![way][i] = tag]
  /\ pattern_table' = [pattern_table EXCEPT ![way_meta[i]][i] = used]

Write(i, way, tag, used) ==
  /\ tag_array' = [tag_array EXCEPT ![way][i] = tag]
  /\ pattern_table' = [pattern_table EXCEPT ![way][i] = used]

\* The tag is not looked for: another way may keep it with an older pattern.
update(x, b, used) ==
  /\ ~config.infinite_table
  /\ Recording(x, b, used)
  /\ IF config.window # 0 THEN update_rolling_average_util(Cardinality(used))
     ELSE UNCHANGED window
  /\ \E way \in Way :
       ReplacementWay(index_of[x], way) /\ Write(index_of[x], way, tag_of[x], used)
  /\ UNCHANGED <<way_meta, hashtable>>

\* Mutant of updateInfinite: hashtable.insert keeps a pattern that is there.
updateInfiniteOnce(x, b, used) ==
  /\ config.infinite_table
  /\ Recording(x, b, used)
  /\ hashtable' = IF \E e \in hashtable : e[1] = key_of[<<x, b>>] THEN hashtable
                  ELSE hashtable \cup {<<key_of[<<x, b>>], used>>}
  /\ UNCHANGED <<table, window>>

updateInfinite(x, b, used) ==
  /\ config.infinite_table
  /\ Recording(x, b, used)
  /\ hashtable' = {e \in hashtable : e[1] # key_of[<<x, b>>]} \cup {<<key_of[<<x, b>>], used>>}
  /\ UNCHANGED <<table, window>>

Next ==
  \E x \in Inst, b \in Block :
    \/ predict(x, b)
    \/ predictInfinite(x, b)
    \/ \E used \in SUBSET Sector : update(x, b, used) \/ updateInfinite(x, b, used)

Spec == Init /\ [][Next]_vars

-----------------------------------------------------------------------------
(***************************************************************************)
(* Properties.                                                             *)
(***************************************************************************)
\* The average that is updated by differences is the average of the window, so
\* neither clamp is ever needed.
RollingAverageExact ==
  rolling_sum = MapThenSumSet(LAMBDA n : rolling_average_utilization[n], Place)

\* A trained prediction was recorded for the same instruction (or key), whatever was
\* replaced in between; except tag 0, which an empty way seems to hold, so that
\* its prediction is no sector whatever the policy for untrained ones.
LooksTrained(key) == \E x \in Inst : key = <<"inst", x>> /\ tag_of[x] = 0

Learned(key, pattern) ==
  \/ <<key, pattern>> \in recorded
  \/ LooksTrained(key) /\ pattern = {}

PredictionWasRecorded == predicted.found => Learned(predicted.key, predicted.pattern)

\* With one way, and in the infinite table, what is predicted is what was recorded
\* last: with more ways an older copy in an earlier way wins.
PredictionIsLatest ==
  config.infinite_table \/ config.ways = 1 =>
    (predicted.found => predicted.fresh \/ (LooksTrained(predicted.key) /\ predicted.pattern = {}))

\* way_meta "stores the most recently used way", and the choice starts at it: of two
\* ways only the first is ever filled, and a table of two ways learns as one
\* of one way does.
TwoWaysActAsOne ==
  \A i \in Index :
    config.ways = 2 /\ (\A x \in Inst : index_of[x] = i => tag_of[x] # 0) =>
      way_meta[i] = 0 /\ tag_array[1][i] = 0 /\ pattern_table[1][i] = {}

=============================================================================
