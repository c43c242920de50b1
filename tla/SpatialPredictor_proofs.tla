------------------------ MODULE SpatialPredictor_proofs ------------------------
(***************************************************************************)
(* Proofs about SpatialPredictor, for any instructions, rows, tags, number *)
(* of ways and window, and any way rand() picks.                           *)
(***************************************************************************)
EXTENDS SpatialPredictor, FiniteSetTheorems, WellFoundedInduction, TLAPS

(***************************************************************************)
(* The type of the table.                                                  *)
(***************************************************************************)
TableType ==
  /\ config \in Configs
  /\ tag_array \in [Way -> [Index -> Tag]]
  /\ pattern_table \in [Way -> [Index -> SUBSET Sector]]
  /\ way_meta \in [Index -> Way]

(***************************************************************************)
(* What the table and the infinite table hold was recorded: for every      *)
(* instruction that a way would find, not only for the one that wrote it.  *)
(***************************************************************************)
TableRecorded ==
  ~config.infinite_table =>
    \A w \in Way, x \in Inst :
      Holds(w, x) => Learned(<<"inst", x>>, pattern_table[w][index_of[x]])

HashRecorded ==
  config.infinite_table => \A e \in hashtable : <<<<"key", e[1]>>, e[2]>> \in recorded

(***************************************************************************)
(* With one way the pattern that is found is the last one recorded, and    *)
(* so it is with the infinite table.                                       *)
(***************************************************************************)
TableLatest ==
  ~config.infinite_table /\ config.ways = 1 =>
    \A x \in Inst : Holds(0, x) =>
      LET found == pattern_table[0][index_of[x]]
      IN  <<<<"inst", x>>, found>> \in latest \/ (LooksTrained(<<"inst", x>>) /\ found = {})

HashLatest ==
  config.infinite_table => \A e \in hashtable : <<<<"key", e[1]>>, e[2]>> \in latest

RecordInv == TableType /\ TableRecorded /\ HashRecorded /\ PredictionWasRecorded

LatestInv == TableType /\ TableLatest /\ HashLatest /\ PredictionIsLatest

TwoWayInv == TableType /\ TwoWaysActAsOne

-----------------------------------------------------------------------------
LEMMA ConfigTypes ==
  ASSUME NEW c \in Configs
  PROVE  c.infinite_table \in BOOLEAN /\ c.ways \in Nat /\ c.ways > 0
BY PredictorAssumption

LEMMA MapTypes ==
  /\ 0 \in Tag
  /\ \A x \in Inst : index_of[x] \in Index /\ tag_of[x] \in Tag
  /\ \A x, y \in Inst : index_of[x] = index_of[y] /\ tag_of[x] = tag_of[y] => x = y
BY PredictorAssumption

\* The replaced way is a way.
LEMMA ReplacementType ==
  ASSUME TableType, NEW i \in Index, NEW way, ReplacementWay(i, way)
  PROVE  way \in Way
<1>1. config.ways \in Nat /\ config.ways > 0 /\ way_meta[i] \in Nat
  BY ConfigTypes DEF TableType, Way
<1>2. CASE config.ways > 1
  <2>1. PICK r \in 0..(config.ways - 2) : way = (way_meta[i] + r) % config.ways
    BY <1>2 DEF ReplacementWay
  <2>2. way_meta[i] + r \in Nat
    BY <1>1, <2>1
  <2>3. QED
    BY <1>1, <2>1, <2>2 DEF Way
<1>3. CASE config.ways = 1
  BY <1>1, <1>3 DEF ReplacementWay, Way
<1>4. QED
  BY <1>1, <1>2, <1>3

LEMMA InitTypes ==
  ASSUME Init
  PROVE  TableType
<1>1. config \in Configs /\ config.ways \in Nat /\ config.ways > 0
  BY ConfigTypes DEF Init
<1>2. 0 \in Way
  BY <1>1 DEF Way
<1>3. QED
  BY <1>1, <1>2, MapTypes DEF Init, TableType

LEMMA TypesKept ==
  ASSUME TableType, [Next]_vars
  PROVE  TableType'
<1> USE DEF TableType
<1>1. CASE UNCHANGED vars
  BY <1>1 DEF vars, table, Way
<1>2. ASSUME NEW x \in Inst, NEW b \in Block, predict(x, b)
      PROVE  TableType'
  BY <1>2, MapTypes DEF predict, Way
<1>3. ASSUME NEW x \in Inst, NEW b \in Block, predictInfinite(x, b)
      PROVE  TableType'
  BY <1>3 DEF predictInfinite, table, Way
<1>4. ASSUME NEW x \in Inst, NEW b \in Block, NEW used \in SUBSET Sector, update(x, b, used)
      PROVE  TableType'
  <2>1. PICK way \in Way : Write(index_of[x], way, tag_of[x], used)
    BY <1>4 DEF update
  <2>2. UNCHANGED <<config, way_meta>>
    BY <1>4 DEF update, Recording
  <2>3. index_of[x] \in Index /\ tag_of[x] \in Tag
    BY MapTypes
  <2>4. /\ tag_array' = [tag_array EXCEPT ![way][index_of[x]] = tag_of[x]]
        /\ pattern_table' = [pattern_table EXCEPT ![way][index_of[x]] = used]
    BY <2>1 DEF Write
  <2>5. tag_array' \in [Way -> [Index -> Tag]]
    BY <2>3, <2>4
  <2>6. pattern_table' \in [Way -> [Index -> SUBSET Sector]]
    BY <2>3, <2>4
  <2>7. QED
    BY <2>2, <2>5, <2>6 DEF Way
<1>5. ASSUME NEW x \in Inst, NEW b \in Block, NEW used \in SUBSET Sector, updateInfinite(x, b, used)
      PROVE  TableType'
  BY <1>5 DEF updateInfinite, Recording, table, Way
<1>6. QED
  BY <1>1, <1>2, <1>3, <1>4, <1>5 DEF Next

-----------------------------------------------------------------------------
(***************************************************************************)
(* What update leaves in the table.                                        *)
(***************************************************************************)
LEMMA TableUpdated ==
  ASSUME TableType, NEW x \in Inst, NEW b \in Block, NEW used \in SUBSET Sector, update(x, b, used)
  PROVE  \E way \in Way :
           /\ ReplacementWay(index_of[x], way)
           /\ tag_array' = [tag_array EXCEPT ![way][index_of[x]] = tag_of[x]]
           /\ pattern_table' = [pattern_table EXCEPT ![way][index_of[x]] = used]
           /\ Holds(way, x)' /\ pattern_table'[way][index_of[x]] = used
           /\ \A w \in Way, y \in Inst :
                \/ y = x /\ w = way
                \/ (Holds(w, y)' => /\ Holds(w, y)
                                    /\ pattern_table'[w][index_of[y]] = pattern_table[w][index_of[y]])
<1>1. PICK way \in Way : ReplacementWay(index_of[x], way) /\ Write(index_of[x], way, tag_of[x], used)
  BY DEF update
<1>2. /\ tag_array' = [tag_array EXCEPT ![way][index_of[x]] = tag_of[x]]
      /\ pattern_table' = [pattern_table EXCEPT ![way][index_of[x]] = used]
  BY <1>1 DEF Write
<1>3. /\ tag_array \in [Way -> [Index -> Tag]] /\ pattern_table \in [Way -> [Index -> SUBSET Sector]]
      /\ index_of[x] \in Index
  BY MapTypes DEF TableType
<1>4. ASSUME NEW w \in Way, NEW i \in Index
      PROVE  IF w = way /\ i = index_of[x]
             THEN tag_array'[w][i] = tag_of[x] /\ pattern_table'[w][i] = used
             ELSE tag_array'[w][i] = tag_array[w][i] /\ pattern_table'[w][i] = pattern_table[w][i]
  BY <1>2, <1>3
<1>5. Holds(way, x)' /\ pattern_table'[way][index_of[x]] = used
  BY <1>3, <1>4 DEF Holds
<1>6. ASSUME NEW w \in Way, NEW y \in Inst, ~(y = x /\ w = way), Holds(w, y)'
      PROVE  Holds(w, y) /\ pattern_table'[w][index_of[y]] = pattern_table[w][index_of[y]]
  <2>1. index_of[y] \in Index /\ tag_array'[w][index_of[y]] = tag_of[y]
    BY <1>6, MapTypes DEF Holds
  <2>2. ~(w = way /\ index_of[y] = index_of[x])
    BY <1>4, <1>6, <2>1, MapTypes
  <2>3. QED
    BY <1>4, <2>1, <2>2 DEF Holds
<1>7. QED
  BY <1>1, <1>2, <1>5, <1>6

\* The steps that only look things up leave tables and history alone.
LEMMA TableRead ==
  ASSUME UNCHANGED <<config, tag_array, pattern_table, hashtable, recorded, latest>>
  PROVE  /\ TableRecorded => TableRecorded'
         /\ HashRecorded => HashRecorded'
         /\ TableLatest => TableLatest'
         /\ HashLatest => HashLatest'
BY DEF TableRecorded, HashRecorded, TableLatest, HashLatest, Holds, Learned, LooksTrained, Way

-----------------------------------------------------------------------------
(***************************************************************************)
(* Predictions were recorded.                                              *)
(***************************************************************************)
LEMMA RecordKept ==
  ASSUME RecordInv, [Next]_vars
  PROVE  RecordInv'
<1>1. TableType' /\ TableType /\ TableRecorded /\ HashRecorded /\ PredictionWasRecorded
  BY TypesKept DEF RecordInv
<1>2. CASE UNCHANGED vars
  BY <1>1, <1>2, TableRead DEF vars, table, PredictionWasRecorded, Learned, LooksTrained, RecordInv
<1>3. ASSUME NEW x \in Inst, NEW b \in Block, predict(x, b)
      PROVE  RecordInv'
  <2>1. TableRecorded' /\ HashRecorded'
    BY <1>1, <1>3, TableRead DEF predict
  <2>2. ~config.infinite_table /\ UNCHANGED recorded /\ KeyOf(x, b) = <<"inst", x>>
    BY <1>3 DEF predict, KeyOf
  <2>3. CASE \E w \in Way : FoundIn(w, x) /\ Told(x, b, TRUE, pattern_table[w][index_of[x]])
    <3>1. PICK w \in Way : Holds(w, x) /\ Told(x, b, TRUE, pattern_table[w][index_of[x]])
      BY <2>3 DEF FoundIn
    <3>2. predicted'.key = <<"inst", x>> /\ predicted'.pattern = pattern_table[w][index_of[x]]
      BY <2>2, <3>1 DEF Told
    <3>3. Learned(<<"inst", x>>, pattern_table[w][index_of[x]])
      BY <1>1, <2>2, <3>1 DEF TableRecorded
    <3>4. QED
      BY <1>1, <2>1, <2>2, <3>2, <3>3 DEF RecordInv, PredictionWasRecorded, Learned, LooksTrained
  <2>4. CASE Told(x, b, FALSE, UntrainedPattern)
    <3>1. ~predicted'.found
      BY <2>4 DEF Told
    <3>2. QED
      BY <1>1, <2>1, <3>1 DEF RecordInv, PredictionWasRecorded
  <2>5. QED
    BY <1>3, <2>3, <2>4 DEF predict
<1>4. ASSUME NEW x \in Inst, NEW b \in Block, predictInfinite(x, b)
      PROVE  RecordInv'
  <2>1. TableRecorded' /\ HashRecorded'
    BY <1>1, <1>4, TableRead DEF predictInfinite, table
  <2>2. /\ config.infinite_table /\ UNCHANGED recorded
        /\ KeyOf(x, b) = <<"key", key_of[<<x, b>>]>>
    BY <1>4 DEF predictInfinite, KeyOf
  <2>3. CASE \E e \in hashtable : e[1] = key_of[<<x, b>>] /\ Told(x, b, TRUE, e[2])
    <3>1. PICK e \in hashtable : e[1] = key_of[<<x, b>>] /\ Told(x, b, TRUE, e[2])
      BY <2>3
    <3>2. predicted'.key = <<"key", e[1]>> /\ predicted'.pattern = e[2]
      BY <2>2, <3>1 DEF Told
    <3>3. <<<<"key", e[1]>>, e[2]>> \in recorded'
      BY <1>1, <2>2, <3>1 DEF HashRecorded
    <3>4. QED
      BY <1>1, <2>1, <3>2, <3>3 DEF RecordInv, PredictionWasRecorded, Learned
  <2>4. CASE Told(x, b, FALSE, IF config.untrained_policy_no_prediction THEN {} ELSE Sector)
    <3>1. ~predicted'.found
      BY <2>4 DEF Told
    <3>2. QED
      BY <1>1, <2>1, <3>1 DEF RecordInv, PredictionWasRecorded
  <2>5. QED
    BY <1>4, <2>3, <2>4 DEF predictInfinite
<1>5. ASSUME NEW x \in Inst, NEW b \in Block, NEW used \in SUBSET Sector, Recording(x, b, used)
      PROVE  /\ recorded \subseteq recorded' /\ <<KeyOf(x, b), used>> \in recorded'
             /\ PredictionWasRecorded' /\ config' = config
             /\ \A key, pattern : Learned(key, pattern) => Learned(key, pattern)'
  <2>1. /\ recorded \subseteq recorded' /\ <<KeyOf(x, b), used>> \in recorded'
        /\ UNCHANGED <<config, predicted>>
    BY <1>5 DEF Recording
  <2>2. ASSUME NEW key, NEW pattern, Learned(key, pattern)
        PROVE  Learned(key, pattern)'
    BY <2>1, <2>2 DEF Learned, LooksTrained
  <2>3. PredictionWasRecorded'
    BY <1>1, <2>1, <2>2 DEF PredictionWasRecorded
  <2>4. QED
    BY <2>1, <2>2, <2>3
<1>6. ASSUME NEW x \in Inst, NEW b \in Block, NEW used \in SUBSET Sector, update(x, b, used)
      PROVE  RecordInv'
  <2>1. /\ ~config.infinite_table /\ Recording(x, b, used) /\ KeyOf(x, b) = <<"inst", x>>
    BY <1>6 DEF update, KeyOf
  <2>2. PICK way \in Way :
          /\ pattern_table'[way][index_of[x]] = used
          /\ \A w \in Way, y \in Inst :
               \/ y = x /\ w = way
               \/ (Holds(w, y)' => /\ Holds(w, y)
                                   /\ pattern_table'[w][index_of[y]] = pattern_table[w][index_of[y]])
    BY <1>1, <1>6, TableUpdated
  <2>3. TableRecorded'
    <3> SUFFICES ASSUME NEW w \in Way, NEW y \in Inst, Holds(w, y)'
                 PROVE  Learned(<<"inst", y>>, pattern_table[w][index_of[y]])'
      BY <1>5, <2>1 DEF TableRecorded, Way
    <3>1. CASE y = x /\ w = way
      BY <1>5, <2>1, <2>2, <3>1 DEF Learned
    <3>2. CASE ~(y = x /\ w = way)
      <4>1. Holds(w, y) /\ pattern_table'[w][index_of[y]] = pattern_table[w][index_of[y]]
        BY <2>2, <3>2
      <4>2. Learned(<<"inst", y>>, pattern_table[w][index_of[y]])
        BY <1>1, <2>1, <4>1 DEF TableRecorded
      <4>3. QED
        BY <2>1, <1>5, <4>1, <4>2 DEF Learned, LooksTrained
    <3>3. QED
      BY <3>1, <3>2
  <2>4. HashRecorded'
    BY <1>5, <2>1 DEF HashRecorded
  <2>5. QED
    BY <1>1, <1>5, <2>1, <2>3, <2>4 DEF RecordInv
<1>7. ASSUME NEW x \in Inst, NEW b \in Block, NEW used \in SUBSET Sector, updateInfinite(x, b, used)
      PROVE  RecordInv'
  <2>1. /\ config.infinite_table /\ Recording(x, b, used)
        /\ KeyOf(x, b) = <<"key", key_of[<<x, b>>]>>
        /\ hashtable' = {e \in hashtable : e[1] # key_of[<<x, b>>]} \cup {<<key_of[<<x, b>>], used>>}
    BY <1>7 DEF updateInfinite, KeyOf
  <2>2. HashRecorded'
    <3> SUFFICES ASSUME NEW e \in hashtable'
                 PROVE  <<<<"key", e[1]>>, e[2]>> \in recorded'
      BY DEF HashRecorded
    <3>1. CASE e \in hashtable
      BY <1>1, <1>5, <2>1, <3>1 DEF HashRecorded
    <3>2. CASE e = <<key_of[<<x, b>>], used>>
      BY <1>5, <2>1, <3>2
    <3>3. QED
      BY <2>1, <3>1, <3>2
  <2>3. TableRecorded'
    BY <1>5, <2>1 DEF TableRecorded
  <2>4. QED
    BY <1>1, <1>5, <2>1, <2>2, <2>3 DEF RecordInv
<1>8. QED
  BY <1>2, <1>3, <1>4, <1>6, <1>7 DEF Next

\* An empty way predicts no sector for an instruction with tag 0, all the others must
\* have been written (SpatialPredictor.cpp:104, 157).
LEMMA RecordInit ==
  ASSUME Init
  PROVE  RecordInv
<1>1. TableType
  BY InitTypes
<1>2. ASSUME NEW w \in Way, NEW x \in Inst, Holds(w, x)
      PROVE  Learned(<<"inst", x>>, pattern_table[w][index_of[x]])
  <2>1. index_of[x] \in Index /\ tag_of[x] = 0 /\ pattern_table[w][index_of[x]] = {}
    BY <1>2, MapTypes DEF Init, Holds
  <2>2. QED
    BY <2>1 DEF Learned, LooksTrained
<1>3. HashRecorded /\ PredictionWasRecorded
  BY DEF Init, HashRecorded, PredictionWasRecorded, NoPrediction
<1>4. QED
  BY <1>1, <1>2, <1>3 DEF RecordInv, TableRecorded

\* A prediction for an instruction, or a key of the infinite table, was recorded for it.
THEOREM PredictionsWereRecorded == Spec => []PredictionWasRecorded
<1>1. Init => RecordInv
  BY RecordInit
<1>2. RecordInv /\ [Next]_vars => RecordInv'
  BY RecordKept
<1>3. RecordInv => PredictionWasRecorded
  BY DEF RecordInv
<1>4. QED
  BY <1>1, <1>2, <1>3, PTL DEF Spec

-----------------------------------------------------------------------------
(***************************************************************************)
(* With one way predictions are the latest ones.                           *)
(***************************************************************************)
\* An entry for another key stays the latest one.
LEMMA LatestRecorded ==
  ASSUME NEW x \in Inst, NEW b \in Block, NEW used, Recording(x, b, used)
  PROVE  /\ <<KeyOf(x, b), used>> \in latest'
         /\ \A key, pattern : key # KeyOf(x, b) /\ <<key, pattern>> \in latest => <<key, pattern>> \in latest'
         /\ UNCHANGED <<config, predicted>>
BY DEF Recording

LEMMA LatestKept ==
  ASSUME LatestInv, [Next]_vars
  PROVE  LatestInv'
<1>1. TableType' /\ TableType /\ TableLatest /\ HashLatest /\ PredictionIsLatest
  BY TypesKept DEF LatestInv
<1>2. CASE UNCHANGED vars
  BY <1>1, <1>2, TableRead DEF vars, table, PredictionIsLatest, LooksTrained, LatestInv
<1>3. ASSUME NEW x \in Inst, NEW b \in Block, predict(x, b)
      PROVE  LatestInv'
  <2>1. TableLatest' /\ HashLatest'
    BY <1>1, <1>3, TableRead DEF predict
  <2>2. ~config.infinite_table /\ UNCHANGED <<config, latest>> /\ KeyOf(x, b) = <<"inst", x>>
    BY <1>3 DEF predict, KeyOf
  <2>3. CASE \E w \in Way : FoundIn(w, x) /\ Told(x, b, TRUE, pattern_table[w][index_of[x]])
    <3>1. PICK w \in Way : Holds(w, x) /\ Told(x, b, TRUE, pattern_table[w][index_of[x]])
      BY <2>3 DEF FoundIn
    <3> DEFINE found == pattern_table[w][index_of[x]]
    <3>2. /\ predicted'.key = <<"inst", x>> /\ predicted'.pattern = found
          /\ predicted'.fresh = (<<<<"inst", x>>, found>> \in latest)
      BY <2>2, <3>1 DEF Told
    <3>3. SUFFICES ASSUME config.ways = 1
                   PROVE  predicted'.fresh \/ (LooksTrained(predicted'.key) /\ predicted'.pattern = {})
      BY <1>1, <2>1, <2>2 DEF LatestInv, PredictionIsLatest, LooksTrained
    <3>4. w = 0
      BY <3>3 DEF Way
    <3>5. <<<<"inst", x>>, found>> \in latest \/ (LooksTrained(<<"inst", x>>) /\ found = {})
      BY <1>1, <2>2, <3>1, <3>3, <3>4 DEF TableLatest
    <3>6. QED
      BY <3>2, <3>5
  <2>4. CASE Told(x, b, FALSE, UntrainedPattern)
    <3>1. ~predicted'.found
      BY <2>4 DEF Told
    <3>2. QED
      BY <1>1, <2>1, <3>1 DEF LatestInv, PredictionIsLatest
  <2>5. QED
    BY <1>3, <2>3, <2>4 DEF predict
<1>4. ASSUME NEW x \in Inst, NEW b \in Block, predictInfinite(x, b)
      PROVE  LatestInv'
  <2>1. TableLatest' /\ HashLatest'
    BY <1>1, <1>4, TableRead DEF predictInfinite, table
  <2>2. config.infinite_table /\ KeyOf(x, b) = <<"key", key_of[<<x, b>>]>>
    BY <1>4 DEF predictInfinite, KeyOf
  <2>3. CASE \E e \in hashtable : e[1] = key_of[<<x, b>>] /\ Told(x, b, TRUE, e[2])
    <3>1. PICK e \in hashtable : e[1] = key_of[<<x, b>>] /\ Told(x, b, TRUE, e[2])
      BY <2>3
    <3>2. <<KeyOf(x, b), e[2]>> \in latest
      BY <1>1, <2>2, <3>1 DEF HashLatest
    <3>3. predicted'.fresh
      BY <3>1, <3>2 DEF Told
    <3>4. QED
      BY <1>1, <2>1, <3>3 DEF LatestInv, PredictionIsLatest
  <2>4. CASE Told(x, b, FALSE, IF config.untrained_policy_no_prediction THEN {} ELSE Sector)
    <3>1. ~predicted'.found
      BY <2>4 DEF Told
    <3>2. QED
      BY <1>1, <2>1, <3>1 DEF LatestInv, PredictionIsLatest
  <2>5. QED
    BY <1>4, <2>3, <2>4 DEF predictInfinite
<1>5. ASSUME NEW x \in Inst, NEW b \in Block, NEW used \in SUBSET Sector, update(x, b, used)
      PROVE  LatestInv'
  <2>1. /\ ~config.infinite_table /\ Recording(x, b, used) /\ KeyOf(x, b) = <<"inst", x>>
        /\ UNCHANGED <<config, predicted>>
    BY <1>5 DEF update, KeyOf, Recording
  <2>2. PICK way \in Way :
          /\ pattern_table'[way][index_of[x]] = used
          /\ \A w \in Way, y \in Inst :
               \/ y = x /\ w = way
               \/ (Holds(w, y)' => /\ Holds(w, y)
                                   /\ pattern_table'[w][index_of[y]] = pattern_table[w][index_of[y]])
    BY <1>1, <1>5, TableUpdated
  <2>3. TableLatest'
    <3> SUFFICES ASSUME config.ways = 1, NEW y \in Inst, Holds(0, y)'
                 PROVE  \/ <<<<"inst", y>>, pattern_table'[0][index_of[y]]>> \in latest'
                        \/ LooksTrained(<<"inst", y>>) /\ pattern_table'[0][index_of[y]] = {}
      BY <2>1 DEF TableLatest, LooksTrained
    <3>1. way = 0 /\ 0 \in Way
      BY DEF Way
    <3>2. CASE y = x
      BY <2>1, <2>2, <3>1, <3>2, LatestRecorded
    <3>3. CASE y # x
      <4>1. Holds(0, y) /\ pattern_table'[0][index_of[y]] = pattern_table[0][index_of[y]]
        BY <2>2, <3>1, <3>3
      <4>2. \/ <<<<"inst", y>>, pattern_table[0][index_of[y]]>> \in latest
            \/ LooksTrained(<<"inst", y>>) /\ pattern_table[0][index_of[y]] = {}
        BY <1>1, <2>1, <4>1 DEF TableLatest
      <4>3. <<"inst", y>> # KeyOf(x, b)
        BY <2>1, <3>3
      <4>4. QED
        BY <2>1, <4>1, <4>2, <4>3, LatestRecorded
    <3>4. QED
      BY <3>2, <3>3
  <2>4. HashLatest' /\ PredictionIsLatest'
    BY <1>1, <2>1 DEF HashLatest, PredictionIsLatest, LooksTrained
  <2>5. QED
    BY <1>1, <2>3, <2>4 DEF LatestInv
<1>6. ASSUME NEW x \in Inst, NEW b \in Block, NEW used \in SUBSET Sector, updateInfinite(x, b, used)
      PROVE  LatestInv'
  <2>1. /\ config.infinite_table /\ Recording(x, b, used)
        /\ KeyOf(x, b) = <<"key", key_of[<<x, b>>]>>
        /\ hashtable' = {e \in hashtable : e[1] # key_of[<<x, b>>]} \cup {<<key_of[<<x, b>>], used>>}
        /\ UNCHANGED <<config, predicted>>
    BY <1>6 DEF updateInfinite, KeyOf, Recording
  <2>2. HashLatest'
    <3> SUFFICES ASSUME NEW e \in hashtable'
                 PROVE  <<<<"key", e[1]>>, e[2]>> \in latest'
      BY DEF HashLatest
    <3>1. CASE e \in hashtable /\ e[1] # key_of[<<x, b>>]
      <4>1. <<<<"key", e[1]>>, e[2]>> \in latest
        BY <1>1, <2>1, <3>1 DEF HashLatest
      <4>2. <<"key", e[1]>> # KeyOf(x, b)
        BY <2>1, <3>1
      <4>3. QED
        BY <2>1, <4>1, <4>2, LatestRecorded
    <3>2. CASE e = <<key_of[<<x, b>>], used>>
      BY <2>1, <3>2, LatestRecorded
    <3>3. QED
      BY <2>1, <3>1, <3>2
  <2>3. TableLatest' /\ PredictionIsLatest'
    BY <1>1, <2>1 DEF TableLatest, PredictionIsLatest, LooksTrained
  <2>4. QED
    BY <1>1, <2>2, <2>3 DEF LatestInv
<1>7. QED
  BY <1>2, <1>3, <1>4, <1>5, <1>6 DEF Next

LEMMA LatestInit ==
  ASSUME Init
  PROVE  LatestInv
<1>1. TableType
  BY InitTypes
<1>2. HashLatest /\ PredictionIsLatest
  BY DEF Init, HashLatest, PredictionIsLatest, NoPrediction
<1>3. TableLatest
  <2> SUFFICES ASSUME config.ways = 1, NEW x \in Inst, Holds(0, x)
               PROVE  LooksTrained(<<"inst", x>>) /\ pattern_table[0][index_of[x]] = {}
    BY DEF TableLatest
  <2>1. 0 \in Way /\ index_of[x] \in Index
    BY MapTypes DEF Way
  <2>2. tag_of[x] = 0 /\ pattern_table[0][index_of[x]] = {}
    BY <2>1 DEF Init, Holds
  <2>3. QED
    BY <2>2 DEF LooksTrained
<1>4. QED
  BY <1>1, <1>2, <1>3 DEF LatestInv

\* With one way, or the infinite table, a prediction is the pattern recorded last.
THEOREM PredictionsAreLatest == Spec => []PredictionIsLatest
<1>1. Init => LatestInv
  BY LatestInit
<1>2. LatestInv /\ [Next]_vars => LatestInv'
  BY LatestKept
<1>3. LatestInv => PredictionIsLatest
  BY DEF LatestInv
<1>4. QED
  BY <1>1, <1>2, <1>3, PTL DEF Spec

-----------------------------------------------------------------------------
(***************************************************************************)
(* Two ways act as one.                                                    *)
(***************************************************************************)
LEMMA TwoWaysKept ==
  ASSUME TwoWayInv, [Next]_vars
  PROVE  TwoWayInv'
<1>1. TableType /\ TableType' /\ TwoWaysActAsOne
  BY TypesKept DEF TwoWayInv
<1>2. UNCHANGED config
  BY DEF Next, vars, predict, predictInfinite, update, updateInfinite, Recording
<1>3. CASE UNCHANGED table
  BY <1>1, <1>2, <1>3 DEF table, TwoWayInv, TwoWaysActAsOne
<1>4. ASSUME NEW i \in Index, config.ways = 2, \A x \in Inst : index_of[x] = i => tag_of[x] # 0
      PROVE  way_meta[i] = 0 /\ tag_array[1][i] = 0 /\ pattern_table[1][i] = {} /\ Way = {0, 1}
  BY <1>1, <1>4 DEF TwoWaysActAsOne, Way
<1>5. ASSUME NEW x \in Inst, NEW b \in Block, predict(x, b)
      PROVE  TwoWayInv'
  <2> SUFFICES ASSUME NEW i \in Index, config.ways = 2,
                      \A y \in Inst : index_of[y] = i => tag_of[y] # 0
               PROVE  way_meta'[i] = 0 /\ tag_array'[1][i] = 0 /\ pattern_table'[1][i] = {}
    BY <1>1, <1>2 DEF TwoWayInv, TwoWaysActAsOne
  <2>1. tag_array'[1][i] = 0 /\ pattern_table'[1][i] = {}
    BY <1>4, <1>5 DEF predict
  <2>2. CASE UNCHANGED way_meta
    BY <1>4, <2>1, <2>2
  <2>3. ASSUME NEW w \in Way, FoundIn(w, x), way_meta' = [way_meta EXCEPT ![index_of[x]] = w]
        PROVE  way_meta'[i] = 0
    <3>1. index_of[x] = i => w = 0
      BY <1>4, <2>3 DEF FoundIn, Holds
    <3>2. QED
      BY <1>1, <1>4, <2>3, <3>1, MapTypes DEF TableType
  <2>4. QED
    BY <1>5, <2>1, <2>2, <2>3 DEF predict
<1>6. ASSUME NEW x \in Inst, NEW b \in Block, NEW used \in SUBSET Sector, update(x, b, used)
      PROVE  TwoWayInv'
  <2> SUFFICES ASSUME NEW i \in Index, config.ways = 2,
                      \A y \in Inst : index_of[y] = i => tag_of[y] # 0
               PROVE  way_meta'[i] = 0 /\ tag_array'[1][i] = 0 /\ pattern_table'[1][i] = {}
    BY <1>1, <1>2 DEF TwoWayInv, TwoWaysActAsOne
  <2>1. PICK way \in Way :
          /\ ReplacementWay(index_of[x], way)
          /\ tag_array' = [tag_array EXCEPT ![way][index_of[x]] = tag_of[x]]
          /\ pattern_table' = [pattern_table EXCEPT ![way][index_of[x]] = used]
    BY <1>1, <1>6, TableUpdated
  <2>2. index_of[x] = i => way = 0
    <3> SUFFICES ASSUME index_of[x] = i
                 PROVE  way = 0
      OBVIOUS
    <3>1. PICK r \in 0..(config.ways - 2) : way = (way_meta[i] + r) % config.ways
      BY <2>1 DEF ReplacementWay
    <3>2. r = 0 /\ way_meta[i] = 0 /\ config.ways = 2
      BY <1>4, <3>1
    <3>3. QED
      BY <3>1, <3>2
  <2>3. tag_array'[1][i] = tag_array[1][i] /\ pattern_table'[1][i] = pattern_table[1][i]
    BY <1>1, <1>4, <2>1, <2>2, MapTypes DEF TableType
  <2>4. way_meta' = way_meta
    BY <1>6 DEF update
  <2>5. QED
    BY <1>4, <2>3, <2>4
<1>7. ASSUME NEW x \in Inst, NEW b \in Block,
             predictInfinite(x, b) \/ \E used \in SUBSET Sector : updateInfinite(x, b, used)
      PROVE  TwoWayInv'
  BY <1>3, <1>7 DEF predictInfinite, updateInfinite
<1>8. QED
  BY <1>3, <1>5, <1>6, <1>7 DEF Next, vars

\* rand() starts at the way that was used last (SpatialPredictor.cpp:152), so the second of
\* two ways is never written where no instruction has tag 0.
THEOREM SecondWayIsUnused == Spec => []TwoWaysActAsOne
<1>1. Init => TwoWayInv
  BY InitTypes, MapTypes DEF Init, TwoWayInv, TwoWaysActAsOne, Way
<1>2. TwoWayInv /\ [Next]_vars => TwoWayInv'
  BY TwoWaysKept
<1>3. TwoWayInv => TwoWaysActAsOne
  BY DEF TwoWayInv
<1>4. QED
  BY <1>1, <1>2, <1>3, PTL DEF Spec

-----------------------------------------------------------------------------
(***************************************************************************)
(* The rolling average is exact for a window of any size and any number of *)
(* sectors: the sum that is updated by differences is the sum over the     *)
(* window, and the clamp is never needed.  MapThenSumSet computes that sum *)
(* recursively over sets; what is needed of it follows by induction on the *)
(* subsets of a finite set.                                                *)
(***************************************************************************)
LEMMA SubsetInduction ==
  ASSUME NEW S, IsFiniteSet(S), NEW G \in SUBSET SUBSET S,
         \A s \in SUBSET S : (\A t \in SUBSET s : t # s => t \in G) => s \in G
  PROVE  G = SUBSET S
<1> SUFFICES ASSUME (SUBSET S) \ G # {}
             PROVE  FALSE
  OBVIOUS
<1> DEFINE T == (SUBSET S) \ G
           R == StrictSubsetOrdering(S)
<1>1. IsWellFoundedOn(R, FiniteSubsetsOf(S))
  BY FS_StrictSubsetOrderingWellFounded
<1>2. T # {} /\ T \subseteq FiniteSubsetsOf(S)
  <2>1. \A s \in SUBSET S : IsFiniteSet(s)
    BY FS_Subset
  <2>2. QED
    BY <2>1 DEF FiniteSubsetsOf
<1> HIDE DEF R, T
<1>3. PICK s : s \in T /\ \A t \in T : <<t, s>> \notin R
  <2>1. \E x \in T : \A y \in T : ~(<<y, x>> \in R)
    BY <1>1, <1>2, WFMin
  <2>2. QED
    BY <2>1
<1>4. s \in SUBSET S /\ s \notin G
  BY <1>3 DEF T
<1>5. PICK t \in SUBSET s : t # s /\ t \notin G
  BY <1>4
<1>6. t \in T /\ <<t, s>> \in R
  BY <1>4, <1>5 DEF R, T, StrictSubsetOrdering
<1>7. QED
  BY <1>3, <1>6

-----------------------------------------------------------------------------
(***************************************************************************)
(* The sum of f over the subsets of a set, as MapThenSumSet computes it.   *)
(***************************************************************************)
Pick(s) == CHOOSE x \in s : TRUE

Rest(s) == s \ {Pick(s)}

SumOver(g, f, U) == g = [s \in U |-> IF s = {} THEN 0 ELSE f[Pick(s)] + g[Rest(s)]]

SumOf(f, S) == CHOOSE g : SumOver(g, f, SUBSET S)

LEMMA SumIsSum ==
  ASSUME NEW f, NEW S
  PROVE  MapThenSumSet(LAMBDA n : f[n], S) = SumOf(f, S)[S]
BY DEF MapThenSumSet, MapThenFoldSet, SumOf, SumOver, Pick, Rest

LEMMA RestFacts ==
  ASSUME NEW s, s # {}
  PROVE  Pick(s) \in s /\ Rest(s) \subseteq s /\ Rest(s) # s /\ s = Rest(s) \cup {Pick(s)}
         /\ Pick(s) \notin Rest(s)
BY DEF Pick, Rest

Agree(g, h, U) == \A s \in SUBSET U : g[s] = h[s]

\* Two such sums agree where both are defined.
LEMMA SumUnique ==
  ASSUME NEW S, IsFiniteSet(S), NEW f
  PROVE  \A a, b \in SUBSET S : \A g, h :
           SumOver(g, f, SUBSET a) /\ SumOver(h, f, SUBSET b) => Agree(g, h, a \cap b)
<1> TAKE a, b \in SUBSET S
<1> TAKE g, h
<1> HAVE SumOver(g, f, SUBSET a) /\ SumOver(h, f, SUBSET b)
<1> DEFINE G == {s \in SUBSET S : s \subseteq a /\ s \subseteq b => g[s] = h[s]}
<1>1. ASSUME NEW s \in SUBSET S, \A t \in SUBSET s : t # s => t \in G
      PROVE  s \in G
  <2> SUFFICES ASSUME s \subseteq a, s \subseteq b
               PROVE  g[s] = h[s]
    OBVIOUS
  <2>1. CASE s = {}
    BY <2>1 DEF SumOver
  <2>2. CASE s # {}
    <3>1. g[s] = f[Pick(s)] + g[Rest(s)] /\ h[s] = f[Pick(s)] + h[Rest(s)]
      BY <2>2 DEF SumOver
    <3>2. Rest(s) \in SUBSET s /\ Rest(s) # s
      BY <2>2, RestFacts
    <3>3. Rest(s) \in G
      BY <1>1, <3>2
    <3>4. g[Rest(s)] = h[Rest(s)]
      BY <3>2, <3>3
    <3>5. QED
      BY <3>1, <3>4
  <2>3. QED
    BY <2>1, <2>2
<1>2. G = SUBSET S
  <2>1. G \in SUBSET SUBSET S
    OBVIOUS
  <2> HIDE DEF G
  <2>2. QED
    BY <1>1, <2>1, SubsetInduction
<1>3. QED
  BY <1>2 DEF Agree

LEMMA SumExists ==
  ASSUME NEW S, IsFiniteSet(S), NEW f
  PROVE  \E g : SumOver(g, f, SUBSET S)
<1> DEFINE G == {s \in SUBSET S : \E g : SumOver(g, f, SUBSET s)}
           sum(s) == CHOOSE g : SumOver(g, f, SUBSET s)
<1>1. \A s \in G : SumOver(sum(s), f, SUBSET s)
  OBVIOUS
<1> HIDE DEF sum
<1>2. ASSUME NEW s \in SUBSET S, \A t \in SUBSET s : t # s => t \in G
      PROVE  s \in G
  <2> DEFINE h == [t \in SUBSET s |-> IF t = {} THEN 0 ELSE f[Pick(t)] + sum(Rest(t))[Rest(t)]]
  <2>1. ASSUME NEW t \in SUBSET s, t # s
        PROVE  h[t] = sum(t)[t]
    <3>1. t \in SUBSET S /\ SumOver(sum(t), f, SUBSET t)
      BY <1>1, <1>2, <2>1
    <3>2. CASE t = {}
      BY <3>1, <3>2 DEF SumOver
    <3>3. CASE t # {}
      <4>1. Rest(t) \in SUBSET t /\ Rest(t) \in SUBSET s /\ Rest(t) # s /\ Rest(t) \in SUBSET S
        BY <2>1, <3>3, RestFacts
      <4>2. SumOver(sum(Rest(t)), f, SUBSET Rest(t))
        BY <1>1, <1>2, <4>1
      <4>3. sum(t)[Rest(t)] = sum(Rest(t))[Rest(t)]
        <5> DEFINE u == Rest(t)
        <5>1. /\ u \in SUBSET S /\ u \subseteq t /\ u \subseteq u
              /\ SumOver(sum(u), f, SUBSET u) /\ SumOver(sum(t), f, SUBSET t) /\ t \in SUBSET S
          BY <3>1, <4>1, <4>2
        <5> HIDE DEF u, h, G
        <5>2. Agree(sum(t), sum(u), t \cap u)
          BY <5>1, SumUnique
        <5>3. sum(t)[u] = sum(u)[u]
          BY <5>1, <5>2 DEF Agree
        <5>4. QED
          BY <5>3 DEF u
      <4>4. sum(t)[t] = f[Pick(t)] + sum(t)[Rest(t)]
        BY <3>1, <3>3 DEF SumOver
      <4>5. QED
        BY <3>3, <4>3, <4>4
    <3>4. QED
      BY <3>2, <3>3
  <2>2. ASSUME NEW t \in SUBSET s
        PROVE  h[t] = IF t = {} THEN 0 ELSE f[Pick(t)] + h[Rest(t)]
    <3>1. CASE t = {}
      BY <3>1
    <3>2. CASE t # {}
      <4>1. Rest(t) \in SUBSET s /\ Rest(t) # s
        BY <3>2, RestFacts
      <4>2. h[Rest(t)] = sum(Rest(t))[Rest(t)]
        BY <2>1, <4>1
      <4>3. h[t] = f[Pick(t)] + sum(Rest(t))[Rest(t)]
        BY <3>2
      <4>4. QED
        BY <3>2, <4>2, <4>3
    <3>3. QED
      BY <3>1, <3>2
  <2>3. SumOver(h, f, SUBSET s)
    <3>1. h = [t \in SUBSET s |-> h[t]]
      OBVIOUS
    <3> HIDE DEF h
    <3>2. QED
      BY <2>2, <3>1 DEF SumOver
  <2>4. QED
    BY <2>3
<1>3. G = SUBSET S
  <2>1. G \in SUBSET SUBSET S
    OBVIOUS
  <2> HIDE DEF G
  <2>2. QED
    BY <1>2, <2>1, SubsetInduction
<1>4. QED
  BY <1>3

LEMMA SumFacts ==
  ASSUME NEW S, IsFiniteSet(S), NEW f
  PROVE  /\ SumOf(f, S)[{}] = 0
         /\ \A s \in SUBSET S : s # {} => SumOf(f, S)[s] = f[Pick(s)] + SumOf(f, S)[Rest(s)]
<1>1. SumOver(SumOf(f, S), f, SUBSET S)
  BY SumExists DEF SumOf
<1>2. QED
  BY <1>1 DEF SumOver

\* A sum of numbers up to k over n of them is a number up to k times n.
LEMMA SumBounded ==
  ASSUME NEW S, IsFiniteSet(S), NEW k \in Nat, NEW f \in [S -> 0..k]
  PROVE  \A s \in SUBSET S : SumOf(f, S)[s] \in Nat /\ SumOf(f, S)[s] <= k * Cardinality(s)
<1> DEFINE F == SumOf(f, S)
           G == {s \in SUBSET S : F[s] \in Nat /\ F[s] <= k * Cardinality(s)}
<1>1. F[{}] = 0 /\ \A s \in SUBSET S : s # {} => F[s] = f[Pick(s)] + F[Rest(s)]
  BY SumFacts
<1> HIDE DEF F
<1>2. ASSUME NEW s \in SUBSET S, \A t \in SUBSET s : t # s => t \in G
      PROVE  s \in G
  <2>1. CASE s = {}
    <3>1. Cardinality({}) = 0 /\ k * 0 = 0
      BY FS_EmptySet
    <3>2. QED
      BY <1>1, <2>1, <3>1
  <2>2. CASE s # {}
    <3>1. Pick(s) \in s /\ Rest(s) \subseteq s /\ Rest(s) # s /\ Pick(s) \in S
      BY <2>2, RestFacts
    <3>2. F[Rest(s)] \in Nat /\ F[Rest(s)] <= k * Cardinality(Rest(s))
      BY <1>2, <3>1
    <3>3. Cardinality(Rest(s)) = Cardinality(s) - 1 /\ Cardinality(s) \in Nat
      BY <3>1, FS_Subset, FS_RemoveElement, FS_CardinalityType DEF Rest
    <3>4. f[Pick(s)] \in 0..k
      BY <3>1
    <3>5. F[s] = f[Pick(s)] + F[Rest(s)]
      BY <1>1, <2>2
    <3>6. k * (Cardinality(s) - 1) = k * Cardinality(s) - k /\ k * Cardinality(s) \in Nat
      BY <3>3
    <3>7. F[s] \in Nat /\ F[s] <= k * Cardinality(s)
      <4> DEFINE m == k * Cardinality(s)
      <4>1. F[Rest(s)] <= m - k /\ m \in Nat
        BY <3>2, <3>3, <3>6
      <4> HIDE DEF m
      <4>2. F[s] \in Nat /\ F[s] <= m
        BY <3>2, <3>4, <3>5, <4>1
      <4>3. QED
        BY <4>2 DEF m
    <3>8. QED
      BY <3>7
  <2>3. QED
    BY <2>1, <2>2
<1>3. G = SUBSET S
  <2>1. G \in SUBSET SUBSET S
    OBVIOUS
  <2> HIDE DEF G
  <2>2. QED
    BY <1>2, <2>1, SubsetInduction
<1>4. QED
  BY <1>3 DEF F

\* One value changes: the sum changes by the difference.
LEMMA SumChanged ==
  ASSUME NEW S, IsFiniteSet(S), NEW k \in Nat, NEW f \in [S -> 0..k], NEW p \in S, NEW n \in 0..k
  PROVE  SumOf([f EXCEPT ![p] = n], S)[S] = SumOf(f, S)[S] - f[p] + n
<1> DEFINE e == [f EXCEPT ![p] = n]
           F == SumOf(f, S)
           E == SumOf(e, S)
           change(s) == IF p \in s THEN n - f[p] ELSE 0
           G == {s \in SUBSET S : E[s] = F[s] + change(s)}
<1>1. F[{}] = 0 /\ \A s \in SUBSET S : s # {} => F[s] = f[Pick(s)] + F[Rest(s)]
  BY SumFacts
<1>2. E[{}] = 0 /\ \A s \in SUBSET S : s # {} => E[s] = e[Pick(s)] + E[Rest(s)]
  BY SumFacts
<1>3. \A s \in SUBSET S : F[s] \in Nat
  BY SumBounded
<1>4. \A x \in S : e[x] = (IF x = p THEN n ELSE f[x]) /\ f[x] \in Nat
  OBVIOUS
<1> HIDE DEF E, F, e
<1>5. ASSUME NEW s \in SUBSET S, \A t \in SUBSET s : t # s => t \in G
      PROVE  s \in G
  <2>1. CASE s = {}
    BY <1>1, <1>2, <2>1
  <2>2. CASE s # {}
    <3>1. /\ Pick(s) \in S /\ Rest(s) \in SUBSET s /\ Rest(s) # s /\ Rest(s) \in SUBSET S
          /\ s = Rest(s) \cup {Pick(s)} /\ Pick(s) \notin Rest(s)
      BY <2>2, RestFacts
    <3>2. E[Rest(s)] = F[Rest(s)] + change(Rest(s))
      BY <1>5, <3>1
    <3>3. E[s] = e[Pick(s)] + E[Rest(s)] /\ F[s] = f[Pick(s)] + F[Rest(s)]
      BY <1>1, <1>2, <2>2
    <3>4. F[Rest(s)] \in Nat /\ f[Pick(s)] \in Nat /\ f[p] \in Nat /\ n \in Nat
      BY <1>3, <1>4, <3>1
    <3>5. CASE Pick(s) = p
      <4>1. change(s) = n - f[p] /\ change(Rest(s)) = 0 /\ e[Pick(s)] = n
        BY <1>4, <3>1, <3>5
      <4>2. E[s] = F[s] + change(s)
        BY <3>2, <3>3, <3>4, <3>5, <4>1
      <4>3. QED
        BY <4>2
    <3>6. CASE Pick(s) # p
      <4>1. change(s) = change(Rest(s)) /\ e[Pick(s)] = f[Pick(s)] /\ change(s) \in Int
        BY <1>4, <3>1, <3>4, <3>6
      <4> HIDE DEF change
      <4>2. E[s] = F[s] + change(s)
        BY <3>2, <3>3, <3>4, <4>1
      <4>3. QED
        BY <4>2
    <3>7. QED
      BY <3>5, <3>6
  <2>3. QED
    BY <2>1, <2>2
<1>6. G = SUBSET S
  <2>1. G \in SUBSET SUBSET S
    OBVIOUS
  <2> HIDE DEF G
  <2>2. QED
    BY <1>5, <2>1, SubsetInduction
<1>7. E[S] = F[S] + (n - f[p])
  BY <1>6
<1>8. F[S] \in Nat /\ f[p] \in Nat /\ n \in Nat
  BY <1>3, <1>4
<1>9. E[S] = F[S] - f[p] + n
  BY <1>7, <1>8
<1>10. QED
  BY <1>9 DEF E, F, e

-----------------------------------------------------------------------------
(***************************************************************************)
(* The window holds counts of sectors, and the sum is theirs.              *)
(***************************************************************************)
WindowType ==
  /\ config \in Configs
  /\ rolling_average_utilization \in [Place -> 0..Cardinality(Sector)]
  /\ config.window # 0 => rolling_average_counter \in Place

SumIsKept == rolling_sum = SumOf(rolling_average_utilization, Place)[Place]

AverageInv == WindowType /\ SumIsKept

LEMMA PlaceFacts ==
  ASSUME config \in Configs
  PROVE  /\ config.window \in Nat /\ IsFiniteSet(Place) /\ Cardinality(Place) = config.window
         /\ Cardinality(Sector) \in Nat
<1>1. config.window \in Nat /\ IsFiniteSet(Sector)
  BY PredictorAssumption
<1>2. IsFiniteSet(Place) /\ Cardinality(Place) = config.window
  <2>1. 0 \in Int /\ config.window - 1 \in Int
    BY <1>1
  <2>2. /\ IsFiniteSet(0..(config.window - 1))
        /\ Cardinality(0..(config.window - 1)) =
             IF 0 > config.window - 1 THEN 0 ELSE (config.window - 1) - 0 + 1
    BY <2>1, FS_Interval
  <2>3. QED
    BY <1>1, <2>2 DEF Place
<1>3. QED
  BY <1>1, <1>2, FS_CardinalityType

LEMMA AverageInit ==
  ASSUME Init
  PROVE  AverageInv
<1>1. config \in Configs
  BY DEF Init
<1>2. /\ config.window \in Nat /\ IsFiniteSet(Place) /\ Cardinality(Place) = config.window
      /\ Cardinality(Sector) \in Nat
  BY <1>1, PlaceFacts
<1>3. rolling_average_utilization \in [Place -> 0..0]
  BY DEF Init
<1>4. WindowType
  BY <1>1, <1>2 DEF Init, WindowType, Place
<1>5. /\ SumOf(rolling_average_utilization, Place)[Place] \in Nat
      /\ SumOf(rolling_average_utilization, Place)[Place] <= 0 * Cardinality(Place)
  <2>1. \A s \in SUBSET Place :
          /\ SumOf(rolling_average_utilization, Place)[s] \in Nat
          /\ SumOf(rolling_average_utilization, Place)[s] <= 0 * Cardinality(s)
    BY <1>2, <1>3, SumBounded
  <2>2. QED
    BY <2>1
<1>6. SumOf(rolling_average_utilization, Place)[Place] = 0
  BY <1>2, <1>5
<1>7. QED
  BY <1>4, <1>6 DEF Init, AverageInv, SumIsKept

\* An eviction replaces the oldest of the window, and the clamp changes nothing.
LEMMA WindowUpdated ==
  ASSUME AverageInv, config.window # 0, UNCHANGED config,
         NEW n \in 0..Cardinality(Sector), update_rolling_average_util(n)
  PROVE  AverageInv'
<1> DEFINE old == rolling_average_utilization
           p == rolling_average_counter
           new == [old EXCEPT ![p] = n]
           k == Cardinality(Sector)
<1>1. /\ config \in Configs /\ p \in Place /\ old \in [Place -> 0..k]
      /\ rolling_sum = SumOf(old, Place)[Place]
  BY DEF AverageInv, WindowType, SumIsKept
<1>2. config.window \in Nat /\ IsFiniteSet(Place) /\ Cardinality(Place) = config.window /\ k \in Nat
  BY <1>1, PlaceFacts
<1>3. new \in [Place -> 0..k] /\ Place' = Place
  BY <1>1 DEF Place
<1>4. SumOf(new, Place)[Place] = SumOf(old, Place)[Place] - old[p] + n
  BY <1>1, <1>2, SumChanged
<1>5. SumOf(new, Place)[Place] \in Nat /\ SumOf(new, Place)[Place] <= k * config.window
  <2>1. \A s \in SUBSET Place :
          SumOf(new, Place)[s] \in Nat /\ SumOf(new, Place)[s] <= k * Cardinality(s)
    <3> HIDE DEF new, k
    <3>1. QED
      BY <1>2, <1>3, SumBounded
  <2>2. QED
    BY <1>2, <2>1
<1>6. /\ rolling_sum' = Clamped(rolling_sum - old[p] + n)
      /\ rolling_average_utilization' = new
      /\ rolling_average_counter' = (p + 1) % config.window
  BY DEF update_rolling_average_util
<1>7. rolling_sum' = SumOf(new, Place)[Place]
  <2> DEFINE s == SumOf(new, Place)[Place]
             most == k * config.window
  <2>1. rolling_sum' = IF s > most THEN most ELSE IF s < 0 THEN 0 ELSE s
    BY <1>1, <1>4, <1>6 DEF Clamped
  <2>2. s \in Nat /\ s <= most /\ most \in Nat
    BY <1>2, <1>5
  <2> HIDE DEF s, most
  <2>3. rolling_sum' = s
    BY <2>1, <2>2
  <2>4. QED
    BY <2>3 DEF s
<1>8. rolling_average_counter' \in Place
  <2>1. p \in Nat
    BY <1>1, <1>2 DEF Place
  <2>2. (p + 1) % config.window \in 0..(config.window - 1)
    BY <1>2, <2>1
  <2>3. QED
    BY <1>6, <2>2 DEF Place
<1> HIDE DEF new, old, k
<1>9. WindowType'
  BY <1>1, <1>3, <1>6, <1>8 DEF WindowType, k
<1>10. SumIsKept'
  BY <1>3, <1>6, <1>7 DEF SumIsKept
<1>11. QED
  BY <1>9, <1>10 DEF AverageInv

LEMMA AverageKept ==
  ASSUME AverageInv, [Next]_vars
  PROVE  AverageInv'
<1>1. CASE UNCHANGED <<config, window>>
  BY <1>1 DEF window, AverageInv, WindowType, SumIsKept, Place
<1>2. ASSUME NEW x \in Inst, NEW b \in Block,
             predict(x, b) \/ predictInfinite(x, b)
               \/ \E used \in SUBSET Sector : updateInfinite(x, b, used)
      PROVE  AverageInv'
  BY <1>1, <1>2 DEF predict, predictInfinite, updateInfinite, Recording
<1>3. ASSUME NEW x \in Inst, NEW b \in Block, NEW used \in SUBSET Sector, update(x, b, used)
      PROVE  AverageInv'
  <2>1. UNCHANGED config
    BY <1>3 DEF update, Recording
  <2>2. CASE config.window # 0
    <3>1. update_rolling_average_util(Cardinality(used))
      BY <1>3, <2>2 DEF update
    <3>2. Cardinality(used) \in 0..Cardinality(Sector)
      <4>1. IsFiniteSet(Sector)
        BY PredictorAssumption
      <4>2. /\ IsFiniteSet(used) /\ Cardinality(used) <= Cardinality(Sector)
        BY <4>1, FS_Subset
      <4>3. Cardinality(used) \in Nat /\ Cardinality(Sector) \in Nat
        BY <4>1, <4>2, FS_CardinalityType
      <4>4. QED
        BY <4>2, <4>3
    <3>3. QED
      BY <2>1, <2>2, <3>1, <3>2, WindowUpdated
  <2>3. CASE config.window = 0
    BY <1>1, <1>3, <2>1, <2>3 DEF update
  <2>4. QED
    BY <2>2, <2>3
<1>4. QED
  BY <1>1, <1>2, <1>3 DEF Next, vars

\* The average that differences update (SpatialPredictor.cpp:159) is the one of the window,
\* which no clamp ever changes.
THEOREM AverageIsExact == Spec => []RollingAverageExact
<1>1. Init => AverageInv
  BY AverageInit
<1>2. AverageInv /\ [Next]_vars => AverageInv'
  BY AverageKept
<1>3. AverageInv => RollingAverageExact
  BY DEF AverageInv, SumIsKept, RollingAverageExact, MapThenSumSet, MapThenFoldSet, SumOf, SumOver,
         Pick, Rest
<1>4. QED
  BY <1>1, <1>2, <1>3, PTL DEF Spec

=============================================================================
