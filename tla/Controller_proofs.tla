-------------------------- MODULE Controller_proofs --------------------------
(***************************************************************************)
(* Theorems about the controller, for every number of banks, rows,         *)
(* sectors and requests and all timing parameters: first its types, its    *)
(* banks and the tFAW window; then its requests: none is lost or doubled   *)
(* on its way through the lists, those in service are counted, an activate *)
(* opens the sectors its queue waits for, and the tFAW budget balances.    *)
(***************************************************************************)
EXTENDS Controller, SequenceTheorems, FiniteSetTheorems, WellFoundedInduction, TLAPS

-----------------------------------------------------------------------------
(***************************************************************************)
(* Sequences.                                                              *)
(***************************************************************************)
\* Erasing position i of a list (queue->q.erase(req)) keeps the other
\* elements in their order.
LEMMA WithoutProperties ==
  ASSUME NEW S, NEW q \in Seq(S), NEW i \in 1..Len(q)
  PROVE  /\ Without(q, i) \in Seq(S)
         /\ Len(Without(q, i)) = Len(q) - 1
         /\ \A j \in 1..(Len(q) - 1) :
               Without(q, i)[j] = IF j < i THEN q[j] ELSE q[j + 1]
<1> DEFINE front == SubSeq(q, 1, i - 1)
           back  == SubSeq(q, i + 1, Len(q))
<1>1. /\ front \in Seq(S)
      /\ Len(front) = i - 1
      /\ \A j \in 1..(i - 1) : front[j] = q[j]
  <2>1. \A j \in 1..(i - 1) : q[j] \in S
    BY ElementOfSeq, LenProperties
  <2>2. Len(q) \in Nat
    BY LenProperties
  <2>3. QED
    BY <2>1, <2>2, SubSeqProperties
<1>2. /\ back \in Seq(S)
      /\ Len(back) = Len(q) - i
      /\ \A j \in 1..(Len(q) - i) : back[j] = q[i + j]
  <2>1. \A j \in (i + 1)..Len(q) : q[j] \in S
    BY ElementOfSeq, LenProperties
  <2>2. Len(q) \in Nat
    BY LenProperties
  <2>3. QED
    BY <2>1, <2>2, SubSeqProperties
<1>3. Without(q, i) = front \o back
  BY DEF Without
<1> HIDE DEF front, back
<1>4. /\ front \o back \in Seq(S)
      /\ Len(front \o back) = Len(front) + Len(back)
      /\ \A j \in 1..(Len(front) + Len(back)) : (front \o back)[j] =
            IF j <= Len(front) THEN front[j] ELSE back[j - Len(front)]
  BY <1>1, <1>2, ConcatProperties
<1>5. Len(q) \in Nat
  BY LenProperties
<1> QED
  BY <1>1, <1>2, <1>3, <1>4, <1>5

\* Nothing but the erased element leaves the list, and nothing enters it.
LEMMA WithoutElems ==
  ASSUME NEW S, NEW q \in Seq(S), NEW i \in 1..Len(q)
  PROVE  /\ Elems(Without(q, i)) \subseteq Elems(q)
         /\ \A e \in Elems(q) : e # q[i] => e \in Elems(Without(q, i))
<1>1. Len(q) \in Nat
  BY LenProperties
<1>4. /\ Len(Without(q, i)) = Len(q) - 1
      /\ \A j \in 1..(Len(q) - 1) :
            Without(q, i)[j] = IF j < i THEN q[j] ELSE q[j + 1]
  BY WithoutProperties
<1>2. ASSUME NEW e \in Elems(q), e # q[i]
      PROVE  e \in Elems(Without(q, i))
  <2>1. PICK j \in 1..Len(q) : e = q[j]
    BY DEF Elems
  <2>2. CASE j < i
    <3>1. j \in 1..(Len(q) - 1) /\ Without(q, i)[j] = e
      BY <2>1, <2>2, <1>1, <1>4
    <3>2. QED
      BY <3>1, <1>4 DEF Elems
  <2>3. CASE j > i
    <3>1. j - 1 \in 1..(Len(q) - 1) /\ Without(q, i)[j - 1] = e
      BY <2>1, <2>3, <1>1, <1>4
    <3>2. QED
      BY <3>1, <1>4 DEF Elems
  <2>4. j # i
    BY <1>2, <2>1
  <2>5. QED
    BY <2>2, <2>3, <2>4, <1>1
<1>3. ASSUME NEW e \in Elems(Without(q, i))
      PROVE  e \in Elems(q)
  <2>1. PICK j \in 1..(Len(q) - 1) : e = Without(q, i)[j]
    BY <1>4 DEF Elems
  <2>2. e = q[j] \/ e = q[j + 1]
    BY <2>1, <1>4
  <2>3. j \in 1..Len(q) /\ j + 1 \in 1..Len(q)
    BY <1>1
  <2>4. QED
    BY <2>2, <2>3 DEF Elems
<1> QED
  BY <1>2, <1>3

\* push_back adds one element.
LEMMA AppendElems ==
  ASSUME NEW S, NEW q \in Seq(S), NEW e \in S
  PROVE  Elems(Append(q, e)) = Elems(q) \cup {e}
<1>1. /\ Len(q) \in Nat
      /\ Len(Append(q, e)) = Len(q) + 1
      /\ \A j \in 1..Len(q) : Append(q, e)[j] = q[j]
      /\ Append(q, e)[Len(q) + 1] = e
  BY LenProperties
<1> QED
  BY <1>1 DEF Elems

\* A sequence given element by element.
LEMMA MapIsSeq ==
  ASSUME NEW S, NEW n \in Nat, NEW f, f \in [1..n -> S]
  PROVE  /\ f \in Seq(S)
         /\ Len(f) = n
<1>1. f \in Seq(S)
  BY SeqDef
<1>2. DOMAIN f = 1..n /\ DOMAIN f = 1..Len(f) /\ Len(f) \in Nat
  BY <1>1, LenProperties
<1> QED
  BY <1>1, <1>2

-----------------------------------------------------------------------------
(***************************************************************************)
(* Type correctness.                                                       *)
(***************************************************************************)
\* The cycles one command keeps another waiting (timing tables of DDR4.cpp)
\* are a natural number.
LEMMA GapType ==
  ASSUME NEW cmd \in Command, NEW later \in Command, NEW samebank \in BOOLEAN
  PROVE  Gap(cmd, later, samebank) \in Int
<1>1. \A f \in SpeedFields : speed_entry[f] \in Nat
  BY SpeedAssumption
<1>2. /\ T.nBL \in Nat /\ T.nCL \in Nat /\ T.nCWL \in Nat /\ T.nRCD \in Nat
      /\ T.nRP \in Nat /\ T.nRAS \in Nat /\ T.nRC \in Nat /\ T.nRTP \in Nat
      /\ T.nWR \in Nat /\ T.nCCDS \in Nat /\ T.nCCDL \in Nat /\ T.nWTRS \in Nat
      /\ T.nWTRL \in Nat /\ T.nRRDS \in Nat /\ T.nRRDL \in Nat /\ T.nRFC \in Nat
  BY <1>1 DEF T, SpeedFields
<1> HIDE DEF T
<1>3. AfterACT(later, samebank) \in Int
  BY <1>2 DEF AfterACT, Longer, Command, BankCmd, RankCmd
<1>4. AfterPRE(later, samebank) \in Int
  BY <1>2 DEF AfterPRE
<1>5. AfterRD(later, samebank) \in Int
  BY <1>2 DEF AfterRD, Longer
<1>6. AfterWR(later, samebank) \in Int
  BY <1>2 DEF AfterWR, Longer
<1>7. AfterPREA(later) \in Int /\ AfterREF(later) \in Int
  BY <1>2 DEF AfterPREA, AfterREF
<1>8. cmd \in {"ACT", "PRE", "RD", "WR", "PREA", "REF"}
  BY DEF Command, BankCmd, RankCmd
<1> QED
  BY <1>3, <1>4, <1>5, <1>6, <1>7, <1>8 DEF Gap

NextType     == [Bank -> [BankCmd -> Nat]]
NextRankType == [RankCmd -> Nat]

\* The later of two deadlines (update_timing) is one of them.
LEMMA LongerType ==
  ASSUME NEW a \in Nat, NEW b \in Int
  PROVE  Longer(a, b) \in Nat
BY DEF Longer

\* The distances to the next allowed cycle stay natural numbers.
LEMMA TimingTypes ==
  ASSUME NEW n \in NextType, NEW k \in NextRankType
  PROVE  /\ ElapseBanks(n) \in NextType
         /\ ElapseRank(k) \in NextRankType
         /\ \A cmd \in Command :
               /\ UpdateAllBanks(n, cmd) \in NextType
               /\ UpdateRank(k, cmd) \in NextRankType
               /\ \A b \in Bank : UpdateBanks(n, cmd, b) \in NextType
<1>1. ElapseBanks(n) \in NextType /\ ElapseRank(k) \in NextRankType
  BY DEF ElapseBanks, ElapseRank, Elapse, NextType, NextRankType
<1>2. ASSUME NEW cmd \in Command
      PROVE  UpdateAllBanks(n, cmd) \in NextType
  <2>1. ASSUME NEW x \in Bank, NEW c \in BankCmd
        PROVE  Longer(n[x][c], Gap(cmd, c, TRUE)) \in Nat
    <3>1. n[x][c] \in Nat
      BY DEF NextType
    <3>2. Gap(cmd, c, TRUE) \in Int
      BY GapType DEF Command
    <3>3. QED
      BY <3>1, <3>2, LongerType
  <2>2. QED
    BY <2>1 DEF UpdateAllBanks, NextType
<1>3. ASSUME NEW cmd \in Command, NEW b \in Bank
      PROVE  UpdateBanks(n, cmd, b) \in NextType
  <2>1. ASSUME NEW x \in Bank, NEW c \in BankCmd
        PROVE  Longer(n[x][c], Gap(cmd, c, x = b)) \in Nat
    <3>1. n[x][c] \in Nat
      BY DEF NextType
    <3>2. Gap(cmd, c, x = b) \in Int
      <4>1. (x = b) \in BOOLEAN /\ c \in Command
        BY DEF Command
      <4>2. QED
        BY <4>1, GapType
    <3>3. QED
      BY <3>1, <3>2, LongerType
  <2>2. QED
    BY <2>1 DEF UpdateBanks, NextType
<1>4. ASSUME NEW cmd \in Command
      PROVE  UpdateRank(k, cmd) \in NextRankType
  <2>1. ASSUME NEW c \in RankCmd
        PROVE  Longer(k[c], Gap(cmd, c, TRUE)) \in Nat
    <3>1. k[c] \in Nat
      BY DEF NextRankType
    <3>2. Gap(cmd, c, TRUE) \in Int
      BY GapType DEF Command
    <3>3. QED
      BY <3>1, <3>2, LongerType
  <2>2. QED
    BY <2>1 DEF UpdateRank, NextRankType
<1> QED
  BY <1>1, <1>2, <1>3, <1>4

\* The values the first half of a tick computes have the types of the
\* variables they become.
LEMMA PendingNowType ==
  ASSUME TypeOK
  PROVE  /\ PendingNow \in Seq(PendingEntry)
         /\ \A i \in 1..Len(PendingNow) : PendingNow[i].req \in Accepted
         /\ DoneNow \subseteq Accepted
<1> DEFINE aged == [i \in 1..Len(pending) |->
                      [req |-> pending[i].req, left |-> Elapse(pending[i].left)]]
<1>1. pending \in Seq(PendingEntry) /\ Len(pending) \in Nat
  BY LenProperties DEF TypeOK
<1>2. ASSUME NEW i \in 1..Len(pending)
      PROVE  /\ aged[i] \in PendingEntry
             /\ aged[i].req \in Accepted
             /\ pending[i].req \in Accepted
  <2>1. pending[i] \in PendingEntry
    BY <1>1, ElementOfSeq
  <2>2. pending[i].req \in Accepted
    BY DEF TypeOK
  <2>3. pending[i].left \in Nat /\ pending[i].req \in Nat
    BY <2>1 DEF PendingEntry
  <2>4. Elapse(pending[i].left) \in Nat
    BY <2>3 DEF Elapse
  <2>5. QED
    BY <2>2, <2>3, <2>4 DEF PendingEntry
<1>3. aged \in [1..Len(pending) -> PendingEntry]
  BY <1>2
<1>4. aged \in Seq(PendingEntry) /\ Len(aged) = Len(pending)
  BY <1>1, <1>3, MapIsSeq
<1>5. \A i \in 1..Len(aged) : aged[i].req \in Accepted
  BY <1>2, <1>4
<1>6. PendingNow = IF Serve THEN Tail(aged) ELSE aged
  BY DEF PendingNow
<1> HIDE DEF aged
<1>7. CASE Serve
  <2>1. Len(pending) # 0
    BY <1>1, <1>7, EmptySeq DEF Serve
  <2>2. aged # << >>
    BY <2>1, <1>4, EmptySeq
  <2>3. /\ Tail(aged) \in Seq(PendingEntry)
        /\ Len(Tail(aged)) = Len(aged) - 1
        /\ \A i \in 1..Len(Tail(aged)) : Tail(aged)[i] = aged[i + 1]
    BY <1>4, <2>2, HeadTailProperties
  <2>4. \A i \in 1..Len(Tail(aged)) : Tail(aged)[i].req \in Accepted
    BY <2>3, <1>1, <1>4, <1>5
  <2>5. 1 \in 1..Len(pending)
    BY <2>1, <1>1
  <2>6. DoneNow \subseteq Accepted
    BY <1>2, <2>5 DEF DoneNow, TypeOK
  <2>7. QED
    BY <1>6, <1>7, <2>3, <2>4, <2>6
<1>8. CASE ~Serve
  BY <1>4, <1>5, <1>6, <1>8 DEF DoneNow, TypeOK
<1> QED
  BY <1>7, <1>8

\* Aging the tFAW window and taking its oldest activate out keeps its type.
LEMMA FawNowType ==
  ASSUME TypeOK
  PROVE  FawNow \in Seq(FawEntry) /\ BudgetNow \in Int
<1>1. faw_queue \in Seq(FawEntry) /\ Len(faw_queue) \in Nat
  BY LenProperties DEF TypeOK
<1>2. ASSUME NEW i \in 1..Len(faw_queue)
      PROVE  FawAged[i] \in FawEntry /\ faw_queue[i].sectors \in Nat
  <2>1. faw_queue[i] \in FawEntry
    BY <1>1, ElementOfSeq
  <2>2. QED
    BY <2>1 DEF FawAged, FawEntry
<1>3. FawAged \in [1..Len(faw_queue) -> FawEntry]
  BY <1>2 DEF FawAged
<1>4. FawAged \in Seq(FawEntry) /\ Len(FawAged) = Len(faw_queue)
  BY <1>1, <1>3, MapIsSeq
<1>5. CASE FawPop
  <2>1. Len(faw_queue) # 0
    BY <1>1, <1>5, EmptySeq DEF FawPop
  <2>2. FawAged # << >>
    BY <2>1, <1>4, EmptySeq
  <2>3. Tail(FawAged) \in Seq(FawEntry)
    BY <1>4, <2>2, HeadTailProperties
  <2>4. 1 \in 1..Len(faw_queue)
    BY <2>1, <1>1
  <2>5. budget \in Int /\ faw_queue[1].sectors \in Nat
    BY <1>2, <2>4 DEF TypeOK
  <2>6. QED
    BY <1>5, <2>3, <2>5 DEF FawNow, BudgetNow
<1>6. CASE ~FawPop
  BY <1>4, <1>6 DEF FawNow, BudgetNow, TypeOK
<1> QED
  BY <1>5, <1>6

\* The same for what the first half of a tick makes of done, the counters and
\* the distances.
LEMMA NowTypes ==
  ASSUME TypeOK
  PROVE  /\ ServingNow \in Int
         /\ NextNow \in NextType
         /\ NextRankNow \in NextRankType
         /\ WriteModeNow \in BOOLEAN
         /\ \A ref \in {0, 1} : OtherNow(ref) \in Nat
<1>1. ServingNow \in Int
  BY DEF TypeOK, ServingNow
<1>2. next \in NextType /\ nextRank \in NextRankType
  BY DEF TypeOK, NextType, NextRankType
<1>3. NextNow \in NextType /\ NextRankNow \in NextRankType
  BY <1>2, TimingTypes DEF NextNow, NextRankNow
<1>4. WriteModeNow \in BOOLEAN
  BY DEF WriteModeNow
<1>5. \A ref \in {0, 1} : OtherNow(ref) \in Nat
  BY DEF OtherNow, TypeOK
<1> QED
  BY <1>1, <1>3, <1>4, <1>5

\* A first command changes one flag of one request.
LEMMA FirstCommandFacts ==
  ASSUME TypeOK, NEW r \in Accepted, FirstCommand(r)
  PROVE  /\ reqs' \in Seq(RequestFields)
         /\ Len(reqs') = Len(reqs)
         /\ Accepted' = Accepted
         /\ \A o \in Accepted :
               /\ reqs'[o].type = reqs[o].type
               /\ reqs'[o].addr = reqs[o].addr
               /\ reqs'[o].sectors = reqs[o].sectors
               /\ reqs'[o].acts = reqs[o].acts
               /\ reqs'[o].arrive = reqs[o].arrive
               /\ reqs'[o].is_first_command = (o # r /\ reqs[o].is_first_command)
<1>1. reqs \in Seq(RequestFields) /\ Len(reqs) \in Nat
  BY LenProperties DEF TypeOK
<1>2. reqs \in [1..Len(reqs) -> RequestFields]
  BY <1>1, LenProperties
<1>3. reqs' = [reqs EXCEPT ![r].is_first_command = FALSE]
  BY DEF FirstCommand
<1>4. reqs' = [o \in 1..Len(reqs) |->
                 IF o = r THEN [reqs[r] EXCEPT !.is_first_command = FALSE] ELSE reqs[o]]
  BY <1>2, <1>3
<1>5. ASSUME NEW o \in 1..Len(reqs)
      PROVE  /\ reqs'[o] \in RequestFields
             /\ reqs'[o].type = reqs[o].type
             /\ reqs'[o].addr = reqs[o].addr
             /\ reqs'[o].sectors = reqs[o].sectors
             /\ reqs'[o].acts = reqs[o].acts
             /\ reqs'[o].arrive = reqs[o].arrive
             /\ reqs'[o].is_first_command = (o # r /\ reqs[o].is_first_command)
  <2>1. reqs[o] \in RequestFields
    BY <1>2
  <2>2. CASE o = r
    <3>1. reqs'[o] = [reqs[o] EXCEPT !.is_first_command = FALSE]
      BY <1>4, <2>2
    <3>2. QED
      BY <2>1, <2>2, <3>1 DEF RequestFields
  <2>3. CASE o # r
    <3>1. reqs'[o] = reqs[o]
      BY <1>4, <2>3
    <3>2. reqs[o].is_first_command \in BOOLEAN
      BY <2>1 DEF RequestFields
    <3>3. QED
      BY <2>1, <2>3, <3>1, <3>2
  <2>4. QED
    BY <2>2, <2>3
<1>6. reqs' \in [1..Len(reqs) -> RequestFields]
  BY <1>4, <1>5
<1>7. reqs' \in Seq(RequestFields) /\ Len(reqs') = Len(reqs)
  BY <1>1, <1>6, MapIsSeq
<1>8. Accepted' = Accepted
  BY <1>7 DEF Accepted
<1> QED
  BY <1>5, <1>7, <1>8 DEF Accepted

\* What a request's fields say of the DRAM it needs.
LEMMA RequestTypes ==
  ASSUME TypeOK, NEW r \in Accepted
  PROVE  /\ reqs[r] \in RequestFields
         /\ BankAt(r) \in Bank
         /\ RowAt(r) \in Row
         /\ translate(r) \in {"RD", "WR"}
         /\ count_activated_sectors(r) \in Nat
<1>1. reqs[r] \in RequestFields
  BY ElementOfSeq, LenProperties DEF TypeOK, Accepted
<1>2. BankAt(r) \in Bank /\ RowAt(r) \in Row
  BY <1>1, MappingAssumption DEF BankAt, RowAt, RequestFields
<1>3. translate(r) \in {"RD", "WR"}
  BY DEF translate
<1>4. Cardinality(reqs[r].acts) \in Nat
  <2>1. reqs[r].acts \subseteq Sector
    BY <1>1 DEF RequestFields
  <2>2. IsFiniteSet(reqs[r].acts)
    BY <2>1, SectorAssumption, FS_Subset
  <2>3. QED
    BY <2>2, FS_CardinalityType
<1> QED
  BY <1>1, <1>2, <1>3, <1>4 DEF count_activated_sectors

\* A request at a position of a queue was accepted.
LEMMA QueuedIsAccepted ==
  ASSUME TypeOK, NEW q \in RequestQueue, NEW i \in 1..Len(queue[q])
  PROVE  queue[q][i] \in Accepted
BY DEF TypeOK

QueueType(Q) == /\ Q \in [RequestQueue -> Seq(Nat)]
                /\ \A q \in RequestQueue : \A i \in 1..Len(Q[q]) : Q[q][i] \in Accepted

\* Erasing a request from a queue.
LEMMA EraseType ==
  ASSUME NEW Q, QueueType(Q), NEW q \in RequestQueue, NEW i \in 1..Len(Q[q])
  PROVE  QueueType([Q EXCEPT ![q] = Without(@, i)])
<1>1. /\ Q[q] \in Seq(Nat)
      /\ Len(Q[q]) \in Nat
  BY LenProperties DEF QueueType
<1>2. /\ Without(Q[q], i) \in Seq(Nat)
      /\ Len(Without(Q[q], i)) = Len(Q[q]) - 1
      /\ \A j \in 1..(Len(Q[q]) - 1) :
            Without(Q[q], i)[j] = IF j < i THEN Q[q][j] ELSE Q[q][j + 1]
  BY <1>1, WithoutProperties
<1>3. ASSUME NEW j \in 1..Len(Without(Q[q], i))
      PROVE  Without(Q[q], i)[j] \in Accepted
  <2>1. j \in 1..(Len(Q[q]) - 1)
    BY <1>2
  <2>2. Without(Q[q], i)[j] = IF j < i THEN Q[q][j] ELSE Q[q][j + 1]
    BY <1>2, <2>1
  <2>3. j \in 1..Len(Q[q]) /\ j + 1 \in 1..Len(Q[q])
    BY <1>1, <2>1
  <2>4. Q[q][j] \in Accepted /\ Q[q][j + 1] \in Accepted
    BY <2>3 DEF QueueType
  <2>5. QED
    BY <2>2, <2>4
<1> DEFINE w == Without(Q[q], i)
<1>4. [Q EXCEPT ![q] = Without(@, i)] = [Q EXCEPT ![q] = w]
  OBVIOUS
<1> HIDE DEF w
<1>5. w \in Seq(Nat) /\ \A j \in 1..Len(w) : w[j] \in Accepted
  BY <1>2, <1>3 DEF w
<1>6. QueueType([Q EXCEPT ![q] = w])
  BY <1>5 DEF QueueType
<1> QED
  BY <1>4, <1>6

\* Appending an accepted request to a queue.
LEMMA PushType ==
  ASSUME NEW Q, QueueType(Q), NEW q \in RequestQueue, NEW r \in Accepted, r \in Nat
  PROVE  QueueType([Q EXCEPT ![q] = Append(@, r)])
<1> DEFINE w == Append(Q[q], r)
<1>1. [Q EXCEPT ![q] = Append(@, r)] = [Q EXCEPT ![q] = w]
  OBVIOUS
<1>2. /\ Q[q] \in Seq(Nat)
      /\ Len(Q[q]) \in Nat
      /\ \A j \in 1..Len(Q[q]) : Q[q][j] \in Accepted
  BY LenProperties DEF QueueType
<1>3. w \in Seq(Nat) /\ \A j \in 1..Len(w) : w[j] \in Accepted
  BY <1>2, AppendProperties
<1> HIDE DEF w
<1>4. QueueType([Q EXCEPT ![q] = w])
  BY <1>3 DEF QueueType
<1> QED
  BY <1>1, <1>4

\* TypeOK cut where the actions cut it: what a tick leaves to its scheduling
\* half, and what every tick does.
LEMMA TypeParts ==
  TypeOK <=> /\ reqs \in Seq(RequestFields)
             /\ QueueType(queue)
             /\ otherq \in Nat
             /\ pending \in Seq(PendingEntry)
             /\ \A i \in 1..Len(pending) : pending[i].req \in Accepted
             /\ done \subseteq Accepted
             /\ write_mode \in BOOLEAN
             /\ banks \in [Bank -> BankState]
             /\ next \in NextType
             /\ nextRank \in NextRankType
             /\ rowtable \in [Bank -> RowEntry]
             /\ budget \in Int
             /\ faw_queue \in Seq(FawEntry)
             /\ serving \in Int
             /\ fresh \in BOOLEAN
             /\ refreshes \in Nat
BY DEF TypeOK, QueueType, NextType, NextRankType

\* What a tick always does has the types of its variables.
LEMMA ElapsingType ==
  ASSUME TypeOK, NEW ref, Elapsing(ref)
  PROVE  /\ refreshes' \in Nat
         /\ fresh' \in BOOLEAN
         /\ ref \in {0, 1}
         /\ OtherNow(ref) \in Nat
<1>1. ref \in {0, 1} /\ refreshes' = refreshes + ref /\ fresh' = TRUE
  BY DEF Elapsing, Refresh
<1>2. refreshes \in Nat
  BY DEF TypeOK
<1>3. OtherNow(ref) \in Nat
  BY <1>1, NowTypes
<1> QED
  BY <1>1, <1>2, <1>3

\* So has what it does to otherq and the write mode.
LEMMA HousekeepingType ==
  ASSUME TypeOK, NEW ref, Housekeeping(ref)
  PROVE  /\ refreshes' \in Nat
         /\ fresh' \in BOOLEAN
         /\ otherq' \in Nat
         /\ write_mode' \in BOOLEAN
<1>1. Elapsing(ref) /\ otherq' = OtherNow(ref) /\ write_mode' = WriteModeNow
  BY DEF Housekeeping
<1>2. OtherNow(ref) \in Nat /\ refreshes' \in Nat /\ fresh' \in BOOLEAN
  BY <1>1, ElapsingType
<1>3. WriteModeNow \in BOOLEAN
  BY NowTypes
<1> QED
  BY <1>1, <1>2, <1>3

\* A tick without an activate keeps the tFAW budget and window typed.
LEMMA NoActivateType ==
  ASSUME TypeOK, NoActivate
  PROVE  budget' \in Int /\ faw_queue' \in Seq(FawEntry)
BY FawNowType DEF NoActivate

\* A tick that finishes no request but the one called back keeps pending, done
\* and the serving counter typed.
LEMMA NoProgressType ==
  ASSUME TypeOK, NoProgress, Accepted' = Accepted
  PROVE  /\ pending' \in Seq(PendingEntry)
         /\ \A i \in 1..Len(pending') : pending'[i].req \in Accepted'
         /\ done' \subseteq Accepted'
         /\ serving' \in Int
<1>1. pending' = PendingNow /\ done' = DoneNow /\ serving' = ServingNow
  BY DEF NoProgress
<1>2. /\ PendingNow \in Seq(PendingEntry)
      /\ \A i \in 1..Len(PendingNow) : PendingNow[i].req \in Accepted
      /\ DoneNow \subseteq Accepted
  BY PendingNowType
<1>3. ServingNow \in Int
  BY NowTypes
<1> QED
  BY <1>1, <1>2, <1>3

\* The timing update of a command keeps the distances typed.
LEMMA TimingType ==
  ASSUME TypeOK, NEW cmd \in Command, NEW b \in Bank, Timing(cmd, b)
  PROVE  next' \in NextType /\ nextRank' \in NextRankType
<1>1. NextNow \in NextType /\ NextRankNow \in NextRankType
  BY NowTypes
<1>2. /\ UpdateBanks(NextNow, cmd, b) \in NextType
      /\ UpdateRank(NextRankNow, cmd) \in NextRankType
  BY <1>1, TimingTypes
<1> QED
  BY <1>2 DEF Timing

\* The controller starts in a state of the right types.
LEMMA InitType == Init => TypeOK
<1> SUFFICES ASSUME Init PROVE TypeOK
  OBVIOUS
<1>1. /\ reqs = << >> /\ pending = << >> /\ faw_queue = << >>
      /\ \A q \in RequestQueue : queue[q] = << >>
      /\ queue \in [RequestQueue -> Seq(Nat)]
  BY DEF Init
<1>2. Accepted = {} /\ done \subseteq Accepted
  BY <1>1 DEF Accepted, Init
<1>3. QueueType(queue)
  BY <1>1 DEF QueueType
<1>4. banks \in [Bank -> BankState]
  BY DEF Init, BankState, Closed
<1>5. rowtable \in [Bank -> RowEntry]
  BY DEF Init, RowEntry, NoEntry
<1>6. next \in NextType /\ nextRank \in NextRankType
  BY DEF Init, NextType, NextRankType
<1>7. budget \in Int
  <2>1. FawActs \in Nat
    BY ConfigAssumption
  <2>2. Cardinality(Sector) \in Nat
    BY SectorAssumption, FS_CardinalityType
  <2>3. QED
    BY <2>1, <2>2 DEF Init, MaxBudget
<1>8. \A i \in 1..Len(pending) : pending[i].req \in Accepted
  BY <1>1
<1>9. /\ otherq \in Nat /\ serving \in Int /\ refreshes \in Nat
      /\ fresh \in BOOLEAN /\ write_mode \in BOOLEAN
  <2>1. otherq = 0 /\ serving = 0 /\ refreshes = 0 /\ fresh = TRUE /\ write_mode = FALSE
    BY DEF Init
  <2>2. fresh \in BOOLEAN /\ write_mode \in BOOLEAN
    BY <2>1, Zenon
  <2>3. QED
    BY <2>1, <2>2
<1>10. /\ reqs \in Seq(RequestFields) /\ pending \in Seq(PendingEntry)
       /\ faw_queue \in Seq(FawEntry)
  BY <1>1
<1> QED
  BY <1>2, <1>3, <1>4, <1>5, <1>6, <1>7, <1>8, <1>9, <1>10, TypeParts

\* What enqueue does to the requests.
LEMMA EnqueueFacts ==
  ASSUME TypeOK, NEW shape \in Shape, Enqueue(shape)
  PROVE  /\ reqs' \in Seq(RequestFields)
         /\ Len(reqs') = Len(reqs) + 1
         /\ Accepted' = Accepted \cup {Len(reqs) + 1}
         /\ \A o \in Accepted :
               /\ reqs'[o].type = reqs[o].type
               /\ reqs'[o].addr = reqs[o].addr
               /\ reqs'[o].sectors = reqs[o].sectors
               /\ reqs[o].acts \subseteq reqs'[o].acts
               /\ reqs'[o].is_first_command = reqs[o].is_first_command
               /\ reqs'[o] = Accumulate(QueueOf(shape.type), shape)[o]
         /\ reqs'[Len(reqs) + 1] = NewRequest(shape)
<1> DEFINE q == QueueOf(shape.type)
           A == Accumulate(q, shape)
<1>1. reqs \in Seq(RequestFields) /\ Len(reqs) \in Nat
  BY LenProperties DEF TypeOK
<1>2. reqs' = Append(A, NewRequest(shape))
  BY DEF Enqueue
<1>3. /\ shape.type \in {"READ", "WRITE"} /\ shape.addr \in Addr
      /\ shape.sectors \subseteq Sector
  BY ShapeAssumption
<1>4. ASSUME NEW o \in Accepted
      PROVE  /\ A[o] \in RequestFields
             /\ A[o].type = reqs[o].type
             /\ A[o].addr = reqs[o].addr
             /\ A[o].sectors = reqs[o].sectors
             /\ reqs[o].acts \subseteq A[o].acts
             /\ A[o].is_first_command = reqs[o].is_first_command
  <2>1. reqs[o] \in RequestFields
    BY <1>1, ElementOfSeq DEF Accepted
  <2>2. A[o] = reqs[o] \/ A[o] = [reqs[o] EXCEPT !.acts = @ \cup shape.sectors]
    BY DEF Accumulate
  <2>3. CASE A[o] = [reqs[o] EXCEPT !.acts = @ \cup shape.sectors]
    <3>1. reqs[o].acts \cup shape.sectors \subseteq Sector
      BY <2>1, <1>3 DEF RequestFields
    <3>2. QED
      BY <2>1, <2>3, <3>1 DEF RequestFields
  <2>4. CASE A[o] = reqs[o]
    BY <2>1, <2>4
  <2>5. QED
    BY <2>2, <2>3, <2>4
<1>5. A \in [1..Len(reqs) -> RequestFields]
  <2>1. A = [o \in Accepted |-> A[o]]
    BY DEF Accumulate
  <2>2. QED
    BY <2>1, <1>4 DEF Accepted
<1>6. A \in Seq(RequestFields) /\ Len(A) = Len(reqs)
  BY <1>1, <1>5, MapIsSeq
<1>7. NewRequest(shape) \in RequestFields
  <2>1. ArriveStamp \in Nat
    <3>1. CASE reqs = << >>
      BY <3>1 DEF ArriveStamp
    <3>2. CASE reqs # << >>
      <4>1. Len(reqs) \in 1..Len(reqs)
        BY <1>1, <3>2, EmptySeq
      <4>2. reqs[Len(reqs)] \in RequestFields
        BY <1>1, <4>1, ElementOfSeq
      <4>3. reqs[Len(reqs)].arrive \in Nat
        BY <4>2 DEF RequestFields
      <4>4. QED
        BY <3>2, <4>3 DEF ArriveStamp
    <3>3. QED
      BY <3>1, <3>2
  <2>2. QED
    BY <2>1, <1>3 DEF NewRequest, RequestFields
<1> HIDE DEF A
<1>8. /\ reqs' \in Seq(RequestFields)
      /\ Len(reqs') = Len(reqs) + 1
      /\ \A o \in 1..Len(reqs) : reqs'[o] = A[o]
      /\ reqs'[Len(reqs) + 1] = NewRequest(shape)
  BY <1>2, <1>6, <1>7, AppendProperties
<1>9. Accepted' = Accepted \cup {Len(reqs) + 1}
  BY <1>1, <1>8 DEF Accepted
<1>10. A = Accumulate(QueueOf(shape.type), shape)
  BY DEF A
<1> QED
  BY <1>4, <1>8, <1>9, <1>10 DEF Accepted

\* Accepting a request keeps every variable typed.
LEMMA EnqueueType ==
  ASSUME TypeOK, NEW shape \in Shape, Enqueue(shape)
  PROVE  TypeOK'
<1> DEFINE q == QueueOf(shape.type)
           r == Len(reqs) + 1
<1>1. /\ reqs' \in Seq(RequestFields)
      /\ Accepted' = Accepted \cup {r}
      /\ r \in Nat
  BY EnqueueFacts, LenProperties DEF TypeOK
<1>2. q \in RequestQueue
  BY DEF QueueOf, RequestQueue
<1>3. QueueType(queue)'
  <2>1. CASE queue' = [queue EXCEPT ![q] = Append(@, r)]
    <3>1. ASSUME NEW p \in RequestQueue
          PROVE  /\ queue'[p] \in Seq(Nat)
                 /\ \A j \in 1..Len(queue'[p]) : queue'[p][j] \in Accepted'
      <4>1. /\ queue[p] \in Seq(Nat) /\ Len(queue[p]) \in Nat
            /\ \A j \in 1..Len(queue[p]) : queue[p][j] \in Accepted
        BY LenProperties DEF TypeOK
      <4>2. queue'[p] = IF p = q THEN Append(queue[p], r) ELSE queue[p]
        BY <2>1 DEF TypeOK
      <4>3. /\ Append(queue[p], r) \in Seq(Nat)
            /\ \A j \in 1..Len(Append(queue[p], r)) : Append(queue[p], r)[j] \in Accepted'
        BY <4>1, <1>1, AppendProperties
      <4>4. CASE p = q
        BY <4>2, <4>3, <4>4
      <4>5. CASE p # q
        BY <4>1, <4>2, <4>5, <1>1
      <4>6. QED
        BY <4>4, <4>5
    <3>2. queue' \in [RequestQueue -> Seq(Nat)]
      <4>1. queue' = [p \in RequestQueue |-> queue'[p]]
        BY <2>1 DEF TypeOK
      <4>2. QED
        BY <4>1, <3>1
    <3>3. QED
      BY <3>1, <3>2 DEF QueueType
  <2>2. CASE queue' = queue
    BY <2>2, <1>1 DEF QueueType, TypeOK
  <2>3. queue' = [queue EXCEPT ![q] = Append(@, r)] \/ queue' = queue
    BY DEF Enqueue
  <2>4. QED
    BY <2>1, <2>2, <2>3
<1>4. /\ pending' \in Seq(PendingEntry)
      /\ \A i \in 1..Len(pending') : pending'[i].req \in Accepted'
  <2>1. /\ pending \in Seq(PendingEntry) /\ Len(pending) \in Nat
        /\ \A i \in 1..Len(pending) : pending[i].req \in Accepted
    BY LenProperties DEF TypeOK
  <2>2. CASE pending' = Append(pending, [req |-> r, left |-> 1])
    <3>1. [req |-> r, left |-> 1] \in PendingEntry
      BY <1>1 DEF PendingEntry
    <3>2. /\ pending' \in Seq(PendingEntry)
          /\ Len(pending') = Len(pending) + 1
          /\ \A i \in 1..Len(pending) : pending'[i] = pending[i]
          /\ pending'[Len(pending) + 1] = [req |-> r, left |-> 1]
      BY <2>1, <2>2, <3>1, AppendProperties
    <3>3. ASSUME NEW i \in 1..Len(pending')
          PROVE  pending'[i].req \in Accepted'
      <4>1. CASE i \in 1..Len(pending)
        BY <4>1, <3>2, <2>1, <1>1
      <4>2. CASE i = Len(pending) + 1
        <5>1. pending'[i].req = r
          BY <4>2, <3>2
        <5>2. QED
          BY <5>1, <1>1
      <4>3. QED
        BY <4>1, <4>2, <3>2, <2>1
    <3>4. QED
      BY <3>2, <3>3
  <2>3. CASE pending' = pending
    BY <2>1, <2>3, <1>1
  <2>4. pending' = Append(pending, [req |-> r, left |-> 1]) \/ pending' = pending
    BY DEF Enqueue
  <2>5. QED
    BY <2>2, <2>3, <2>4
<1>5. done' \subseteq Accepted' /\ fresh' \in BOOLEAN
  BY <1>1 DEF Enqueue, TypeOK
<1>6. /\ otherq' = otherq /\ write_mode' = write_mode /\ banks' = banks
      /\ next' = next /\ nextRank' = nextRank /\ rowtable' = rowtable
      /\ budget' = budget /\ faw_queue' = faw_queue /\ serving' = serving
      /\ refreshes' = refreshes
  BY DEF Enqueue
<1> QED
  BY <1>1, <1>3, <1>4, <1>5, <1>6 DEF TypeOK, QueueType

\* A cycle without a command.
LEMMA QuietType ==
  ASSUME TypeOK, NEW ref, Idle(ref) \/ SkipScheduling(ref)
  PROVE  TypeOK'
<1>1. /\ Elapsing(ref) /\ NoActivate /\ NoProgress
      /\ otherq' = OtherNow(ref) /\ next' = NextNow /\ nextRank' = NextRankNow
      /\ UNCHANGED <<reqs, queue, banks, rowtable>>
      /\ write_mode' \in BOOLEAN
  <2>1. CASE Idle(ref)
    BY <2>1, NowTypes DEF Idle, Housekeeping
  <2>2. CASE SkipScheduling(ref)
    BY <2>2 DEF SkipScheduling, TypeOK
  <2>3. QED
    BY <2>1, <2>2
<1>2. Accepted' = Accepted
  BY <1>1 DEF Accepted
<1>3. refreshes' \in Nat /\ fresh' \in BOOLEAN /\ otherq' \in Nat
  BY <1>1, ElapsingType
<1>4. next' \in NextType /\ nextRank' \in NextRankType
  BY <1>1, NowTypes
<1>5. budget' \in Int /\ faw_queue' \in Seq(FawEntry)
  BY <1>1, NoActivateType
<1>6. /\ pending' \in Seq(PendingEntry)
      /\ \A i \in 1..Len(pending') : pending'[i].req \in Accepted'
      /\ done' \subseteq Accepted' /\ serving' \in Int
  BY <1>1, <1>2, NoProgressType
<1> QED
  BY <1>1, <1>2, <1>3, <1>4, <1>5, <1>6 DEF TypeOK, NextType, NextRankType

\* A command for the rank.
LEMMA RankCommandType ==
  ASSUME TypeOK, NEW ref, PrechargeAll(ref) \/ RefreshRank(ref)
  PROVE  TypeOK'
<1>1. /\ Elapsing(ref) /\ NoActivate /\ NoProgress
      /\ UNCHANGED <<reqs, queue>>
      /\ write_mode' = WriteModeNow
      /\ \E cmd \in {"PREA", "REF"} : /\ next' = UpdateAllBanks(NextNow, cmd)
                                      /\ nextRank' = UpdateRank(NextRankNow, cmd)
  <2>1. CASE PrechargeAll(ref)
    BY <2>1 DEF PrechargeAll, Housekeeping
  <2>2. CASE RefreshRank(ref)
    BY <2>2 DEF RefreshRank
  <2>3. QED
    BY <2>1, <2>2
<1>2. Accepted' = Accepted
  BY <1>1 DEF Accepted
<1>3. /\ refreshes' \in Nat /\ fresh' \in BOOLEAN /\ OtherNow(ref) \in Nat
      /\ write_mode' \in BOOLEAN
  BY <1>1, ElapsingType, NowTypes
<1>4. next' \in NextType /\ nextRank' \in NextRankType
  <2>1. NextNow \in NextType /\ NextRankNow \in NextRankType
    BY NowTypes
  <2>2. ASSUME NEW cmd \in {"PREA", "REF"}
        PROVE  /\ UpdateAllBanks(NextNow, cmd) \in NextType
               /\ UpdateRank(NextRankNow, cmd) \in NextRankType
    <3>1. cmd \in Command
      BY DEF Command, RankCmd
    <3>2. QED
      BY <2>1, <3>1, TimingTypes
  <2>3. QED
    BY <1>1, <2>2
<1>5. budget' \in Int /\ faw_queue' \in Seq(FawEntry)
  BY <1>1, NoActivateType
<1>6. /\ pending' \in Seq(PendingEntry)
      /\ \A i \in 1..Len(pending') : pending'[i].req \in Accepted'
      /\ done' \subseteq Accepted' /\ serving' \in Int
  BY <1>1, <1>2, NoProgressType
<1>7. banks' \in [Bank -> BankState] /\ rowtable' \in [Bank -> RowEntry]
  <2>1. CASE PrechargeAll(ref)
    BY <2>1 DEF PrechargeAll, RowsClosed, Closed, BankState, NoEntry, RowEntry
  <2>2. CASE RefreshRank(ref)
    BY <2>2 DEF RefreshRank, TypeOK
  <2>3. QED
    BY <2>1, <2>2
<1>8. otherq' \in Nat
  <2>1. CASE PrechargeAll(ref)
    BY <2>1, <1>3 DEF PrechargeAll, Housekeeping
  <2>2. CASE RefreshRank(ref)
    <3>1. Scheduling("otherq", ref)
      BY <2>2 DEF RefreshRank, RankCandidate
    <3>2. OtherNow(ref) > 0
      BY <3>1 DEF Scheduling
    <3>3. otherq' = OtherNow(ref) - 1
      BY <2>2 DEF RefreshRank
    <3>4. QED
      BY <3>2, <3>3, <1>3
  <2>3. QED
    BY <2>1, <2>2
<1> QED
  BY <1>1, <1>2, <1>3, <1>4, <1>5, <1>6, <1>7, <1>8 DEF TypeOK, NextType, NextRankType

\* The serving counter stays an integer when a first command is issued.
LEMMA ServingWithType ==
  ASSUME TypeOK, NEW r \in Accepted
  PROVE  ServingWith(r) \in Int
BY NowTypes DEF ServingWith

\* An ACT, which promotes its request to actq, keeps every variable typed.
LEMMA ActivateType ==
  ASSUME TypeOK, NEW q \in RequestQueue, NEW i \in 1..Len(queue[q]), NEW ref,
         Activate(q, i, ref)
  PROVE  TypeOK'
<1> DEFINE r == queue[q][i]
           b == BankAt(r)
           n == count_activated_sectors(r)
<1>1. r \in Accepted /\ r \in Nat
  BY QueuedIsAccepted DEF Accepted
<1>2. /\ reqs[r] \in RequestFields /\ b \in Bank /\ RowAt(r) \in Row /\ n \in Nat
  BY <1>1, RequestTypes
<1>3. /\ Housekeeping(ref) /\ FirstCommand(r) /\ Timing("ACT", b)
      /\ queue' = [[queue EXCEPT ![q] = Without(@, i)] EXCEPT !["actq"] = Append(@, r)]
      /\ banks' = [banks EXCEPT ![b] =
                     Opened(RowAt(r), IF sectoredDRAM THEN reqs[r].acts ELSE {})]
      /\ rowtable' = [rowtable EXCEPT ![b] =
                        IF @.row = {} THEN [row |-> {RowAt(r)}, hits |-> 0] ELSE @]
      /\ budget' = BudgetNow - n
      /\ faw_queue' = Append(FawNow, [age |-> 0, sectors |-> n])
      /\ pending' = PendingNow /\ done' = DoneNow /\ serving' = ServingWith(r)
  BY DEF Activate
<1>4. reqs' \in Seq(RequestFields) /\ Accepted' = Accepted
  BY <1>1, <1>3, FirstCommandFacts
<1>5. /\ refreshes' \in Nat /\ fresh' \in BOOLEAN /\ otherq' \in Nat
      /\ write_mode' \in BOOLEAN
  BY <1>3, HousekeepingType
<1>6. next' \in NextType /\ nextRank' \in NextRankType
  <2>1. "ACT" \in Command
    BY DEF Command, BankCmd
  <2>2. QED
    BY <1>2, <1>3, <2>1, TimingType
<1>7. QueueType(queue')
  <2>1. QueueType(queue)
    BY TypeParts
  <2>2. QueueType([queue EXCEPT ![q] = Without(@, i)])
    BY <2>1, EraseType
  <2>3. "actq" \in RequestQueue
    BY DEF RequestQueue
  <2>4. QED
    BY <1>1, <1>3, <2>2, <2>3, PushType
<1>8. banks' \in [Bank -> BankState]
  <2>1. reqs[r].acts \subseteq Sector
    BY <1>2 DEF RequestFields
  <2>2. Opened(RowAt(r), IF sectoredDRAM THEN reqs[r].acts ELSE {}) \in BankState
    BY <1>2, <2>1 DEF Opened, BankState
  <2>3. banks \in [Bank -> BankState]
    BY DEF TypeOK
  <2>4. QED
    BY <1>2, <1>3, <2>2, <2>3
<1>9. rowtable' \in [Bank -> RowEntry]
  <2>1. rowtable \in [Bank -> RowEntry]
    BY DEF TypeOK
  <2>2. [row |-> {RowAt(r)}, hits |-> 0] \in RowEntry
    BY <1>2 DEF RowEntry
  <2>3. QED
    BY <1>2, <1>3, <2>1, <2>2
<1>10. budget' \in Int /\ faw_queue' \in Seq(FawEntry)
  <2>1. BudgetNow \in Int /\ FawNow \in Seq(FawEntry)
    BY FawNowType
  <2>2. [age |-> 0, sectors |-> n] \in FawEntry
    BY <1>2 DEF FawEntry
  <2>3. faw_queue' \in Seq(FawEntry)
    BY <1>3, <2>1, <2>2, AppendProperties
  <2>4. budget' \in Int
    BY <1>2, <1>3, <2>1
  <2>5. QED
    BY <2>3, <2>4
<1>11. /\ pending' \in Seq(PendingEntry)
       /\ \A k \in 1..Len(pending') : pending'[k].req \in Accepted
       /\ done' \subseteq Accepted
  BY <1>3, PendingNowType
<1>12. serving' \in Int
  BY <1>1, <1>3, ServingWithType
<1> HIDE DEF r, b, n
<1> QED
  BY <1>4, <1>5, <1>6, <1>7, <1>8, <1>9, <1>10, <1>11, <1>12
  DEF TypeOK, QueueType, NextType, NextRankType

\* A PRE keeps every variable typed.
LEMMA PrechargeType ==
  ASSUME TypeOK, NEW q \in RequestQueue, NEW i \in 1..Len(queue[q]), NEW ref,
         Precharge(q, i, ref)
  PROVE  TypeOK'
<1> DEFINE r == queue[q][i]
           b == BankAt(r)
<1>1. r \in Accepted /\ r \in Nat
  BY QueuedIsAccepted DEF Accepted
<1>2. b \in Bank
  BY <1>1, RequestTypes
<1>3. /\ Housekeeping(ref) /\ NoActivate /\ FirstCommand(r) /\ Timing("PRE", b)
      /\ banks' = [banks EXCEPT ![b] = Closed]
      /\ rowtable' = [rowtable EXCEPT ![b] = NoEntry]
      /\ pending' = PendingNow /\ done' = DoneNow /\ serving' = ServingWith(r)
      /\ queue' = queue
  BY DEF Precharge
<1>4. reqs' \in Seq(RequestFields) /\ Accepted' = Accepted
  BY <1>1, <1>3, FirstCommandFacts
<1>5. /\ refreshes' \in Nat /\ fresh' \in BOOLEAN /\ otherq' \in Nat
      /\ write_mode' \in BOOLEAN
  BY <1>3, HousekeepingType
<1>6. next' \in NextType /\ nextRank' \in NextRankType
  <2>1. "PRE" \in Command
    BY DEF Command, BankCmd
  <2>2. QED
    BY <1>2, <1>3, <2>1, TimingType
<1>7. banks' \in [Bank -> BankState]
  BY <1>2, <1>3 DEF TypeOK, Closed, BankState
<1>8. rowtable' \in [Bank -> RowEntry]
  BY <1>2, <1>3 DEF TypeOK, NoEntry, RowEntry
<1>9. budget' \in Int /\ faw_queue' \in Seq(FawEntry)
  BY <1>3, NoActivateType
<1>10. /\ pending' \in Seq(PendingEntry)
       /\ \A k \in 1..Len(pending') : pending'[k].req \in Accepted
       /\ done' \subseteq Accepted
  BY <1>3, PendingNowType
<1>11. serving' \in Int
  BY <1>1, <1>3, ServingWithType
<1> HIDE DEF r, b
<1> QED
  BY <1>3, <1>4, <1>5, <1>6, <1>7, <1>8, <1>9, <1>10, <1>11
  DEF TypeOK, NextType, NextRankType

\* A RD or WR, which ends or returns its request, keeps every variable typed.
LEMMA AccessType ==
  ASSUME TypeOK, NEW q \in RequestQueue, NEW i \in 1..Len(queue[q]), NEW ref,
         Access(q, i, ref)
  PROVE  TypeOK'
<1> DEFINE r == queue[q][i]
           b == BankAt(r)
           e == [req |-> r, left |-> read_latency]
<1>1. r \in Accepted /\ r \in Nat
  BY QueuedIsAccepted DEF Accepted
<1>2. b \in Bank /\ translate(r) \in {"RD", "WR"}
  BY <1>1, RequestTypes
<1>3. /\ Housekeeping(ref) /\ NoActivate /\ FirstCommand(r) /\ Timing(translate(r), b)
      /\ queue' = [queue EXCEPT ![q] = Without(@, i)]
      /\ rowtable' = [rowtable EXCEPT ![b].hits = @ + 1]
      /\ banks' = banks
      /\ \/ /\ pending' = Append(PendingNow, e)
            /\ done' = DoneNow
            /\ serving' = ServingWith(r)
         \/ /\ pending' = PendingNow
            /\ done' = DoneNow \cup {r}
            /\ serving' = ServingWith(r) - 1
  BY DEF Access, RowHit
<1>4. reqs' \in Seq(RequestFields) /\ Accepted' = Accepted
  BY <1>1, <1>3, FirstCommandFacts
<1>5. /\ refreshes' \in Nat /\ fresh' \in BOOLEAN /\ otherq' \in Nat
      /\ write_mode' \in BOOLEAN
  BY <1>3, HousekeepingType
<1>6. next' \in NextType /\ nextRank' \in NextRankType
  <2>1. translate(r) \in Command
    BY <1>2 DEF Command, BankCmd
  <2>2. QED
    BY <1>2, <1>3, <2>1, TimingType
<1>7. QueueType(queue')
  <2>1. QueueType(queue)
    BY TypeParts
  <2>2. QED
    BY <1>3, <2>1, EraseType
<1>8. rowtable' \in [Bank -> RowEntry]
  <2>1. rowtable \in [Bank -> RowEntry] /\ rowtable[b] \in RowEntry
    BY <1>2 DEF TypeOK
  <2>2. [rowtable[b] EXCEPT !.hits = @ + 1] \in RowEntry
    BY <2>1 DEF RowEntry
  <2>3. rowtable' = [rowtable EXCEPT ![b] = [rowtable[b] EXCEPT !.hits = @ + 1]]
    BY <1>3
  <2>4. QED
    BY <1>2, <2>1, <2>2, <2>3
<1>9. budget' \in Int /\ faw_queue' \in Seq(FawEntry)
  BY <1>3, NoActivateType
<1>10. /\ PendingNow \in Seq(PendingEntry)
       /\ \A k \in 1..Len(PendingNow) : PendingNow[k].req \in Accepted
       /\ DoneNow \subseteq Accepted
       /\ Len(PendingNow) \in Nat
  BY PendingNowType, LenProperties
<1>11. e \in PendingEntry
  <2>1. \A f \in SpeedFields : speed_entry[f] \in Nat
    BY SpeedAssumption
  <2>2. T.nCL \in Nat /\ T.nBL \in Nat
    BY <2>1 DEF T, SpeedFields
  <2>3. read_latency \in Nat
    BY <2>2 DEF read_latency
  <2>4. QED
    BY <1>1, <2>3 DEF PendingEntry
<1>12. /\ pending' \in Seq(PendingEntry)
       /\ \A k \in 1..Len(pending') : pending'[k].req \in Accepted
  <2>1. CASE pending' = PendingNow
    BY <2>1, <1>10
  <2>2. CASE pending' = Append(PendingNow, e)
    <3>1. e.req \in Accepted
      BY <1>1
    <3> HIDE DEF e
    <3>2. /\ pending' \in Seq(PendingEntry)
          /\ Len(pending') = Len(PendingNow) + 1
          /\ \A k \in 1..Len(PendingNow) : pending'[k] = PendingNow[k]
          /\ pending'[Len(PendingNow) + 1] = e
      BY <1>10, <1>11, <2>2, AppendProperties
    <3>3. ASSUME NEW k \in 1..Len(pending')
          PROVE  pending'[k].req \in Accepted
      <4>1. CASE k \in 1..Len(PendingNow)
        BY <4>1, <3>2, <1>10
      <4>2. CASE k = Len(PendingNow) + 1
        BY <4>2, <3>1, <3>2
      <4>3. QED
        BY <4>1, <4>2, <3>2, <1>10
    <3>4. QED
      BY <3>2, <3>3
  <2>3. QED
    BY <1>3, <2>1, <2>2
<1>13. done' \subseteq Accepted
  BY <1>1, <1>3, <1>10
<1>14. serving' \in Int
  BY <1>1, <1>3, ServingWithType
<1>15. banks' \in [Bank -> BankState]
  BY <1>3 DEF TypeOK
<1> HIDE DEF r, b, e
<1> QED
  BY <1>4, <1>5, <1>6, <1>7, <1>8, <1>9, <1>12, <1>13, <1>14, <1>15
  DEF TypeOK, QueueType, NextType, NextRankType

\* The steps of Next, one by one.
LEMMA NextCases ==
  ASSUME Next
  PROVE  \/ \E shape \in Shape : Enqueue(shape)
         \/ \E ref \in {0, 1} : Idle(ref) \/ SkipScheduling(ref)
         \/ \E ref \in {0, 1} : PrechargeAll(ref) \/ RefreshRank(ref)
         \/ \E ref \in {0, 1}, q \in RequestQueue : \E i \in 1..Len(queue[q]) :
               /\ Candidate(q, i, ref)
               /\ Activate(q, i, ref) \/ Precharge(q, i, ref) \/ Access(q, i, ref)
BY DEF Next, Tick, Scheduled, Serving

\* No step of the controller breaks a type.
LEMMA TypeStep == TypeOK /\ [Next]_vars => TypeOK'
<1> SUFFICES ASSUME TypeOK, [Next]_vars PROVE TypeOK'
  OBVIOUS
<1>1. CASE UNCHANGED vars
  BY <1>1 DEF vars, TypeOK, Accepted
<1>2. CASE Next
  BY <1>2, NextCases, EnqueueType, QuietType, RankCommandType, ActivateType,
     PrechargeType, AccessType
<1> QED
  BY <1>1, <1>2

\* The controller's state keeps its types: in particular the queues, pending
\* and done name accepted requests only and no distance to a next command goes
\* below zero.
THEOREM TypeCorrect == Spec => []TypeOK
<1>1. Init => TypeOK
  BY InitType
<1>2. TypeOK /\ [Next]_vars => TypeOK'
  BY TypeStep
<1> QED
  BY <1>1, <1>2, PTL DEF Spec

-----------------------------------------------------------------------------
(***************************************************************************)
(* The row table and the rows opened for waiting requests.                 *)
(***************************************************************************)
\* Every bank is closed and the row table is empty at first.
LEMMA BankInit == Init => BankInv
<1> SUFFICES ASSUME Init PROVE BankInv
  OBVIOUS
<1>1. TypeOK
  BY InitType
<1>2. Accepted = {}
  BY DEF Init, Accepted
<1>3. /\ \A b \in Bank : banks[b] = Closed /\ rowtable[b] = NoEntry
  BY DEF Init
<1>4. /\ Closed.row_state = {}
      /\ NoEntry.row = {}
      /\ NoEntry.hits = 0
  BY DEF Closed, NoEntry
<1> QED
  BY <1>1, <1>2, <1>3, <1>4
  DEF BankInv, AccumulatesOwnSectors, RowTableMirrorsBanks, OpenerStillWaiting

\* A bank whose row, sectors and hits do not change, and whose promoted
\* requests stay in actq, keeps a waiting opener.
OpenerOf(b) ==
  \E r \in Elems(queue["actq"]) :
     /\ BankAt(r) = b
     /\ RowAt(r) \in banks[b].row_state
     /\ SectorsOpen(banks[b], reqs[r].sectors)

SameRequests ==
  \A o \in Accepted : /\ reqs'[o].addr = reqs[o].addr
                      /\ reqs'[o].sectors = reqs[o].sectors
                      /\ reqs[o].acts \subseteq reqs'[o].acts

\* A promoted request that waits for an open row goes on doing so when the
\* requests change only in what SameRequests allows and actq loses nobody.
LEMMA OpenerKept ==
  ASSUME TypeOK, SameRequests, NEW b \in Bank, OpenerOf(b), banks'[b] = banks[b],
         \A r \in Elems(queue["actq"]) : BankAt(r) = b => r \in Elems(queue'["actq"])
  PROVE  OpenerOf(b)'
<1>1. PICK r \in Elems(queue["actq"]) :
         /\ BankAt(r) = b
         /\ RowAt(r) \in banks[b].row_state
         /\ SectorsOpen(banks[b], reqs[r].sectors)
  BY DEF OpenerOf
<1>2. r \in Accepted
  BY <1>1 DEF Elems, TypeOK, RequestQueue
<1>3. reqs'[r].addr = reqs[r].addr /\ reqs'[r].sectors = reqs[r].sectors
  BY <1>2 DEF SameRequests
<1>4. BankAt(r)' = BankAt(r) /\ RowAt(r)' = RowAt(r)
  BY <1>3 DEF BankAt, RowAt
<1>5. r \in Elems(queue["actq"])'
  BY <1>1 DEF Elems
<1> QED
  BY <1>1, <1>3, <1>4, <1>5 DEF OpenerOf, SectorsOpen

\* Nothing a step does to the requests and the banks it leaves alone can break
\* the invariant.
LEMMA BankStepElsewhere ==
  ASSUME BankInv, SameRequests, NEW b \in Bank, banks'[b] = banks[b],
         rowtable'[b] = rowtable[b],
         \A r \in Elems(queue["actq"]) : BankAt(r) = b => r \in Elems(queue'["actq"])
  PROVE  /\ rowtable'[b].row = banks'[b].row_state
         /\ banks'[b].row_state = {} => rowtable'[b].hits = 0
         /\ banks'[b].row_state # {} /\ rowtable'[b].hits = 0 => OpenerOf(b)'
<1>1. /\ rowtable[b].row = banks[b].row_state
      /\ banks[b].row_state = {} => rowtable[b].hits = 0
      /\ banks[b].row_state # {} /\ rowtable[b].hits = 0 => OpenerOf(b)
  BY DEF BankInv, RowTableMirrorsBanks, OpenerStillWaiting, OpenerOf
<1>2. TypeOK
  BY DEF BankInv
<1>3. ASSUME OpenerOf(b)
      PROVE  OpenerOf(b)'
  BY <1>2, <1>3, OpenerKept
<1> QED
  BY <1>1, <1>3

\* The invariant of the next state, bank by bank.
LEMMA BankInvNext ==
  ASSUME TypeOK', AccumulatesOwnSectors',
         \A b \in Bank :
            /\ rowtable'[b].row = banks'[b].row_state
            /\ banks'[b].row_state = {} => rowtable'[b].hits = 0
            /\ banks'[b].row_state # {} /\ rowtable'[b].hits = 0 => OpenerOf(b)'
  PROVE  BankInv'
BY DEF BankInv, RowTableMirrorsBanks, OpenerStillWaiting, OpenerOf

\* Accepting a request widens sector_bits[4] only and touches no bank.
LEMMA BankEnqueue ==
  ASSUME BankInv, NEW shape \in Shape, Enqueue(shape)
  PROVE  BankInv'
<1>1. TypeOK /\ AccumulatesOwnSectors
  BY DEF BankInv
<1>2. TypeOK'
  BY <1>1, EnqueueType
<1>3. /\ Accepted' = Accepted \cup {Len(reqs) + 1}
      /\ \A o \in Accepted :
            /\ reqs'[o].type = reqs[o].type
            /\ reqs'[o].addr = reqs[o].addr
            /\ reqs'[o].sectors = reqs[o].sectors
            /\ reqs[o].acts \subseteq reqs'[o].acts
      /\ reqs'[Len(reqs) + 1] = NewRequest(shape)
  BY <1>1, EnqueueFacts
<1>4. SameRequests
  BY <1>3 DEF SameRequests
<1>5. AccumulatesOwnSectors'
  <2>1. NewRequest(shape).sectors \subseteq NewRequest(shape).acts
    BY DEF NewRequest
  <2>2. QED
    BY <1>1, <1>3, <2>1 DEF AccumulatesOwnSectors
<1>6. banks' = banks /\ rowtable' = rowtable /\ queue'["actq"] = queue["actq"]
  <2>1. queue' = [queue EXCEPT ![QueueOf(shape.type)] = Append(@, Len(reqs) + 1)]
        \/ queue' = queue
    BY DEF Enqueue
  <2>2. QueueOf(shape.type) # "actq"
    BY DEF QueueOf
  <2>3. queue'["actq"] = queue["actq"]
    BY <1>1, <2>1, <2>2 DEF TypeOK, RequestQueue
  <2>4. QED
    BY <2>3 DEF Enqueue
<1>7. ASSUME NEW b \in Bank
      PROVE  /\ rowtable'[b].row = banks'[b].row_state
             /\ banks'[b].row_state = {} => rowtable'[b].hits = 0
             /\ banks'[b].row_state # {} /\ rowtable'[b].hits = 0 => OpenerOf(b)'
  BY <1>4, <1>6, BankStepElsewhere
<1> QED
  BY <1>2, <1>5, <1>7, BankInvNext

\* A step that leaves requests, queues, banks and row table alone.
LEMMA BankQuiet ==
  ASSUME BankInv, TypeOK', UNCHANGED <<reqs, queue, banks, rowtable>>
  PROVE  BankInv'
BY DEF BankInv, AccumulatesOwnSectors, Accepted, RowTableMirrorsBanks,
       OpenerStillWaiting, BankAt, RowAt

\* A PREA closes all banks and empties the row table together.
LEMMA BankPrechargeAll ==
  ASSUME BankInv, TypeOK', NEW ref, PrechargeAll(ref)
  PROVE  BankInv'
<1>1. /\ reqs' = reqs
      /\ banks' = [b \in Bank |-> Closed]
      /\ rowtable' = [b \in Bank |-> NoEntry]
  BY DEF PrechargeAll, RowsClosed
<1>2. Closed.row_state = {} /\ NoEntry.row = {} /\ NoEntry.hits = 0
  BY DEF Closed, NoEntry
<1>3. AccumulatesOwnSectors'
  BY <1>1 DEF BankInv, AccumulatesOwnSectors, Accepted
<1>4. \A b \in Bank :
            /\ rowtable'[b].row = banks'[b].row_state
            /\ banks'[b].row_state = {} => rowtable'[b].hits = 0
            /\ banks'[b].row_state # {} /\ rowtable'[b].hits = 0 => OpenerOf(b)'
  BY <1>1, <1>2
<1> QED
  BY <1>3, <1>4, BankInvNext

\* After a first command of a request the requests are the same, flags apart.
LEMMA BankFirstCommand ==
  ASSUME BankInv, NEW r \in Accepted, FirstCommand(r)
  PROVE  SameRequests /\ AccumulatesOwnSectors'
<1>1. TypeOK
  BY DEF BankInv
<1>2. /\ Accepted' = Accepted
      /\ \A o \in Accepted :
            /\ reqs'[o].addr = reqs[o].addr
            /\ reqs'[o].sectors = reqs[o].sectors
            /\ reqs'[o].acts = reqs[o].acts
  BY <1>1, FirstCommandFacts
<1> QED
  BY <1>2 DEF SameRequests, AccumulatesOwnSectors, BankInv

\* A PRE closes one bank and removes its entry of the row table.
LEMMA BankPrecharge ==
  ASSUME BankInv, TypeOK', NEW q \in RequestQueue, NEW i \in 1..Len(queue[q]), NEW ref,
         Precharge(q, i, ref)
  PROVE  BankInv'
<1> DEFINE r == queue[q][i]
<1>1. TypeOK
  BY DEF BankInv
<1>2. r \in Accepted /\ BankAt(r) \in Bank
  BY <1>1, QueuedIsAccepted, RequestTypes
<1>3. /\ FirstCommand(r)
      /\ banks' = [banks EXCEPT ![BankAt(r)] = Closed]
      /\ rowtable' = [rowtable EXCEPT ![BankAt(r)] = NoEntry]
      /\ queue' = queue
  BY DEF Precharge
<1>4. SameRequests /\ AccumulatesOwnSectors'
  BY <1>2, <1>3, BankFirstCommand
<1> HIDE DEF r
<1>5. ASSUME NEW b \in Bank
      PROVE  /\ rowtable'[b].row = banks'[b].row_state
             /\ banks'[b].row_state = {} => rowtable'[b].hits = 0
             /\ banks'[b].row_state # {} /\ rowtable'[b].hits = 0 => OpenerOf(b)'
  <2>1. CASE b = BankAt(r)
    <3>1. banks'[b] = Closed /\ rowtable'[b] = NoEntry
      BY <1>1, <1>2, <1>3, <2>1 DEF TypeOK
    <3>2. QED
      BY <3>1 DEF Closed, NoEntry
  <2>2. CASE b # BankAt(r)
    <3>1. banks'[b] = banks[b] /\ rowtable'[b] = rowtable[b]
      BY <1>1, <1>3, <2>2 DEF TypeOK
    <3>2. QED
      BY <1>3, <1>4, <3>1, BankStepElsewhere
  <2>3. QED
    BY <2>1, <2>2
<1> QED
  BY <1>4, <1>5, BankInvNext

\* What the command a request needs first says of its bank.
LEMMA FirstCommandOfBank ==
  ASSUME TypeOK, NEW r \in Accepted
  PROVE  /\ get_first_cmd(r) = "ACT" => banks[BankAt(r)].row_state = {}
         /\ is_accessing(get_first_cmd(r)) => RowAt(r) \in banks[BankAt(r)].row_state
<1>1. translate(r) \in {"RD", "WR"}
  BY RequestTypes
<1> QED
  BY <1>1 DEF get_first_cmd, prereq, is_accessing

\* A RD or WR counts as a hit of the entry of its bank, so nobody has to wait
\* for that row any more.
LEMMA BankAccess ==
  ASSUME BankInv, TypeOK', NEW q \in RequestQueue, NEW i \in 1..Len(queue[q]), NEW ref,
         Access(q, i, ref)
  PROVE  BankInv'
<1> DEFINE r == queue[q][i]
<1>1. TypeOK
  BY DEF BankInv
<1>2. r \in Accepted /\ BankAt(r) \in Bank
  BY <1>1, QueuedIsAccepted, RequestTypes
<1>3. /\ FirstCommand(r)
      /\ banks' = banks
      /\ rowtable' = [rowtable EXCEPT ![BankAt(r)].hits = @ + 1]
      /\ queue' = [queue EXCEPT ![q] = Without(@, i)]
      /\ RowAt(r) \in banks[BankAt(r)].row_state
  BY <1>1, <1>2, FirstCommandOfBank DEF Access, RowHit
<1>4. SameRequests /\ AccumulatesOwnSectors'
  BY <1>2, <1>3, BankFirstCommand
<1>5. ASSUME NEW b \in Bank, NEW o \in Elems(queue["actq"]), BankAt(o) = b, b # BankAt(r)
      PROVE  o \in Elems(queue'["actq"])
  <2>1. CASE q = "actq"
    <3>1. queue["actq"] \in Seq(Nat) /\ i \in 1..Len(queue["actq"])
      BY <1>1, <2>1 DEF TypeOK
    <3>2. o # queue["actq"][i]
      BY <1>5, <2>1
    <3>3. o \in Elems(Without(queue["actq"], i))
      BY <3>1, <3>2, WithoutElems
    <3>4. queue'["actq"] = Without(queue["actq"], i)
      BY <1>1, <1>3, <2>1 DEF TypeOK
    <3>5. QED
      BY <3>3, <3>4
  <2>2. CASE q # "actq"
    <3>1. queue'["actq"] = queue["actq"]
      BY <1>1, <1>3, <2>2 DEF TypeOK, RequestQueue
    <3>2. QED
      BY <3>1
  <2>3. QED
    BY <2>1, <2>2
<1> HIDE DEF r
<1>6. ASSUME NEW b \in Bank
      PROVE  /\ rowtable'[b].row = banks'[b].row_state
             /\ banks'[b].row_state = {} => rowtable'[b].hits = 0
             /\ banks'[b].row_state # {} /\ rowtable'[b].hits = 0 => OpenerOf(b)'
  <2>1. CASE b = BankAt(r)
    <3>1. rowtable[b] \in RowEntry
      BY <1>1 DEF TypeOK
    <3>2. rowtable'[b].row = rowtable[b].row /\ rowtable'[b].hits = rowtable[b].hits + 1
      BY <1>1, <1>3, <2>1, <3>1 DEF TypeOK, RowEntry
    <3>3. rowtable'[b].hits # 0
      BY <3>1, <3>2 DEF RowEntry
    <3>4. rowtable[b].row = banks[b].row_state
      BY DEF BankInv, RowTableMirrorsBanks
    <3>5. QED
      BY <1>3, <2>1, <3>2, <3>3, <3>4
  <2>2. CASE b # BankAt(r)
    <3>1. banks'[b] = banks[b] /\ rowtable'[b] = rowtable[b]
      BY <1>1, <1>3, <2>2 DEF TypeOK
    <3>2. \A o \in Elems(queue["actq"]) : BankAt(o) = b => o \in Elems(queue'["actq"])
      BY <1>5, <2>2
    <3>3. QED
      BY <1>4, <3>1, <3>2, BankStepElsewhere
  <2>3. QED
    BY <2>1, <2>2
<1> QED
  BY <1>4, <1>6, BankInvNext

\* An ACT opens a row, enters it in the row table and leaves the request it was
\* issued for waiting in actq with its sectors open.
LEMMA BankActivate ==
  ASSUME BankInv, TypeOK', NEW q \in RequestQueue, NEW i \in 1..Len(queue[q]), NEW ref,
         Activate(q, i, ref)
  PROVE  BankInv'
<1>0. PICK r : r = queue[q][i]
  OBVIOUS
<1> DEFINE S == IF sectoredDRAM THEN reqs[r].acts ELSE {}
           rest == [queue EXCEPT ![q] = Without(@, i)]
<1>1. TypeOK
  BY DEF BankInv
<1>2. r \in Accepted /\ r \in Nat /\ BankAt(r) \in Bank
  BY <1>0, <1>1, QueuedIsAccepted, RequestTypes DEF Accepted
<1>3. /\ FirstCommand(r)
      /\ banks' = [banks EXCEPT ![BankAt(r)] = Opened(RowAt(r), S)]
      /\ rowtable' = [rowtable EXCEPT ![BankAt(r)] =
                        IF @.row = {} THEN [row |-> {RowAt(r)}, hits |-> 0] ELSE @]
      /\ queue' = [rest EXCEPT !["actq"] = Append(@, r)]
      /\ banks[BankAt(r)].row_state = {}
  BY <1>0, <1>1, <1>2, FirstCommandOfBank DEF Activate
<1>4. SameRequests /\ AccumulatesOwnSectors'
  BY <1>2, <1>3, BankFirstCommand
<1>5. Elems(queue["actq"]) \cup {r} \subseteq Elems(queue'["actq"])
  <2>1. "actq" \in RequestQueue /\ queue["actq"] \in Seq(Nat)
    BY <1>1 DEF RequestQueue, TypeOK
  <2>2. rest["actq"] \in Seq(Nat) /\ Elems(queue["actq"]) \subseteq Elems(rest["actq"]) \cup {r}
    <3>1. CASE q = "actq"
      <4>1. rest["actq"] = Without(queue["actq"], i)
        BY <1>1, <2>1, <3>1 DEF TypeOK
      <4>2. i \in 1..Len(queue["actq"]) /\ r = queue["actq"][i]
        BY <1>0, <3>1
      <4>3. /\ Without(queue["actq"], i) \in Seq(Nat)
            /\ \A e \in Elems(queue["actq"]) :
                  e # queue["actq"][i] => e \in Elems(Without(queue["actq"], i))
        BY <2>1, <4>2, WithoutProperties, WithoutElems
      <4>4. QED
        BY <4>1, <4>2, <4>3
    <3>2. CASE q # "actq"
      BY <1>1, <2>1, <3>2 DEF TypeOK
    <3>3. QED
      BY <3>1, <3>2
  <2>3. queue'["actq"] = Append(rest["actq"], r)
    BY <1>1, <1>3, <2>1 DEF TypeOK
  <2>4. Elems(Append(rest["actq"], r)) = Elems(rest["actq"]) \cup {r}
    BY <1>2, <2>2, AppendElems
  <2>5. QED
    BY <2>2, <2>3, <2>4
<1>6. SectorsOpen(Opened(RowAt(r), S), reqs[r].sectors)
  BY <1>2 DEF SectorsOpen, Opened, BankInv, AccumulatesOwnSectors
<1> HIDE DEF S, rest
<1>7. /\ BankAt(r)' = BankAt(r) /\ RowAt(r)' = RowAt(r)
      /\ reqs'[r].sectors = reqs[r].sectors
  BY <1>2, <1>4 DEF SameRequests, BankAt, RowAt
<1>8. ASSUME NEW b \in Bank
      PROVE  /\ rowtable'[b].row = banks'[b].row_state
             /\ banks'[b].row_state = {} => rowtable'[b].hits = 0
             /\ banks'[b].row_state # {} /\ rowtable'[b].hits = 0 => OpenerOf(b)'
  <2>1. CASE b = BankAt(r)
    <3>1. rowtable[b].row = {}
      BY <1>3, <2>1 DEF BankInv, RowTableMirrorsBanks
    <3>2. /\ rowtable'[b] = [row |-> {RowAt(r)}, hits |-> 0]
          /\ banks'[b] = Opened(RowAt(r), S)
      BY <1>1, <1>2, <1>3, <2>1, <3>1 DEF TypeOK
    <3>3. rowtable'[b].row = banks'[b].row_state /\ RowAt(r) \in banks'[b].row_state
      BY <3>2 DEF Opened
    <3>4. OpenerOf(b)'
      <4>1. r \in Elems(queue["actq"])'
        BY <1>5 DEF Elems
      <4>2. SectorsOpen(banks[b], reqs[r].sectors)'
        BY <1>6, <1>7, <3>2 DEF SectorsOpen
      <4>3. QED
        BY <1>7, <2>1, <3>3, <4>1, <4>2 DEF OpenerOf
    <3>5. QED
      BY <3>3, <3>4
  <2>2. CASE b # BankAt(r)
    <3>1. banks'[b] = banks[b] /\ rowtable'[b] = rowtable[b]
      BY <1>1, <1>3, <2>2 DEF TypeOK
    <3>2. QED
      BY <1>4, <1>5, <3>1, BankStepElsewhere
  <2>3. QED
    BY <2>1, <2>2
<1> QED
  BY <1>4, <1>8, BankInvNext

\* No step of the controller breaks the invariant of the banks.
LEMMA BankStep == BankInv /\ [Next]_vars => BankInv'
<1> SUFFICES ASSUME BankInv, [Next]_vars PROVE BankInv'
  OBVIOUS
<1>1. TypeOK'
  BY TypeStep DEF BankInv
<1>2. CASE UNCHANGED vars
  BY <1>1, <1>2, BankQuiet DEF vars
<1>3. CASE \E shape \in Shape : Enqueue(shape)
  BY <1>3, BankEnqueue
<1>4. ASSUME NEW ref \in {0, 1}, Idle(ref) \/ SkipScheduling(ref) \/ RefreshRank(ref)
      PROVE  BankInv'
  <2>1. UNCHANGED <<reqs, queue, banks, rowtable>>
    BY <1>4 DEF Idle, SkipScheduling, RefreshRank
  <2>2. QED
    BY <1>1, <2>1, BankQuiet
<1>5. ASSUME NEW ref \in {0, 1}, PrechargeAll(ref)
      PROVE  BankInv'
  BY <1>1, <1>5, BankPrechargeAll
<1>6. ASSUME NEW ref \in {0, 1}, NEW q \in RequestQueue, NEW i \in 1..Len(queue[q]),
             Activate(q, i, ref) \/ Precharge(q, i, ref) \/ Access(q, i, ref)
      PROVE  BankInv'
  BY <1>1, <1>6, BankActivate, BankPrecharge, BankAccess
<1>7. CASE Next
  BY <1>3, <1>4, <1>5, <1>6, <1>7, NextCases
<1> QED
  BY <1>2, <1>7

\* In every reachable state the types are right, every request wants its own
\* sectors activated, the row table agrees with the banks and each open row that
\* was not accessed yet has a promoted request waiting for it.
THEOREM BankInvariant == Spec => []BankInv
<1>1. Init => BankInv
  BY BankInit
<1>2. BankInv /\ [Next]_vars => BankInv'
  BY BankStep
<1> QED
  BY <1>1, <1>2, PTL DEF Spec

\* The assertions of RowTable::update never fail: the table and the banks agree
\* on which row is open, in every controller and after every interleaving of
\* commands for requests and refreshes.
THEOREM RowTableCorrect == Spec => []RowTableMirrorsBanks
<1>1. BankInv => RowTableMirrorsBanks
  BY DEF BankInv
<1> QED
  BY <1>1, BankInvariant, PTL

\* The guard against useless activates always has somebody to wait for: a row
\* that is open and not yet accessed has a promoted request that hits it.
THEOREM GuardedRowHasOpener == Spec => []OpenerStillWaiting
<1>1. BankInv => OpenerStillWaiting
  BY DEF BankInv
<1> QED
  BY <1>1, BankInvariant, PTL

-----------------------------------------------------------------------------
(***************************************************************************)
(* The tFAW window.                                                        *)
(***************************************************************************)
FawInv == TypeOK /\ FawWindow

\* A window of activates in order of age, each of them younger than nFAW.
Window(f) ==
  /\ f \in Seq(FawEntry)
  /\ \A i \in 1..Len(f) : f[i].age <= T.nFAW
  /\ \A i, j \in 1..Len(f) : i < j => f[i].age > f[j].age

\* One cycle later at most the first activate has to leave.
LEMMA FawNowWindow ==
  ASSUME FawInv
  PROVE  /\ Window(FawNow)
         /\ \A i \in 1..Len(FawNow) : FawNow[i].age > 0
         /\ BudgetNow \in Int /\ BudgetNow >= 0
<1>1. /\ faw_queue \in Seq(FawEntry) /\ Len(faw_queue) \in Nat
      /\ budget \in Int /\ budget >= 0
      /\ TypeOK
  BY LenProperties DEF FawInv, TypeOK, FawWindow
<1>2. T.nFAW \in Nat
  BY SpeedAssumption DEF T, SpeedFields
<1> DEFINE n == T.nFAW
<1> HIDE DEF n
<1>3. ASSUME NEW i \in 1..Len(faw_queue)
      PROVE  /\ FawAged[i] \in FawEntry
             /\ FawAged[i].age = faw_queue[i].age + 1
             /\ faw_queue[i].age \in Nat
             /\ faw_queue[i].sectors \in Nat
             /\ faw_queue[i].age <= n
  <2>1. faw_queue[i] \in FawEntry
    BY <1>1, ElementOfSeq
  <2>2. QED
    BY <2>1 DEF FawAged, FawEntry, FawInv, FawWindow, n
<1>4. /\ FawAged \in Seq(FawEntry)
      /\ Len(FawAged) = Len(faw_queue)
  <2>1. FawAged \in [1..Len(faw_queue) -> FawEntry]
    BY <1>3 DEF FawAged
  <2>2. QED
    BY <2>1, <1>1, MapIsSeq
<1>5. \A i, j \in 1..Len(FawAged) : i < j => FawAged[i].age > FawAged[j].age
  BY <1>1, <1>3, <1>4 DEF FawInv, FawWindow
<1>6. CASE FawPop
  <2>1. faw_queue # << >> /\ FawAged[1].age > n
    BY <1>6 DEF FawPop, n
  <2>2. Len(faw_queue) # 0 /\ 1 \in 1..Len(faw_queue)
    BY <1>1, <2>1, EmptySeq
  <2>3. FawAged # << >>
    BY <1>4, <2>2, EmptySeq
  <2>4. /\ FawNow \in Seq(FawEntry)
        /\ Len(FawNow) = Len(FawAged) - 1
        /\ \A i \in 1..Len(FawNow) : FawNow[i] = FawAged[i + 1]
    <3>1. FawNow = Tail(FawAged)
      BY <1>6 DEF FawNow
    <3>2. QED
      BY <3>1, <2>3, <1>4, HeadTailProperties
  <2>5. ASSUME NEW i \in 1..Len(FawNow)
        PROVE  FawNow[i].age <= n /\ FawNow[i].age > 0
    <3>1. i + 1 \in 1..Len(faw_queue) /\ 1 < i + 1
      BY <1>1, <1>4, <2>4
    <3>2. faw_queue[1].age > faw_queue[i + 1].age
      BY <2>2, <3>1 DEF FawInv, FawWindow
    <3>3. faw_queue[1].age <= n /\ faw_queue[1].age \in Nat /\ faw_queue[i + 1].age \in Nat
      BY <1>3, <2>2, <3>1
    <3>4. FawNow[i].age = faw_queue[i + 1].age + 1
      BY <1>3, <2>4, <3>1
    <3>5. n \in Nat
      BY <1>2 DEF n
    <3>6. QED
      BY <3>2, <3>3, <3>4, <3>5
  <2>6. \A i, j \in 1..Len(FawNow) : i < j => FawNow[i].age > FawNow[j].age
    <3>1. \A i \in 1..Len(FawNow) : i \in Nat /\ i + 1 \in 1..Len(FawAged)
      BY <1>1, <1>4, <2>4
    <3>2. QED
      BY <1>5, <2>4, <3>1
  <2>7. BudgetNow = budget + faw_queue[1].sectors
    BY <1>6 DEF BudgetNow
  <2>8. BudgetNow \in Int /\ BudgetNow >= 0
    BY <1>1, <1>3, <2>2, <2>7
  <2>9. QED
    BY <2>4, <2>5, <2>6, <2>8 DEF Window, n
<1>7. CASE ~FawPop
  <2>1. FawNow = FawAged /\ BudgetNow = budget
    BY <1>7 DEF FawNow, BudgetNow
  <2>2. ASSUME NEW i \in 1..Len(FawAged)
        PROVE  FawAged[i].age <= n /\ FawAged[i].age > 0
    <3>1. 1 \in 1..Len(faw_queue) /\ i \in 1..Len(faw_queue)
      BY <1>1, <1>4
    <3>2. faw_queue # << >>
      BY <3>1, <1>1, EmptySeq
    <3>3. ~(FawAged[1].age > n)
      BY <1>7, <3>2 DEF FawPop, n
    <3>4. i # 1 => faw_queue[1].age > faw_queue[i].age
      BY <3>1 DEF FawInv, FawWindow
    <3>5. n \in Nat
      BY <1>2 DEF n
    <3>6. QED
      BY <1>3, <3>1, <3>3, <3>4, <3>5
  <2>3. QED
    BY <1>1, <1>4, <1>5, <2>1, <2>2 DEF Window, n
<1> QED
  BY <1>6, <1>7

\* A cycle that activates nothing.
LEMMA FawNoActivate ==
  ASSUME FawInv, NoActivate
  PROVE  FawWindow'
<1>1. budget' = BudgetNow /\ faw_queue' = FawNow
  BY DEF NoActivate
<1>2. Window(FawNow) /\ BudgetNow >= 0
  BY FawNowWindow
<1> QED
  BY <1>1, <1>2 DEF Window, FawWindow, T

\* A cycle that activates a row: the budget is checked before it is spent, and
\* the new entry is younger than the others.
LEMMA FawActivate ==
  ASSUME FawInv, NEW q \in RequestQueue, NEW i \in 1..Len(queue[q]), NEW ref,
         Activate(q, i, ref)
  PROVE  FawWindow'
<1> DEFINE n == count_activated_sectors(queue[q][i])
           e == [age |-> 0, sectors |-> n]
<1>1. /\ ~FawStall(queue[q][i])
      /\ get_first_cmd(queue[q][i]) = "ACT"
      /\ budget' = BudgetNow - n
      /\ faw_queue' = Append(FawNow, e)
  BY DEF Activate
<1>2. n \in Nat
  BY QueuedIsAccepted, RequestTypes DEF FawInv
<1>3. /\ Window(FawNow)
      /\ \A k \in 1..Len(FawNow) : FawNow[k].age > 0
      /\ BudgetNow \in Int
  BY FawNowWindow
<1>4. budget' >= 0
  <2>1. ~(BudgetNow - n < 0)
    BY <1>1 DEF FawStall
  <2>2. QED
    BY <1>1, <1>2, <1>3, <2>1
<1>5. e \in FawEntry /\ e.age = 0
  BY <1>2 DEF FawEntry
<1> HIDE DEF e, n
<1>6. /\ Len(FawNow) \in Nat
      /\ Len(faw_queue') = Len(FawNow) + 1
      /\ \A k \in 1..Len(FawNow) : faw_queue'[k] = FawNow[k]
      /\ faw_queue'[Len(FawNow) + 1] = e
  <2>1. FawNow \in Seq(FawEntry)
    BY <1>3 DEF Window
  <2>2. QED
    BY <1>1, <1>5, <2>1, LenProperties, AppendProperties
<1> DEFINE m == T.nFAW
<1>7. m \in Nat
  BY SpeedAssumption DEF T, SpeedFields
<1>8. /\ \A k \in 1..Len(FawNow) : FawNow[k].age <= m
      /\ \A k, l \in 1..Len(FawNow) : k < l => FawNow[k].age > FawNow[l].age
  BY <1>3 DEF Window
<1> HIDE DEF m
<1>9. \A k \in 1..Len(faw_queue') : faw_queue'[k].age <= m
  BY <1>5, <1>6, <1>7, <1>8
<1>10. ASSUME NEW k \in 1..Len(faw_queue'), NEW l \in 1..Len(faw_queue'), k < l
       PROVE  faw_queue'[k].age > faw_queue'[l].age
  <2>1. k \in 1..Len(FawNow)
    BY <1>6, <1>10
  <2>2. CASE l \in 1..Len(FawNow)
    BY <1>6, <1>8, <1>10, <2>1, <2>2
  <2>3. CASE l = Len(FawNow) + 1
    BY <1>3, <1>5, <1>6, <2>1, <2>3
  <2>4. QED
    BY <2>2, <2>3, <1>6
<1> QED
  BY <1>4, <1>9, <1>10 DEF FawWindow, m, T

\* No step of the controller overdraws the tFAW budget or keeps an activate in the
\* window for too long.
LEMMA FawStep == FawInv /\ [Next]_vars => FawInv'
<1> SUFFICES ASSUME FawInv, [Next]_vars PROVE FawInv'
  OBVIOUS
<1>1. TypeOK'
  BY TypeStep DEF FawInv
<1>2. ASSUME UNCHANGED <<budget, faw_queue>>
      PROVE  FawWindow'
  BY <1>2 DEF FawInv, FawWindow
<1>3. CASE UNCHANGED vars
  BY <1>1, <1>2, <1>3 DEF vars, FawInv
<1>4. ASSUME NEW shape \in Shape, Enqueue(shape)
      PROVE  FawWindow'
  BY <1>2, <1>4 DEF Enqueue
<1>5. ASSUME NoActivate
      PROVE  FawWindow'
  BY <1>5, FawNoActivate
<1>6. ASSUME NEW ref \in {0, 1},
             \/ Idle(ref) \/ SkipScheduling(ref)
             \/ PrechargeAll(ref) \/ RefreshRank(ref)
      PROVE  FawWindow'
  BY <1>5, <1>6 DEF Idle, SkipScheduling, PrechargeAll, RefreshRank
<1>7. ASSUME NEW ref \in {0, 1}, NEW q \in RequestQueue, NEW i \in 1..Len(queue[q]),
             Activate(q, i, ref) \/ Precharge(q, i, ref) \/ Access(q, i, ref)
      PROVE  FawWindow'
  BY <1>5, <1>7, FawActivate DEF Precharge, Access
<1>8. CASE Next
  BY <1>1, <1>4, <1>6, <1>7, <1>8, NextCases DEF FawInv
<1> QED
  BY <1>3, <1>8

\* Removing one activate per cycle is enough to keep the tFAW window exact, and
\* the budget is never overdrawn, whatever the number of sectors, the budget
\* and the timing parameters are.
THEOREM FawWindowKept == Spec => []FawWindow
<1>1. Init => FawInv
  <2> SUFFICES ASSUME Init PROVE FawInv
    OBVIOUS
  <2>1. TypeOK
    BY InitType
  <2>2. faw_queue = << >> /\ budget = MaxBudget
    BY DEF Init
  <2>3. MaxBudget >= 0
    <3>1. FawActs \in Nat
      BY ConfigAssumption
    <3>2. Cardinality(Sector) \in Nat
      BY SectorAssumption, FS_CardinalityType
    <3>3. FawActs * Cardinality(Sector) >= 0
      BY <3>1, <3>2
    <3>4. QED
      BY <3>1, <3>3 DEF MaxBudget
  <2>4. QED
    BY <2>1, <2>2, <2>3 DEF FawInv, FawWindow
<1>2. FawInv /\ [Next]_vars => FawInv'
  BY FawStep
<1>3. FawInv => FawWindow
  BY DEF FawInv
<1> QED
  BY <1>1, <1>2, <1>3, PTL DEF Spec

-----------------------------------------------------------------------------
(***************************************************************************)
(* The lists of the controller, with pending as the list of its requests,  *)
(* in one function; no request is in two places of them.                   *)
(***************************************************************************)
ListName == RequestQueue \cup {"pending"}

ListsType(L) == L \in [ListName -> Seq(Nat)]

Apart(L) ==
  \A a, b \in ListName : \A i \in 1..Len(L[a]), j \in 1..Len(L[b]) :
    L[a][i] = L[b][j] => a = b /\ i = j

Content(L) == UNION {Elems(L[a]) : a \in ListName}

\* s without its element i, in the same order
Drops(t, s, i) ==
  /\ t \in Seq(Nat) /\ Len(t) = Len(s) - 1
  /\ \A j \in 1..Len(t) : t[j] = IF j < i THEN s[j] ELSE s[j + 1]

\* Taking one element out of one list keeps the lists apart.
LEMMA DropApart ==
  ASSUME NEW L, ListsType(L), Apart(L), NEW a \in ListName, NEW i \in 1..Len(L[a]),
         NEW M, ListsType(M), Drops(M[a], L[a], i), \A b \in ListName : b # a => M[b] = L[b]
  PROVE  Apart(M) /\ Content(M) = Content(L) \ {L[a][i]}
<1> DEFINE old(b, j) == IF b = a /\ j >= i THEN j + 1 ELSE j
<1>1. \A b \in ListName : Len(L[b]) \in Nat /\ Len(M[b]) \in Nat
  BY LenProperties DEF ListsType
<1>2. ASSUME NEW b \in ListName, NEW j \in 1..Len(M[b])
      PROVE  /\ old(b, j) \in 1..Len(L[b]) /\ M[b][j] = L[b][old(b, j)]
             /\ b = a => old(b, j) # i
  <2>1. /\ Len(L[a]) \in Nat /\ Len(M[a]) = Len(L[a]) - 1 /\ i \in 1..Len(L[a])
        /\ \A k \in 1..Len(M[a]) : M[a][k] = IF k < i THEN L[a][k] ELSE L[a][k + 1]
    BY <1>1 DEF Drops
  <2>2. CASE b # a
    BY <2>2
  <2>3. CASE b = a /\ j < i
    <3>1. old(b, j) = j /\ j \in 1..Len(M[a])
      BY <2>1, <2>3
    <3>2. QED
      BY <2>1, <2>3, <3>1
  <2>4. CASE b = a /\ j >= i
    <3>1. old(b, j) = j + 1 /\ j \in 1..Len(M[a]) /\ ~(j < i) /\ j + 1 # i
      BY <2>1, <2>4
    <3>2. j + 1 \in 1..Len(L[a])
      BY <2>1, <3>1
    <3> HIDE DEF old
    <3>3. QED
      BY <2>1, <2>4, <3>1, <3>2
  <2>5. j \in Int /\ i \in Int
    BY <1>1, <2>1
  <2>6. QED
    BY <2>2, <2>3, <2>4, <2>5
<1>3. ASSUME NEW b \in ListName, NEW j \in 1..Len(L[b]), b # a \/ j # i
      PROVE  \E k \in 1..Len(M[b]) : M[b][k] = L[b][j]
  <2>1. CASE b # a
    BY <2>1
  <2>2. CASE b = a /\ j < i
    <3>1. /\ Len(L[a]) \in Nat /\ Len(M[a]) = Len(L[a]) - 1 /\ i \in 1..Len(L[a])
          /\ \A k \in 1..Len(M[a]) : M[a][k] = IF k < i THEN L[a][k] ELSE L[a][k + 1]
      BY <1>1 DEF Drops
    <3>2. j \in 1..Len(M[a])
      BY <2>2, <3>1
    <3>3. M[a][j] = L[a][j]
      BY <2>2, <3>1, <3>2
    <3>4. QED
      BY <2>2, <3>2, <3>3
  <2>3. CASE b = a /\ j > i
    <3>1. j - 1 \in 1..Len(M[b]) /\ ~(j - 1 < i) /\ (j - 1) + 1 = j
      BY <1>1, <2>3 DEF Drops
    <3>2. M[b][j - 1] = L[b][j]
      BY <2>3, <3>1 DEF Drops
    <3>3. QED
      BY <3>1, <3>2
  <2>4. QED
    BY <1>1, <1>3, <2>1, <2>2, <2>3
<1>4. Apart(M)
  <2> SUFFICES ASSUME NEW b \in ListName, NEW c \in ListName,
                      NEW j \in 1..Len(M[b]), NEW k \in 1..Len(M[c]), M[b][j] = M[c][k]
               PROVE  b = c /\ j = k
    BY DEF Apart
  <2>a. /\ old(b, j) \in 1..Len(L[b]) /\ M[b][j] = L[b][old(b, j)]
        /\ old(c, k) \in 1..Len(L[c]) /\ M[c][k] = L[c][old(c, k)]
    BY <1>2
  <2>1. b = c /\ old(b, j) = old(c, k)
    <3> HIDE DEF old
    <3>1. L[b][old(b, j)] = L[c][old(c, k)]
      BY <2>a
    <3>2. QED
      BY <2>a, <3>1 DEF Apart
  <2>2. j \in Int /\ k \in Int /\ i \in Int
    BY <1>1
  <2>3. QED
    BY <2>1, <2>2
<1> HIDE DEF old
<1>5. ASSUME NEW e
      PROVE  e \in Content(M) <=> e \in Content(L) /\ e # L[a][i]
  <2>1. ASSUME e \in Content(M)
        PROVE  e \in Content(L) /\ e # L[a][i]
    <3>1. PICK b \in ListName : \E j \in 1..Len(M[b]) : e = M[b][j]
      BY <2>1 DEF Content, Elems
    <3>2. PICK j \in 1..Len(M[b]) : e = M[b][j]
      BY <3>1
    <3>3. /\ old(b, j) \in 1..Len(L[b]) /\ e = L[b][old(b, j)]
          /\ b = a => old(b, j) # i
      BY <1>2, <3>2
    <3>4. e # L[a][i]
      BY <3>3 DEF Apart
    <3>5. e \in Elems(L[b])
      BY <3>3 DEF Elems
    <3>6. QED
      BY <3>4, <3>5 DEF Content
  <2>2. ASSUME e \in Content(L), e # L[a][i]
        PROVE  e \in Content(M)
    <3>1. PICK b \in ListName : \E j \in 1..Len(L[b]) : e = L[b][j]
      BY <2>2 DEF Content, Elems
    <3>2. PICK j \in 1..Len(L[b]) : e = L[b][j]
      BY <3>1
    <3>3. \E k \in 1..Len(M[b]) : M[b][k] = e
      BY <1>3, <2>2, <3>2
    <3>4. QED
      BY <3>3 DEF Content, Elems
  <2>3. QED
    BY <2>1, <2>2
<1>6. QED
  BY <1>4, <1>5

\* Adding a request that is nowhere at the end of one list keeps the lists apart.
LEMMA PushApart ==
  ASSUME NEW L, ListsType(L), Apart(L), NEW a \in ListName, NEW r \in Nat, r \notin Content(L),
         NEW M, ListsType(M), M[a] = Append(L[a], r), \A b \in ListName : b # a => M[b] = L[b]
  PROVE  Apart(M) /\ Content(M) = Content(L) \cup {r}
<1>1. \A b \in ListName : L[b] \in Seq(Nat) /\ Len(L[b]) \in Nat
  BY LenProperties DEF ListsType
<1>2. /\ Len(M[a]) = Len(L[a]) + 1 /\ M[a][Len(L[a]) + 1] = r
      /\ \A j \in 1..Len(L[a]) : M[a][j] = L[a][j]
  BY <1>1, AppendProperties
<1>3. ASSUME NEW b \in ListName, NEW j \in 1..Len(M[b])
      PROVE  (j \in 1..Len(L[b]) /\ M[b][j] = L[b][j]) \/ (b = a /\ j = Len(L[a]) + 1 /\ M[b][j] = r)
  <2>1. CASE b # a
    BY <2>1
  <2>2. CASE b = a
    <3>1. j \in 1..Len(L[a]) \/ j = Len(L[a]) + 1
      BY <1>1, <1>2, <2>2
    <3>2. QED
      BY <1>2, <2>2, <3>1
  <2>3. QED
    BY <2>1, <2>2
<1>4. \A b \in ListName : \A j \in 1..Len(L[b]) : L[b][j] # r
  BY DEF Content, Elems
<1>5. Apart(M)
  <2> SUFFICES ASSUME NEW b \in ListName, NEW c \in ListName,
                      NEW j \in 1..Len(M[b]), NEW k \in 1..Len(M[c]), M[b][j] = M[c][k]
               PROVE  b = c /\ j = k
    BY DEF Apart
  <2>1. (j \in 1..Len(L[b]) /\ M[b][j] = L[b][j]) \/ (b = a /\ j = Len(L[a]) + 1 /\ M[b][j] = r)
    BY <1>3
  <2>2. (k \in 1..Len(L[c]) /\ M[c][k] = L[c][k]) \/ (c = a /\ k = Len(L[a]) + 1 /\ M[c][k] = r)
    BY <1>3
  <2>3. CASE j \in 1..Len(L[b]) /\ M[b][j] = L[b][j] /\ k \in 1..Len(L[c]) /\ M[c][k] = L[c][k]
    <3>1. L[b][j] = L[c][k]
      BY <2>3
    <3>2. QED
      BY <2>3, <3>1 DEF Apart
  <2>4. CASE b = a /\ j = Len(L[a]) + 1 /\ c = a /\ k = Len(L[a]) + 1
    BY <2>4
  <2>5. CASE j \in 1..Len(L[b]) /\ M[b][j] = L[b][j] /\ M[c][k] = r
    <3>1. L[b][j] = r
      BY <2>5
    <3>2. QED
      BY <1>4, <2>5, <3>1
  <2>6. CASE k \in 1..Len(L[c]) /\ M[c][k] = L[c][k] /\ M[b][j] = r
    <3>1. L[c][k] = r
      BY <2>6
    <3>2. QED
      BY <1>4, <2>6, <3>1
  <2>7. QED
    BY <2>1, <2>2, <2>3, <2>4, <2>5, <2>6
<1>6. Content(M) = Content(L) \cup {r}
  <2>1. ASSUME NEW b \in ListName
        PROVE  Elems(M[b]) = IF b = a THEN Elems(L[b]) \cup {r} ELSE Elems(L[b])
    <3>1. CASE b = a
      <4>1. Elems(Append(L[a], r)) = Elems(L[a]) \cup {r}
        BY <1>1, AppendElems
      <4>2. QED
        BY <3>1, <4>1
    <3>2. CASE b # a
      BY <3>2
    <3>3. QED
      BY <3>1, <3>2
  <2>2. QED
    BY <2>1 DEF Content
<1>7. QED
  BY <1>5, <1>6

-----------------------------------------------------------------------------
(***************************************************************************)
(* The lists of the controller.                                            *)
(***************************************************************************)
ReqList(p) == [i \in 1..Len(p) |-> p[i].req]

Lists(Q, p) == [a \in ListName |-> IF a = "pending" THEN ReqList(p) ELSE Q[a]]

OfType ==
  /\ \A r \in Elems(queue["readq"]) : reqs[r].type = "READ"
  /\ \A r \in Elems(queue["writeq"]) : reqs[r].type = "WRITE"

(***************************************************************************)
(* NoRequestLost in terms of the lists, with the types it needs.           *)
(***************************************************************************)
RequestInv ==
  /\ TypeOK
  /\ Apart(Lists(queue, pending))
  /\ done = Accepted \ Content(Lists(queue, pending))
  /\ OfType

LEMMA ReqListType ==
  ASSUME NEW p \in Seq(PendingEntry)
  PROVE  /\ ReqList(p) \in Seq(Nat) /\ Len(ReqList(p)) = Len(p) /\ Len(p) \in Nat
         /\ \A i \in 1..Len(p) : ReqList(p)[i] = p[i].req
<1>1. Len(p) \in Nat /\ \A i \in 1..Len(p) : p[i] \in PendingEntry
  BY LenProperties, ElementOfSeq
<1>2. ReqList(p) \in [1..Len(p) -> Nat]
  BY <1>1 DEF ReqList, PendingEntry
<1>3. QED
  BY <1>1, <1>2, MapIsSeq DEF ReqList

LEMMA ListsFacts ==
  ASSUME NEW Q \in [RequestQueue -> Seq(Nat)], NEW p \in Seq(PendingEntry)
  PROVE  /\ ListsType(Lists(Q, p))
         /\ \A a \in RequestQueue : a \in ListName /\ a # "pending" /\ Lists(Q, p)[a] = Q[a]
         /\ "pending" \in ListName /\ Lists(Q, p)["pending"] = ReqList(p)
BY ReqListType DEF ListsType, Lists, ListName, RequestQueue

\* The request at a position of a list was accepted.
LEMMA ContentAccepted ==
  ASSUME TypeOK
  PROVE  /\ Content(Lists(queue, pending)) \subseteq Accepted
         /\ ListsType(Lists(queue, pending))
         /\ queue \in [RequestQueue -> Seq(Nat)] /\ pending \in Seq(PendingEntry)
<1>1. queue \in [RequestQueue -> Seq(Nat)] /\ pending \in Seq(PendingEntry)
  BY DEF TypeOK
<1>2. \A a \in RequestQueue : Elems(Lists(queue, pending)[a]) \subseteq Accepted
  <2>1. \A a \in RequestQueue : Lists(queue, pending)[a] = queue[a]
    BY <1>1, ListsFacts
  <2>2. \A a \in RequestQueue : Elems(queue[a]) \subseteq Accepted
    BY DEF TypeOK, Elems
  <2>3. QED
    BY <2>1, <2>2
<1>3. Elems(Lists(queue, pending)["pending"]) \subseteq Accepted
  <2>1. \A i \in 1..Len(pending) : ReqList(pending)[i] \in Accepted
    BY <1>1, ReqListType DEF TypeOK
  <2>2. Elems(ReqList(pending)) \subseteq Accepted
    BY <1>1, <2>1, ReqListType DEF Elems
  <2>3. QED
    BY <1>1, <2>2, ListsFacts
<1>4. \A a \in ListName : Elems(Lists(queue, pending)[a]) \subseteq Accepted
  BY <1>2, <1>3 DEF ListName
<1>5. Content(Lists(queue, pending)) \subseteq Accepted
  BY <1>4 DEF Content
<1>6. QED
  BY <1>1, <1>5, ListsFacts

\* The read that is called back leaves pending for done.
LEMMA ServeApart ==
  ASSUME RequestInv
  PROVE  LET L == Lists(queue, PendingNow)
         IN  /\ PendingNow \in Seq(PendingEntry)
             /\ ListsType(L) /\ Apart(L)
             /\ Content(L) \subseteq Accepted
             /\ DoneNow = Accepted \ Content(L)
             /\ Serve => pending[1].req \in Accepted /\ pending[1].req \notin done
                         /\ pending[1].req \notin Content(L)
<1> DEFINE K == Lists(queue, pending)
           L == Lists(queue, PendingNow)
           aged == [i \in 1..Len(pending) |->
                      [req |-> pending[i].req, left |-> Elapse(pending[i].left)]]
<1>1. /\ TypeOK /\ Apart(K) /\ done = Accepted \ Content(K)
      /\ queue \in [RequestQueue -> Seq(Nat)] /\ pending \in Seq(PendingEntry)
      /\ ListsType(K) /\ Content(K) \subseteq Accepted
  BY ContentAccepted DEF RequestInv
<1>2. PendingNow \in Seq(PendingEntry)
  BY <1>1, PendingNowType
<1>3. ListsType(L) /\ L["pending"] = ReqList(PendingNow) /\ K["pending"] = ReqList(pending)
      /\ \A a \in ListName : a # "pending" => L[a] = K[a]
  <2>1. \A a \in ListName : a # "pending" => a \in RequestQueue
    BY DEF ListName
  <2>2. QED
    BY <1>1, <1>2, <2>1, ListsFacts
<1>4. Len(pending) \in Nat /\ aged \in Seq(PendingEntry) /\ Len(aged) = Len(pending)
  <2>1. \A i \in 1..Len(pending) : pending[i] \in PendingEntry
    BY <1>1, ElementOfSeq
  <2>2. \A i \in 1..Len(pending) : pending[i].req \in Nat /\ Elapse(pending[i].left) \in Nat
    BY <2>1 DEF PendingEntry, Elapse
  <2>3. aged \in [1..Len(pending) -> PendingEntry]
    BY <2>2 DEF PendingEntry
  <2>4. QED
    BY <1>1, <2>3, MapIsSeq, LenProperties
<1>5. \A i \in 1..Len(pending) : aged[i].req = pending[i].req
  OBVIOUS
<1>6. PendingNow = IF Serve THEN Tail(aged) ELSE aged
  BY DEF PendingNow
<1> HIDE DEF aged, K, L
<1>7. CASE Serve
  <2>1. 1 \in 1..Len(pending) /\ aged # << >>
    BY <1>1, <1>4, <1>7, EmptySeq DEF Serve
  <2>2. /\ Len(PendingNow) = Len(pending) - 1
        /\ \A i \in 1..Len(PendingNow) : PendingNow[i] = aged[i + 1]
    BY <1>4, <1>6, <1>7, <2>1, HeadTailProperties
  <2>3. \A i \in 1..Len(PendingNow) : i + 1 \in 1..Len(pending) /\ PendingNow[i].req = pending[i + 1].req
    BY <1>4, <1>5, <2>2
  <2>4. Drops(ReqList(PendingNow), ReqList(pending), 1)
    <3>1. /\ ReqList(PendingNow) \in Seq(Nat) /\ Len(ReqList(PendingNow)) = Len(PendingNow)
          /\ \A i \in 1..Len(PendingNow) : ReqList(PendingNow)[i] = PendingNow[i].req
      BY <1>2, ReqListType
    <3>2. /\ Len(ReqList(pending)) = Len(pending)
          /\ \A i \in 1..Len(pending) : ReqList(pending)[i] = pending[i].req
      BY <1>1, ReqListType
    <3>3. \A i \in 1..Len(PendingNow) : ~(i < 1) /\ ReqList(PendingNow)[i] = ReqList(pending)[i + 1]
      BY <2>3, <3>1, <3>2
    <3>4. QED
      BY <2>2, <3>1, <3>2, <3>3 DEF Drops
  <2>5. 1 \in 1..Len(K["pending"]) /\ K["pending"][1] = pending[1].req /\ "pending" \in ListName
    BY <1>1, <1>3, <2>1, ReqListType DEF ListName
  <2>6. Apart(L) /\ Content(L) = Content(K) \ {pending[1].req}
    BY <1>1, <1>3, <2>4, <2>5, DropApart
  <2>7. pending[1].req \in Content(K)
    BY <2>5 DEF Content, Elems
  <2>8. DoneNow = done \cup {pending[1].req}
    BY <1>7 DEF DoneNow
  <2>9. QED
    BY <1>1, <1>2, <1>3, <2>6, <2>7, <2>8 DEF L
<1>8. CASE ~Serve
  <2>1. PendingNow = aged /\ DoneNow = done
    BY <1>6, <1>8 DEF DoneNow
  <2>2. ReqList(PendingNow) = ReqList(pending)
    <3>1. \A i \in 1..Len(pending) : ReqList(PendingNow)[i] = ReqList(pending)[i]
      BY <1>1, <1>2, <1>4, <1>5, <2>1, ReqListType
    <3>2. /\ ReqList(PendingNow) = [i \in 1..Len(pending) |-> ReqList(PendingNow)[i]]
          /\ ReqList(pending) = [i \in 1..Len(pending) |-> ReqList(pending)[i]]
      BY <1>4, <2>1 DEF ReqList
    <3>3. QED
      BY <3>1, <3>2
  <2>3. L = K
    BY <2>2 DEF L, K, Lists
  <2>4. QED
    BY <1>1, <1>2, <1>8, <2>1, <2>3 DEF L
<1>9. QED
  BY <1>7, <1>8

Erased(q, i) == [queue EXCEPT ![q] = Without(@, i)]

\* A request leaves the queue it is served from.
LEMMA EraseApart ==
  ASSUME RequestInv, NEW q \in RequestQueue, NEW i \in 1..Len(queue[q])
  PROVE  LET L == Lists(queue, PendingNow)
             Q == Erased(q, i)
             M == Lists(Q, PendingNow)
         IN  /\ Q \in [RequestQueue -> Seq(Nat)] /\ ListsType(M) /\ Apart(M)
             /\ queue[q][i] \in Content(L) /\ queue[q][i] \in Accepted
             /\ Content(M) = Content(L) \ {queue[q][i]}
             /\ \A a \in RequestQueue : Elems(Q[a]) \subseteq Elems(queue[a])
<1> DEFINE L == Lists(queue, PendingNow)
           Q == Erased(q, i)
           M == Lists(Q, PendingNow)
<1>1. /\ TypeOK /\ queue \in [RequestQueue -> Seq(Nat)] /\ PendingNow \in Seq(PendingEntry)
      /\ ListsType(L) /\ Apart(L)
  BY ServeApart, ContentAccepted DEF RequestInv
<1>2. queue[q] \in Seq(Nat) /\ Len(queue[q]) \in Nat
  BY <1>1, LenProperties
<1>3. /\ Without(queue[q], i) \in Seq(Nat)
      /\ Len(Without(queue[q], i)) = Len(queue[q]) - 1
      /\ \A j \in 1..(Len(queue[q]) - 1) :
            Without(queue[q], i)[j] = IF j < i THEN queue[q][j] ELSE queue[q][j + 1]
  BY <1>2, WithoutProperties
<1>4. Elems(Without(queue[q], i)) \subseteq Elems(queue[q])
  BY <1>2, WithoutElems
<1>5. Q \in [RequestQueue -> Seq(Nat)] /\ Q[q] = Without(queue[q], i)
      /\ \A a \in RequestQueue : a # q => Q[a] = queue[a]
  BY <1>1, <1>3 DEF Erased
<1> HIDE DEF Q, L, M
<1>6. /\ ListsType(M) /\ q \in ListName
      /\ M[q] = Without(queue[q], i) /\ L[q] = queue[q]
  BY <1>1, <1>5, ListsFacts DEF M, L
<1>7. \A a \in ListName : a # q => M[a] = L[a]
  <2>1. \A a \in RequestQueue : M[a] = Q[a] /\ L[a] = queue[a]
    BY <1>1, <1>5, ListsFacts DEF M, L
  <2>2. M["pending"] = L["pending"]
    BY <1>1, <1>5, ListsFacts DEF M, L
  <2>3. QED
    BY <1>5, <2>1, <2>2 DEF ListName
<1>8. Drops(M[q], L[q], i)
  BY <1>3, <1>6 DEF Drops
<1>9. Apart(M) /\ Content(M) = Content(L) \ {queue[q][i]}
  BY <1>1, <1>6, <1>7, <1>8, DropApart
<1>10. queue[q][i] \in Content(L)
  BY <1>6 DEF Content, Elems
<1>11. queue[q][i] \in Accepted
  BY <1>1, QueuedIsAccepted
<1>12. \A a \in RequestQueue : Elems(Q[a]) \subseteq Elems(queue[a])
  BY <1>4, <1>5
<1>13. QED
  BY <1>5, <1>6, <1>9, <1>10, <1>11, <1>12 DEF L, Q, M

Joined(Q, q, r) == [Q EXCEPT ![q] = Append(@, r)]

\* A request that is in no list joins a queue, or pending.
LEMMA JoinApart ==
  ASSUME NEW Q \in [RequestQueue -> Seq(Nat)], NEW p \in Seq(PendingEntry), Apart(Lists(Q, p)),
         NEW r \in Nat, r \notin Content(Lists(Q, p))
  PROVE  /\ \A q \in RequestQueue : LET M == Lists(Joined(Q, q, r), p)
                                    IN  Apart(M) /\ Content(M) = Content(Lists(Q, p)) \cup {r}
         /\ \A n \in Nat : LET M == Lists(Q, Append(p, [req |-> r, left |-> n]))
                          IN  Apart(M) /\ Content(M) = Content(Lists(Q, p)) \cup {r}
<1> DEFINE L == Lists(Q, p)
<1>1. ListsType(L) /\ L["pending"] = ReqList(p) /\ "pending" \in ListName
      /\ \A a \in RequestQueue : a \in ListName /\ a # "pending" /\ L[a] = Q[a]
  BY ListsFacts
<1>2. \A a \in ListName : a # "pending" => a \in RequestQueue
  BY DEF ListName
<1>3. ASSUME NEW q \in RequestQueue
      PROVE  LET M == Lists(Joined(Q, q, r), p)
             IN  Apart(M) /\ Content(M) = Content(L) \cup {r}
  <2> DEFINE R == Joined(Q, q, r)
             M == Lists(R, p)
  <2>1. Append(Q[q], r) \in Seq(Nat)
    BY AppendProperties
  <2>2. R \in [RequestQueue -> Seq(Nat)] /\ R[q] = Append(Q[q], r)
        /\ \A a \in RequestQueue : a # q => R[a] = Q[a]
    BY <2>1 DEF Joined
  <2> HIDE DEF R, L
  <2>3. ListsType(M) /\ M["pending"] = ReqList(p) /\ \A a \in RequestQueue : M[a] = R[a]
    BY <2>2, ListsFacts
  <2> HIDE DEF M
  <2>4. q \in ListName /\ M[q] = Append(L[q], r)
    BY <1>1, <2>2, <2>3
  <2>5. \A a \in ListName : a # q => M[a] = L[a]
    BY <1>1, <1>2, <2>2, <2>3
  <2>6. Apart(L) /\ r \notin Content(L)
    BY DEF L
  <2>a. ListsType(L) /\ ListsType(M)
    BY <1>1, <2>3
  <2>7. Apart(M) /\ Content(M) = Content(L) \cup {r}
    BY <2>4, <2>5, <2>6, <2>a, PushApart
  <2>8. QED
    BY <2>7 DEF M, R
<1>4. ASSUME NEW n \in Nat
      PROVE  LET M == Lists(Q, Append(p, [req |-> r, left |-> n]))
             IN  Apart(M) /\ Content(M) = Content(L) \cup {r}
  <2> DEFINE e == [req |-> r, left |-> n]
             s == Append(p, e)
             M == Lists(Q, s)
  <2>1. e \in PendingEntry /\ e.req = r
    BY DEF PendingEntry
  <2> HIDE DEF e
  <2>2. /\ s \in Seq(PendingEntry) /\ Len(s) = Len(p) + 1 /\ s[Len(p) + 1] = e
        /\ \A i \in 1..Len(p) : s[i] = p[i]
    BY <2>1, AppendProperties
  <2> HIDE DEF s, L
  <2>3. /\ ReqList(p) \in Seq(Nat) /\ Len(ReqList(p)) = Len(p) /\ Len(p) \in Nat
        /\ \A i \in 1..Len(p) : ReqList(p)[i] = p[i].req
    BY ReqListType
  <2>4. /\ ReqList(s) \in Seq(Nat) /\ Len(ReqList(s)) = Len(p) + 1
        /\ \A i \in 1..Len(s) : ReqList(s)[i] = s[i].req
    BY <2>2, ReqListType
  <2>5. /\ Append(ReqList(p), r) \in Seq(Nat) /\ Len(Append(ReqList(p), r)) = Len(p) + 1
        /\ \A i \in 1..Len(p) : Append(ReqList(p), r)[i] = p[i].req
        /\ Append(ReqList(p), r)[Len(p) + 1] = r
    BY <2>3, AppendProperties
  <2>6. ReqList(s) = Append(ReqList(p), r)
    <3>1. \A i \in 1..(Len(p) + 1) : i \in 1..Len(p) \/ i = Len(p) + 1
      BY <2>3
    <3>2. \A i \in 1..(Len(p) + 1) : ReqList(s)[i] = Append(ReqList(p), r)[i]
      BY <2>1, <2>2, <2>4, <2>5, <3>1
    <3>3. QED
      BY <2>4, <2>5, <3>2, SeqEqual
  <2>7. ListsType(M) /\ M["pending"] = ReqList(s) /\ \A a \in RequestQueue : M[a] = Q[a]
    BY <2>2, ListsFacts
  <2> HIDE DEF M
  <2>8. M["pending"] = Append(L["pending"], r)
    BY <1>1, <2>6, <2>7
  <2>9. \A a \in ListName : a # "pending" => M[a] = L[a]
    BY <1>1, <1>2, <2>7
  <2>10. Apart(L) /\ r \notin Content(L)
    BY DEF L
  <2>11. Apart(M) /\ Content(M) = Content(L) \cup {r}
    BY <1>1, <2>7, <2>8, <2>9, <2>10, PushApart
  <2>12. QED
    BY <2>11 DEF M, s, e
<1>5. QED
  BY <1>3, <1>4

-----------------------------------------------------------------------------
(***************************************************************************)
(* No request is lost.                                                     *)
(***************************************************************************)
\* Requests keep their types, and a queue that gets no new request holds
\* requests of its type.
LEMMA OfTypeKept ==
  ASSUME TypeOK, OfType, \A o \in Accepted : reqs'[o].type = reqs[o].type,
         \A q \in {"readq", "writeq"} : Elems(queue'[q]) \subseteq Elems(queue[q])
  PROVE  OfType'
<1>1. \A q \in {"readq", "writeq"} : Elems(queue[q]) \subseteq Accepted
  BY DEF TypeOK, Elems, RequestQueue
<1>2. /\ \A r \in Elems(queue'["readq"]) : reqs'[r].type = "READ"
      /\ \A r \in Elems(queue'["writeq"]) : reqs'[r].type = "WRITE"
  BY <1>1 DEF OfType
<1>3. QED
  BY <1>2 DEF OfType, Elems

LEMMA RequestInit == Init => RequestInv
<1> SUFFICES ASSUME Init
             PROVE  RequestInv
  OBVIOUS
<1>1. TypeOK
  BY InitType
<1>2. /\ ListsType(Lists(queue, pending))
      /\ queue \in [RequestQueue -> Seq(Nat)] /\ pending \in Seq(PendingEntry)
  BY <1>1, ContentAccepted
<1>3. /\ \A q \in RequestQueue : Len(queue[q]) = 0
      /\ Len(pending) = 0 /\ Len(reqs) = 0
  BY DEF Init, RequestQueue
<1>4. ASSUME NEW a \in ListName
      PROVE  Len(Lists(queue, pending)[a]) = 0
  <2>1. CASE a = "pending"
    BY <1>2, <1>3, <2>1, ListsFacts, ReqListType
  <2>2. CASE a \in RequestQueue
    BY <1>2, <1>3, <2>2, ListsFacts
  <2>3. QED
    BY <2>1, <2>2 DEF ListName
<1>5. Apart(Lists(queue, pending)) /\ Content(Lists(queue, pending)) = {}
  BY <1>4 DEF Apart, Content, Elems
<1>6. done = Accepted \ Content(Lists(queue, pending))
  BY <1>3, <1>5 DEF Init, Accepted
<1>7. OfType
  BY <1>3 DEF OfType, Elems, RequestQueue
<1>8. QED
  BY <1>1, <1>5, <1>6, <1>7 DEF RequestInv

LEMMA RequestEnqueue ==
  ASSUME RequestInv, NEW shape \in Shape, Enqueue(shape)
  PROVE  RequestInv'
<1> DEFINE r == Len(reqs) + 1
           q == QueueOf(shape.type)
           L == Lists(queue, pending)
<1>1. /\ TypeOK /\ Apart(L) /\ done = Accepted \ Content(L) /\ OfType
      /\ Content(L) \subseteq Accepted
      /\ queue \in [RequestQueue -> Seq(Nat)] /\ pending \in Seq(PendingEntry)
  BY ContentAccepted DEF RequestInv
<1>2. /\ Accepted' = Accepted \cup {r} /\ reqs'[r] = NewRequest(shape)
      /\ \A o \in Accepted : reqs'[o].type = reqs[o].type
  BY <1>1, EnqueueFacts
<1>3. r \in Nat /\ r \notin Accepted
  BY <1>1, LenProperties DEF Accepted, TypeOK
<1>4. q \in RequestQueue /\ shape.type \in {"READ", "WRITE"}
      /\ q = IF shape.type = "READ" THEN "readq" ELSE "writeq"
  BY ShapeAssumption DEF QueueOf, RequestQueue
<1>5. done' = done
  BY DEF Enqueue
<1>6. TypeOK'
  BY <1>1, EnqueueType
<1>7. CASE queue' = [queue EXCEPT ![q] = Append(@, r)] /\ pending' = pending
  <2>1. Apart(Lists(Joined(queue, q, r), pending))
        /\ Content(Lists(Joined(queue, q, r), pending)) = Content(L) \cup {r}
    <3>1. /\ Apart(Lists(queue, pending)) /\ r \notin Content(Lists(queue, pending))
          /\ queue \in [RequestQueue -> Seq(Nat)] /\ pending \in Seq(PendingEntry)
      BY <1>1, <1>3
    <3>2. r \in Nat /\ q \in RequestQueue
      BY <1>3, <1>4
    <3> HIDE DEF q, r
    <3>3. \A a \in RequestQueue :
             /\ Apart(Lists(Joined(queue, a, r), pending))
             /\ Content(Lists(Joined(queue, a, r), pending)) = Content(Lists(queue, pending)) \cup {r}
      BY <3>1, <3>2, JoinApart
    <3>4. QED
      BY <3>2, <3>3
  <2>2. Apart(Lists(queue', pending')) /\ Content(Lists(queue', pending')) = Content(L) \cup {r}
    <3>1. queue' = Joined(queue, q, r) /\ pending' = pending
      BY <1>7 DEF Joined
    <3> HIDE DEF L, q, r
    <3>2. Lists(queue', pending') = Lists(Joined(queue, q, r), pending)
      BY <3>1
    <3>3. QED
      BY <2>1, <3>2
  <2>3. ASSUME NEW a \in {"readq", "writeq"}
        PROVE  Elems(queue'[a]) = IF a = q THEN Elems(queue[a]) \cup {r} ELSE Elems(queue[a])
    <3>1. CASE a = q
      <4>1. queue'[a] = Append(queue[a], r) /\ queue[a] \in Seq(Nat)
        BY <1>1, <1>4, <1>7, <3>1
      <4>2. QED
        BY <1>3, <3>1, <4>1, AppendElems
    <3>2. CASE a # q
      BY <1>1, <1>7, <3>2 DEF RequestQueue
    <3>3. QED
      BY <3>1, <3>2
  <2>4. /\ \A o \in Elems(queue'["readq"]) : reqs'[o].type = "READ"
        /\ \A o \in Elems(queue'["writeq"]) : reqs'[o].type = "WRITE"
    <3>1. \A a \in {"readq", "writeq"} : Elems(queue[a]) \subseteq Accepted
      BY <1>1 DEF TypeOK, Elems, RequestQueue
    <3>2. reqs'[r].type = shape.type
      BY <1>2 DEF NewRequest
    <3>3. ASSUME NEW o \in Elems(queue'["readq"])
          PROVE  reqs'[o].type = "READ"
      BY <1>1, <1>2, <1>4, <2>3, <3>1, <3>2 DEF OfType
    <3>4. ASSUME NEW o \in Elems(queue'["writeq"])
          PROVE  reqs'[o].type = "WRITE"
      BY <1>1, <1>2, <1>4, <2>3, <3>1, <3>2 DEF OfType
    <3>5. QED
      BY <3>3, <3>4
  <2>5. OfType'
    BY <2>4 DEF OfType, Elems
  <2>6. done' = Accepted' \ Content(Lists(queue', pending'))
    <3> HIDE DEF L, r
    <3>1. QED
      BY <1>1, <1>2, <1>3, <1>5, <2>2
  <2>7. QED
    BY <1>6, <2>2, <2>5, <2>6 DEF RequestInv, Lists, Apart, Content, Elems, ReqList
<1>8. CASE queue' = queue /\ pending' = Append(pending, [req |-> r, left |-> 1])
  <2>1. Apart(Lists(queue, Append(pending, [req |-> r, left |-> 1])))
        /\ Content(Lists(queue, Append(pending, [req |-> r, left |-> 1]))) = Content(L) \cup {r}
    BY <1>1, <1>3, JoinApart
  <2>2. Apart(Lists(queue', pending')) /\ Content(Lists(queue', pending')) = Content(L) \cup {r}
    BY <1>8, <2>1
  <2>3. OfType'
    BY <1>1, <1>2, <1>8, OfTypeKept
  <2>4. done' = Accepted' \ Content(Lists(queue', pending'))
    BY <1>1, <1>2, <1>3, <1>5, <2>2
  <2>5. QED
    BY <1>6, <2>2, <2>3, <2>4 DEF RequestInv, Lists, Apart, Content, Elems, ReqList
<1>9. QED
  BY <1>7, <1>8 DEF Enqueue

\* A step after which the lists are apart and hold what is not done.
LEMMA RequestNext ==
  ASSUME RequestInv, TypeOK', OfType', Accepted' = Accepted,
         NEW Q, queue' = Q, NEW p, pending' = p, Apart(Lists(Q, p)),
         done' = Accepted \ Content(Lists(Q, p))
  PROVE  RequestInv'
<1>1. Apart(Lists(queue', pending')) /\ done' = Accepted' \ Content(Lists(queue', pending'))
  OBVIOUS
<1>2. QED
  BY <1>1 DEF RequestInv, Lists, Apart, Content, Elems, ReqList

\* A cycle in which no request moves but the read that is called back.
LEMMA RequestQuiet ==
  ASSUME RequestInv, TypeOK', Accepted' = Accepted,
         \A o \in Accepted : reqs'[o].type = reqs[o].type,
         queue' = queue, pending' = PendingNow, done' = DoneNow
  PROVE  RequestInv'
<1>1. TypeOK /\ OfType
  BY DEF RequestInv
<1>2. OfType'
  BY <1>1, OfTypeKept
<1>3. Apart(Lists(queue, PendingNow)) /\ DoneNow = Accepted \ Content(Lists(queue, PendingNow))
  BY ServeApart
<1>4. QED
  BY <1>2, <1>3, RequestNext

LEMMA RequestActivate ==
  ASSUME RequestInv, TypeOK', NEW q \in RequestQueue, NEW i \in 1..Len(queue[q]), NEW ref,
         Activate(q, i, ref)
  PROVE  RequestInv'
<1> DEFINE r == queue[q][i]
           Q == Erased(q, i)
           L == Lists(queue, PendingNow)
<1>1. /\ TypeOK /\ OfType /\ PendingNow \in Seq(PendingEntry)
      /\ Content(L) \subseteq Accepted /\ DoneNow = Accepted \ Content(L)
  BY ServeApart DEF RequestInv
<1>2. /\ Q \in [RequestQueue -> Seq(Nat)] /\ Apart(Lists(Q, PendingNow))
      /\ r \in Content(L) /\ r \in Accepted
      /\ Content(Lists(Q, PendingNow)) = Content(L) \ {r}
      /\ \A a \in RequestQueue : Elems(Q[a]) \subseteq Elems(queue[a])
  BY EraseApart
<1>3. r \in Nat
  BY <1>1, <1>2, LenProperties DEF Accepted
<1>4. /\ FirstCommand(r) /\ queue' = Joined(Q, "actq", r)
      /\ pending' = PendingNow /\ done' = DoneNow
  BY DEF Activate, Erased, Joined
<1>5. Accepted' = Accepted /\ \A o \in Accepted : reqs'[o].type = reqs[o].type
  BY <1>1, <1>2, <1>4, FirstCommandFacts
<1> HIDE DEF r, Q, L
<1>6. /\ Apart(Lists(Joined(Q, "actq", r), PendingNow))
      /\ Content(Lists(Joined(Q, "actq", r), PendingNow)) = Content(Lists(Q, PendingNow)) \cup {r}
  BY <1>1, <1>2, <1>3, JoinApart DEF RequestQueue
<1>7. Content(Lists(Joined(Q, "actq", r), PendingNow)) = Content(L)
  BY <1>2, <1>6
<1>8. OfType'
  <2>1. \A a \in {"readq", "writeq"} : queue'[a] = Q[a]
    BY <1>2, <1>4 DEF Joined, RequestQueue
  <2>2. \A a \in {"readq", "writeq"} : Elems(queue'[a]) \subseteq Elems(queue[a])
    BY <1>2, <2>1 DEF RequestQueue
  <2>3. QED
    BY <1>1, <1>5, <2>2, OfTypeKept
<1>9. done' = Accepted \ Content(Lists(Joined(Q, "actq", r), PendingNow))
  BY <1>1, <1>4, <1>7
<1>10. QED
  BY <1>4, <1>5, <1>6, <1>8, <1>9, RequestNext

LEMMA RequestAccess ==
  ASSUME RequestInv, TypeOK', NEW q \in RequestQueue, NEW i \in 1..Len(queue[q]), NEW ref,
         Access(q, i, ref)
  PROVE  RequestInv'
<1> DEFINE r == queue[q][i]
           Q == Erased(q, i)
           L == Lists(queue, PendingNow)
           back == Append(PendingNow, [req |-> r, left |-> read_latency])
<1>1. /\ TypeOK /\ OfType /\ PendingNow \in Seq(PendingEntry)
      /\ Content(L) \subseteq Accepted /\ DoneNow = Accepted \ Content(L)
  BY ServeApart DEF RequestInv
<1>2. /\ Q \in [RequestQueue -> Seq(Nat)] /\ Apart(Lists(Q, PendingNow))
      /\ r \in Content(L) /\ r \in Accepted
      /\ Content(Lists(Q, PendingNow)) = Content(L) \ {r}
      /\ \A a \in RequestQueue : Elems(Q[a]) \subseteq Elems(queue[a])
  BY EraseApart
<1>3. r \in Nat /\ read_latency \in Nat
  <2>1. read_latency \in Nat
    <3>1. T.nCL \in Nat /\ T.nBL \in Nat
      BY SpeedAssumption DEF T, SpeedFields
    <3>2. QED
      BY <3>1 DEF read_latency
  <2>2. r \in Nat
    BY <1>2 DEF Accepted
  <2>3. QED
    BY <2>1, <2>2
<1>4. /\ FirstCommand(r) /\ queue' = Q
      /\ \/ pending' = back /\ done' = DoneNow
         \/ pending' = PendingNow /\ done' = DoneNow \cup {r}
  BY DEF Access, Erased
<1>5. Accepted' = Accepted /\ \A o \in Accepted : reqs'[o].type = reqs[o].type
  BY <1>1, <1>2, <1>4, FirstCommandFacts
<1>6. /\ Apart(Lists(Q, back))
      /\ Content(Lists(Q, back)) = Content(Lists(Q, PendingNow)) \cup {r}
  <2> HIDE DEF Q, r
  <2>1. QED
    BY <1>1, <1>2, <1>3, JoinApart
<1> HIDE DEF r, Q, L, back
<1>7. OfType'
  <2>1. \A a \in {"readq", "writeq"} : Elems(queue'[a]) \subseteq Elems(queue[a])
    BY <1>2, <1>4 DEF RequestQueue
  <2>2. QED
    BY <1>1, <1>5, <2>1, OfTypeKept
<1>8. CASE pending' = back /\ done' = DoneNow
  <2>1. done' = Accepted \ Content(Lists(Q, back))
    BY <1>1, <1>2, <1>6, <1>8
  <2>2. QED
    BY <1>4, <1>5, <1>6, <1>7, <1>8, <2>1, RequestNext
<1>9. CASE pending' = PendingNow /\ done' = DoneNow \cup {r}
  <2>1. done' = Accepted \ Content(Lists(Q, PendingNow))
    BY <1>1, <1>2, <1>9
  <2>2. QED
    BY <1>2, <1>4, <1>5, <1>7, <1>9, <2>1, RequestNext
<1>10. QED
  BY <1>4, <1>8, <1>9

LEMMA RequestStep == RequestInv /\ [Next]_vars => RequestInv'
<1> SUFFICES ASSUME RequestInv, [Next]_vars
             PROVE  RequestInv'
  OBVIOUS
<1>1. TypeOK /\ TypeOK'
  BY TypeStep DEF RequestInv
<1>2. CASE UNCHANGED vars
  <2>1. reqs' = reqs /\ queue' = queue /\ pending' = pending /\ done' = done
    BY <1>2 DEF vars
  <2>2. Accepted' = Accepted
    BY <2>1 DEF Accepted
  <2>3. OfType'
    BY <1>1, <2>1, OfTypeKept DEF RequestInv
  <2>4. QED
    BY <1>1, <2>1, <2>2, <2>3, RequestNext DEF RequestInv
<1>3. ASSUME NEW ref, Idle(ref) \/ SkipScheduling(ref) \/ PrechargeAll(ref) \/ RefreshRank(ref)
      PROVE  RequestInv'
  <2>1. /\ reqs' = reqs /\ queue' = queue
        /\ pending' = PendingNow /\ done' = DoneNow
    BY <1>3 DEF Idle, SkipScheduling, PrechargeAll, RefreshRank, NoProgress
  <2>2. Accepted' = Accepted
    BY <2>1 DEF Accepted
  <2>3. QED
    BY <1>1, <2>1, <2>2, RequestQuiet
<1>4. ASSUME NEW q \in RequestQueue, NEW i \in 1..Len(queue[q]), NEW ref, Precharge(q, i, ref)
      PROVE  RequestInv'
  <2>1. /\ FirstCommand(queue[q][i]) /\ queue' = queue
        /\ pending' = PendingNow /\ done' = DoneNow
    BY <1>4 DEF Precharge
  <2>2. Accepted' = Accepted /\ \A o \in Accepted : reqs'[o].type = reqs[o].type
    BY <1>1, <2>1, QueuedIsAccepted, FirstCommandFacts
  <2>3. QED
    BY <1>1, <2>1, <2>2, RequestQuiet
<1>5. CASE Next
  BY <1>1, <1>3, <1>4, <1>5, NextCases, RequestEnqueue, RequestActivate, RequestAccess
<1>6. QED
  BY <1>2, <1>5

LEMMA RequestInvariant == Spec => []RequestInv
BY RequestInit, RequestStep, PTL DEF Spec

(***************************************************************************)
(* Every accepted request is in exactly one of the lists or finished, in   *)
(* every interleaving of enqueue and tick: the copies the code makes       *)
(* between lists (Controller.cpp) drop and double nothing.                 *)
(***************************************************************************)
THEOREM NoRequestIsLost == Spec => []NoRequestLost
<1>1. RequestInv => NoRequestLost
  <2> SUFFICES ASSUME RequestInv
               PROVE  NoRequestLost
    OBVIOUS
  <2> DEFINE L == Lists(queue, pending)
  <2>1. /\ queue \in [RequestQueue -> Seq(Nat)] /\ pending \in Seq(PendingEntry)
        /\ Apart(L) /\ done = Accepted \ Content(L) /\ OfType
    BY ContentAccepted DEF RequestInv
  <2>2. /\ L["pending"] = ReqList(pending) /\ \A a \in RequestQueue : L[a] = queue[a]
        /\ Len(ReqList(pending)) = Len(pending)
        /\ \A i \in 1..Len(pending) : ReqList(pending)[i] = pending[i].req
    BY <2>1, ListsFacts, ReqListType
  <2> HIDE DEF L
  <2>3. ASSUME NEW p \in Places
        PROVE  \E a \in ListName : \E i \in 1..Len(L[a]) : p = <<a, i>> /\ Held(p) = L[a][i]
    <3>1. CASE p \in PlaceOf("pending", Len(pending))
      <4>1. PICK i \in 1..Len(pending) : p = <<"pending", i>>
        BY <3>1 DEF PlaceOf
      <4>2. Held(p) = pending[i].req
        BY <4>1 DEF Held
      <4>3. QED
        BY <2>2, <4>1, <4>2 DEF ListName
    <3>2. ASSUME NEW q \in RequestQueue, p \in PlaceOf(q, Len(queue[q]))
          PROVE  \E a \in ListName : \E i \in 1..Len(L[a]) : p = <<a, i>> /\ Held(p) = L[a][i]
      <4>1. PICK i \in 1..Len(queue[q]) : p = <<q, i>>
        BY <3>2 DEF PlaceOf
      <4>2. q # "pending" /\ q \in ListName
        BY DEF RequestQueue, ListName
      <4>3. Held(p) = queue[q][i]
        BY <4>1, <4>2 DEF Held
      <4>4. QED
        BY <2>2, <4>1, <4>2, <4>3
    <3>3. QED
      BY <3>1, <3>2 DEF Places
  <2>4. ASSUME NEW a \in ListName, NEW i \in 1..Len(L[a])
        PROVE  <<a, i>> \in Places /\ Held(<<a, i>>) = L[a][i]
    <3>1. CASE a = "pending"
      BY <2>2, <3>1 DEF Places, PlaceOf, Held
    <3>2. CASE a \in RequestQueue /\ a # "pending"
      <4>1. i \in 1..Len(queue[a]) /\ L[a] = queue[a]
        BY <2>2, <3>2
      <4>2. <<a, i>> \in PlaceOf(a, Len(queue[a]))
        BY <4>1 DEF PlaceOf
      <4>3. QED
        BY <3>2, <4>1, <4>2 DEF Places, Held
    <3>3. QED
      BY <3>1, <3>2 DEF ListName, RequestQueue
  <2>5. ASSUME NEW p \in Places, NEW o \in Places, Held(p) = Held(o)
        PROVE  p = o
    <3>1. PICK a \in ListName : \E i \in 1..Len(L[a]) : p = <<a, i>> /\ Held(p) = L[a][i]
      BY <2>3
    <3>2. PICK i \in 1..Len(L[a]) : p = <<a, i>> /\ Held(p) = L[a][i]
      BY <3>1
    <3>3. PICK b \in ListName : \E j \in 1..Len(L[b]) : o = <<b, j>> /\ Held(o) = L[b][j]
      BY <2>3
    <3>4. PICK j \in 1..Len(L[b]) : o = <<b, j>> /\ Held(o) = L[b][j]
      BY <3>3
    <3>5. a = b /\ i = j
      BY <2>1, <2>5, <3>2, <3>4 DEF Apart
    <3>6. QED
      BY <3>2, <3>4, <3>5
  <2>6. {Held(p) : p \in Places} = Content(L)
    <3>1. ASSUME NEW p \in Places
          PROVE  Held(p) \in Content(L)
      BY <2>3 DEF Content, Elems
    <3>2. ASSUME NEW e \in Content(L)
          PROVE  \E p \in Places : e = Held(p)
      <4>1. PICK a \in ListName : \E i \in 1..Len(L[a]) : e = L[a][i]
        BY DEF Content, Elems
      <4>2. PICK i \in 1..Len(L[a]) : e = L[a][i]
        BY <4>1
      <4>3. QED
        BY <2>4, <4>2
    <3>3. QED
      BY <3>1, <3>2
  <2>7. QED
    BY <2>1, <2>5, <2>6 DEF NoRequestLost, OfType
<1>2. QED
  BY <1>1, RequestInvariant, PTL

-----------------------------------------------------------------------------
(***************************************************************************)
(* The requests in service.                                                *)
(***************************************************************************)
ServiceInv == RequestInv /\ ServingBalance

\* What is in service once the head of pending was looked at.
ServedNow == {o \in Accepted : ~reqs[o].is_first_command /\ o \notin DoneNow}

LEMMA ServiceNow ==
  ASSUME ServiceInv
  PROVE  IsFiniteSet(ServedNow) /\ ServingNow = Cardinality(ServedNow)
<1>1. RequestInv /\ TypeOK /\ serving = Cardinality(InService)
  BY DEF ServiceInv, RequestInv, ServingBalance
<1>2. IsFiniteSet(InService)
  <2>1. IsFiniteSet(Accepted)
    BY <1>1, FS_Interval, LenProperties DEF Accepted, TypeOK
  <2>2. InService \subseteq Accepted
    BY DEF InService
  <2>3. QED
    BY <2>1, <2>2, FS_Subset
<1> DEFINE r == pending[1].req
<1>3. CASE Serve /\ ~reqs[r].is_first_command
  <2>1. r \in InService
    BY <1>1, <1>3, ServeApart DEF InService
  <2>2. ServedNow = InService \ {r}
    BY <1>3 DEF ServedNow, InService, DoneNow
  <2>3. Cardinality(InService \ {r}) = Cardinality(InService) - 1 /\ IsFiniteSet(InService \ {r})
    BY <1>2, <2>1, FS_RemoveElement
  <2>4. QED
    BY <1>1, <1>3, <2>2, <2>3 DEF ServingNow
<1>4. CASE ~(Serve /\ ~reqs[r].is_first_command)
  <2>1. ServedNow = InService
    BY <1>4 DEF ServedNow, InService, DoneNow
  <2>2. QED
    BY <1>1, <1>2, <1>4, <2>1 DEF ServingNow
<1>5. QED
  BY <1>3, <1>4

\* A command for a request that waits in a queue puts it in service.
LEMMA ServiceFirst ==
  ASSUME ServiceInv, NEW q \in RequestQueue, NEW i \in 1..Len(queue[q]), FirstCommand(queue[q][i])
  PROVE  LET r == queue[q][i]
             S == {o \in Accepted : ~reqs'[o].is_first_command /\ o \notin DoneNow}
         IN  /\ Accepted' = Accepted /\ r \in S /\ IsFiniteSet(S)
             /\ ServingWith(r) = Cardinality(S)
<1> DEFINE r == queue[q][i]
           S == {o \in Accepted : ~reqs'[o].is_first_command /\ o \notin DoneNow}
<1>1. RequestInv /\ TypeOK
  BY DEF ServiceInv, RequestInv
<1>2. r \in Accepted /\ r \notin DoneNow
  BY <1>1, EraseApart, ServeApart
<1>3. /\ Accepted' = Accepted
      /\ \A o \in Accepted : reqs'[o].is_first_command = (o # r /\ reqs[o].is_first_command)
  BY <1>1, <1>2, FirstCommandFacts
<1>4. IsFiniteSet(ServedNow) /\ ServingNow = Cardinality(ServedNow)
  BY ServiceNow
<1> HIDE DEF r
<1>5. S = ServedNow \cup {r}
  BY <1>2, <1>3 DEF ServedNow
<1>6. r \in ServedNow <=> ~reqs[r].is_first_command
  BY <1>2 DEF ServedNow
<1>7. /\ IsFiniteSet(S)
      /\ Cardinality(S) = IF r \in ServedNow THEN Cardinality(ServedNow) ELSE Cardinality(ServedNow) + 1
  BY <1>4, <1>5, FS_AddElement
<1>8. Cardinality(ServedNow) \in Nat
  BY <1>4, FS_CardinalityType
<1>9. ServingWith(r) = Cardinality(S)
  BY <1>4, <1>6, <1>7, <1>8 DEF ServingWith
<1>10. QED
  BY <1>3, <1>5, <1>7, <1>9 DEF r

LEMMA ServiceStep == ServiceInv /\ [Next]_vars => ServiceInv'
<1> SUFFICES ASSUME ServiceInv, [Next]_vars
             PROVE  ServiceInv'
  OBVIOUS
<1>1. RequestInv /\ RequestInv' /\ TypeOK /\ serving = Cardinality(InService)
  BY RequestStep DEF ServiceInv, RequestInv, ServingBalance
<1>2. CASE UNCHANGED vars
  BY <1>1, <1>2 DEF vars, ServiceInv, ServingBalance, InService, Accepted
<1>3. ASSUME NEW shape \in Shape, Enqueue(shape)
      PROVE  ServingBalance'
  <2>1. /\ Accepted' = Accepted \cup {Len(reqs) + 1}
        /\ \A o \in Accepted : reqs'[o].is_first_command = reqs[o].is_first_command
        /\ reqs'[Len(reqs) + 1].is_first_command
    <3>1. /\ Accepted' = Accepted \cup {Len(reqs) + 1}
          /\ \A o \in Accepted : reqs'[o].is_first_command = reqs[o].is_first_command
          /\ reqs'[Len(reqs) + 1] = NewRequest(shape)
      BY <1>1, <1>3, EnqueueFacts
    <3>2. NewRequest(shape).is_first_command
      BY DEF NewRequest
    <3>3. QED
      BY <3>1, <3>2
  <2>2. done' = done /\ serving' = serving
    BY <1>3 DEF Enqueue
  <2>3. InService' = InService
    BY <2>1, <2>2 DEF InService
  <2>4. QED
    BY <1>1, <2>2, <2>3 DEF ServingBalance
<1>4. ASSUME NEW ref, Idle(ref) \/ SkipScheduling(ref) \/ PrechargeAll(ref) \/ RefreshRank(ref)
      PROVE  ServingBalance'
  <2>1. reqs' = reqs /\ done' = DoneNow /\ serving' = ServingNow
    BY <1>4 DEF Idle, SkipScheduling, PrechargeAll, RefreshRank, NoProgress
  <2>2. InService' = ServedNow
    BY <2>1 DEF InService, ServedNow, Accepted
  <2>3. QED
    BY <2>1, <2>2, ServiceNow DEF ServingBalance
<1>5. ASSUME NEW q \in RequestQueue, NEW i \in 1..Len(queue[q]), NEW ref,
             Activate(q, i, ref) \/ Precharge(q, i, ref) \/ Access(q, i, ref)
      PROVE  ServingBalance'
  <2> DEFINE r == queue[q][i]
             S == {o \in Accepted : ~reqs'[o].is_first_command /\ o \notin DoneNow}
  <2>1. /\ FirstCommand(r)
        /\ \/ done' = DoneNow /\ serving' = ServingWith(r)
           \/ done' = DoneNow \cup {r} /\ serving' = ServingWith(r) - 1
    BY <1>5 DEF Activate, Precharge, Access
  <2>2. Accepted' = Accepted /\ r \in S /\ IsFiniteSet(S) /\ ServingWith(r) = Cardinality(S)
    BY <2>1, ServiceFirst
  <2>3. InService' = {o \in Accepted : ~reqs'[o].is_first_command /\ o \notin done'}
    BY <2>2 DEF InService
  <2> HIDE DEF r
  <2>4. CASE done' = DoneNow /\ serving' = ServingWith(r)
    <3>1. InService' = S
      BY <2>3, <2>4
    <3>2. QED
      BY <2>2, <2>4, <3>1 DEF ServingBalance
  <2>5. CASE done' = DoneNow \cup {r} /\ serving' = ServingWith(r) - 1
    <3>1. InService' = S \ {r}
      BY <2>3, <2>5
    <3> HIDE DEF S
    <3>2. Cardinality(S \ {r}) = Cardinality(S) - 1
      BY <2>2, FS_RemoveElement
    <3>3. QED
      BY <2>2, <2>5, <3>1, <3>2 DEF ServingBalance
  <2>6. QED
    BY <2>1, <2>4, <2>5
<1>6. CASE Next
  BY <1>1, <1>3, <1>4, <1>5, <1>6, NextCases DEF ServiceInv
<1>7. QED
  BY <1>2, <1>6

\* cur_serving_requests is the number of requests a command was issued for that are not
\* finished, so update_serving_requests never takes it below zero; a read answered out
\* of writeq never counts.
THEOREM RequestsInServiceAreCounted == Spec => []ServingBalance
<1>1. Init => ServiceInv
  <2> SUFFICES ASSUME Init
               PROVE  ServiceInv
    OBVIOUS
  <2>1. RequestInv
    BY RequestInit
  <2>2. Len(reqs) = 0 /\ serving = 0
    BY DEF Init
  <2>3. InService = {}
    BY <2>2 DEF InService, Accepted
  <2>4. QED
    BY <2>1, <2>2, <2>3, FS_EmptySet DEF ServiceInv, ServingBalance
<1>2. ServiceInv /\ [Next]_vars => ServiceInv'
  BY ServiceStep
<1>3. ServiceInv => ServingBalance
  BY DEF ServiceInv
<1>4. QED
  BY <1>1, <1>2, <1>3, PTL DEF Spec


-----------------------------------------------------------------------------
(***************************************************************************)
(* What an activate opens.  A queue holds its requests in the order of     *)
(* acceptance, which is the order of arrival, and each has the sectors of  *)
(* the later ones for its row: the scheduler, which cannot tell requests   *)
(* for one closed row apart but by arrival, activates for the first.       *)
(***************************************************************************)
BlockQueue == {"readq", "writeq"}

SameRow(o, p) == BankAt(o) = BankAt(p) /\ RowAt(o) = RowAt(p)

InOrder(s) == \A i, j \in 1..Len(s) : i < j => s[i] < s[j]

ArrivalOrder == \A o, p \in Accepted : o <= p => reqs[o].arrive <= reqs[p].arrive

Shares(a) ==
  \A o, p \in Elems(queue[a]) :
    o < p /\ SameRow(o, p) => reqs[p].sectors \subseteq reqs[o].acts

ShareInv ==
  /\ RequestInv
  /\ AccumulatesOwnSectors
  /\ ArrivalOrder
  /\ \A a \in BlockQueue : InOrder(queue[a])
  /\ sectoredDRAM => \A a \in BlockQueue : Shares(a)

\* A queue stays in order when a request leaves it.
LEMMA WithoutInOrder ==
  ASSUME NEW s \in Seq(Nat), InOrder(s), NEW i \in 1..Len(s)
  PROVE  InOrder(Without(s, i))
<1>1. /\ Len(s) \in Nat /\ \A j \in 1..Len(s) : s[j] \in Nat
      /\ Len(Without(s, i)) = Len(s) - 1
      /\ \A j \in 1..(Len(s) - 1) : Without(s, i)[j] = IF j < i THEN s[j] ELSE s[j + 1]
  BY LenProperties, ElementOfSeq, WithoutProperties
<1>2. SUFFICES ASSUME NEW j \in 1..(Len(s) - 1), NEW k \in 1..(Len(s) - 1), j < k
               PROVE  Without(s, i)[j] < Without(s, i)[k]
  BY <1>1 DEF InOrder
<1> DEFINE was(n) == IF n < i THEN n ELSE n + 1
<1>3. /\ was(j) \in 1..Len(s) /\ was(k) \in 1..Len(s) /\ was(j) < was(k)
      /\ Without(s, i)[j] = s[was(j)] /\ Without(s, i)[k] = s[was(k)]
  <2>1. ASSUME NEW n \in 1..(Len(s) - 1)
        PROVE  was(n) \in 1..Len(s) /\ Without(s, i)[n] = s[was(n)]
    <3>1. CASE n < i
      BY <1>1, <3>1
    <3>2. CASE ~(n < i)
      BY <1>1, <3>2
    <3>3. QED
      BY <3>1, <3>2
  <2>2. was(j) < was(k)
    BY <1>2
  <2>3. QED
    BY <2>1, <2>2
<1> HIDE DEF was
<1>4. QED
  BY <1>3 DEF InOrder

\* And when the request accepted last joins it.
LEMMA AppendInOrder ==
  ASSUME NEW s \in Seq(Nat), InOrder(s), NEW r \in Nat, \A o \in Elems(s) : o < r
  PROVE  InOrder(Append(s, r))
<1>1. /\ Len(s) \in Nat /\ Len(Append(s, r)) = Len(s) + 1
      /\ \A j \in 1..Len(s) : Append(s, r)[j] = s[j] /\ s[j] \in Elems(s)
      /\ Append(s, r)[Len(s) + 1] = r
  BY LenProperties DEF Elems
<1>2. SUFFICES ASSUME NEW j \in 1..(Len(s) + 1), NEW k \in 1..(Len(s) + 1), j < k
               PROVE  Append(s, r)[j] < Append(s, r)[k]
  BY <1>1 DEF InOrder
<1>3. j \in 1..Len(s)
  BY <1>1, <1>2
<1>4. CASE k \in 1..Len(s)
  BY <1>1, <1>2, <1>3, <1>4 DEF InOrder
<1>5. CASE k = Len(s) + 1
  BY <1>1, <1>3, <1>5
<1>6. QED
  BY <1>1, <1>4, <1>5

\* A cycle, which leaves the fields of a request alone that this is about.
LEMMA ShareKept ==
  ASSUME ShareInv, RequestInv', Accepted' = Accepted,
         \A o \in Accepted : /\ reqs'[o].addr = reqs[o].addr
                             /\ reqs'[o].sectors = reqs[o].sectors
                             /\ reqs'[o].acts = reqs[o].acts
                             /\ reqs'[o].arrive = reqs[o].arrive,
         \A a \in BlockQueue : InOrder(queue'[a]) /\ Elems(queue'[a]) \subseteq Elems(queue[a])
  PROVE  ShareInv'
<1>1. \A a \in BlockQueue : Elems(queue[a]) \subseteq Accepted
  <2>1. TypeOK
    BY DEF ShareInv, RequestInv
  <2>2. ASSUME NEW a \in BlockQueue
        PROVE  Elems(queue[a]) \subseteq Accepted
    <3>1. a \in RequestQueue
      BY DEF RequestQueue, BlockQueue
    <3>2. \A i \in 1..Len(queue[a]) : queue[a][i] \in Accepted
      BY <2>1, <3>1 DEF TypeOK
    <3>3. QED
      BY <3>2 DEF Elems
  <2>3. QED
    BY <2>2
<1>2. \A o, p \in Accepted : SameRow(o, p)' = SameRow(o, p)
  BY DEF SameRow, BankAt, RowAt
<1>3. AccumulatesOwnSectors' /\ ArrivalOrder'
  BY DEF ShareInv, AccumulatesOwnSectors, ArrivalOrder
<1>4. ASSUME sectoredDRAM, NEW a \in BlockQueue
      PROVE  Shares(a)'
  <2>1. SUFFICES ASSUME NEW o \in Elems(queue'[a]), NEW p \in Elems(queue'[a]),
                        o < p, SameRow(o, p)'
                 PROVE  reqs'[p].sectors \subseteq reqs'[o].acts
    BY DEF Shares, Elems
  <2>2. o \in Elems(queue[a]) /\ p \in Elems(queue[a]) /\ o \in Accepted /\ p \in Accepted
    BY <1>1
  <2>3. reqs[p].sectors \subseteq reqs[o].acts
    BY <1>2, <1>4, <2>1, <2>2 DEF ShareInv, Shares
  <2>4. QED
    BY <2>2, <2>3
<1>5. \A a \in BlockQueue : InOrder(queue[a])'
  BY DEF InOrder
<1>6. QED
  BY <1>3, <1>4, <1>5 DEF ShareInv


LEMMA ShareInit == Init => ShareInv
<1> SUFFICES ASSUME Init
             PROVE  ShareInv
  OBVIOUS
<1>1. RequestInv
  BY RequestInit
<1>2. Len(reqs) = 0 /\ \A a \in BlockQueue : Len(queue[a]) = 0
  BY DEF Init, BlockQueue, RequestQueue
<1>3. Accepted = {} /\ \A a \in BlockQueue : Elems(queue[a]) = {} /\ InOrder(queue[a])
  BY <1>2 DEF Accepted, Elems, InOrder
<1>4. QED
  BY <1>1, <1>3 DEF ShareInv, AccumulatesOwnSectors, ArrivalOrder, Shares

\* A request is stamped no earlier than those accepted before it.
LEMMA StampsGrow ==
  ASSUME TypeOK, ArrivalOrder
  PROVE  \A o \in Accepted : reqs[o].arrive <= ArriveStamp
<1> SUFFICES ASSUME NEW o \in Accepted
             PROVE  reqs[o].arrive <= ArriveStamp
  OBVIOUS
<1> DEFINE n == Len(reqs)
<1>1. /\ n \in Nat /\ n \in Accepted /\ o <= n /\ reqs # << >>
      /\ reqs[o] \in RequestFields /\ reqs[n] \in RequestFields
  BY LenProperties, ElementOfSeq DEF TypeOK, Accepted
<1>2. reqs[o].arrive \in Nat /\ reqs[n].arrive \in Nat
  BY <1>1 DEF RequestFields
<1>3. reqs[o].arrive <= reqs[n].arrive
  BY <1>1 DEF ArrivalOrder
<1>4. ArriveStamp = reqs[n].arrive + (IF fresh THEN 1 ELSE 0)
  BY <1>1 DEF ArriveStamp
<1> HIDE DEF n
<1>5. QED
  BY <1>2, <1>3, <1>4

\* The requests a new one finds in its queue for its row get its sectors.
LEMMA EnqueueShares ==
  ASSUME TypeOK, sectoredDRAM, NEW shape \in Shape, Enqueue(shape),
         NEW o \in Elems(queue[QueueOf(shape.type)]), o \in Accepted,
         BankAt(o) = BankOf[shape.addr], RowAt(o) = RowOf[shape.addr]
  PROVE  shape.sectors \subseteq reqs'[o].acts
<1>1. reqs'[o] = Accumulate(QueueOf(shape.type), shape)[o]
  BY EnqueueFacts
<1>2. Accumulate(QueueOf(shape.type), shape)[o] = [reqs[o] EXCEPT !.acts = @ \cup shape.sectors]
  BY DEF Accumulate
<1>3. reqs[o] \in RequestFields
  BY ElementOfSeq, LenProperties DEF TypeOK, Accepted
<1>4. reqs'[o].acts = reqs[o].acts \cup shape.sectors
  BY <1>1, <1>2, <1>3 DEF RequestFields
<1>5. QED
  BY <1>4

\* Accepting a request.
LEMMA ShareEnqueue ==
  ASSUME ShareInv, RequestInv', NEW shape \in Shape, Enqueue(shape)
  PROVE  ShareInv'
<1> DEFINE n == Len(reqs) + 1
           q == QueueOf(shape.type)
<1>1. TypeOK /\ RequestInv /\ ArrivalOrder /\ AccumulatesOwnSectors
  BY DEF ShareInv, RequestInv
<1>2. /\ Accepted' = Accepted \cup {n}
      /\ \A o \in Accepted : /\ reqs'[o].addr = reqs[o].addr
                             /\ reqs'[o].sectors = reqs[o].sectors
                             /\ reqs[o].acts \subseteq reqs'[o].acts
      /\ reqs'[n] = NewRequest(shape)
  BY <1>1, EnqueueFacts
<1>3. n \in Nat /\ n \notin Accepted /\ \A o \in Accepted : o \in Nat /\ o < n
  BY <1>1, LenProperties DEF Accepted, TypeOK
<1>4. \A o \in Accepted : reqs'[o].arrive = reqs[o].arrive /\ reqs[o].arrive \in Nat
  <2>1. SUFFICES ASSUME NEW o \in Accepted
                 PROVE  reqs'[o].arrive = reqs[o].arrive /\ reqs[o].arrive \in Nat
    OBVIOUS
  <2>2. reqs'[o] = Accumulate(QueueOf(shape.type), shape)[o]
    BY <1>1, EnqueueFacts
  <2>3. reqs'[o] = reqs[o] \/ reqs'[o] = [reqs[o] EXCEPT !.acts = @ \cup shape.sectors]
    BY <2>2 DEF Accumulate
  <2>4. reqs[o] \in RequestFields
    BY <1>1, RequestTypes
  <2>5. QED
    BY <2>3, <2>4 DEF RequestFields
<1>5. /\ reqs'[n].addr = shape.addr /\ reqs'[n].sectors = shape.sectors
      /\ reqs'[n].acts = shape.sectors /\ reqs'[n].arrive = ArriveStamp
  BY <1>2 DEF NewRequest
<1>6. AccumulatesOwnSectors'
  <2>1. \A o \in Accepted' : reqs'[o].sectors \subseteq reqs'[o].acts
    BY <1>1, <1>2, <1>5 DEF AccumulatesOwnSectors
  <2>2. QED
    BY <2>1 DEF AccumulatesOwnSectors
<1>7. ArrivalOrder'
  <2>1. \A o \in Accepted : reqs[o].arrive <= ArriveStamp
    BY <1>1, StampsGrow
  <2>2. ArriveStamp \in Nat
    <3>1. reqs' \in Seq(RequestFields) /\ n \in 1..Len(reqs')
      BY <1>1, <1>3, EnqueueFacts
    <3>2. reqs'[n] \in RequestFields
      BY <3>1, ElementOfSeq
    <3>3. reqs'[n].arrive \in Nat
      BY <3>2 DEF RequestFields
    <3>4. QED
      BY <1>5, <3>3
  <2> HIDE DEF n
  <2>3. \A o, p \in Accepted' : o <= p => reqs'[o].arrive <= reqs'[p].arrive
    BY <1>1, <1>2, <1>3, <1>4, <1>5, <2>1, <2>2 DEF ArrivalOrder
  <2>4. QED
    BY <2>3 DEF ArrivalOrder
<1>8. \A a \in BlockQueue : queue[a] \in Seq(Nat) /\ Elems(queue[a]) \subseteq Accepted
  <2>1. SUFFICES ASSUME NEW a \in BlockQueue
                 PROVE  queue[a] \in Seq(Nat) /\ Elems(queue[a]) \subseteq Accepted
    OBVIOUS
  <2>2. a \in RequestQueue
    BY DEF BlockQueue, RequestQueue
  <2>3. queue[a] \in Seq(Nat) /\ \A i \in 1..Len(queue[a]) : queue[a][i] \in Accepted
    BY <1>1, <2>2 DEF TypeOK
  <2>4. QED
    BY <2>3 DEF Elems
<1>9. ASSUME NEW a \in BlockQueue
      PROVE  \/ queue'[a] = queue[a]
             \/ a = q /\ queue'[a] = Append(queue[a], n)
  <2>1. a \in RequestQueue /\ queue \in [RequestQueue -> Seq(Nat)]
    BY <1>1 DEF BlockQueue, RequestQueue, TypeOK
  <2>2. queue' = queue \/ queue' = [queue EXCEPT ![q] = Append(@, n)]
    BY DEF Enqueue
  <2>3. QED
    BY <2>1, <2>2
<1> HIDE DEF n
<1>10. ASSUME NEW a \in BlockQueue
       PROVE  /\ InOrder(queue'[a])
              /\ \A o \in Elems(queue'[a]) : o \in Elems(queue[a]) \/ (o = n /\ a = q)
  <2>1. CASE queue'[a] = queue[a]
    BY <2>1 DEF ShareInv
  <2>2. CASE a = q /\ queue'[a] = Append(queue[a], n)
    <3>1. Elems(queue'[a]) = Elems(queue[a]) \cup {n}
      BY <1>3, <1>8, <2>2, AppendElems
    <3>2. InOrder(Append(queue[a], n))
      BY <1>3, <1>8, AppendInOrder DEF ShareInv
    <3>3. QED
      BY <2>2, <3>1, <3>2
  <2>3. QED
    BY <1>9, <2>1, <2>2
<1>11. ASSUME sectoredDRAM, NEW a \in BlockQueue
       PROVE  Shares(a)'
  <2>1. SUFFICES ASSUME NEW o \in Elems(queue'[a]), NEW p \in Elems(queue'[a]),
                        o < p, SameRow(o, p)'
                 PROVE  reqs'[p].sectors \subseteq reqs'[o].acts
    BY DEF Shares, Elems
  <2>2. o \in Elems(queue[a]) /\ o \in Accepted
    <3>1. p \in Accepted \/ p = n
      BY <1>8, <1>10, <2>1
    <3>2. o # n
      BY <1>3, <2>1, <3>1
    <3>3. o \in Elems(queue[a])
      BY <1>10, <2>1, <3>2
    <3>4. QED
      BY <1>8, <3>3
  <2>3. BankAt(o)' = BankAt(o) /\ RowAt(o)' = RowAt(o)
    BY <1>2, <2>2 DEF BankAt, RowAt
  <2>4. CASE p \in Elems(queue[a])
    <3>1. p \in Accepted /\ SameRow(o, p)
      BY <1>2, <1>8, <2>1, <2>2, <2>4 DEF SameRow, BankAt, RowAt
    <3>2. reqs[p].sectors \subseteq reqs[o].acts
      BY <1>11, <2>1, <2>2, <2>4, <3>1 DEF ShareInv, Shares
    <3>3. QED
      BY <1>2, <2>2, <3>1, <3>2
  <2>5. CASE p = n /\ a = q
    <3>1. BankAt(o) = BankOf[shape.addr] /\ RowAt(o) = RowOf[shape.addr]
      BY <1>5, <2>1, <2>3, <2>5 DEF SameRow, BankAt, RowAt
    <3>2. shape.sectors \subseteq reqs'[o].acts
      BY <1>1, <1>11, <2>2, <2>5, <3>1, EnqueueShares
    <3>3. QED
      BY <1>5, <2>5, <3>2
  <2>6. QED
    BY <1>10, <2>1, <2>4, <2>5
<1>12. \A a \in BlockQueue : InOrder(queue[a])'
  BY <1>10 DEF InOrder
<1>13. QED
  BY <1>6, <1>7, <1>11, <1>12 DEF ShareInv


\* A queue a request is erased from.
LEMMA ErasedFacts ==
  ASSUME TypeOK, NEW q \in RequestQueue, NEW i \in 1..Len(queue[q]), NEW a \in RequestQueue
  PROVE  /\ queue[a] \in Seq(Nat) /\ Len(queue[a]) \in Nat
         /\ Erased(q, i)[a] = IF a = q THEN Without(queue[q], i) ELSE queue[a]
         /\ Len(Erased(q, i)[a]) <= Len(queue[a])
         /\ Elems(Erased(q, i)[a]) \subseteq Elems(queue[a])
         /\ InOrder(queue[a]) => InOrder(Erased(q, i)[a])
<1>1. /\ queue \in [RequestQueue -> Seq(Nat)] /\ queue[a] \in Seq(Nat) /\ queue[q] \in Seq(Nat)
      /\ Len(queue[a]) \in Nat
  BY LenProperties DEF TypeOK
<1>2. Erased(q, i)[a] = IF a = q THEN Without(queue[q], i) ELSE queue[a]
  BY <1>1 DEF Erased
<1>3. /\ Len(Without(queue[q], i)) = Len(queue[q]) - 1
      /\ Elems(Without(queue[q], i)) \subseteq Elems(queue[q])
      /\ InOrder(queue[q]) => InOrder(Without(queue[q], i))
  BY <1>1, WithoutProperties, WithoutElems, WithoutInOrder
<1>4. QED
  BY <1>1, <1>2, <1>3

LEMMA ShareStep == ShareInv /\ [Next]_vars => ShareInv'
<1> SUFFICES ASSUME ShareInv, [Next]_vars
             PROVE  ShareInv'
  OBVIOUS
<1>1. RequestInv /\ RequestInv' /\ TypeOK
  BY RequestStep DEF ShareInv, RequestInv
<1>2. \A a \in BlockQueue : a \in RequestQueue /\ a # "actq" /\ InOrder(queue[a])
  BY DEF ShareInv, BlockQueue, RequestQueue
<1>3. ASSUME reqs' = reqs, queue' = queue
      PROVE  ShareInv'
  <2>1. Accepted' = Accepted
    BY <1>3 DEF Accepted
  <2>2. QED
    BY <1>1, <1>2, <1>3, <2>1, ShareKept
<1>4. ASSUME NEW q \in RequestQueue, NEW i \in 1..Len(queue[q]), NEW ref,
             Activate(q, i, ref) \/ Precharge(q, i, ref) \/ Access(q, i, ref)
      PROVE  ShareInv'
  <2>1. /\ FirstCommand(queue[q][i])
        /\ \/ queue' = queue
           \/ queue' = Erased(q, i)
           \/ queue' = Joined(Erased(q, i), "actq", queue[q][i])
    BY <1>4 DEF Activate, Precharge, Access, Erased, Joined
  <2>2. /\ Accepted' = Accepted
        /\ \A o \in Accepted : /\ reqs'[o].addr = reqs[o].addr
                               /\ reqs'[o].sectors = reqs[o].sectors
                               /\ reqs'[o].acts = reqs[o].acts
                               /\ reqs'[o].arrive = reqs[o].arrive
    BY <1>1, <2>1, QueuedIsAccepted, FirstCommandFacts
  <2>3. ASSUME NEW a \in BlockQueue
        PROVE  queue'[a] = queue[a] \/ queue'[a] = Erased(q, i)[a]
    <3>1. Joined(Erased(q, i), "actq", queue[q][i])[a] = Erased(q, i)[a]
      <4>1. Erased(q, i) \in [RequestQueue -> Seq(Nat)]
        BY <1>1, EraseApart
      <4>2. QED
        BY <1>2, <4>1 DEF Joined
    <3>2. QED
      BY <2>1, <3>1
  <2>4. \A a \in BlockQueue : InOrder(queue'[a]) /\ Elems(queue'[a]) \subseteq Elems(queue[a])
    BY <1>1, <1>2, <2>3, ErasedFacts
  <2>5. QED
    BY <1>1, <2>2, <2>4, ShareKept
<1>5. CASE UNCHANGED vars
  BY <1>3, <1>5 DEF vars
<1>6. ASSUME NEW ref, Idle(ref) \/ SkipScheduling(ref) \/ PrechargeAll(ref) \/ RefreshRank(ref)
      PROVE  ShareInv'
  <2>1. reqs' = reqs /\ queue' = queue
    BY <1>6 DEF Idle, SkipScheduling, PrechargeAll, RefreshRank
  <2>2. QED
    BY <1>3, <2>1
<1>7. CASE Next
  BY <1>1, <1>4, <1>6, <1>7, NextCases, ShareEnqueue
<1>8. QED
  BY <1>5, <1>7

\* The request an activate is for has the sectors of every request for its row in its queue.
LEMMA HeadShares ==
  ASSUME ShareInv, sectoredDRAM, NEW q \in BlockQueue, NEW i \in 1..Len(queue[q]),
         IsHead(queue[q], i), get_first_cmd(queue[q][i]) = "ACT",
         NEW j \in 1..Len(queue[q]), SameRow(queue[q][j], queue[q][i])
  PROVE  reqs[queue[q][j]].sectors \subseteq reqs[queue[q][i]].acts
<1> DEFINE r == queue[q][i]
           o == queue[q][j]
<1>1. TypeOK /\ q \in RequestQueue
  BY DEF ShareInv, RequestInv, BlockQueue, RequestQueue
<1>2. /\ r \in Accepted /\ o \in Accepted /\ r \in Nat /\ o \in Nat
      /\ r \in Elems(queue[q]) /\ o \in Elems(queue[q])
      /\ Len(queue[q]) \in Nat
  BY <1>1, LenProperties DEF TypeOK, Accepted, Elems
<1>3. CASE i = j
  BY <1>2, <1>3 DEF ShareInv, AccumulatesOwnSectors
<1>4. CASE i < j
  <2>1. r < o
    BY <1>4 DEF ShareInv, InOrder
  <2>2. SameRow(r, o)
    BY DEF SameRow
  <2>3. QED
    BY <1>2, <2>1, <2>2 DEF ShareInv, Shares
<1>5. ~(j < i)
  <2> SUFFICES ASSUME j < i
               PROVE  FALSE
    OBVIOUS
  <2>1. BankAt(o) = BankAt(r) /\ RowAt(o) = RowAt(r)
    BY DEF SameRow
  <2>2. banks[BankAt(r)].row_state = {}
    <3>1. translate(r) # "ACT"
      BY DEF translate
    <3>2. QED
      BY <3>1 DEF get_first_cmd, prereq
  <2>3. get_first_cmd(o) = "ACT"
    BY <2>1, <2>2 DEF get_first_cmd, prereq
  <2>4. is_ready(o) = is_ready(r) /\ get_hits(o) = get_hits(r)
    BY <2>1, <2>3 DEF is_ready, get_hits
  <2>5. Preferred(o) = Preferred(r)
    BY <2>4 DEF Preferred
  <2>6. \/ reqs[r].arrive < reqs[o].arrive
        \/ reqs[r].arrive = reqs[o].arrive /\ i <= j
    <3>1. Before(queue[q], i, j)
      BY DEF IsHead
    <3>2. QED
      BY <2>5, <3>1 DEF Before
  <2>7. o < r
    BY DEF ShareInv, InOrder
  <2>8. reqs[o].arrive <= reqs[r].arrive
    BY <1>2, <2>7 DEF ShareInv, ArrivalOrder
  <2>9. reqs[o].arrive \in Nat /\ reqs[r].arrive \in Nat
    BY <1>1, <1>2, RequestTypes DEF RequestFields
  <2>10. QED
    BY <1>2, <2>6, <2>8, <2>9
<1>6. QED
  BY <1>2, <1>3, <1>4, <1>5


\* Only an activate for a request of readq or writeq makes actq longer, and it promotes
\* that request alone.
LEMMA Promoted ==
  ASSUME RequestInv, NEW q \in RequestQueue, NEW i \in 1..Len(queue[q]), NEW ref,
         Activate(q, i, ref), Len(queue'["actq"]) > Len(queue["actq"]),
         NEW a \in BlockQueue, NEW k \in 1..Len(queue[a]),
         queue[a][k] \in Elems(queue'["actq"])
  PROVE  a = q /\ k = i
<1> DEFINE r == queue[q][i]
           L == Lists(queue, pending)
<1>1. /\ TypeOK /\ Apart(L) /\ queue \in [RequestQueue -> Seq(Nat)]
      /\ a \in RequestQueue /\ a # "actq" /\ "actq" \in RequestQueue
      /\ \A b \in RequestQueue : b \in ListName /\ L[b] = queue[b]
  BY ContentAccepted, ListsFacts DEF RequestInv, BlockQueue, RequestQueue
<1>2. queue' = Joined(Erased(q, i), "actq", r) /\ Erased(q, i) \in [RequestQueue -> Seq(Nat)]
  BY EraseApart DEF Activate, Erased, Joined
<1>3. queue'["actq"] = Append(Erased(q, i)["actq"], r)
  BY <1>1, <1>2 DEF Joined
<1>4. r \in Nat /\ queue["actq"] \in Seq(Nat) /\ Erased(q, i)["actq"] \in Seq(Nat)
  BY <1>1, <1>2, ElementOfSeq
<1>5. q # "actq"
  <2> SUFFICES ASSUME q = "actq"
               PROVE  FALSE
    OBVIOUS
  <2>1. Erased(q, i)["actq"] = Without(queue[q], i)
    BY <1>1, ErasedFacts
  <2>2. Len(Without(queue[q], i)) = Len(queue["actq"]) - 1 /\ Len(queue["actq"]) \in Nat
    BY <1>4, WithoutProperties, LenProperties
  <2>3. Len(queue'["actq"]) = Len(Erased(q, i)["actq"]) + 1
    BY <1>3, <1>4, AppendProperties
  <2>4. QED
    BY <2>1, <2>2, <2>3
<1>6. Elems(queue'["actq"]) = Elems(queue["actq"]) \cup {r}
  <2>1. Erased(q, i)["actq"] = queue["actq"]
    BY <1>1, <1>5, ErasedFacts
  <2>2. queue'["actq"] = Append(queue["actq"], r)
    BY <1>3, <2>1
  <2> HIDE DEF r
  <2>3. Elems(Append(queue["actq"], r)) = Elems(queue["actq"]) \cup {r}
    BY <1>4, AppendElems
  <2>4. QED
    BY <2>2, <2>3
<1>7. ASSUME NEW b \in RequestQueue, NEW j \in 1..Len(queue[b]), queue[a][k] = queue[b][j]
      PROVE  a = b /\ k = j
  <2> HIDE DEF L
  <2>1. /\ a \in ListName /\ b \in ListName /\ L[a] = queue[a] /\ L[b] = queue[b]
    BY <1>1
  <2>2. \A x \in 1..Len(L[a]), y \in 1..Len(L[b]) : L[a][x] = L[b][y] => a = b /\ x = y
    BY <1>1, <2>1 DEF Apart
  <2>3. QED
    BY <1>7, <2>1, <2>2
<1>8. queue[a][k] \notin Elems(queue["actq"])
  BY <1>1, <1>7 DEF Elems
<1>9. QED
  BY <1>6, <1>7, <1>8

\* The sectors an activate opens.
ActivateOpens ==
  \A q \in {"readq", "writeq"} : \A i \in 1..Len(queue[q]) :
    LET r == queue[q][i] IN
    (Len(queue'["actq"]) > Len(queue["actq"]) /\ r \in Elems(queue'["actq"])) =>
       \A o \in Elems(queue[q]) :
          (BankAt(o) = BankAt(r) /\ RowAt(o) = RowAt(r)) =>
             SectorsOpen(banks'[BankAt(r)], reqs[o].sectors)

LEMMA ActivateStep ==
  ASSUME ShareInv, NEW q \in RequestQueue, NEW i \in 1..Len(queue[q]), NEW ref,
         Candidate(q, i, ref), Activate(q, i, ref)
  PROVE  ActivateOpens
<1>1. RequestInv /\ TypeOK
  BY DEF ShareInv, RequestInv
<1> SUFFICES ASSUME NEW a \in BlockQueue, NEW k \in 1..Len(queue[a]),
                    Len(queue'["actq"]) > Len(queue["actq"]),
                    queue[a][k] \in Elems(queue'["actq"]),
                    NEW j \in 1..Len(queue[a]), SameRow(queue[a][j], queue[a][k])
             PROVE  SectorsOpen(banks'[BankAt(queue[a][k])], reqs[queue[a][j]].sectors)
  BY DEF ActivateOpens, BlockQueue, Elems, SameRow
<1>2. a = q /\ k = i
  BY <1>1, Promoted
<1> DEFINE r == queue[q][i]
<1>3. BankAt(r) \in Bank /\ banks \in [Bank -> BankState]
  BY <1>1, QueuedIsAccepted, RequestTypes DEF TypeOK
<1>4. banks'[BankAt(r)] = Opened(RowAt(r), IF sectoredDRAM THEN reqs[r].acts ELSE {})
  BY <1>3 DEF Activate
<1>5. CASE sectoredDRAM
  <2>1. get_first_cmd(r) = "ACT" /\ IsHead(queue[q], i)
    BY DEF Activate, Candidate
  <2>2. reqs[queue[q][j]].sectors \subseteq reqs[r].acts
    BY <1>2, <1>5, <2>1, HeadShares
  <2>3. QED
    BY <1>2, <1>4, <1>5, <2>2 DEF SectorsOpen, Opened
<1>6. CASE ~sectoredDRAM
  BY <1>2, <1>4, <1>6 DEF SectorsOpen, Opened
<1>7. QED
  BY <1>5, <1>6

\* "try to make earlier requests open later requests' sectors too" (Controller.h:547): an
\* activate for a request in readq or writeq opens every sector the requests for that row in
\* the same queue wait for, whichever requests came and left before.
THEOREM ActivateOpensWhatIsQueued == Spec => ActivateOpensQueuedSectors
<1>1. ShareInv /\ [Next]_vars => [ActivateOpens]_vars
  <2> SUFFICES ASSUME ShareInv, Next
               PROVE  ActivateOpens
    BY DEF vars
  <2>1. TypeOK /\ queue \in [RequestQueue -> Seq(Nat)]
    BY DEF ShareInv, RequestInv, TypeOK
  <2>2. Len(queue["actq"]) \in Nat
    BY <2>1, LenProperties DEF RequestQueue
  <2>3. ASSUME ~(Len(queue'["actq"]) > Len(queue["actq"]))
        PROVE  ActivateOpens
    BY <2>3 DEF ActivateOpens
  <2>4. ASSUME NEW shape \in Shape, Enqueue(shape)
        PROVE  ActivateOpens
    <3>1. queue' = queue \/ queue' = [queue EXCEPT ![QueueOf(shape.type)] = Append(@, Len(reqs) + 1)]
      BY <2>4 DEF Enqueue
    <3>2. QueueOf(shape.type) # "actq"
      BY DEF QueueOf
    <3>3. queue'["actq"] = queue["actq"]
      BY <2>1, <3>1, <3>2 DEF RequestQueue
    <3>4. QED
      BY <2>2, <2>3, <3>3
  <2>5. ASSUME NEW ref, Idle(ref) \/ SkipScheduling(ref) \/ PrechargeAll(ref) \/ RefreshRank(ref)
        PROVE  ActivateOpens
    <3>1. queue' = queue
      BY <2>5 DEF Idle, SkipScheduling, PrechargeAll, RefreshRank
    <3>2. QED
      BY <2>2, <2>3, <3>1
  <2>6. ASSUME NEW q \in RequestQueue, NEW i \in 1..Len(queue[q]), NEW ref,
               Precharge(q, i, ref) \/ Access(q, i, ref)
        PROVE  ActivateOpens
    <3>1. queue' = queue \/ queue' = Erased(q, i)
      BY <2>6 DEF Precharge, Access, Erased
    <3>2. Len(Erased(q, i)["actq"]) <= Len(queue["actq"]) /\ Len(Erased(q, i)["actq"]) \in Nat
      <4>1. Erased(q, i) \in [RequestQueue -> Seq(Nat)]
        BY EraseApart DEF ShareInv
      <4>2. "actq" \in RequestQueue
        BY DEF RequestQueue
      <4>3. QED
        BY <2>1, <4>1, <4>2, ErasedFacts, LenProperties
    <3>3. QED
      BY <2>2, <2>3, <3>1, <3>2
  <2>7. QED
    BY <2>4, <2>5, <2>6, NextCases, ActivateStep
<1>2. ActivateOpensQueuedSectors <=> [][ActivateOpens]_vars
  BY DEF ActivateOpensQueuedSectors, ActivateOpens
<1>3. QED
  BY <1>1, <1>2, ShareInit, ShareStep, PTL DEF Spec

-----------------------------------------------------------------------------
(***************************************************************************)
(* The tFAW budget balances for every length of the window: budget is what *)
(* FawActs activates may open less what those in faw_queue opened.  The    *)
(* sum over faw_queue is a recursive function; what is needed of it        *)
(* follows by induction on the length of a sequence.                       *)
(***************************************************************************)
\* Induction over the natural numbers, for a set: finite sets are well founded under
\* inclusion, and so are the intervals that end at a number outside S.
LEMMA Induction ==
  ASSUME NEW S \in SUBSET Nat, 0 \in S, \A n \in S : n + 1 \in S
  PROVE  S = Nat
<1> SUFFICES ASSUME Nat \ S # {}
             PROVE  FALSE
  OBVIOUS
<1> DEFINE Upto == {0..n : n \in Nat \ S}
           R == StrictSubsetOrdering(Nat)
<1>1. IsWellFoundedOn(R, FiniteSubsetsOf(Nat))
  BY FS_StrictSubsetOrderingWellFounded
<1>2. Upto # {} /\ Upto \subseteq FiniteSubsetsOf(Nat)
  <2>1. \A n \in Nat \ S : n \in Int /\ 0..n \in SUBSET Nat /\ IsFiniteSet(0..n)
    BY FS_Interval
  <2>2. QED
    BY <2>1 DEF FiniteSubsetsOf
<1> HIDE DEF R
<1>3. PICK n \in Nat \ S : \A m \in Nat \ S : <<0..m, 0..n>> \notin R
  <2>1. \E x \in Upto : \A y \in Upto : ~(<<y, x>> \in R)
    BY <1>1, <1>2, WFMin
  <2>2. QED
    BY <2>1
<1>4. n # 0 /\ n - 1 \in Nat \ S
  BY <1>3
<1>5. 0..(n - 1) \subseteq 0..n /\ n \in 0..n /\ n \notin 0..(n - 1)
      /\ 0..(n - 1) \subseteq Nat /\ 0..n \subseteq Nat
  BY <1>4
<1>6. <<0..(n - 1), 0..n>> \in R
  BY <1>5 DEF R, StrictSubsetOrdering
<1>7. QED
  BY <1>3, <1>4, <1>6

-----------------------------------------------------------------------------
(***************************************************************************)
(* The sum of the sectors in a window, as FawSum computes it.              *)
(***************************************************************************)
SumTo(f, w, S) == f = [i \in S |-> IF i = 0 THEN 0 ELSE w[i].sectors + f[i - 1]]

\* Sums over longer and longer parts of a window agree, so there is one over all of it.
LEMMA SumExists ==
  ASSUME NEW w
  PROVE  \E f : SumTo(f, w, Nat)
<1> DEFINE Good == {n \in Nat : \E g : SumTo(g, w, 0..n)}
<1>1. 0 \in Good
  <2>1. SumTo([i \in 0..0 |-> 0], w, 0..0)
    BY DEF SumTo
  <2>2. QED
    BY <2>1
<1>2. ASSUME NEW n \in Good
      PROVE  n + 1 \in Good
  <2>1. PICK g : SumTo(g, w, 0..n)
    OBVIOUS
  <2>2. n \in Nat
    OBVIOUS
  <2> DEFINE h == [i \in 0..(n + 1) |-> IF i = n + 1 THEN w[i].sectors + g[n] ELSE g[i]]
  <2>3. ASSUME NEW i \in 0..(n + 1)
        PROVE  h[i] = IF i = 0 THEN 0 ELSE w[i].sectors + h[i - 1]
    <3>1. CASE i = n + 1
      BY <2>2, <3>1
    <3>2. CASE i # n + 1
      <4>1. i \in 0..n /\ (i # 0 => i - 1 \in 0..(n + 1) /\ i - 1 # n + 1)
        BY <2>2, <3>2
      <4>2. g[i] = IF i = 0 THEN 0 ELSE w[i].sectors + g[i - 1]
        BY <2>1, <4>1 DEF SumTo
      <4>3. QED
        BY <3>2, <4>1, <4>2
    <3>3. QED
      BY <3>1, <3>2
  <2>4. SumTo(h, w, 0..(n + 1))
    <3>1. h = [i \in 0..(n + 1) |-> h[i]]
      OBVIOUS
    <3> HIDE DEF h
    <3>2. QED
      BY <2>3, <3>1 DEF SumTo
  <2>5. n + 1 \in Nat
    BY <2>2
  <2>6. QED
    BY <2>4, <2>5
<1>3. Good = Nat
  <2> HIDE DEF Good
  <2>1. Good \subseteq Nat
    BY DEF Good
  <2>2. QED
    BY <1>1, <1>2, <2>1, Induction
<1> DEFINE G(n) == CHOOSE g : SumTo(g, w, 0..n)
<1>4. \A n \in Nat : SumTo(G(n), w, 0..n)
  BY <1>3
<1> HIDE DEF G
<1>5. ASSUME NEW n \in Nat, NEW m \in Nat
      PROVE  n <= m => G(m)[n] = G(n)[n]
  <2> DEFINE Same == {k \in Nat : k <= n => G(m)[k] = G(n)[k]}
  <2>1. SUFFICES ASSUME n <= m
                 PROVE  n \in Same
    OBVIOUS
  <2>2. 0 \in Same
    BY <1>4 DEF SumTo
  <2>3. ASSUME NEW k \in Same
        PROVE  k + 1 \in Same
    <3>1. CASE k + 1 <= n
      <4>1. k \in Nat /\ k + 1 \in 0..n /\ k + 1 \in 0..m /\ k + 1 # 0 /\ (k + 1) - 1 = k
            /\ G(m)[k] = G(n)[k]
        BY <2>1, <3>1
      <4>2. G(m)[k + 1] = w[k + 1].sectors + G(m)[k] /\ G(n)[k + 1] = w[k + 1].sectors + G(n)[k]
        BY <1>4, <4>1 DEF SumTo
      <4>3. QED
        BY <4>1, <4>2
    <3>2. CASE ~(k + 1 <= n)
      BY <3>2
    <3>3. QED
      BY <3>1, <3>2
  <2>4. QED
    <3>1. Same \subseteq Nat
      OBVIOUS
    <3> HIDE DEF Same
    <3>2. QED
      BY <2>2, <2>3, <3>1, Induction
<1> DEFINE f == [n \in Nat |-> G(n)[n]]
<1>6. ASSUME NEW n \in Nat
      PROVE  f[n] = IF n = 0 THEN 0 ELSE w[n].sectors + f[n - 1]
  <2>1. CASE n = 0
    BY <1>4, <2>1 DEF SumTo
  <2>2. CASE n # 0
    <3>1. n - 1 \in Nat /\ n - 1 <= n /\ n \in 0..n
      BY <2>2
    <3>2. G(n)[n] = w[n].sectors + G(n)[n - 1]
      BY <1>4, <2>2, <3>1 DEF SumTo
    <3>3. G(n)[n - 1] = G(n - 1)[n - 1]
      BY <1>5, <3>1
    <3>4. QED
      BY <2>2, <3>1, <3>2, <3>3
  <2>3. QED
    BY <2>1, <2>2
<1>7. SumTo(f, w, Nat)
  <2>1. f = [n \in Nat |-> f[n]]
    OBVIOUS
  <2> HIDE DEF f
  <2>2. QED
    BY <1>6, <2>1 DEF SumTo
<1>8. QED
  BY <1>7

Total(w) == CHOOSE f : SumTo(f, w, Nat)

LEMMA FawSumIsTotal ==
  /\ FawSum = Total(faw_queue)
  /\ FawSum' = Total(faw_queue')
BY DEF FawSum, Total, SumTo

\* The sums over a window, and that they are numbers.
LEMMA TotalFacts ==
  ASSUME NEW w \in Seq(FawEntry)
  PROVE  /\ Total(w)[0] = 0
         /\ \A i \in 1..Len(w) : Total(w)[i] = w[i].sectors + Total(w)[i - 1]
         /\ \A i \in 0..Len(w) : Total(w)[i] \in Nat
         /\ Len(w) \in Nat
<1>1. SumTo(Total(w), w, Nat)
  BY SumExists DEF Total
<1>2. Len(w) \in Nat /\ \A i \in 1..Len(w) : w[i].sectors \in Nat
  <2>1. Len(w) \in Nat /\ \A i \in 1..Len(w) : w[i] \in FawEntry
    BY LenProperties, ElementOfSeq
  <2>2. QED
    BY <2>1 DEF FawEntry
<1>3. Total(w)[0] = 0 /\ \A i \in 1..Len(w) : Total(w)[i] = w[i].sectors + Total(w)[i - 1]
  BY <1>1, <1>2 DEF SumTo
<1> DEFINE S == {i \in Nat : i <= Len(w) => Total(w)[i] \in Nat}
<1>4. 0 \in S
  BY <1>3
<1>5. ASSUME NEW n \in S
      PROVE  n + 1 \in S
  <2>1. CASE n + 1 <= Len(w)
    <3>1. n \in Nat /\ Total(w)[n] \in Nat /\ n + 1 \in 1..Len(w) /\ (n + 1) - 1 = n
      BY <1>2, <2>1
    <3>2. QED
      BY <1>2, <1>3, <3>1
  <2>2. CASE ~(n + 1 <= Len(w))
    BY <2>2
  <2>3. QED
    BY <2>1, <2>2
<1>6. S = Nat
  <2>1. S \subseteq Nat
    OBVIOUS
  <2> HIDE DEF S
  <2>2. QED
    BY <1>4, <1>5, <2>1, Induction
<1>7. QED
  BY <1>2, <1>3, <1>6

\* A window without its k oldest activates.
LEMMA TotalRest ==
  ASSUME NEW w \in Seq(FawEntry), NEW v \in Seq(FawEntry), NEW k \in 0..Len(w),
         Len(v) = Len(w) - k, \A i \in 1..Len(v) : v[i].sectors = w[i + k].sectors
  PROVE  Total(w)[Len(w)] = Total(v)[Len(v)] + Total(w)[k]
<1>1. Len(w) \in Nat /\ Len(v) \in Nat /\ k \in Nat
  BY TotalFacts
<1> DEFINE S == {i \in Nat : i <= Len(v) => Total(w)[i + k] = Total(v)[i] + Total(w)[k]}
<1>2. 0 \in S
  <2>1. Total(v)[0] = 0 /\ Total(w)[k] \in Nat /\ 0 + k = k
    BY <1>1, TotalFacts
  <2>2. QED
    BY <2>1
<1>3. ASSUME NEW n \in S
      PROVE  n + 1 \in S
  <2>1. CASE n + 1 <= Len(v)
    <3>1. /\ n \in Nat /\ n \in 0..Len(v) /\ n + 1 \in 1..Len(v) /\ (n + 1) - 1 = n
          /\ (n + 1) + k \in 1..Len(w) /\ ((n + 1) + k) - 1 = n + k
          /\ Total(w)[n + k] = Total(v)[n] + Total(w)[k]
      BY <1>1, <2>1
    <3>2. /\ Total(v)[n + 1] = v[n + 1].sectors + Total(v)[n]
          /\ Total(w)[(n + 1) + k] = w[(n + 1) + k].sectors + Total(w)[n + k]
      BY <3>1, TotalFacts
    <3>3. v[n + 1].sectors = w[(n + 1) + k].sectors
      BY <3>1
    <3>4. v[n + 1] \in FawEntry
      BY <3>1, ElementOfSeq
    <3>5. v[n + 1].sectors \in Nat /\ Total(v)[n] \in Nat /\ Total(w)[k] \in Nat
      BY <1>1, <3>1, <3>4, TotalFacts DEF FawEntry
    <3>6. Total(w)[(n + 1) + k] = Total(v)[n + 1] + Total(w)[k]
      BY <3>1, <3>2, <3>3, <3>5
    <3>7. QED
      BY <3>1, <3>6
  <2>2. CASE ~(n + 1 <= Len(v))
    BY <2>2
  <2>3. QED
    BY <2>1, <2>2
<1>4. S = Nat
  <2>1. S \subseteq Nat
    OBVIOUS
  <2> HIDE DEF S
  <2>2. QED
    BY <1>2, <1>3, <2>1, Induction
<1>5. Len(v) \in S /\ Len(v) + k = Len(w)
  BY <1>1, <1>4
<1>6. QED
  BY <1>1, <1>5

\* A window with one more activate.
LEMMA TotalAppend ==
  ASSUME NEW w \in Seq(FawEntry), NEW e \in FawEntry
  PROVE  Total(Append(w, e))[Len(Append(w, e))] = Total(w)[Len(w)] + e.sectors
<1> DEFINE v == Append(w, e)
<1>1. /\ v \in Seq(FawEntry) /\ Len(w) \in Nat /\ Len(v) = Len(w) + 1
      /\ \A i \in 1..Len(w) : v[i] = w[i]
      /\ v[Len(w) + 1] = e
  BY LenProperties, AppendProperties
<1> HIDE DEF v
<1> DEFINE S == {i \in Nat : i <= Len(w) => Total(v)[i] = Total(w)[i]}
<1>2. 0 \in S
  BY <1>1, TotalFacts
<1>3. ASSUME NEW n \in S
      PROVE  n + 1 \in S
  <2>1. CASE n + 1 <= Len(w)
    <3>1. /\ n \in Nat /\ n + 1 \in 1..Len(w) /\ n + 1 \in 1..Len(v) /\ (n + 1) - 1 = n
          /\ Total(v)[n] = Total(w)[n]
      BY <1>1, <2>1
    <3>2. /\ Total(v)[n + 1] = v[n + 1].sectors + Total(v)[n]
          /\ Total(w)[n + 1] = w[n + 1].sectors + Total(w)[n]
      BY <1>1, <3>1, TotalFacts
    <3>3. QED
      BY <1>1, <3>1, <3>2
  <2>2. CASE ~(n + 1 <= Len(w))
    BY <2>2
  <2>3. QED
    BY <2>1, <2>2
<1>4. S = Nat
  <2>1. S \subseteq Nat
    OBVIOUS
  <2> HIDE DEF S
  <2>2. QED
    BY <1>2, <1>3, <2>1, Induction
<1>5. Total(v)[Len(w)] = Total(w)[Len(w)]
  BY <1>1, <1>4
<1>6. Total(v)[Len(v)] = v[Len(w) + 1].sectors + Total(v)[Len(w)]
  <2>1. Len(v) \in 1..Len(v) /\ Len(v) - 1 = Len(w)
    BY <1>1
  <2>2. QED
    BY <1>1, <2>1, TotalFacts
<1>7. e.sectors \in Nat /\ Total(w)[Len(w)] \in Nat
  BY <1>1, TotalFacts DEF FawEntry
<1>8. Total(v)[Len(v)] = Total(w)[Len(w)] + e.sectors
  BY <1>1, <1>5, <1>6, <1>7
<1>9. QED
  BY <1>8 DEF v

-----------------------------------------------------------------------------
(***************************************************************************)
(* The budget and the window change together.                              *)
(***************************************************************************)
BudgetInv == TypeOK /\ FawBudgetBalance

Balanced(left, w) == left + Total(w)[Len(w)] = MaxBudget

LEMMA BalanceIsBalanced ==
  /\ FawBudgetBalance <=> Balanced(budget, faw_queue)
  /\ FawBudgetBalance' <=> Balanced(budget', faw_queue')
BY FawSumIsTotal DEF FawBudgetBalance, Balanced, MaxBudget

\* What leaves the window is given back, once.
LEMMA BalanceNow ==
  ASSUME BudgetInv
  PROVE  Balanced(BudgetNow, FawNow) /\ FawNow \in Seq(FawEntry) /\ BudgetNow \in Int
<1>1. TypeOK /\ Balanced(budget, faw_queue)
  BY BalanceIsBalanced DEF BudgetInv
<1>2. faw_queue \in Seq(FawEntry) /\ Len(faw_queue) \in Nat /\ budget \in Int
  BY <1>1, LenProperties DEF TypeOK
<1>3. FawNow \in Seq(FawEntry) /\ BudgetNow \in Int
  BY <1>1, FawNowType
<1>4. ASSUME NEW i \in 1..Len(faw_queue)
      PROVE  FawAged[i] \in FawEntry /\ FawAged[i].sectors = faw_queue[i].sectors
  <2>1. faw_queue[i] \in FawEntry
    BY <1>2, ElementOfSeq
  <2>2. QED
    BY <2>1 DEF FawAged, FawEntry
<1>5. FawAged \in Seq(FawEntry) /\ Len(FawAged) = Len(faw_queue)
  <2>1. FawAged \in [1..Len(faw_queue) -> FawEntry]
    BY <1>4 DEF FawAged
  <2>2. QED
    BY <1>2, <2>1, MapIsSeq
<1>6. CASE FawPop
  <2>1. faw_queue # << >> /\ FawNow = Tail(FawAged) /\ BudgetNow = budget + faw_queue[1].sectors
    BY <1>6 DEF FawPop, FawNow, BudgetNow
  <2>2. 1 \in 1..Len(faw_queue) /\ 1 \in 0..Len(faw_queue)
    BY <1>2, <2>1, EmptySeq
  <2>3. FawAged # << >>
    BY <1>5, <2>2, EmptySeq
  <2>4. /\ Len(FawNow) = Len(faw_queue) - 1
        /\ \A i \in 1..Len(FawNow) : FawNow[i] = FawAged[i + 1]
    BY <1>5, <2>1, <2>3, HeadTailProperties
  <2>5. \A i \in 1..Len(FawNow) : FawNow[i].sectors = faw_queue[i + 1].sectors
    BY <1>2, <1>4, <2>4
  <2>6. Total(faw_queue)[Len(faw_queue)] = Total(FawNow)[Len(FawNow)] + Total(faw_queue)[1]
    BY <1>2, <1>3, <2>2, <2>4, <2>5, TotalRest
  <2>7. Total(faw_queue)[1] = faw_queue[1].sectors
    <3>1. Total(faw_queue)[1] = faw_queue[1].sectors + Total(faw_queue)[0] /\ Total(faw_queue)[0] = 0
      BY <1>2, <2>2, TotalFacts
    <3>2. faw_queue[1] \in FawEntry
      BY <1>2, <2>2, ElementOfSeq
    <3>3. QED
      BY <3>1, <3>2 DEF FawEntry
  <2>8. Total(FawNow)[Len(FawNow)] \in Nat /\ Total(faw_queue)[1] \in Nat
    BY <1>2, <1>3, <2>2, TotalFacts
  <2>9. QED
    BY <1>1, <1>2, <1>3, <2>1, <2>6, <2>7, <2>8 DEF Balanced
<1>7. CASE ~FawPop
  <2>1. FawNow = FawAged /\ BudgetNow = budget
    BY <1>7 DEF FawNow, BudgetNow
  <2>2. /\ Len(FawNow) = Len(faw_queue) - 0 /\ 0 \in 0..Len(faw_queue)
        /\ \A i \in 1..Len(FawNow) : FawNow[i].sectors = faw_queue[i + 0].sectors
    BY <1>2, <1>4, <1>5, <2>1
  <2>3. Total(faw_queue)[Len(faw_queue)] = Total(FawNow)[Len(FawNow)] + Total(faw_queue)[0]
    BY <1>2, <1>3, <2>2, TotalRest
  <2>4. Total(faw_queue)[0] = 0 /\ Total(FawNow)[Len(FawNow)] \in Nat
    BY <1>2, <1>3, TotalFacts
  <2>5. QED
    BY <1>1, <1>3, <2>1, <2>3, <2>4 DEF Balanced
<1>8. QED
  BY <1>3, <1>6, <1>7

LEMMA BudgetStep == BudgetInv /\ [Next]_vars => BudgetInv'
<1> SUFFICES ASSUME BudgetInv, [Next]_vars
             PROVE  BudgetInv'
  OBVIOUS
<1>1. TypeOK /\ TypeOK' /\ Balanced(budget, faw_queue)
  BY TypeStep, BalanceIsBalanced DEF BudgetInv
<1>2. SUFFICES Balanced(budget', faw_queue')
  BY <1>1, BalanceIsBalanced DEF BudgetInv
<1>3. Balanced(BudgetNow, FawNow) /\ FawNow \in Seq(FawEntry) /\ BudgetNow \in Int
  BY BalanceNow
<1>4. ASSUME budget' = budget, faw_queue' = faw_queue
      PROVE  Balanced(budget', faw_queue')
  BY <1>1, <1>4
<1>5. ASSUME NoActivate
      PROVE  Balanced(budget', faw_queue')
  BY <1>3, <1>5 DEF NoActivate
<1>6. ASSUME NEW q \in RequestQueue, NEW i \in 1..Len(queue[q]), NEW ref, Activate(q, i, ref)
      PROVE  Balanced(budget', faw_queue')
  <2> DEFINE n == count_activated_sectors(queue[q][i])
             e == [age |-> 0, sectors |-> n]
  <2>1. n \in Nat
    BY <1>1, QueuedIsAccepted, RequestTypes
  <2>2. budget' = BudgetNow - n /\ faw_queue' = Append(FawNow, e)
    BY <1>6 DEF Activate
  <2>3. e \in FawEntry /\ e.sectors = n
    BY <2>1 DEF FawEntry
  <2> HIDE DEF n, e
  <2>4. Total(Append(FawNow, e))[Len(Append(FawNow, e))] = Total(FawNow)[Len(FawNow)] + n
    BY <1>3, <2>3, TotalAppend
  <2>5. Total(FawNow)[Len(FawNow)] \in Nat
    BY <1>3, TotalFacts
  <2>6. QED
    BY <1>3, <2>1, <2>2, <2>4, <2>5 DEF Balanced
<1>7. ASSUME NEW shape \in Shape, Enqueue(shape)
      PROVE  Balanced(budget', faw_queue')
  BY <1>4, <1>7 DEF Enqueue
<1>8. ASSUME NEW ref, Idle(ref) \/ SkipScheduling(ref) \/ PrechargeAll(ref) \/ RefreshRank(ref)
      PROVE  Balanced(budget', faw_queue')
  BY <1>5, <1>8 DEF Idle, SkipScheduling, PrechargeAll, RefreshRank
<1>9. ASSUME NEW q \in RequestQueue, NEW i \in 1..Len(queue[q]), NEW ref,
             Precharge(q, i, ref) \/ Access(q, i, ref)
      PROVE  Balanced(budget', faw_queue')
  BY <1>5, <1>9 DEF Precharge, Access
<1>10. CASE UNCHANGED vars
  BY <1>4, <1>10 DEF vars
<1>11. CASE Next
  BY <1>6, <1>7, <1>8, <1>9, <1>11, NextCases
<1>12. QED
  BY <1>10, <1>11

\* What is left of the tFAW budget and what the activates in faw_queue took of it is always
\* the whole budget (Controller.cpp): none is given back twice or never, although the window
\* is popped at most once in a cycle and an activate may stall.
THEOREM BudgetIsBalanced == Spec => []FawBudgetBalance
<1>1. Init => BudgetInv
  <2> SUFFICES ASSUME Init
               PROVE  BudgetInv
    OBVIOUS
  <2>1. TypeOK /\ budget = MaxBudget /\ Len(faw_queue) = 0 /\ faw_queue \in Seq(FawEntry)
    BY InitType DEF Init, TypeOK
  <2>2. Total(faw_queue)[0] = 0
    BY <2>1, TotalFacts
  <2>3. budget \in Int
    BY <2>1 DEF TypeOK
  <2>4. Balanced(budget, faw_queue)
    BY <2>1, <2>2, <2>3 DEF Balanced
  <2>5. QED
    BY <2>1, <2>4, BalanceIsBalanced DEF BudgetInv
<1>2. BudgetInv => FawBudgetBalance
  BY DEF BudgetInv
<1>3. QED
  BY <1>1, <1>2, BudgetStep, PTL DEF Spec

=============================================================================
