------------------------- MODULE CommandAnalysis_proofs -------------------------
(***************************************************************************)
(* Proofs about CommandAnalysis: cycles are counted once, rows are counted *)
(* in pairs and idle cycles lie within active ones, for any timing that    *)
(* satisfies TimingAssumption, any number of banks and mats and windows of *)
(* any length.                                                             *)
(***************************************************************************)
EXTENDS CommandAnalysis, FiniteSetTheorems, TLAPS

PowerDown == {"f_act_pd", "s_act_pd", "f_pre_pd", "s_pre_pd"}

Stamp == {"first_act", "last_pre", "latest_pre", "latest_act", "latest_rd", "latest_wr",
          "end_act", "end_rd", "end_wr", "pdn", "sref", "sref_window"}

Counter == {"act", "pre", "f_act_pd", "s_act_pd", "f_pre_pd", "s_pre_pd", "sref",
            "sref_ref_act", "sref_ref_pre", "spup_ref_act", "spup_ref_pre", "spup",
            "pup_act", "pup_pre", "idle_act", "idle_pre"}

AtType == [Stamp -> Int]

CyclesType == [Counter -> Int]

Types ==
  /\ at \in AtType
  /\ cycles \in CyclesType
  /\ window_ref \in [act : Int, pre : Int]
  /\ clk \in Nat /\ ready \in Nat /\ past.cycles \in Int
  /\ mem_state \in {"not_in_pd", "sref"} \cup PowerDown

(***************************************************************************)
(* In which states banks are active, and what was active before an active  *)
(* power-down.                                                             *)
(***************************************************************************)
Modes ==
  /\ mem_state \in {"f_act_pd", "s_act_pd"} => bank_state # {} /\ last_bank_state = bank_state
  /\ mem_state \in {"f_pre_pd", "s_pre_pd", "sref"} => bank_state = {}

(***************************************************************************)
(* What was counted does not lie in the future of the next command, and a  *)
(* self-refresh has given past windows what its time makes them due.       *)
(***************************************************************************)
Stamps ==
  /\ mem_state = "not_in_pd" /\ bank_state # {} => at.first_act <= clk + 1
  /\ mem_state = "not_in_pd" /\ bank_state = {} => at.last_pre <= Later(clk + 1, ready)
  /\ mem_state \in PowerDown => at.pdn <= clk + 1
  /\ mem_state = "sref" =>
       /\ at.sref <= at.sref_window /\ at.sref_window <= clk + 1
       /\ window_ref.act = Earlier(at.sref_window - at.sref, RFC - RP)
       /\ window_ref.pre = Earlier(Max0(at.sref_window - at.sref - (RFC - RP)), RP)

CycleInv == Types /\ Modes /\ Stamps /\ CyclesCountedOnce

-----------------------------------------------------------------------------
LEMMA ConstantTypes ==
  /\ RP \in Nat /\ RP > 0 /\ RCD \in Nat /\ RFC \in Nat /\ XP \in Nat /\ XP > 0
  /\ XPDLL \in Nat /\ XPDLL > 0 /\ XS \in Nat /\ XSDLL \in Nat
  /\ CompleteRD \in Nat /\ CompleteWR \in Nat
  /\ RP < RFC /\ RFC <= XS /\ RFC <= XSDLL
BY TimingAssumption

\* The helpers that find idle cycles give numbers.
LEMMA IdleTypes ==
  ASSUME at \in AtType, NEW t \in Int
  PROVE  /\ Ended(at) \in AtType
         /\ IdleAct(t) \in Int
         /\ IdlePre(t) \in Int
         /\ \A f \in {"first_act", "last_pre", "pdn", "sref", "sref_window"} : Ended(at)[f] = at[f]
<1> DEFINE rd  == IF at.latest_rd >= 0 THEN at.latest_rd + CompleteRD - 1 ELSE at.end_rd
           wr  == IF at.latest_wr >= 0 THEN at.latest_wr + CompleteWR - 1 ELSE at.end_wr
           act == IF at.latest_act >= 0 THEN at.latest_act + RCD - 1 ELSE at.end_act
<1>0. rd \in Int /\ wr \in Int /\ act \in Int
  BY ConstantTypes DEF AtType, Stamp
<1>a. Ended(at) = [at EXCEPT !.end_rd = rd, !.end_wr = wr, !.end_act = act]
  BY DEF Ended
<1> HIDE DEF rd, wr, act
<1>1. Ended(at) \in AtType
  BY <1>0, <1>a DEF AtType, Stamp
<1>2. IdleAct(t) \in Int
  BY <1>1 DEF AtType, Stamp, IdleAct, Later, Max0
<1>3. IdlePre(t) \in Int
  BY ConstantTypes DEF AtType, Stamp, IdlePre, Max0
<1>4. \A f \in {"first_act", "last_pre", "pdn", "sref", "sref_window"} : Ended(at)[f] = at[f]
  BY <1>a DEF AtType, Stamp
<1>5. QED
  BY <1>1, <1>2, <1>3, <1>4

\* Adding to counters gives counters.
LEMMA Adding ==
  ASSUME NEW c \in CyclesType, NEW f \in Counter, NEW x \in Int
  PROVE  [c EXCEPT ![f] = @ + x] \in CyclesType
BY DEF CyclesType

LEMMA AddingTwo ==
  ASSUME NEW c \in CyclesType, NEW f \in Counter, NEW x \in Int,
         NEW g \in Counter, NEW y \in Int, f # g
  PROVE  [c EXCEPT ![f] = @ + x, ![g] = @ + y] \in CyclesType
<1>1. c[f] + x \in Int /\ c[g] + y \in Int
  BY DEF CyclesType
<1>2. \A v, w \in Int : [c EXCEPT ![f] = v, ![g] = w] \in CyclesType
  BY DEF CyclesType
<1>3. QED
  BY <1>1, <1>2

\* What is added to a counter of window_cycles is added to their sum.
Summed == {"act", "pre", "f_act_pd", "s_act_pd", "f_pre_pd", "s_pre_pd", "sref",
           "sref_ref_act", "sref_ref_pre", "spup_ref_act", "spup_ref_pre"}

LEMMA SumAdding ==
  ASSUME NEW c \in CyclesType, NEW d \in CyclesType, NEW f \in Summed, NEW x \in Int,
         d[f] = c[f] + x, \A k \in Summed \ {f} : d[k] = c[k]
  PROVE  WindowCycles(d) = WindowCycles(c) + x
BY DEF WindowCycles, CyclesType, Counter, Summed

LEMMA SumType ==
  ASSUME NEW c \in CyclesType
  PROVE  WindowCycles(c) \in Int
BY DEF WindowCycles, CyclesType, Counter

LEMMA InitCycles == Init => CycleInv
<1> SUFFICES ASSUME Init PROVE CycleInv
  OBVIOUS
<1> USE DEF Init
<1>1. Types
  BY DEF Types, AtType, Stamp, CyclesType, Counter, NoCycles, PowerDown
<1>2. Modes /\ Stamps
  BY DEF Modes, Stamps, Later, PowerDown
<1>3. CyclesCountedOnce
  BY DEF CyclesCountedOnce, CountedTo, WindowCycles, NoCycles
<1>4. QED
  BY <1>1, <1>2, <1>3 DEF CycleInv

-----------------------------------------------------------------------------
LEMMA ActCycles ==
  ASSUME CycleInv, NEW t \in (clk + 1)..MaxTime, Issued(t, 1), bank_state' # {},
         EndPrecharged(t), UNCHANGED <<mem_state, window_ref>>
  PROVE  CycleInv'
<1> USE DEF CycleInv
<1>0. t \in Int /\ t > clk /\ clk' = t /\ ready' = t + 1 /\ t >= ready /\ past' = past
      /\ mem_state = "not_in_pd"
  BY TimingAssumption DEF Issued, Types
<1>1. IdlePre(t) \in Int
  BY <1>0, IdleTypes DEF Types
<1>2. CASE bank_state = {}
  <2>0. at.last_pre <= t
    BY <1>0, <1>2 DEF Stamps, Later, Types, AtType, Stamp
  <2>a. Max0(t - at.last_pre) = t - at.last_pre /\ t - at.last_pre \in Int
    BY <1>0, <2>0 DEF Max0, Types, AtType, Stamp
  <2>1. /\ cycles' = [cycles EXCEPT !.pre = @ + (t - at.last_pre), !.idle_pre = @ + IdlePre(t)]
        /\ at' = [at EXCEPT !.first_act = t, !.latest_act = t]
    BY <1>2, <2>a DEF EndPrecharged
  <2>b. at' \in AtType
    BY <1>0, <2>1 DEF Types, AtType, Stamp
  <2>c. cycles' \in CyclesType
    <3>1. "pre" \in Counter /\ "idle_pre" \in Counter
      BY DEF Counter
    <3>2. QED
      BY <1>1, <2>a, <2>1, <3>1, AddingTwo DEF Types
  <2>2. Types'
    BY <1>0, <2>b, <2>c DEF Types
  <2>3. Modes' /\ Stamps'
    BY <1>0, <2>1 DEF Modes, Stamps, PowerDown, Types, AtType, Stamp
  <2>4. CyclesCountedOnce'
    BY <1>0, <1>1, <1>2, <2>1 DEF CyclesCountedOnce, CountedTo, WindowCycles, Types, AtType, Stamp, CyclesType, Counter
  <2>5. QED
    BY <2>2, <2>3, <2>4
<1>3. CASE bank_state # {}
  <2>1. /\ cycles' = cycles
        /\ at' = [at EXCEPT !.latest_act = t]
    BY <1>3 DEF EndPrecharged
  <2>2. Types'
    BY <1>0, <2>1 DEF Types, AtType, Stamp
  <2>3. Modes' /\ Stamps'
    BY <1>0, <1>3, <2>1 DEF Modes, Stamps, PowerDown, Types, AtType, Stamp
  <2>4. CyclesCountedOnce'
    BY <1>0, <1>3, <2>1 DEF CyclesCountedOnce, CountedTo, WindowCycles, Types, AtType, Stamp
  <2>5. QED
    BY <2>2, <2>3, <2>4
<1>4. QED
  BY <1>2, <1>3

LEMMA IssuedFacts ==
  ASSUME Types, NEW t \in (clk + 1)..MaxTime, NEW gap \in Nat, Issued(t, gap)
  PROVE  /\ t \in Nat /\ t > clk /\ t >= ready
         /\ clk' = t /\ ready' = t + gap /\ clk' \in Nat /\ ready' \in Nat
         /\ past' = past /\ mem_state = "not_in_pd"
BY TimingAssumption DEF Issued, Types

LEMMA TimeFacts ==
  ASSUME CycleInv, NEW t \in (clk + 1)..MaxTime
  PROVE  t \in Nat /\ t > clk /\ clk \in Nat
BY TimingAssumption DEF CycleInv, Types

LEMMA ReadCycles ==
  ASSUME CycleInv, NEW t \in (clk + 1)..MaxTime, Issued(t, 1), bank_state # {},
         NEW f \in {"latest_rd", "latest_wr"},
         cycles' = [cycles EXCEPT !.idle_act = @ + IdleAct(t)],
         at' = [Ended(at) EXCEPT ![f] = t],
         UNCHANGED <<bank_state, last_bank_state, mem_state, window_ref>>
  PROVE  CycleInv'
<1> USE DEF CycleInv
<1>0. /\ t \in Nat /\ clk' = t /\ clk' \in Nat /\ ready' \in Nat /\ t > clk
      /\ past' = past /\ mem_state = "not_in_pd"
  BY IssuedFacts
<1>1. /\ Ended(at) \in AtType /\ IdleAct(t) \in Int
      /\ \A g \in {"first_act", "last_pre", "pdn", "sref", "sref_window"} : Ended(at)[g] = at[g]
  BY <1>0, IdleTypes DEF Types
<1>2. at' \in AtType /\ at'.first_act = at.first_act
  BY <1>0, <1>1 DEF AtType, Stamp
<1>3. cycles' \in CyclesType
  BY <1>1, Adding DEF Types, Counter
<1>4. Types'
  BY <1>0, <1>2, <1>3 DEF Types
<1>5. Modes' /\ Stamps'
  BY <1>0, <1>2 DEF Modes, Stamps, PowerDown, Types, AtType, Stamp
<1>6. WindowCycles(cycles') = WindowCycles(cycles)
  BY <1>1 DEF WindowCycles, Types, CyclesType, Counter
<1>7. CyclesCountedOnce'
  BY <1>0, <1>2, <1>6 DEF CyclesCountedOnce, CountedTo, WindowCycles
<1>8. QED
  BY <1>4, <1>5, <1>7

LEMMA PreCycles ==
  ASSUME CycleInv, NEW t \in (clk + 1)..MaxTime, NEW bs \in SUBSET Bank, Pre(t, bs)
  PROVE  CycleInv'
<1> USE DEF CycleInv
<1>0. /\ t \in Nat /\ clk' = t /\ ready' = t + 1 /\ clk' \in Nat /\ ready' \in Nat /\ t > clk
      /\ t >= ready /\ past' = past /\ mem_state = "not_in_pd" /\ mem_state' = mem_state
      /\ UNCHANGED <<last_bank_state, window_ref>>
  BY IssuedFacts DEF Pre
<1>1. CASE UNCHANGED <<bank_state, cycles, at>>
  <2>1. Types' /\ Modes'
    BY <1>0, <1>1 DEF Types, Modes, PowerDown
  <2>2. Stamps'
    BY <1>0, <1>1 DEF Types, Stamps, PowerDown, AtType, Stamp, Later
  <2>3. CyclesCountedOnce'
    BY <1>0, <1>1 DEF CyclesCountedOnce, CountedTo, WindowCycles
  <2>4. QED
    BY <2>1, <2>2, <2>3
<1>2. CASE /\ bs \cap bank_state # {} /\ bank_state' = bank_state \ (bs \cap bank_state)
           /\ EndActive(t, bs)
  <2>1. CASE bank_state \subseteq bs
    <3>0. bank_state # {} /\ bank_state' = {} /\ at.first_act <= clk + 1
      BY <1>0, <1>2, <2>1 DEF Stamps
    <3>1. Max0(t - at.first_act) = t - at.first_act /\ t - at.first_act \in Int
      BY <1>0, <3>0 DEF Max0, Types, AtType, Stamp
    <3>2. /\ Ended(at) \in AtType /\ IdleAct(t) \in Int
      BY <1>0, IdleTypes DEF Types
    <3>3. /\ cycles' = [cycles EXCEPT !.act = @ + (t - at.first_act), !.idle_act = @ + IdleAct(t)]
          /\ at' = [Ended(at) EXCEPT !.last_pre = t, !.latest_pre = t]
      BY <1>2, <2>1, <3>1 DEF EndActive
    <3>4. at' \in AtType /\ at'.last_pre = t
      <4>1. t \in Int /\ at' = [Ended(at) EXCEPT !.last_pre = t, !.latest_pre = t]
        BY <1>0, <3>3
      <4>2. Ended(at) \in AtType
        BY <3>2
      <4>3. QED
        BY <4>1, <4>2 DEF AtType, Stamp
    <3>5. cycles' \in CyclesType
      <4>1. "act" \in Counter /\ "idle_act" \in Counter /\ "act" # "idle_act"
        BY DEF Counter
      <4>2. cycles \in CyclesType /\ IdleAct(t) \in Int
        BY <3>2 DEF Types
      <4>3. QED
        BY <3>1, <3>3, <4>1, <4>2, AddingTwo
    <3>6. Types'
      BY <1>0, <3>4, <3>5 DEF Types
    <3>7. Modes' /\ Stamps'
      BY <1>0, <3>0, <3>4 DEF Modes, Stamps, PowerDown, Later
    <3>8. CyclesCountedOnce'
      <4>1. at.first_act \in Int
        BY DEF Types, AtType, Stamp
      <4>2. QED
        BY <1>0, <3>0, <3>2, <3>3, <3>4, <4>1
        DEF CyclesCountedOnce, CountedTo, WindowCycles, Types, CyclesType, Counter
    <3>9. QED
      BY <3>6, <3>7, <3>8
  <2>2. CASE ~(bank_state \subseteq bs)
    <3>1. /\ cycles' = cycles /\ at' = [at EXCEPT !.latest_pre = t]
          /\ bank_state # {} /\ bank_state' # {}
      BY <1>2, <2>2 DEF EndActive
    <3>2. at' \in AtType /\ at'.first_act = at.first_act
      BY <1>0, <3>1 DEF Types, AtType, Stamp
    <3>3. Types'
      BY <1>0, <3>1, <3>2 DEF Types
    <3>4. Modes' /\ Stamps'
      BY <1>0, <3>1, <3>2 DEF Modes, Stamps, PowerDown, Types, AtType, Stamp
    <3>5. CyclesCountedOnce'
      BY <1>0, <3>1, <3>2 DEF CyclesCountedOnce, CountedTo, WindowCycles
    <3>6. QED
      BY <3>3, <3>4, <3>5
  <2>3. QED
    BY <2>1, <2>2
<1>3. QED
  BY <1>1, <1>2 DEF Pre, Close

\* A command that changes nothing of this
LEMMA QuietCycles ==
  ASSUME CycleInv, NEW t \in (clk + 1)..MaxTime, Issued(t, 1),
         UNCHANGED <<bank_state, last_bank_state, mem_state, at, cycles, window_ref>>
  PROVE  CycleInv'
<1> USE DEF CycleInv
<1>0. /\ t \in Nat /\ clk' = t /\ ready' = t + 1 /\ clk' \in Nat /\ ready' \in Nat /\ t > clk
      /\ t >= ready /\ past' = past /\ mem_state = "not_in_pd"
  BY IssuedFacts
<1>1. Types' /\ Modes'
  BY <1>0 DEF Types, Modes, PowerDown
<1>2. Stamps'
  BY <1>0 DEF Types, Stamps, PowerDown, AtType, Stamp, Later
<1>3. CyclesCountedOnce'
  BY <1>0 DEF CyclesCountedOnce, CountedTo, WindowCycles
<1>4. QED
  BY <1>1, <1>2, <1>3

\* The end of a precharged time: what is counted, and how much it is.
LEMMA PrechargedTime ==
  ASSUME CycleInv, NEW t \in Nat, t > clk, t >= ready,
         bank_state = {}, mem_state = "not_in_pd"
  PROVE  /\ Max0(t - at.last_pre) = t - at.last_pre /\ at.last_pre \in Int
         /\ past.cycles + WindowCycles(cycles) = at.last_pre
         /\ IdlePre(t) \in Int
<1>1. at.last_pre \in Int /\ clk \in Nat /\ ready \in Nat
  BY DEF CycleInv, Types, AtType, Stamp
<1>2. at.last_pre <= t
  BY <1>1 DEF CycleInv, Stamps, Later
<1>3. IdlePre(t) \in Int
  BY IdleTypes DEF CycleInv, Types
<1>4. past.cycles + WindowCycles(cycles) = at.last_pre
  BY DEF CycleInv, CyclesCountedOnce, CountedTo
<1>5. QED
  BY <1>1, <1>2, <1>3, <1>4 DEF Max0

LEMMA ActiveTime ==
  ASSUME CycleInv, NEW t \in Nat, t > clk,
         bank_state # {}, mem_state = "not_in_pd"
  PROVE  /\ Max0(t - at.first_act) = t - at.first_act /\ at.first_act \in Int
         /\ past.cycles + WindowCycles(cycles) = at.first_act
         /\ IdleAct(t) \in Int
<1>1. at.first_act \in Int /\ clk \in Nat
  BY DEF CycleInv, Types, AtType, Stamp
<1>2. at.first_act <= t
  BY <1>1 DEF CycleInv, Stamps
<1>3. IdleAct(t) \in Int
  BY IdleTypes DEF CycleInv, Types
<1>4. past.cycles + WindowCycles(cycles) = at.first_act
  BY DEF CycleInv, CyclesCountedOnce, CountedTo
<1>5. QED
  BY <1>1, <1>2, <1>3, <1>4 DEF Max0

LEMMA RefCycles ==
  ASSUME CycleInv, NEW t \in (clk + 1)..MaxTime, Ref(t)
  PROVE  CycleInv'
<1>0. RFC \in Nat /\ RP \in Nat /\ RP < RFC
  BY ConstantTypes
<1>1. /\ t \in Nat /\ clk' = t /\ ready' = t + RFC /\ clk' \in Nat /\ ready' \in Nat /\ t > clk
      /\ t >= ready /\ past' = past /\ mem_state = "not_in_pd" /\ bank_state = {}
      /\ UNCHANGED <<bank_state, last_bank_state, mem_state, window_ref>>
  BY <1>0, IssuedFacts DEF Ref, CycleInv
<1>2. /\ Max0(t - at.last_pre) = t - at.last_pre /\ at.last_pre \in Int
      /\ past.cycles + WindowCycles(cycles) = at.last_pre
      /\ IdlePre(t) \in Int
  BY <1>1, PrechargedTime
<1>3. cycles \in CyclesType /\ WindowCycles(cycles) \in Int /\ past.cycles \in Int
  BY SumType DEF CycleInv, Types
<1>4. cycles' = [cycles EXCEPT !.idle_pre = @ + IdlePre(t), !.pre = @ + (t - at.last_pre),
                               !.act = @ + (RFC - RP)]
  BY <1>2 DEF Ref
<1>5. cycles' \in CyclesType
      /\ WindowCycles(cycles') = WindowCycles(cycles) + (t - at.last_pre) + (RFC - RP)
  <2> DEFINE x == t - at.last_pre  y == RFC - RP  z == IdlePre(t)
  <2>1. x \in Int /\ y \in Int /\ z \in Int
    BY <1>0, <1>1, <1>2
  <2>2. cycles' = [cycles EXCEPT !.idle_pre = @ + z, !.pre = @ + x, !.act = @ + y]
    BY <1>4
  <2> HIDE DEF x, y, z
  <2>3. cycles' \in CyclesType /\ WindowCycles(cycles') = WindowCycles(cycles) + x + y
    <3>1. cycles.idle_pre + z \in Int /\ cycles.pre + x \in Int /\ cycles.act + y \in Int
      BY <1>3, <2>1 DEF CyclesType, Counter
    <3>2. cycles' \in CyclesType
      BY <1>3, <2>2, <3>1 DEF CyclesType, Counter
    <3>3. WindowCycles(cycles') = WindowCycles(cycles) + x + y
      BY <1>3, <2>1, <2>2 DEF CyclesType, Counter, WindowCycles
    <3>4. QED
      BY <3>2, <3>3
  <2>4. QED
    BY <2>3 DEF x, y
<1>6. at' \in AtType /\ at'.last_pre = t + RFC - RP
  <2>1. at' = [at EXCEPT !.first_act = t, !.last_pre = t + RFC - RP, !.latest_pre = t + RFC - RP]
    BY DEF Ref
  <2>2. t \in Int /\ t + RFC - RP \in Int /\ at \in AtType
    BY <1>0, <1>1 DEF CycleInv, Types
  <2>3. QED
    BY <2>1, <2>2 DEF AtType, Stamp
<1>7. Types'
  BY <1>1, <1>5, <1>6 DEF CycleInv, Types
<1>8. Modes' /\ Stamps'
  BY <1>0, <1>1, <1>6 DEF Modes, Stamps, PowerDown, Later
<1>9. CyclesCountedOnce'
  BY <1>0, <1>1, <1>2, <1>3, <1>5, <1>6 DEF CyclesCountedOnce, CountedTo
<1>10. QED
  BY <1>7, <1>8, <1>9 DEF CycleInv

LEMMA PdnActCycles ==
  ASSUME CycleInv, NEW t \in (clk + 1)..MaxTime, NEW mode \in {"f_act_pd", "s_act_pd"},
         PdnAct(t, mode)
  PROVE  CycleInv'
<1>1. /\ t \in Nat /\ clk' = t /\ clk' \in Nat /\ ready' \in Nat /\ t > clk
      /\ past' = past /\ mem_state = "not_in_pd" /\ bank_state # {} /\ mem_state' = mode
      /\ bank_state' = bank_state /\ last_bank_state' = bank_state /\ window_ref' = window_ref
  BY IssuedFacts DEF PdnAct, CycleInv
<1>2. /\ Max0(t - at.first_act) = t - at.first_act /\ at.first_act \in Int
      /\ past.cycles + WindowCycles(cycles) = at.first_act
      /\ IdleAct(t) \in Int
  BY <1>1, ActiveTime
<1>3. cycles \in CyclesType /\ WindowCycles(cycles) \in Int /\ past.cycles \in Int
  BY SumType DEF CycleInv, Types
<1>4. cycles' = [cycles EXCEPT !.act = @ + (t - at.first_act), !.idle_act = @ + IdleAct(t)]
  BY <1>2 DEF PdnAct
<1>5. cycles' \in CyclesType
      /\ WindowCycles(cycles') = WindowCycles(cycles) + (t - at.first_act)
  <2> DEFINE x == t - at.first_act  z == IdleAct(t)
  <2>1. x \in Int /\ z \in Int
    BY <1>1, <1>2
  <2>2. cycles' = [cycles EXCEPT !.act = @ + x, !.idle_act = @ + z]
    BY <1>4
  <2> HIDE DEF x, z
  <2>3. cycles.act + x \in Int /\ cycles.idle_act + z \in Int
    BY <1>3, <2>1 DEF CyclesType, Counter
  <2>4. cycles' \in CyclesType
    BY <1>3, <2>2, <2>3 DEF CyclesType, Counter
  <2>5. WindowCycles(cycles') = WindowCycles(cycles) + x
    BY <1>3, <2>1, <2>2 DEF CyclesType, Counter, WindowCycles
  <2>6. QED
    BY <2>4, <2>5 DEF x
<1>6. at' \in AtType /\ at'.pdn = t
  <2>1. t \in Int /\ at' = [Ended(at) EXCEPT !.pdn = t]
    BY <1>1 DEF PdnAct
  <2>2. Ended(at) \in AtType
    BY <1>1, IdleTypes DEF CycleInv, Types
  <2>3. QED
    BY <2>1, <2>2 DEF AtType, Stamp
<1>7. Types'
  BY <1>1, <1>5, <1>6 DEF CycleInv, Types, PowerDown
<1>8. Modes' /\ Stamps'
  BY <1>1, <1>6 DEF Modes, Stamps, PowerDown
<1>9. CyclesCountedOnce'
  BY <1>1, <1>2, <1>3, <1>5, <1>6 DEF CyclesCountedOnce, CountedTo
<1>10. QED
  BY <1>7, <1>8, <1>9 DEF CycleInv

\* The counters after a precharged time that ends at t
PrechargedTo(t) ==
  [cycles EXCEPT !.pre = @ + Max0(t - at.last_pre), !.idle_pre = @ + IdlePre(t)]

\* The end of a precharged time that starts a power-down or a self-refresh
LEMMA PrechargedEnds ==
  ASSUME CycleInv, NEW t \in Nat, t > clk, t >= ready,
         bank_state = {}, mem_state = "not_in_pd", past' = past,
         cycles' = PrechargedTo(t)
  PROVE  cycles' \in CyclesType /\ past'.cycles + WindowCycles(cycles') = t
<1>2. /\ Max0(t - at.last_pre) = t - at.last_pre /\ at.last_pre \in Int
      /\ past.cycles + WindowCycles(cycles) = at.last_pre
      /\ IdlePre(t) \in Int
  BY PrechargedTime
<1>3. cycles \in CyclesType /\ WindowCycles(cycles) \in Int /\ past.cycles \in Int
  BY SumType DEF CycleInv, Types
<1> DEFINE x == t - at.last_pre  z == IdlePre(t)
<1>4. x \in Int /\ z \in Int
  BY <1>2
<1>5. cycles' = [cycles EXCEPT !.pre = @ + x, !.idle_pre = @ + z]
  BY <1>2 DEF PrechargedTo
<1> HIDE DEF x, z
<1>6. cycles.pre + x \in Int /\ cycles.idle_pre + z \in Int
  BY <1>3, <1>4 DEF CyclesType, Counter
<1>7. cycles' \in CyclesType
  <2>1. "pre" \in Counter /\ "idle_pre" \in Counter /\ "pre" # "idle_pre"
    BY DEF Counter
  <2>2. [cycles EXCEPT !.pre = @ + x, !.idle_pre = @ + z] \in CyclesType
    BY <1>3, <1>4, <2>1, AddingTwo
  <2>3. QED
    BY <1>5, <2>2
<1>8. WindowCycles(cycles') = WindowCycles(cycles) + x
  BY <1>3, <1>4, <1>5 DEF CyclesType, Counter, WindowCycles
<1>9. QED
  BY <1>2, <1>3, <1>7, <1>8 DEF x

LEMMA PdnPreCycles ==
  ASSUME CycleInv, NEW t \in (clk + 1)..MaxTime, NEW mode \in {"f_pre_pd", "s_pre_pd"},
         PdnPre(t, mode)
  PROVE  CycleInv'
<1>1. /\ t \in Nat /\ clk' = t /\ clk' \in Nat /\ ready' \in Nat /\ t > clk /\ t >= ready
      /\ past' = past /\ mem_state = "not_in_pd" /\ bank_state = {} /\ mem_state' = mode
      /\ bank_state' = bank_state /\ window_ref' = window_ref
  BY IssuedFacts DEF PdnPre, CycleInv
<1>2. cycles' \in CyclesType /\ past'.cycles + WindowCycles(cycles') = t
  BY <1>1, PrechargedEnds DEF PdnPre, PrechargedTo
<1>3. at' \in AtType /\ at'.pdn = t
  <2>1. t \in Int /\ at' = [at EXCEPT !.pdn = t] /\ at \in AtType
    BY <1>1 DEF PdnPre, CycleInv, Types
  <2>2. QED
    BY <2>1 DEF AtType, Stamp
<1>4. Types'
  BY <1>1, <1>2, <1>3 DEF CycleInv, Types, PowerDown
<1>5. Modes' /\ Stamps'
  BY <1>1, <1>3 DEF Modes, Stamps, PowerDown
<1>6. CyclesCountedOnce'
  BY <1>1, <1>2, <1>3 DEF CyclesCountedOnce, CountedTo
<1>7. QED
  BY <1>4, <1>5, <1>6 DEF CycleInv

LEMMA SREnCycles ==
  ASSUME CycleInv, NEW t \in (clk + 1)..MaxTime, SREn(t)
  PROVE  CycleInv'
<1>0. RFC \in Nat /\ RP \in Nat /\ RP < RFC
  BY ConstantTypes
<1>1. /\ t \in Nat /\ clk' = t /\ clk' \in Nat /\ ready' \in Nat /\ t > clk /\ t >= ready
      /\ past' = past /\ mem_state = "not_in_pd" /\ bank_state = {} /\ mem_state' = "sref"
      /\ bank_state' = bank_state /\ window_ref' = [act |-> 0, pre |-> 0]
  BY IssuedFacts DEF SREn, CycleInv
<1>2. cycles' \in CyclesType /\ past'.cycles + WindowCycles(cycles') = t
  BY <1>1, PrechargedEnds DEF SREn, PrechargedTo
<1>3. at' \in AtType /\ at'.sref = t /\ at'.sref_window = t
  <2>1. t \in Int /\ at' = [at EXCEPT !.sref = t, !.sref_window = t] /\ at \in AtType
    BY <1>1 DEF SREn, CycleInv, Types
  <2>2. QED
    BY <2>1 DEF AtType, Stamp
<1>4. Types'
  BY <1>1, <1>2, <1>3 DEF CycleInv, Types, PowerDown
<1>5. Modes' /\ Stamps'
  BY <1>0, <1>1, <1>3 DEF Modes, Stamps, PowerDown, Earlier, Max0
<1>6. CyclesCountedOnce'
  BY <1>1, <1>2, <1>3 DEF CyclesCountedOnce, CountedTo, PowerDown
<1>7. QED
  BY <1>4, <1>5, <1>6 DEF CycleInv

\* The end of a power-down: its cycles are counted under its kind.
LEMMA PowerDownEnds ==
  ASSUME CycleInv, NEW t \in Nat, t > clk, mem_state \in PowerDown
  PROVE  /\ Max0(t - at.pdn) = t - at.pdn /\ at.pdn \in Int
         /\ past.cycles + WindowCycles(cycles) = at.pdn
         /\ cycles \in CyclesType /\ WindowCycles(cycles) \in Int /\ past.cycles \in Int
<1>1. at.pdn \in Int /\ clk \in Nat
  BY DEF CycleInv, Types, AtType, Stamp
<1>2. at.pdn <= t
  BY <1>1 DEF CycleInv, Stamps
<1>3. past.cycles + WindowCycles(cycles) = at.pdn
  BY DEF CycleInv, CyclesCountedOnce, CountedTo, PowerDown
<1>4. QED
  BY <1>1, <1>2, <1>3, SumType DEF Max0, CycleInv, Types

\* A counter of window_cycles is raised, and one that is not part of it.
LEMMA PowerDownSum ==
  ASSUME NEW c \in CyclesType, NEW m \in PowerDown, NEW g \in {"pup_act", "pup_pre"},
         NEW x \in Int, NEW z \in Int
  PROVE  /\ [c EXCEPT ![m] = @ + x, ![g] = @ + z] \in CyclesType
         /\ WindowCycles([c EXCEPT ![m] = @ + x, ![g] = @ + z]) = WindowCycles(c) + x
<1>1. m \in Counter /\ g \in Counter /\ m # g
  BY DEF Counter, PowerDown
<1>2. [c EXCEPT ![m] = @ + x, ![g] = @ + z] \in CyclesType
  BY <1>1, AddingTwo
<1> DEFINE d == [c EXCEPT ![m] = @ + x, ![g] = @ + z]
<1>3. d[m] = c[m] + x
  BY <1>1 DEF CyclesType
<1>4. \A k \in Summed \ {m} : d[k] = c[k]
  BY <1>1 DEF CyclesType, Counter, Summed
<1>5. d \in CyclesType
  BY <1>2
<1>6. m \in Summed
  BY DEF Summed, PowerDown
<1> HIDE DEF d
<1>7. WindowCycles(d) = WindowCycles(c) + x
  BY <1>3, <1>4, <1>5, <1>6, SumAdding
<1>8. QED
  BY <1>2, <1>7 DEF d

LEMMA PupActCycles ==
  ASSUME CycleInv, NEW t \in (clk + 1)..MaxTime, PupAct(t)
  PROVE  CycleInv'
<1>0. XP \in Nat /\ XPDLL \in Nat /\ RCD \in Nat
  BY ConstantTypes
<1>1. t \in Nat /\ t > clk /\ mem_state \in PowerDown /\ mem_state \in {"f_act_pd", "s_act_pd"}
  <2>1. mem_state \in {"f_act_pd", "s_act_pd"}
    BY DEF PupAct
  <2>2. QED
    BY <2>1, TimeFacts DEF PowerDown
<1>2. /\ clk' = t /\ clk' \in Nat /\ ready' \in Nat /\ past' = past /\ mem_state' = "not_in_pd"
      /\ bank_state' # {} /\ window_ref' = window_ref
  <2>1. Leaves(t, IF mem_state = "f_act_pd" \/ ~dll THEN XP ELSE XPDLL)
    BY DEF PupAct
  <2>2. bank_state' = last_bank_state
    BY DEF PupAct
  <2>3. last_bank_state # {}
    BY <1>1 DEF CycleInv, Modes
  <2>4. QED
    BY <1>0, <1>1, <2>1, <2>2, <2>3 DEF Leaves
<1>3. /\ Max0(t - at.pdn) = t - at.pdn /\ at.pdn \in Int
      /\ past.cycles + WindowCycles(cycles) = at.pdn
      /\ cycles \in CyclesType /\ WindowCycles(cycles) \in Int /\ past.cycles \in Int
  BY <1>1, PowerDownEnds
<1> DEFINE x == t - at.pdn
           z == IF mem_state = "f_act_pd" \/ ~dll THEN XP ELSE XPDLL - RCD
           la == IF mem_state = "f_act_pd" \/ ~dll THEN t ELSE t + Max0(XPDLL - 2 * RCD)
<1>4. x \in Int /\ z \in Int /\ la \in Int
  BY <1>0, <1>1, <1>3 DEF Max0
<1>5. /\ cycles' = [cycles EXCEPT ![mem_state] = @ + x, !.pup_act = @ + z]
      /\ at' = [at EXCEPT !.latest_act = la, !.first_act = t]
  BY <1>3 DEF PupAct
<1> HIDE DEF x, z, la
<1>6. cycles' \in CyclesType /\ WindowCycles(cycles') = WindowCycles(cycles) + x
  <2>1. /\ [cycles EXCEPT ![mem_state] = @ + x, !["pup_act"] = @ + z] \in CyclesType
        /\ WindowCycles([cycles EXCEPT ![mem_state] = @ + x, !["pup_act"] = @ + z])
             = WindowCycles(cycles) + x
    BY <1>1, <1>3, <1>4, PowerDownSum
  <2>2. QED
    BY <1>5, <2>1
<1>7. at' \in AtType /\ at'.first_act = t
  <2>1. at \in AtType /\ t \in Int
    BY <1>1 DEF CycleInv, Types
  <2>2. QED
    BY <1>4, <1>5, <2>1 DEF AtType, Stamp
<1>8. Types'
  BY <1>2, <1>6, <1>7 DEF CycleInv, Types
<1>9. Modes' /\ Stamps'
  BY <1>1, <1>2, <1>7 DEF Modes, Stamps, PowerDown
<1>10. CyclesCountedOnce'
  BY <1>1, <1>2, <1>3, <1>6, <1>7 DEF CyclesCountedOnce, CountedTo, x
<1>11. QED
  BY <1>8, <1>9, <1>10 DEF CycleInv

LEMMA PupPreCycles ==
  ASSUME CycleInv, NEW t \in (clk + 1)..MaxTime, PupPre(t)
  PROVE  CycleInv'
<1>0. XP \in Nat /\ XPDLL \in Nat /\ RCD \in Nat /\ RP \in Nat
  BY ConstantTypes
<1>1. t \in Nat /\ t > clk /\ mem_state \in PowerDown /\ mem_state \in {"f_pre_pd", "s_pre_pd"}
  <2>1. mem_state \in {"f_pre_pd", "s_pre_pd"}
    BY DEF PupPre
  <2>2. QED
    BY <2>1, TimeFacts DEF PowerDown
<1>2. /\ clk' = t /\ clk' \in Nat /\ ready' \in Nat /\ past' = past /\ mem_state' = "not_in_pd"
      /\ bank_state' = {} /\ window_ref' = window_ref
  <2>1. Leaves(t, IF mem_state = "f_pre_pd" \/ ~dll THEN XP ELSE XPDLL)
    BY DEF PupPre
  <2>2. bank_state' = bank_state
    BY DEF PupPre
  <2>3. bank_state = {}
    BY <1>1 DEF CycleInv, Modes
  <2>4. QED
    BY <1>0, <1>1, <2>1, <2>2, <2>3 DEF Leaves
<1>3. /\ Max0(t - at.pdn) = t - at.pdn /\ at.pdn \in Int
      /\ past.cycles + WindowCycles(cycles) = at.pdn
      /\ cycles \in CyclesType /\ WindowCycles(cycles) \in Int /\ past.cycles \in Int
  BY <1>1, PowerDownEnds
<1> DEFINE x == t - at.pdn
           z == IF mem_state = "f_pre_pd" \/ ~dll THEN XP ELSE XPDLL - RCD
           lp == IF mem_state = "f_pre_pd" \/ ~dll THEN t ELSE t + Max0(XPDLL - RCD - RP)
<1>4. x \in Int /\ z \in Int /\ lp \in Int
  BY <1>0, <1>1, <1>3 DEF Max0
<1>5. /\ cycles' = [cycles EXCEPT ![mem_state] = @ + x, !.pup_pre = @ + z]
      /\ at' = [at EXCEPT !.latest_pre = lp, !.last_pre = t]
  BY <1>3 DEF PupPre
<1> HIDE DEF x, z, lp
<1>6. cycles' \in CyclesType /\ WindowCycles(cycles') = WindowCycles(cycles) + x
  <2>1. /\ [cycles EXCEPT ![mem_state] = @ + x, !["pup_pre"] = @ + z] \in CyclesType
        /\ WindowCycles([cycles EXCEPT ![mem_state] = @ + x, !["pup_pre"] = @ + z])
             = WindowCycles(cycles) + x
    BY <1>1, <1>3, <1>4, PowerDownSum
  <2>2. QED
    BY <1>5, <2>1
<1>7. at' \in AtType /\ at'.last_pre = t
  <2>1. at \in AtType /\ t \in Int
    BY <1>1 DEF CycleInv, Types
  <2>2. QED
    BY <1>4, <1>5, <2>1 DEF AtType, Stamp
<1>8. Types'
  BY <1>2, <1>6, <1>7 DEF CycleInv, Types
<1>9. Modes' /\ Stamps'
  BY <1>1, <1>2, <1>7 DEF Modes, Stamps, PowerDown, Later
<1>10. CyclesCountedOnce'
  BY <1>1, <1>2, <1>3, <1>6, <1>7 DEF CyclesCountedOnce, CountedTo, x
<1>11. QED
  BY <1>8, <1>9, <1>10 DEF CycleInv

-----------------------------------------------------------------------------
\* One counter is raised: one of window_cycles, or one that is not part of it.
LEMMA RaiseOne ==
  ASSUME NEW c \in CyclesType, NEW f \in Summed, NEW x \in Int
  PROVE  /\ [c EXCEPT ![f] = @ + x] \in CyclesType
         /\ WindowCycles([c EXCEPT ![f] = @ + x]) = WindowCycles(c) + x
<1>1. f \in Counter
  BY DEF Counter, Summed
<1> DEFINE d == [c EXCEPT ![f] = @ + x]
<1>2. d \in CyclesType
  BY <1>1, Adding
<1>3. d[f] = c[f] + x /\ \A k \in Summed \ {f} : d[k] = c[k]
  BY <1>1 DEF CyclesType, Counter, Summed
<1> HIDE DEF d
<1>4. WindowCycles(d) = WindowCycles(c) + x
  BY <1>2, <1>3, SumAdding
<1>5. QED
  BY <1>2, <1>4 DEF d

LEMMA RaiseOther ==
  ASSUME NEW c \in CyclesType, NEW f \in Counter \ Summed, NEW x \in Int
  PROVE  /\ [c EXCEPT ![f] = @ + x] \in CyclesType
         /\ WindowCycles([c EXCEPT ![f] = @ + x]) = WindowCycles(c)
<1> DEFINE d == [c EXCEPT ![f] = @ + x]
<1>1. d \in CyclesType
  BY Adding
<1>2. \A k \in Summed : d[k] = c[k]
  BY DEF CyclesType, Counter, Summed
<1>3. WindowCycles(d) = WindowCycles(c)
  BY <1>1, <1>2 DEF WindowCycles, Summed
<1>4. QED
  BY <1>1, <1>3

\* What the exit from self-refresh counts
\* The counters that the end of a self-refresh raises, in its three cases.
LEMMA RaiseLong ==
  ASSUME NEW c \in CyclesType, NEW x \in Int, NEW y \in Int, NEW z \in Int
  PROVE  LET d == [c EXCEPT !["sref_ref_act"] = @ + x, !["sref_ref_pre"] = @ + y, !["sref"] = @ + z]
         IN  d \in CyclesType /\ WindowCycles(d) = WindowCycles(c) + x + y + z
<1> DEFINE d == [c EXCEPT !["sref_ref_act"] = @ + x, !["sref_ref_pre"] = @ + y, !["sref"] = @ + z]
<1>1. d \in CyclesType
  BY DEF CyclesType, Counter
<1>2. /\ d["sref_ref_act"] = c["sref_ref_act"] + x
      /\ d["sref_ref_pre"] = c["sref_ref_pre"] + y
      /\ d["sref"] = c["sref"] + z
      /\ \A k \in Summed \ {"sref_ref_act", "sref_ref_pre", "sref"} : d[k] = c[k]
  BY DEF CyclesType, Counter, Summed
<1> HIDE DEF d
<1>3. WindowCycles(d) = WindowCycles(c) + x + y + z
  BY <1>1, <1>2 DEF WindowCycles, CyclesType, Counter, Summed
<1>4. QED
  BY <1>1, <1>3 DEF d

LEMMA RaiseMiddle ==
  ASSUME NEW c \in CyclesType, NEW x \in Int, NEW y \in Int, NEW z \in Int
  PROVE  LET d == [c EXCEPT !["sref_ref_act"] = @ + x, !["sref_ref_pre"] = @ + y, !["spup_ref_pre"] = @ + z]
         IN  d \in CyclesType /\ WindowCycles(d) = WindowCycles(c) + x + y + z
<1> DEFINE d == [c EXCEPT !["sref_ref_act"] = @ + x, !["sref_ref_pre"] = @ + y, !["spup_ref_pre"] = @ + z]
<1>1. d \in CyclesType
  BY DEF CyclesType, Counter
<1>2. /\ d["sref_ref_act"] = c["sref_ref_act"] + x
      /\ d["sref_ref_pre"] = c["sref_ref_pre"] + y
      /\ d["spup_ref_pre"] = c["spup_ref_pre"] + z
      /\ \A k \in Summed \ {"sref_ref_act", "sref_ref_pre", "spup_ref_pre"} : d[k] = c[k]
  BY DEF CyclesType, Counter, Summed
<1> HIDE DEF d
<1>3. WindowCycles(d) = WindowCycles(c) + x + y + z
  BY <1>1, <1>2 DEF WindowCycles, CyclesType, Counter, Summed
<1>4. QED
  BY <1>1, <1>3 DEF d

LEMMA RaiseShort ==
  ASSUME NEW c \in CyclesType, NEW x \in Int, NEW y \in Int, NEW z \in Int
  PROVE  LET d == [c EXCEPT !["sref_ref_act"] = @ + x, !["spup_ref_act"] = @ + y, !["spup_ref_pre"] = @ + z]
         IN  d \in CyclesType /\ WindowCycles(d) = WindowCycles(c) + x + y + z
<1> DEFINE d == [c EXCEPT !["sref_ref_act"] = @ + x, !["spup_ref_act"] = @ + y, !["spup_ref_pre"] = @ + z]
<1>1. d \in CyclesType
  BY DEF CyclesType, Counter
<1>2. /\ d["sref_ref_act"] = c["sref_ref_act"] + x
      /\ d["spup_ref_act"] = c["spup_ref_act"] + y
      /\ d["spup_ref_pre"] = c["spup_ref_pre"] + z
      /\ \A k \in Summed \ {"sref_ref_act", "spup_ref_act", "spup_ref_pre"} : d[k] = c[k]
  BY DEF CyclesType, Counter, Summed
<1> HIDE DEF d
<1>3. WindowCycles(d) = WindowCycles(c) + x + y + z
  BY <1>1, <1>2 DEF WindowCycles, CyclesType, Counter, Summed
<1>4. QED
  BY <1>1, <1>3 DEF d

\* The exit in a cycle that `refresh` cycles of the auto-refresh lie behind
LEMMA ExitCycles ==
  ASSUME CycleInv, NEW t \in Nat, NEW gap \in Nat, NEW refresh \in 0..gap, NEW counted \in CyclesType,
         Leaves(t, gap), Exit(t, refresh, counted), bank_state' = {},
         past.cycles + WindowCycles(counted) = t + refresh
  PROVE  CycleInv'
<1>0. XSDLL \in Nat /\ XS \in Nat /\ RCD \in Nat /\ RP \in Nat
  BY ConstantTypes
<1> DEFINE spup == IF dll THEN XSDLL - RCD ELSE XS
           v == spup - refresh
           lp == t + Max0(spup - refresh - RP)
<1>1. v \in Int /\ lp \in Int
  BY <1>0 DEF Max0
<1>2. /\ cycles' = [counted EXCEPT !["spup"] = @ + v]
      /\ at' = [at EXCEPT !.last_pre = t + refresh, !.latest_pre = lp]
  BY DEF Exit
<1>3. /\ clk' = t /\ clk' \in Nat /\ ready' = t + gap /\ ready' \in Nat /\ past' = past
      /\ mem_state' = "not_in_pd" /\ window_ref' = window_ref
  BY DEF Leaves
<1> HIDE DEF v, lp
<1>4. cycles' \in CyclesType /\ WindowCycles(cycles') = WindowCycles(counted)
  <2>1. "spup" \in Counter \ Summed
    BY DEF Counter, Summed
  <2>2. /\ [counted EXCEPT !["spup"] = @ + v] \in CyclesType
        /\ WindowCycles([counted EXCEPT !["spup"] = @ + v]) = WindowCycles(counted)
    BY <1>1, <2>1, RaiseOther
  <2>3. QED
    BY <1>2, <2>2
<1>5. at' \in AtType /\ at'.last_pre = t + refresh
  <2>1. at \in AtType /\ t + refresh \in Int
    BY DEF CycleInv, Types
  <2>2. QED
    BY <1>1, <1>2, <2>1 DEF AtType, Stamp
<1>6. Types'
  BY <1>3, <1>4, <1>5 DEF CycleInv, Types
<1>7. Modes' /\ Stamps'
  BY <1>3, <1>5 DEF Modes, Stamps, PowerDown, Later
<1>8. CyclesCountedOnce'
  BY <1>3, <1>4, <1>5 DEF CyclesCountedOnce, CountedTo
<1>9. QED
  BY <1>6, <1>7, <1>8 DEF CycleInv

LEMMA SRExCycles ==
  ASSUME CycleInv, NEW t \in (clk + 1)..MaxTime, SREx(t)
  PROVE  CycleInv'
<1>0. /\ RFC \in Nat /\ RP \in Nat /\ 0 < RP /\ RP < RFC /\ XSDLL \in Nat /\ XS \in Nat
      /\ RFC <= XS /\ RFC <= XSDLL
  BY ConstantTypes
<1> DEFINE A     == RFC - RP
           start == at.sref
           w     == at.sref_window
           wa    == window_ref.act
           wp    == window_ref.pre
           spent == t - start
           pre   == spent - A - wp
           gap   == IF dll THEN XSDLL ELSE XS
<1>1. t \in Nat /\ t > clk /\ clk \in Nat
  BY TimeFacts
<1>2. mem_state = "sref" /\ Leaves(t, gap) /\ bank_state' = {}
  BY DEF SREx, CycleInv, Modes
<1>3. /\ start \in Int /\ w \in Int /\ wa \in Int /\ wp \in Int
      /\ start <= w /\ w <= t
      /\ wa = Earlier(w - start, A) /\ wp = Earlier(Max0(w - start - A), RP)
  BY <1>1, <1>2 DEF CycleInv, Types, Stamps, AtType, Stamp
<1>4. /\ cycles \in CyclesType /\ WindowCycles(cycles) \in Int /\ past.cycles \in Int
      /\ past.cycles + WindowCycles(cycles) = w
  BY <1>2, SumType DEF CycleInv, Types, CyclesCountedOnce, CountedTo
<1>5. gap \in Nat /\ gap >= RFC
  BY <1>0
<1>s. /\ t - start >= RFC => w + (A - wa) + (RP - wp) + Max0(t - Later(start + RFC, w)) = t
      /\ Max0(t - Later(start + RFC, w)) \in Int
      /\ t - start \in A..(RFC - 1) =>
           /\ RP - (t - start - A - wp) \in 0..RFC
           /\ w + (A - wa) + (t - start - A - wp) + (RP - (t - start - A - wp))
                = t + (RP - (t - start - A - wp))
      /\ t - start < A =>
           /\ RFC - (t - start) \in 0..RFC
           /\ w + (t - start - wa) + (A - (t - start)) + RP = t + (RFC - (t - start))
  <2>1. A = RFC - RP /\ A \in Int
    BY <1>0
  <2>2. start \in Int /\ w \in Int /\ wa \in Int /\ wp \in Int /\ start <= w /\ w <= t
    BY <1>3
  <2>3. wa = Earlier(w - start, A) /\ wp = Earlier(Max0(w - start - A), RP)
    BY <1>3
  <2> HIDE DEF A, start, w, wa, wp
  <2>4. RFC \in Nat /\ RP \in Nat /\ RP < RFC /\ t \in Int
    BY <1>0, <1>1
  <2>5. Max0(t - Later(start + RFC, w)) \in Int
    BY <2>2, <2>4 DEF Max0, Later
  <2>6. ASSUME t - start >= RFC
        PROVE  w + (A - wa) + (RP - wp) + Max0(t - Later(start + RFC, w)) = t
    BY <2>1, <2>2, <2>3, <2>4, <2>6 DEF Max0, Later, Earlier
  <2>7. ASSUME t - start \in A..(RFC - 1)
        PROVE  /\ RP - (t - start - A - wp) \in 0..RFC
               /\ w + (A - wa) + (t - start - A - wp) + (RP - (t - start - A - wp))
                    = t + (RP - (t - start - A - wp))
    BY <2>1, <2>2, <2>3, <2>4, <2>7 DEF Max0, Earlier
  <2>8. ASSUME t - start < A
        PROVE  /\ RFC - (t - start) \in 0..RFC
               /\ w + (t - start - wa) + (A - (t - start)) + RP = t + (RFC - (t - start))
    BY <2>1, <2>2, <2>3, <2>4, <2>8 DEF Max0, Earlier
  <2>9. QED
    BY <2>5, <2>6, <2>7, <2>8
<1>t. A \in Int /\ spent = t - start /\ spent \in Int /\ pre = t - start - A - wp /\ pre \in Int
  <2>1. A \in Int
    BY <1>0
  <2> HIDE DEF A, start, wp
  <2>2. QED
    BY <1>1, <1>3, <2>1
<1>6. CASE /\ spent >= RFC
           /\ Exit(t, 0,
                [cycles EXCEPT !.sref_ref_act = @ + (A - wa), !.sref_ref_pre = @ + (RP - wp),
                               !.sref = @ + Max0(t - Later(start + RFC, w))])
  <2> DEFINE x == A - wa
             y == RP - wp
             z == Max0(t - Later(start + RFC, w))
             c == [cycles EXCEPT !["sref_ref_act"] = @ + x, !["sref_ref_pre"] = @ + y, !["sref"] = @ + z]
  <2>1. x \in Int /\ y \in Int /\ z \in Int /\ w + x + y + z = t + (0)
    <3>1. spent >= RFC
      BY <1>6
    <3> HIDE DEF A, start, w, wa, wp, spent, pre
    <3>2. QED
      BY <1>0, <1>3, <3>1, <1>s, <1>t
  <2>2. c \in CyclesType /\ WindowCycles(c) = WindowCycles(cycles) + x + y + z
    <3>1. x \in Int /\ y \in Int /\ z \in Int
      BY <2>1
    <3>2. cycles \in CyclesType
      BY <1>4
    <3> HIDE DEF x, y, z
    <3>3. QED
      BY <3>1, <3>2, RaiseLong
  <2>3. Exit(t, 0, c)
    BY <1>6
  <2> HIDE DEF c, x, y, z, A, start, w, wa, wp, spent, pre, gap
  <2>4. past.cycles + WindowCycles(c) = t + 0
    BY <1>1, <1>4, <2>1, <2>2
  <2>5. QED
    BY <1>1, <1>2, <1>5, <2>2, <2>3, <2>4, ExitCycles
<1>7. CASE /\ spent \in A..(RFC - 1)
           /\ Exit(t, RP - pre,
                [cycles EXCEPT !.sref_ref_act = @ + (A - wa), !.sref_ref_pre = @ + pre,
                               !.spup_ref_pre = @ + (RP - pre)])
  <2> DEFINE x == A - wa
             y == pre
             z == RP - pre
             c == [cycles EXCEPT !["sref_ref_act"] = @ + x, !["sref_ref_pre"] = @ + y, !["spup_ref_pre"] = @ + z]
  <2>1. x \in Int /\ y \in Int /\ z \in Int /\ w + x + y + z = t + (RP - pre) /\ RP - pre \in 0..RFC
    <3>1. spent \in A..(RFC - 1)
      BY <1>7
    <3> HIDE DEF A, start, w, wa, wp, spent, pre
    <3>2. QED
      BY <1>0, <1>3, <3>1, <1>s, <1>t
  <2>2. c \in CyclesType /\ WindowCycles(c) = WindowCycles(cycles) + x + y + z
    <3>1. x \in Int /\ y \in Int /\ z \in Int
      BY <2>1
    <3>2. cycles \in CyclesType
      BY <1>4
    <3> HIDE DEF x, y, z
    <3>3. QED
      BY <3>1, <3>2, RaiseMiddle
  <2>3. Exit(t, RP - pre, c)
    BY <1>7
  <2> HIDE DEF c, x, y, z, A, start, w, wa, wp, spent, pre, gap
  <2>4. past.cycles + WindowCycles(c) = t + (RP - pre) /\ RP - pre \in 0..gap
    BY <1>0, <1>1, <1>4, <1>5, <2>1, <2>2
  <2>5. QED
    BY <1>1, <1>2, <1>5, <2>2, <2>3, <2>4, ExitCycles
<1>8. CASE /\ spent < A
           /\ Exit(t, RFC - spent,
                [cycles EXCEPT !.sref_ref_act = @ + (spent - wa), !.spup_ref_act = @ + (A - spent),
                               !.spup_ref_pre = @ + RP])
  <2> DEFINE x == spent - wa
             y == A - spent
             z == RP
             c == [cycles EXCEPT !["sref_ref_act"] = @ + x, !["spup_ref_act"] = @ + y, !["spup_ref_pre"] = @ + z]
  <2>1. x \in Int /\ y \in Int /\ z \in Int /\ w + x + y + z = t + (RFC - spent) /\ RFC - spent \in 0..RFC
    <3>1. spent < A
      BY <1>8
    <3> HIDE DEF A, start, w, wa, wp, spent, pre
    <3>2. QED
      BY <1>0, <1>3, <3>1, <1>s, <1>t
  <2>2. c \in CyclesType /\ WindowCycles(c) = WindowCycles(cycles) + x + y + z
    <3>1. x \in Int /\ y \in Int /\ z \in Int
      BY <2>1
    <3>2. cycles \in CyclesType
      BY <1>4
    <3> HIDE DEF x, y, z
    <3>3. QED
      BY <3>1, <3>2, RaiseShort
  <2>3. Exit(t, RFC - spent, c)
    BY <1>8
  <2> HIDE DEF c, x, y, z, A, start, w, wa, wp, spent, pre, gap
  <2>4. past.cycles + WindowCycles(c) = t + (RFC - spent) /\ RFC - spent \in 0..gap
    BY <1>0, <1>1, <1>4, <1>5, <2>1, <2>2
  <2>5. QED
    BY <1>1, <1>2, <1>5, <2>2, <2>3, <2>4, ExitCycles
<1>9. QED
  BY <1>6, <1>7, <1>8 DEF SREx

-----------------------------------------------------------------------------
\* The end of a window.  An idle counter is raised with the one of its state.
LEMMA RaiseWithIdle ==
  ASSUME NEW c \in CyclesType, NEW x \in Int, NEW z \in Int
  PROVE  /\ WindowCycles([c EXCEPT !["act"] = @ + x, !["idle_act"] = @ + z]) = WindowCycles(c) + x
         /\ WindowCycles([c EXCEPT !["pre"] = @ + x, !["idle_pre"] = @ + z]) = WindowCycles(c) + x
<1>1. WindowCycles([c EXCEPT !["act"] = @ + x, !["idle_act"] = @ + z]) = WindowCycles(c) + x
  BY DEF WindowCycles, CyclesType, Counter
<1>2. WindowCycles([c EXCEPT !["pre"] = @ + x, !["idle_pre"] = @ + z]) = WindowCycles(c) + x
  BY DEF WindowCycles, CyclesType, Counter
<1>3. QED
  BY <1>1, <1>2

\* RefreshCycles(t) are the cycles from the last window up to t, and complete what past
\* windows counted of the first refresh.
LEMMA RefreshParts ==
  ASSUME CycleInv, NEW t \in Nat, t > clk, mem_state = "sref"
  PROVE  /\ RefreshCycles(t).act \in Int /\ RefreshCycles(t).pre \in Int
         /\ RefreshCycles(t).sref \in Int
         /\ at.sref_window + RefreshCycles(t).act + RefreshCycles(t).pre
              + RefreshCycles(t).sref = t
         /\ window_ref.act + RefreshCycles(t).act = Earlier(t - at.sref, RFC - RP)
         /\ window_ref.pre + RefreshCycles(t).pre = Earlier(Max0(t - at.sref - (RFC - RP)), RP)
<1> DEFINE s == at.sref
           w == at.sref_window
           wa == window_ref.act
           wp == window_ref.pre
           a == Max0(Earlier(t, s + RFC - RP) - Later(w, s))
           b == Max0(Earlier(t, s + RFC) - Later(w, s + RFC - RP))
           c == Max0(t - Later(w, s + RFC))
<1>0. RFC \in Nat /\ RP \in Nat /\ RP < RFC /\ clk \in Nat
  BY ConstantTypes DEF CycleInv, Types
<1>1. s \in Int /\ w \in Int /\ wa \in Int /\ wp \in Int
  BY DEF CycleInv, Types, AtType, Stamp
<1>2. /\ s <= w /\ w <= clk + 1 /\ wa = Earlier(w - s, RFC - RP)
      /\ wp = Earlier(Max0(w - s - (RFC - RP)), RP)
  BY DEF CycleInv, Stamps
<1>3. RefreshCycles(t).act = a /\ RefreshCycles(t).pre = b /\ RefreshCycles(t).sref = c
  BY DEF RefreshCycles
<1> HIDE DEF s, w, wa, wp
<1>4. w <= t
  BY <1>0, <1>1, <1>2
<1>5. a \in Int /\ b \in Int /\ c \in Int
  BY <1>0, <1>1 DEF Max0, Earlier, Later
<1>6. w + a + b + c = t
  BY <1>0, <1>1, <1>2, <1>4 DEF Max0, Earlier, Later
<1>7. wa + a = Earlier(t - s, RFC - RP)
  BY <1>0, <1>1, <1>2, <1>4 DEF Max0, Earlier, Later
<1>8. wp + b = Earlier(Max0(t - s - (RFC - RP)), RP)
  BY <1>0, <1>1, <1>2, <1>4 DEF Max0, Earlier, Later
<1>9. QED
  BY <1>3, <1>5, <1>6, <1>7, <1>8 DEF s, w, wa, wp

LEMMA EndCounts ==
  ASSUME CycleInv, NEW t \in Nat, t > clk
  PROVE  past.cycles + WindowCycles(AtEnd(t)) =
           IF mem_state = "not_in_pd" /\ bank_state = {} THEN Later(t, at.last_pre) ELSE t
<1>0. /\ cycles \in CyclesType /\ WindowCycles(cycles) \in Int /\ past.cycles \in Int
      /\ at \in AtType /\ mem_state \in {"not_in_pd", "sref"} \cup PowerDown
  BY SumType DEF CycleInv, Types
<1>1. CASE mem_state = "sref"
  <2> DEFINE x == RefreshCycles(t).act
             y == RefreshCycles(t).pre
             z == RefreshCycles(t).sref
  <2>1. x \in Int /\ y \in Int /\ z \in Int /\ at.sref_window + x + y + z = t
    BY <1>1, RefreshParts
  <2>2. AtEnd(t) = [cycles EXCEPT !["sref_ref_act"] = @ + x, !["sref_ref_pre"] = @ + y,
                                  !["sref"] = @ + z]
    BY <1>1 DEF AtEnd
  <2>3. past.cycles + WindowCycles(cycles) = at.sref_window /\ at.sref_window \in Int
    BY <1>0, <1>1 DEF CycleInv, CyclesCountedOnce, CountedTo, AtType, Stamp
  <2>4. x \in Int /\ y \in Int /\ z \in Int
    BY <2>1
  <2> HIDE DEF x, y, z
  <2>5. WindowCycles(AtEnd(t)) = WindowCycles(cycles) + x + y + z
    <3>1. cycles \in CyclesType
      BY <1>0
    <3>2. WindowCycles([cycles EXCEPT !["sref_ref_act"] = @ + x, !["sref_ref_pre"] = @ + y,
                                      !["sref"] = @ + z]) = WindowCycles(cycles) + x + y + z
      BY <2>4, <3>1, RaiseLong
    <3>3. QED
      BY <2>2, <3>2
  <2>6. QED
    BY <1>0, <1>1, <2>1, <2>3, <2>5
<1>2. CASE mem_state \in PowerDown
  <2> DEFINE x == t - at.pdn
  <2>1. Max0(t - at.pdn) = x /\ at.pdn \in Int /\ past.cycles + WindowCycles(cycles) = at.pdn
    BY <1>2, PowerDownEnds
  <2>2. mem_state \in Summed /\ mem_state # "sref" /\ mem_state # "not_in_pd"
    BY <1>2 DEF PowerDown, Summed
  <2>3. AtEnd(t) = [cycles EXCEPT ![mem_state] = @ + x]
    BY <2>1, <2>2 DEF AtEnd
  <2>4. x \in Int
    BY <2>1
  <2>5. x + at.pdn = t
    BY <2>1
  <2> HIDE DEF x
  <2>6. WindowCycles(AtEnd(t)) = WindowCycles(cycles) + x
    BY <1>0, <2>2, <2>3, <2>4, RaiseOne
  <2>7. QED
    BY <1>0, <2>1, <2>2, <2>4, <2>5, <2>6
<1>3. CASE mem_state = "not_in_pd" /\ bank_state # {}
  <2> DEFINE x == t - at.first_act
             z == IdleAct(t)
  <2>1. /\ Max0(t - at.first_act) = x /\ at.first_act \in Int /\ z \in Int
        /\ past.cycles + WindowCycles(cycles) = at.first_act
    BY <1>3, ActiveTime
  <2>2. AtEnd(t) = [cycles EXCEPT !["act"] = @ + x, !["idle_act"] = @ + z]
    BY <1>3, <2>1 DEF AtEnd
  <2>3. x \in Int /\ x + at.first_act = t
    BY <2>1
  <2> HIDE DEF x, z
  <2>4. WindowCycles(AtEnd(t)) = WindowCycles(cycles) + x
    <3>1. cycles \in CyclesType /\ x \in Int /\ z \in Int
      BY <1>0, <2>1, <2>3
    <3>2. WindowCycles([cycles EXCEPT !["act"] = @ + x, !["idle_act"] = @ + z])
            = WindowCycles(cycles) + x
      BY <3>1, RaiseWithIdle
    <3>3. QED
      BY <2>2, <3>2
  <2>5. QED
    BY <1>0, <1>3, <2>1, <2>3, <2>4
<1>4. CASE mem_state = "not_in_pd" /\ bank_state = {}
  <2> DEFINE x == Max0(t - at.last_pre)
             z == IdlePre(t)
  <2>1. /\ at.last_pre \in Int /\ past.cycles + WindowCycles(cycles) = at.last_pre
    BY <1>0, <1>4 DEF CycleInv, CyclesCountedOnce, CountedTo, AtType, Stamp
  <2>2. AtEnd(t) = [cycles EXCEPT !["pre"] = @ + x, !["idle_pre"] = @ + z]
    BY <1>4 DEF AtEnd
  <2>3. x \in Int /\ at.last_pre + x = Later(t, at.last_pre)
    BY <2>1 DEF Max0, Later
  <2>4. z \in Int
    BY <1>0, IdleTypes
  <2> HIDE DEF x, z
  <2>5. WindowCycles(AtEnd(t)) = WindowCycles(cycles) + x
    <3>1. cycles \in CyclesType /\ x \in Int /\ z \in Int
      BY <1>0, <2>3, <2>4
    <3>2. WindowCycles([cycles EXCEPT !["pre"] = @ + x, !["idle_pre"] = @ + z])
            = WindowCycles(cycles) + x
      BY <3>1, RaiseWithIdle
    <3>3. QED
      BY <2>2, <3>2
  <2>6. QED
    BY <1>0, <1>4, <2>1, <2>3, <2>5
<1>5. QED
  BY <1>0, <1>1, <1>2, <1>3, <1>4

LEMMA WindowEnds ==
  ASSUME CycleInv, NEW t \in (clk + 1)..(MaxTime + 1), Window(t)
  PROVE  CycleInv'
<1>0. t \in Nat /\ t > clk /\ clk \in Nat /\ ready \in Nat /\ MaxTime \in Nat
  BY TimingAssumption DEF CycleInv, Types
<1>1. /\ clk' = t - 1 /\ ready' = ready /\ cycles' = NoCycles /\ at' = Cleared(t)
      /\ past'.cycles = past.cycles + WindowCycles(AtEnd(t))
      /\ UNCHANGED <<bank_state, last_bank_state, mem_state>>
  BY DEF Window, state
<1>2. /\ at \in AtType /\ past.cycles \in Int /\ window_ref \in [act : Int, pre : Int]
      /\ mem_state \in {"not_in_pd", "sref"} \cup PowerDown
  BY DEF CycleInv, Types
<1>3. cycles' \in CyclesType /\ WindowCycles(cycles') = 0
  BY <1>1 DEF NoCycles, CyclesType, Counter, WindowCycles
<1>4. /\ at' \in AtType /\ at'.first_act = t /\ at'.pdn = t /\ at'.sref_window = t
      /\ at'.sref = at.sref /\ at'.last_pre = Later(t, at.last_pre)
  <2> DEFINE lp == Later(t, at.last_pre)
             np == Later(t, at.latest_pre)
             la == IF at.latest_act < t THEN -1 ELSE at.latest_act
  <2>1. lp \in Int /\ np \in Int /\ la \in Int
    BY <1>0, <1>2 DEF AtType, Stamp, Later
  <2>2. at' = [at EXCEPT !.first_act = t, !.pdn = t, !.sref_window = t,
             !.end_act = t, !.end_rd = t, !.end_wr = t, !.latest_rd = -1, !.latest_wr = -1,
             !.last_pre = lp, !.latest_pre = np, !.latest_act = la]
    BY <1>1 DEF Cleared
  <2> HIDE DEF lp, np, la
  <2>3. at' \in AtType
    <3>1. /\ DOMAIN at' = Stamp
          /\ at' = [k \in Stamp |-> at'[k]]
      BY <1>2, <2>2 DEF AtType
    <3>2. at'.sref \in Int
      BY <1>2, <2>2 DEF AtType, Stamp
    <3>3. {at'.first_act, at'.pdn, at'.sref_window, at'.end_act, at'.end_rd, at'.end_wr} = {t}
      BY <1>2, <2>2 DEF AtType, Stamp
    <3>4. at'.latest_rd = -1 /\ at'.latest_wr = -1
      BY <1>2, <2>2 DEF AtType, Stamp
    <3>5. at'.last_pre = lp /\ at'.latest_pre = np /\ at'.latest_act = la
      BY <1>2, <2>2 DEF AtType, Stamp
    <3>6. \A k \in Stamp : at'[k] \in Int
      BY <1>0, <2>1, <3>2, <3>3, <3>4, <3>5 DEF Stamp
    <3>7. QED
      BY <3>1, <3>6 DEF AtType
  <2>4. /\ at'.first_act = t /\ at'.pdn = t /\ at'.sref_window = t
        /\ at'.sref = at.sref /\ at'.last_pre = lp
    BY <1>2, <2>2 DEF AtType, Stamp
  <2>5. QED
    BY <2>3, <2>4 DEF lp
<1>5. past'.cycles = IF mem_state = "not_in_pd" /\ bank_state = {}
                     THEN Later(t, at.last_pre) ELSE t
  BY <1>0, <1>1, EndCounts
<1>6. window_ref' \in [act : Int, pre : Int]
  <2>1. CASE mem_state = "sref"
    BY <1>0, <1>2, <2>1, RefreshParts DEF Window
  <2>2. CASE mem_state # "sref"
    BY <1>2, <2>2 DEF Window
  <2>3. QED
    BY <2>1, <2>2
<1>7. Types'
  <2>1. past'.cycles \in Int
    BY <1>0, <1>2, <1>5 DEF Later, AtType, Stamp
  <2>2. clk' \in Nat /\ ready' \in Nat
    BY <1>0, <1>1
  <2>3. QED
    BY <1>1, <1>2, <1>3, <1>4, <1>6, <2>1, <2>2 DEF Types
<1>8. Modes'
  BY <1>1 DEF CycleInv, Modes
<1>9. Stamps'
  <2>1. CASE mem_state = "sref"
    <3>1. /\ window_ref'.act = Earlier(t - at.sref, RFC - RP)
          /\ window_ref'.pre = Earlier(Max0(t - at.sref - (RFC - RP)), RP)
      BY <1>0, <2>1, RefreshParts DEF Window
    <3>2. at.sref <= t
      <4>1. at.sref \in Int /\ at.sref_window \in Int
        BY <1>2 DEF AtType, Stamp
      <4>2. QED
        BY <1>0, <2>1, <4>1 DEF CycleInv, Stamps
    <3>3. QED
      BY <1>0, <1>1, <1>4, <2>1, <3>1, <3>2 DEF Stamps, PowerDown
  <2>2. CASE mem_state = "not_in_pd" /\ bank_state = {}
    <3>1. at.last_pre <= Later(clk + 1, ready) /\ at.last_pre \in Int
      BY <1>2, <2>2 DEF CycleInv, Stamps, AtType, Stamp
    <3>2. Later(t, at.last_pre) <= Later(t, ready)
      BY <1>0, <3>1 DEF Later
    <3>3. clk' + 1 = t
      BY <1>0, <1>1
    <3>4. QED
      BY <1>1, <1>4, <2>2, <3>2, <3>3 DEF Stamps, PowerDown
  <2>3. CASE mem_state \in PowerDown \/ (mem_state = "not_in_pd" /\ bank_state # {})
    <3>1. clk' + 1 = t /\ t <= t
      BY <1>0, <1>1
    <3>2. QED
      BY <1>1, <1>4, <2>3, <3>1 DEF Stamps, PowerDown
  <2>4. mem_state = "sref" \/ mem_state = "not_in_pd" \/ mem_state \in PowerDown
    BY <1>2
  <2>5. QED
    BY <2>1, <2>2, <2>3, <2>4
<1>10. CyclesCountedOnce'
  <2>1. past'.cycles \in Int
    BY <1>0, <1>2, <1>5 DEF Later, AtType, Stamp
  <2>2. CountedTo' = past'.cycles
    BY <1>1, <1>2, <1>4, <1>5 DEF CountedTo, PowerDown
  <2>3. QED
    BY <1>3, <2>1, <2>2 DEF CyclesCountedOnce
<1>11. QED
  BY <1>7, <1>8, <1>9, <1>10 DEF CycleInv

-----------------------------------------------------------------------------
\* Every step keeps the invariant.
LEMMA StepCycles ==
  ASSUME CycleInv, [Next]_vars
  PROVE  CycleInv'
<1>1. CASE UNCHANGED vars
  <2>1. UNCHANGED <<bank_state, last_bank_state, mem_state, at, cycles, window_ref, clk, ready, past>>
    BY <1>1 DEF vars, state
  <2>2. Types' /\ Modes' /\ Stamps'
    BY <2>1 DEF CycleInv, Types, Modes, Stamps
  <2>3. CyclesCountedOnce'
    BY <2>1 DEF CycleInv, CyclesCountedOnce, CountedTo, WindowCycles
  <2>4. QED
    BY <2>2, <2>3 DEF CycleInv
<1>2. ASSUME NEW t \in (clk + 1)..(MaxTime + 1), Window(t)
      PROVE  CycleInv'
  BY <1>2, WindowEnds
<1>3. ASSUME NEW t \in (clk + 1)..MaxTime, NEW b \in Bank,
             \/ Act(t, b) \/ Rd(t, b) \/ Wr(t, b) \/ Pre(t, {b}) \/ RefB(t, b)
             \/ \E mats \in (SUBSET Mat) \ {{}} : PartialAct(t, b, mats)
      PROVE  CycleInv'
  <2>1. CASE Act(t, b) \/ \E mats \in (SUBSET Mat) \ {{}} : PartialAct(t, b, mats)
    BY <2>1, ActCycles DEF Act, PartialAct
  <2>2. CASE Rd(t, b)
    <3>1. /\ Issued(t, 1) /\ bank_state # {}
          /\ cycles' = [cycles EXCEPT !.idle_act = @ + IdleAct(t)]
          /\ at' = [Ended(at) EXCEPT !["latest_rd"] = t]
          /\ UNCHANGED <<bank_state, last_bank_state, mem_state, window_ref>>
      BY <2>2 DEF Rd, state
    <3>2. QED
      BY <3>1, ReadCycles
  <2>3. CASE Wr(t, b)
    <3>1. /\ Issued(t, 1) /\ bank_state # {}
          /\ cycles' = [cycles EXCEPT !.idle_act = @ + IdleAct(t)]
          /\ at' = [Ended(at) EXCEPT !["latest_wr"] = t]
          /\ UNCHANGED <<bank_state, last_bank_state, mem_state, window_ref>>
      BY <2>3 DEF Wr, state
    <3>2. QED
      BY <3>1, ReadCycles
  <2>4. CASE Pre(t, {b})
    BY <2>4, PreCycles
  <2>5. CASE RefB(t, b)
    BY <2>5, QuietCycles DEF RefB, state
  <2>6. QED
    BY <1>3, <2>1, <2>2, <2>3, <2>4, <2>5
<1>4. ASSUME NEW t \in (clk + 1)..MaxTime,
             \/ Pre(t, Bank) \/ Ref(t) \/ SREn(t) \/ SREx(t) \/ PupAct(t) \/ PupPre(t)
             \/ \E mode \in {"f_act_pd", "s_act_pd"} : PdnAct(t, mode)
             \/ \E mode \in {"f_pre_pd", "s_pre_pd"} : PdnPre(t, mode)
      PROVE  CycleInv'
  BY <1>4, PreCycles, RefCycles, SREnCycles, SRExCycles, PupActCycles, PupPreCycles,
     PdnActCycles, PdnPreCycles
<1>5. QED
  BY <1>1, <1>2, <1>3, <1>4 DEF Next

(***************************************************************************)
(* Every cycle is counted once, in one state of the rank: the windows      *)
(* together count up to the last change of state, whatever commands come,  *)
(* at whatever time after the rank is ready, and wherever windows end.     *)
(***************************************************************************)
THEOREM CyclesAreCountedOnce == Spec => []CyclesCountedOnce
<1>1. Init => CycleInv
  BY InitCycles
<1>2. CycleInv /\ [Next]_vars => CycleInv'
  BY StepCycles
<1>3. CycleInv => CyclesCountedOnce
  BY DEF CycleInv
<1>4. QED
  BY <1>1, <1>2, <1>3, PTL DEF Spec

-----------------------------------------------------------------------------
(***************************************************************************)
(* The rows that are open.                                                 *)
(***************************************************************************)
Tally == [{"act", "pre"} -> [Bank -> [Width -> Nat]]]

RowTypes ==
  /\ bank_state \subseteq Bank /\ last_bank_state \subseteq Bank
  /\ bank_partial_state \in [Bank -> Width]
  /\ mat_state \in [Bank -> SUBSET Mat]
  /\ number \in Tally
  /\ past.open \in [Bank -> [Width -> Int]]

\* The number of active mats is that of mat_state, a closed bank has none, and what was
\* counted of bank b tells how it is open.
BankRows(b) ==
  /\ bank_partial_state[b] = Cardinality(mat_state[b])
  /\ b \notin bank_state => mat_state[b] = {}
  /\ \A n \in Width : OpenRows[b][n] = IF b \in bank_state /\ n = bank_partial_state[b] THEN 1 ELSE 0

RowInv == RowTypes /\ \A b \in Bank : BankRows(b)

LEMMA WidthFacts ==
  ASSUME NEW mats \in SUBSET Mat
  PROVE  /\ Cardinality(mats) \in Width /\ Cardinality({}) = 0
         /\ Cardinality(mats) = 0 => mats = {}
<1>1. IsFiniteSet(Mat)
  BY TimingAssumption
<1>2. IsFiniteSet(mats) /\ Cardinality(mats) <= Cardinality(Mat)
  BY <1>1, FS_Subset
<1>3. Cardinality(mats) \in Nat /\ Cardinality(Mat) \in Nat
  BY <1>1, <1>2, FS_CardinalityType
<1>4. QED
  BY <1>2, <1>3, FS_EmptySet DEF Width

LEMMA RowFacts ==
  ASSUME RowTypes, NEW b \in Bank, NEW n \in Width
  PROVE  /\ OpenRows[b][n] = past.open[b][n] + number["act"][b][n] - number["pre"][b][n]
         /\ past.open[b][n] \in Int /\ number["act"][b][n] \in Nat /\ number["pre"][b][n] \in Nat
         /\ OpenRows[b][n] \in Int
<1>1. past.open[b][n] \in Int /\ number["act"][b][n] \in Nat /\ number["pre"][b][n] \in Nat
  BY DEF RowTypes, Tally
<1>2. OpenRows[b][n] = past.open[b][n] + number["act"][b][n] - number["pre"][b][n]
  BY DEF OpenRows
<1>3. QED
  BY <1>1, <1>2

LEMMA RowInit == Init => RowInv
<1> SUFFICES ASSUME Init PROVE RowInv
  OBVIOUS
<1>1. 0 \in Width /\ Cardinality({}) = 0
  BY WidthFacts
<1>2. RowTypes
  BY <1>1 DEF Init, RowTypes, Tally, NoCommands
<1>3. \A b \in Bank, n \in Width : OpenRows[b][n] = 0
  BY DEF Init, OpenRows, NoCommands
<1>4. QED
  BY <1>1, <1>2, <1>3 DEF Init, RowInv, BankRows

\* The tally after an activate that opens n mats of b
LEMMA OpenedFacts ==
  ASSUME number \in Tally, NEW b \in Bank, NEW n \in Width
  PROVE  /\ Opened(b, n) \in Tally
         /\ Opened(b, n)["act"][b][n] = number["act"][b][n] + 1
         /\ \A c \in Bank, m \in Width :
              /\ Opened(b, n)["pre"][c][m] = number["pre"][c][m]
              /\ (c # b \/ m # n) => Opened(b, n)["act"][c][m] = number["act"][c][m]
<1> DEFINE line == [number["act"][b] EXCEPT ![n] = @ + 1]
           acts == [number["act"] EXCEPT ![b] = line]
           o == Opened(b, n)
<1>1. number["act"] \in [Bank -> [Width -> Nat]] /\ number["pre"] \in [Bank -> [Width -> Nat]]
  BY DEF Tally
<1>2. line \in [Width -> Nat] /\ line[n] = number["act"][b][n] + 1
      /\ \A m \in Width : m # n => line[m] = number["act"][b][m]
  BY <1>1
<1>3. o = [number EXCEPT !["act"] = acts]
  BY DEF Opened
<1> HIDE DEF line
<1>4. acts \in [Bank -> [Width -> Nat]] /\ acts[b] = line
      /\ \A c \in Bank : c # b => acts[c] = number["act"][c]
  BY <1>1, <1>2
<1> HIDE DEF acts, o
<1>5. o \in Tally /\ o["act"] = acts /\ o["pre"] = number["pre"]
  BY <1>1, <1>3, <1>4 DEF Tally
<1>6. QED
  BY <1>2, <1>4, <1>5 DEF o

\* A bank that was closed opens with some of its mats, or with none for the whole bank.
LEMMA OpensRow ==
  ASSUME RowInv, NEW b \in Bank, b \notin bank_state, NEW mats \in SUBSET Mat,
         bank_state' = bank_state \cup {b}, UNCHANGED <<last_bank_state, past>>,
         number' = Opened(b, Cardinality(mats)),
         bank_partial_state' = [bank_partial_state EXCEPT ![b] = Cardinality(mats)],
         mat_state' = [mat_state EXCEPT ![b] = mats]
  PROVE  RowInv'
<1> DEFINE k == Cardinality(mats)
<1>1. k \in Width
  BY WidthFacts
<1>2. RowTypes /\ number \in Tally
  BY DEF RowInv, RowTypes
<1>3. /\ number' \in Tally
      /\ number'["act"][b][k] = number["act"][b][k] + 1
      /\ \A c \in Bank, m \in Width :
           /\ number'["pre"][c][m] = number["pre"][c][m]
           /\ (c # b \/ m # k) => number'["act"][c][m] = number["act"][c][m]
  BY <1>1, <1>2, OpenedFacts
<1>4. RowTypes'
  BY <1>1, <1>2, <1>3 DEF RowTypes
<1>5. ASSUME NEW c \in Bank
      PROVE  BankRows(c)'
  <2>1. BankRows(c)
    BY DEF RowInv
  <2>2. CASE c = b
    <3>1. bank_partial_state'[c] = k /\ mat_state'[c] = mats /\ c \in bank_state'
      BY <1>2, <2>2 DEF RowTypes
    <3>2. ASSUME NEW n \in Width
          PROVE  OpenRows'[c][n] = IF n = k THEN 1 ELSE 0
      <4>1. OpenRows[c][n] = 0
        BY <2>1, <2>2 DEF BankRows
      <4>2. /\ OpenRows[c][n] = past.open[c][n] + number["act"][c][n] - number["pre"][c][n]
            /\ past.open[c][n] \in Int /\ number["act"][c][n] \in Nat
            /\ number["pre"][c][n] \in Nat
        BY <1>2, RowFacts
      <4>3. OpenRows'[c][n] = past.open[c][n] + number'["act"][c][n] - number'["pre"][c][n]
        BY DEF OpenRows
      <4>4. /\ number'["pre"][c][n] = number["pre"][c][n]
            /\ number'["act"][c][n] = number["act"][c][n] + IF n = k THEN 1 ELSE 0
        BY <1>3, <2>2, <4>2
      <4> HIDE DEF k
      <4>5. QED
        BY <4>1, <4>2, <4>3, <4>4
    <3>3. QED
      BY <3>1, <3>2 DEF BankRows
  <2>3. CASE c # b
    <3>1. /\ bank_partial_state'[c] = bank_partial_state[c] /\ mat_state'[c] = mat_state[c]
          /\ (c \in bank_state' <=> c \in bank_state)
      BY <1>2, <2>3 DEF RowTypes
    <3>2. \A n \in Width : OpenRows'[c][n] = OpenRows[c][n]
      BY <1>3, <2>3 DEF OpenRows
    <3>3. QED
      BY <2>1, <3>1, <3>2 DEF BankRows
  <2>4. QED
    BY <2>2, <2>3
<1>6. QED
  BY <1>4, <1>5 DEF RowInv

LEMMA ClosesRows ==
  ASSUME RowInv, NEW t, NEW bs \in SUBSET bank_state, Close(t, bs),
         UNCHANGED <<last_bank_state, past>>
  PROVE  RowInv'
<1>1. RowTypes /\ number \in Tally /\ bs \subseteq Bank
  BY DEF RowInv, RowTypes
<1>2. /\ bank_state' = bank_state \ bs
      /\ bank_partial_state' = [b \in Bank |-> IF b \in bs THEN 0 ELSE bank_partial_state[b]]
      /\ mat_state' =
           [b \in Bank |-> IF b \in bs /\ bank_partial_state[b] > 0 THEN {} ELSE mat_state[b]]
  BY DEF Close
<1>3. number' = [number EXCEPT !["pre"] = Closed(bs)]
  BY DEF Close
<1>4. /\ number["pre"] \in [Bank -> [Width -> Nat]] /\ number["act"] \in [Bank -> [Width -> Nat]]
      /\ \A b \in Bank : bank_partial_state[b] \in Width
  BY <1>1 DEF RowTypes, Tally
<1>5. Closed(bs) \in [Bank -> [Width -> Nat]]
  <2>1. \A b \in Bank :
          [number["pre"][b] EXCEPT ![bank_partial_state[b]] = @ + 1] \in [Width -> Nat]
    BY <1>4
  <2>2. QED
    BY <1>4, <2>1 DEF Closed
<1>6. number' \in Tally /\ number'["act"] = number["act"] /\ number'["pre"] = Closed(bs)
  BY <1>1, <1>3, <1>4, <1>5 DEF Tally
<1>7. RowTypes'
  <2>1. 0 \in Width
    BY WidthFacts
  <2>2. bank_partial_state' \in [Bank -> Width] /\ mat_state' \in [Bank -> SUBSET Mat]
    BY <1>1, <1>2, <2>1 DEF RowTypes
  <2>3. QED
    BY <1>1, <1>2, <1>6, <2>2 DEF RowTypes
<1>8. ASSUME NEW c \in Bank
      PROVE  BankRows(c)'
  <2>1. BankRows(c)
    BY DEF RowInv
  <2>2. CASE c \in bs
    <3>1. mat_state[c] \in SUBSET Mat /\ bank_partial_state[c] = Cardinality(mat_state[c])
          /\ bank_partial_state[c] \in Width
      BY <1>1, <1>4, <2>1 DEF BankRows, RowTypes
    <3>2. mat_state'[c] = {} /\ bank_partial_state'[c] = 0 /\ c \notin bank_state'
      <4>1. Cardinality(mat_state[c]) = 0 => mat_state[c] = {}
        BY <3>1, WidthFacts
      <4>2. bank_partial_state[c] = 0 \/ bank_partial_state[c] > 0
        BY <3>1 DEF Width
      <4>3. QED
        BY <1>2, <2>2, <3>1, <4>1, <4>2
    <3>3. ASSUME NEW n \in Width
          PROVE  OpenRows'[c][n] = 0
      <4>1. OpenRows[c][n] = IF n = bank_partial_state[c] THEN 1 ELSE 0
        BY <2>1, <2>2 DEF BankRows
      <4>2. /\ OpenRows[c][n] = past.open[c][n] + number["act"][c][n] - number["pre"][c][n]
            /\ past.open[c][n] \in Int /\ number["act"][c][n] \in Nat
            /\ number["pre"][c][n] \in Nat
        BY <1>1, RowFacts
      <4>3. OpenRows'[c][n] = past.open[c][n] + number'["act"][c][n] - number'["pre"][c][n]
        BY DEF OpenRows
      <4>4. number'["pre"][c][n] = number["pre"][c][n] + IF n = bank_partial_state[c] THEN 1 ELSE 0
        BY <1>4, <1>6, <2>2, <4>2 DEF Closed
      <4>5. number'["act"][c][n] = number["act"][c][n]
        BY <1>6
      <4>6. QED
        BY <4>1, <4>2, <4>3, <4>4, <4>5
    <3>4. Cardinality({}) = 0
      BY WidthFacts
    <3>5. QED
      BY <3>2, <3>3, <3>4 DEF BankRows
  <2>3. CASE c \notin bs
    <3>1. /\ bank_partial_state'[c] = bank_partial_state[c] /\ mat_state'[c] = mat_state[c]
          /\ (c \in bank_state' <=> c \in bank_state)
      BY <1>2, <2>3
    <3>2. \A n \in Width : OpenRows'[c][n] = OpenRows[c][n]
      BY <1>6, <2>3 DEF OpenRows, Closed
    <3>3. QED
      BY <2>1, <3>1, <3>2 DEF BankRows
  <2>4. QED
    BY <2>2, <2>3
<1>9. QED
  BY <1>7, <1>8 DEF RowInv

LEMMA WindowRows ==
  ASSUME RowInv, NEW t, Window(t)
  PROVE  RowInv'
<1>1. /\ past'.open = OpenRows /\ number' = NoCommands
      /\ UNCHANGED <<bank_state, last_bank_state, bank_partial_state, mat_state>>
  BY DEF Window, state
<1>2. RowTypes
  BY DEF RowInv
<1>3. OpenRows \in [Bank -> [Width -> Int]]
  <2>1. \A b \in Bank, n \in Width : OpenRows[b][n] \in Int
    BY <1>2, RowFacts
  <2>2. \A b \in Bank, n \in Width :
          past.open[b][n] + number["act"][b][n] - number["pre"][b][n] \in Int
    BY <2>1 DEF OpenRows
  <2>3. QED
    BY <2>2 DEF OpenRows
<1>4. RowTypes'
  BY <1>1, <1>2, <1>3 DEF RowTypes, Tally, NoCommands
<1>5. \A b \in Bank, n \in Width : OpenRows'[b][n] = OpenRows[b][n]
  <2>1. \A b \in Bank, n \in Width : OpenRows'[b][n] = OpenRows[b][n] + 0 - 0
    BY <1>1 DEF OpenRows, NoCommands
  <2>2. QED
    BY <1>2, <2>1, RowFacts
<1>6. ASSUME NEW b \in Bank
      PROVE  BankRows(b)'
  BY <1>1, <1>5 DEF RowInv, BankRows
<1>7. QED
  BY <1>4, <1>6 DEF RowInv

LEMMA SameRows ==
  ASSUME RowInv, last_bank_state' \subseteq Bank, past'.open = past.open,
         UNCHANGED <<bank_state, bank_partial_state, mat_state, number>>
  PROVE  RowInv'
<1>1. RowTypes'
  BY DEF RowInv, RowTypes
<1>2. ASSUME NEW b \in Bank
      PROVE  BankRows(b)'
  <2>1. \A n \in Width : OpenRows'[b][n] = OpenRows[b][n]
    BY DEF OpenRows
  <2>2. QED
    BY <2>1 DEF RowInv, BankRows
<1>3. QED
  BY <1>1, <1>2 DEF RowInv

LEMMA StepRows ==
  ASSUME CycleInv, RowInv, [Next]_vars
  PROVE  RowInv'
<1>0. bank_state \subseteq Bank /\ last_bank_state \subseteq Bank /\ RowTypes
  BY DEF RowInv, RowTypes
<1>1. CASE UNCHANGED vars
  BY <1>0, <1>1, SameRows DEF vars, state
<1>2. ASSUME NEW t \in (clk + 1)..(MaxTime + 1), Window(t)
      PROVE  RowInv'
  BY <1>2, WindowRows
<1>3. ASSUME NEW t \in (clk + 1)..MaxTime, NEW b \in Bank, Act(t, b)
      PROVE  RowInv'
  <2>1. /\ b \notin bank_state /\ bank_state' = bank_state \cup {b}
        /\ UNCHANGED <<last_bank_state, past, bank_partial_state, mat_state>>
        /\ number' = Opened(b, 0)
    BY <1>3 DEF Act, Issued
  <2>2. bank_partial_state[b] = 0 /\ mat_state[b] = {} /\ Cardinality({}) = 0
    BY <2>1, WidthFacts DEF RowInv, BankRows
  <2>3. /\ bank_partial_state' = [bank_partial_state EXCEPT ![b] = Cardinality({})]
        /\ mat_state' = [mat_state EXCEPT ![b] = {}]
    BY <1>0, <2>1, <2>2 DEF RowTypes
  <2>4. QED
    BY <2>1, <2>2, <2>3, OpensRow
<1>4. ASSUME NEW t \in (clk + 1)..MaxTime, NEW b \in Bank, NEW mats \in SUBSET Mat,
             PartialAct(t, b, mats)
      PROVE  RowInv'
  <2>1. /\ b \notin bank_state /\ bank_state' = bank_state \cup {b}
        /\ UNCHANGED <<last_bank_state, past>>
        /\ number' = Opened(b, Cardinality(mats))
        /\ bank_partial_state' =
             [bank_partial_state EXCEPT ![b] = @ + Cardinality(mats \ mat_state[b])]
        /\ mat_state' = [mat_state EXCEPT ![b] = @ \cup mats]
    BY <1>4 DEF PartialAct, Issued
  <2>2. bank_partial_state[b] = 0 /\ mat_state[b] = {}
    BY <2>1, WidthFacts DEF RowInv, BankRows
  <2>3. mats \ mat_state[b] = mats /\ mat_state[b] \cup mats = mats
    BY <2>2
  <2>4. 0 + Cardinality(mats) = Cardinality(mats)
    BY WidthFacts DEF Width
  <2>5. /\ bank_partial_state' = [bank_partial_state EXCEPT ![b] = Cardinality(mats)]
        /\ mat_state' = [mat_state EXCEPT ![b] = mats]
    BY <2>1, <2>2, <2>3, <2>4
  <2>6. QED
    BY <2>1, <2>5, OpensRow
<1>5. ASSUME NEW t \in (clk + 1)..MaxTime, NEW bs \in SUBSET Bank, Pre(t, bs)
      PROVE  RowInv'
  <2>1. UNCHANGED <<last_bank_state, past>>
    BY <1>5 DEF Pre, Issued
  <2>2. CASE bs \cap bank_state = {}
    BY <1>0, <1>5, <2>1, <2>2, SameRows DEF Pre
  <2>3. CASE bs \cap bank_state # {}
    BY <1>5, <2>1, <2>3, ClosesRows DEF Pre
  <2>4. QED
    BY <2>2, <2>3
<1>6. ASSUME NEW t \in (clk + 1)..MaxTime, Ref(t)
      PROVE  RowInv'
  <2>1. bank_state = {} /\ mat_state' = [b \in Bank |-> {}]
        /\ UNCHANGED <<bank_state, last_bank_state, bank_partial_state, number, past>>
    BY <1>6 DEF Ref, Issued
  <2>2. mat_state \in [Bank -> SUBSET Mat] /\ \A b \in Bank : mat_state[b] = {}
    BY <2>1 DEF RowInv, RowTypes, BankRows
  <2>3. mat_state' = mat_state
    BY <2>1, <2>2
  <2>4. QED
    BY <1>0, <2>1, <2>3, SameRows
<1>7. ASSUME NEW t \in (clk + 1)..MaxTime, PupAct(t)
      PROVE  RowInv'
  <2>1. mem_state \in {"f_act_pd", "s_act_pd"} /\ bank_state' = last_bank_state
        /\ UNCHANGED <<last_bank_state, bank_partial_state, mat_state, number, past>>
    BY <1>7 DEF PupAct, Leaves
  <2>2. last_bank_state = bank_state
    BY <2>1 DEF CycleInv, Modes
  <2>3. QED
    BY <1>0, <2>1, <2>2, SameRows
<1>8. ASSUME NEW t \in (clk + 1)..MaxTime, NEW mode, PdnAct(t, mode)
      PROVE  RowInv'
  BY <1>0, <1>8, SameRows DEF PdnAct, Issued
<1>9. ASSUME NEW t \in (clk + 1)..MaxTime, NEW mode, PdnPre(t, mode)
      PROVE  RowInv'
  BY <1>0, <1>9, SameRows DEF PdnPre, Issued
<1>10. ASSUME NEW t \in (clk + 1)..MaxTime, NEW b \in Bank, Rd(t, b) \/ Wr(t, b) \/ RefB(t, b)
       PROVE  RowInv'
  BY <1>0, <1>10, SameRows DEF Rd, Wr, RefB, Issued, state
<1>11. ASSUME NEW t \in (clk + 1)..MaxTime, PupPre(t) \/ SREn(t) \/ SREx(t)
       PROVE  RowInv'
  BY <1>0, <1>11, SameRows DEF PupPre, SREn, SREx, Issued, Leaves
<1>12. QED
  BY <1>1, <1>2, <1>3, <1>4, <1>5, <1>6, <1>7, <1>8, <1>9, <1>10, <1>11 DEF Next

LEMMA RowInvariant == Spec => [](CycleInv /\ RowInv)
<1>1. CycleInv /\ RowInv /\ [Next]_vars => (CycleInv /\ RowInv)'
  BY StepCycles, StepRows
<1>2. QED
  BY InitCycles, RowInit, <1>1, PTL DEF Spec

(***************************************************************************)
(* The activations of n mats that have no precharge yet are the open rows  *)
(* with n mats: a bank is closed under the number of mats it was opened    *)
(* with, and in whichever window (handlePartialAct, handlePre, handlePreA, *)
(* CmdHandlers.cc).                                                        *)
(***************************************************************************)
THEOREM RowsArePaired == Spec => []RowsPaired
<1>1. RowInv => RowsPaired
  BY DEF RowInv, BankRows, RowsPaired
<1>2. QED
  BY <1>1, RowInvariant, PTL

-----------------------------------------------------------------------------
(***************************************************************************)
(* The counters of a window, and the idle cycles among them.               *)
(***************************************************************************)
CyclesNat == [Counter -> Nat]

\* The end of the last operation of stamps a
LastEnd(a) == Later(Later(Ended(a).end_rd, Ended(a).end_wr), Ended(a).end_act)

\* The rank is active and awake.
Active == mem_state = "not_in_pd" /\ bank_state # {}

\* The idle cycles that were counted lie before the last operation ended and before the
\* last command, so no cycle is counted again with the next.
Idle ==
  /\ cycles.idle_act <= cycles.act
       + IF Active THEN Max0(Earlier(clk, LastEnd(at)) - at.first_act) ELSE 0
  /\ Active => at.first_act <= LastEnd(at)

BankTimes ==
  /\ actcyclesBanks \in [Bank -> Nat]
  /\ first_act_cycle_banks \in [Bank -> Int]

Refs == window_ref.act \in 0..(RFC - RP) /\ window_ref.pre \in 0..RP

CounterInv == cycles \in CyclesNat /\ Idle

LEMMA TimingFacts ==
  /\ RP \in Nat /\ RP > 0 /\ RCD \in Nat /\ RCD > 0 /\ RAS \in Nat /\ RFC \in Nat
  /\ XP \in Nat /\ XPDLL \in Nat /\ XS \in Nat /\ XSDLL \in Nat
  /\ CompleteRD \in Nat /\ CompleteRD > 0 /\ CompleteWR \in Nat /\ CompleteWR > 0
  /\ RP < RFC /\ RFC <= XS /\ RFC + RCD <= XSDLL /\ RCD <= XPDLL
BY TimingAssumption

LEMMA MaxFacts ==
  ASSUME NEW x \in Int
  PROVE  Max0(x) \in Nat /\ Max0(x) >= x /\ (x >= 0 => Max0(x) = x)
BY DEF Max0

LEMMA EndFacts ==
  ASSUME NEW a \in AtType
  PROVE  /\ LastEnd(a) \in Int
         /\ a.latest_rd >= 0 => LastEnd(a) >= a.latest_rd
         /\ a.latest_wr >= 0 => LastEnd(a) >= a.latest_wr
         /\ a.latest_act >= 0 => LastEnd(a) >= a.latest_act
         /\ a.latest_rd < 0 => LastEnd(a) >= a.end_rd
<1> DEFINE rd  == IF a.latest_rd >= 0 THEN a.latest_rd + CompleteRD - 1 ELSE a.end_rd
           wr  == IF a.latest_wr >= 0 THEN a.latest_wr + CompleteWR - 1 ELSE a.end_wr
           act == IF a.latest_act >= 0 THEN a.latest_act + RCD - 1 ELSE a.end_act
<1>1. /\ rd \in Int /\ wr \in Int /\ act \in Int
      /\ a.latest_rd >= 0 => rd >= a.latest_rd
      /\ a.latest_wr >= 0 => wr >= a.latest_wr
      /\ a.latest_act >= 0 => act >= a.latest_act
      /\ a.latest_rd < 0 => rd >= a.end_rd
      /\ a.latest_rd \in Int /\ a.latest_wr \in Int /\ a.latest_act \in Int /\ a.end_rd \in Int
  BY TimingFacts DEF AtType, Stamp
<1>2. Ended(a) = [a EXCEPT !.end_rd = rd, !.end_wr = wr, !.end_act = act]
  BY DEF Ended
<1> HIDE DEF rd, wr, act
<1>3. Ended(a).end_rd = rd /\ Ended(a).end_wr = wr /\ Ended(a).end_act = act
  BY <1>2 DEF AtType, Stamp
<1>4. LastEnd(a) = Later(Later(rd, wr), act)
  BY <1>3 DEF LastEnd
<1>5. LastEnd(a) \in Int /\ LastEnd(a) >= rd /\ LastEnd(a) >= wr /\ LastEnd(a) >= act
  BY <1>1, <1>4 DEF Later
<1>6. QED
  BY <1>1, <1>5

LEMMA RaiseNat ==
  ASSUME NEW c \in CyclesNat, NEW f \in Counter, NEW x \in Nat
  PROVE  [c EXCEPT ![f] = @ + x] \in CyclesNat
BY DEF CyclesNat

LEMMA RaiseTwoNat ==
  ASSUME NEW c \in CyclesNat, NEW f \in Counter, NEW x \in Nat,
         NEW g \in Counter, NEW y \in Nat, f # g
  PROVE  [c EXCEPT ![f] = @ + x, ![g] = @ + y] \in CyclesNat
<1>1. c[f] + x \in Nat /\ c[g] + y \in Nat
  BY DEF CyclesNat
<1>2. \A v, w \in Nat : [c EXCEPT ![f] = v, ![g] = w] \in CyclesNat
  BY DEF CyclesNat
<1>3. QED
  BY <1>1, <1>2

LEMMA RaiseThreeNat ==
  ASSUME NEW c \in CyclesNat, NEW f \in Counter, NEW x \in Nat,
         NEW g \in Counter, NEW y \in Nat, NEW h \in Counter, NEW z \in Nat,
         f # g, f # h, g # h
  PROVE  [c EXCEPT ![f] = @ + x, ![g] = @ + y, ![h] = @ + z] \in CyclesNat
<1>1. c[f] + x \in Nat /\ c[g] + y \in Nat /\ c[h] + z \in Nat
  BY DEF CyclesNat
<1>2. \A u, v, w \in Nat : [c EXCEPT ![f] = u, ![g] = v, ![h] = w] \in CyclesNat
  BY DEF CyclesNat
<1>3. QED
  BY <1>1, <1>2

\* The idle cycles that a command counts at t, and the cycles that an active time counts
\* when it ends at t
LEMMA IdleBound ==
  ASSUME CycleInv, CounterInv, NEW t \in Nat, t > clk, Active
  PROVE  /\ IdleAct(t) \in Nat /\ t - at.first_act \in Nat
         /\ Max0(t - at.first_act) = t - at.first_act
         /\ cycles.idle_act + IdleAct(t) <= cycles.act + (t - at.first_act)
         /\ cycles.idle_act <= cycles.act + Max0(Earlier(t, LastEnd(at)) - at.first_act)
<1>1. /\ at \in AtType /\ at.first_act \in Int /\ clk \in Nat /\ at.first_act <= clk + 1
  BY DEF CycleInv, Types, AtType, Stamp, Stamps, Active
<1>2. LastEnd(at) \in Int
  BY <1>1, EndFacts
<1>3. IdleAct(t) = Max0(t - LastEnd(at))
  BY DEF IdleAct, LastEnd
<1>4. /\ cycles.idle_act <= cycles.act + Max0(Earlier(clk, LastEnd(at)) - at.first_act)
      /\ at.first_act <= LastEnd(at)
  BY DEF CounterInv, Idle
<1>5. cycles.idle_act \in Nat /\ cycles.act \in Nat
  BY DEF CounterInv, CyclesNat, Counter
<1> DEFINE e == LastEnd(at)
           s == at.first_act
           i == cycles.idle_act
           a == cycles.act
<1>6. /\ e \in Int /\ s \in Int /\ i \in Nat /\ a \in Nat /\ s <= e /\ s <= clk + 1 /\ clk \in Nat
      /\ i <= a + Max0(Earlier(clk, e) - s)
  BY <1>1, <1>2, <1>4, <1>5
<1> HIDE DEF e, s, i, a
<1>7. /\ Max0(t - e) \in Nat /\ t - s \in Nat /\ Max0(t - s) = t - s
      /\ i + Max0(t - e) <= a + (t - s)
      /\ i <= a + Max0(Earlier(t, e) - s)
  BY <1>6 DEF Max0, Earlier
<1>8. QED
  BY <1>3, <1>7 DEF e, s, i, a

LEMMA IdlePreNat ==
  ASSUME at \in AtType, NEW t \in Nat
  PROVE  IdlePre(t) \in Nat
BY TimingFacts DEF AtType, Stamp, IdlePre, Max0

\* Idle after a step that counts no idle cycles of the active rank and leaves it inactive
LEMMA IdleInactive ==
  ASSUME cycles \in CyclesNat, cycles' \in CyclesNat, ~Active',
         cycles'.idle_act <= cycles'.act
  PROVE  CounterInv'
<1>1. cycles'.act \in Nat /\ cycles'.idle_act \in Nat
  BY DEF CyclesNat, Counter
<1>2. cycles'.idle_act <= cycles'.act + 0
  BY <1>1
<1>3. QED
  BY <1>2 DEF CounterInv, Idle

\* Idle after a step that leaves the rank active, its last operation ending at t or later
LEMMA IdleActive ==
  ASSUME cycles' \in CyclesNat, NEW t \in Nat, clk' = t, at' \in AtType,
         at'.first_act <= t, LastEnd(at') >= t,
         cycles'.idle_act <= cycles'.act + (t - at'.first_act), Active'
  PROVE  CounterInv'
<1>1. cycles'.act \in Nat /\ cycles'.idle_act \in Nat /\ at'.first_act \in Int
      /\ LastEnd(at') \in Int
  BY EndFacts DEF CyclesNat, Counter, AtType, Stamp
<1>2. Max0(Earlier(t, LastEnd(at')) - at'.first_act) = t - at'.first_act
  BY <1>1 DEF Max0, Earlier
<1>3. cycles'.idle_act <= cycles'.act + Max0(Earlier(clk', LastEnd(at')) - at'.first_act)
  BY <1>2
<1>4. at'.first_act <= LastEnd(at')
  BY <1>1
<1>5. QED
  BY <1>3, <1>4 DEF CounterInv, Idle

\* Idle after a step that only lets time pass
LEMMA IdleWaits ==
  ASSUME CycleInv, CounterInv, NEW t \in Nat, t > clk, clk' = t, mem_state = "not_in_pd",
         UNCHANGED <<cycles, bank_state, mem_state>>,
         LastEnd(at') = LastEnd(at), at'.first_act = at.first_act
  PROVE  CounterInv'
<1>1. CASE Active
  <2>1. cycles.idle_act <= cycles.act + Max0(Earlier(t, LastEnd(at)) - at.first_act)
    BY <1>1, IdleBound
  <2>2. QED
    BY <1>1, <2>1 DEF CounterInv, Idle, Active
<1>2. CASE ~Active
  BY <1>2 DEF CounterInv, Idle, Active
<1>3. QED
  BY <1>1, <1>2

LEMMA CountTypes ==
  ASSUME CounterInv
  PROVE  /\ cycles \in CyclesNat /\ cycles.idle_act \in Nat /\ cycles.act \in Nat
         /\ ~Active => cycles.idle_act <= cycles.act
<1>1. cycles \in CyclesNat
  BY DEF CounterInv
<1>2. cycles.idle_act \in Nat /\ cycles.act \in Nat
  BY <1>1 DEF CyclesNat, Counter
<1>3. ~Active => cycles.idle_act <= cycles.act + 0
  BY DEF CounterInv, Idle
<1>4. QED
  BY <1>1, <1>2, <1>3

LEMMA IssuedTime ==
  ASSUME CycleInv, NEW t \in (clk + 1)..MaxTime, NEW gap, Issued(t, gap)
  PROVE  /\ t \in Nat /\ t > clk /\ clk' = t /\ mem_state = "not_in_pd" /\ at \in AtType
         /\ IdlePre(t) \in Nat /\ Max0(t - at.last_pre) \in Nat
<1>1. t \in Nat /\ t > clk /\ at \in AtType
  BY TimeFacts DEF CycleInv, Types
<1>2. at.last_pre \in Int
  BY <1>1 DEF AtType, Stamp
<1>3. QED
  BY <1>1, <1>2, IdlePreNat, MaxFacts DEF Issued

LEMMA ActCounters ==
  ASSUME CycleInv, CounterInv, NEW t \in (clk + 1)..MaxTime, Issued(t, 1), bank_state' # {},
         EndPrecharged(t), UNCHANGED mem_state
  PROVE  CounterInv'
<1>1. /\ t \in Nat /\ t > clk /\ clk' = t /\ mem_state = "not_in_pd" /\ at \in AtType
      /\ IdlePre(t) \in Nat /\ Max0(t - at.last_pre) \in Nat
  BY IssuedTime
<1>2. Active'
  BY <1>1 DEF Active
<1>3. /\ cycles \in CyclesNat /\ cycles.idle_act \in Nat /\ cycles.act \in Nat
      /\ ~Active => cycles.idle_act <= cycles.act
  BY CountTypes
<1>4. CASE bank_state = {}
  <2> DEFINE x == Max0(t - at.last_pre)
             z == IdlePre(t)
  <2>1. /\ cycles' = [cycles EXCEPT !["pre"] = @ + x, !["idle_pre"] = @ + z]
        /\ at' = [at EXCEPT !.first_act = t, !.latest_act = t]
    BY <1>4 DEF EndPrecharged
  <2>2. x \in Nat /\ z \in Nat
    BY <1>1
  <2> HIDE DEF x, z
  <2>3. cycles' \in CyclesNat
    BY <1>3, <2>1, <2>2, RaiseTwoNat DEF Counter
  <2>4. cycles'.idle_act = cycles.idle_act /\ cycles'.act = cycles.act
    BY <1>3, <2>1 DEF CyclesNat, Counter
  <2>5. at' \in AtType /\ at'.first_act = t /\ at'.latest_act = t
    <3>1. t \in Int
      BY <1>1
    <3>2. QED
      BY <1>1, <2>1, <3>1 DEF AtType, Stamp
  <2>6. LastEnd(at') >= t
    BY <1>1, <2>5, EndFacts
  <2>7. cycles'.idle_act <= cycles'.act + (t - at'.first_act) /\ at'.first_act <= t
    BY <1>1, <1>3, <1>4, <2>4, <2>5 DEF Active
  <2>8. QED
    BY <1>1, <1>2, <2>3, <2>5, <2>6, <2>7, IdleActive
<1>5. CASE bank_state # {}
  <2>1. cycles' = cycles /\ at' = [at EXCEPT !.latest_act = t]
    BY <1>5 DEF EndPrecharged
  <2>2. at' \in AtType /\ at'.first_act = at.first_act /\ at'.latest_act = t
    BY <1>1, <2>1 DEF AtType, Stamp
  <2>3. LastEnd(at') >= t
    BY <1>1, <2>2, EndFacts
  <2>4. /\ IdleAct(t) \in Nat /\ t - at.first_act \in Nat
        /\ cycles.idle_act + IdleAct(t) <= cycles.act + (t - at.first_act)
    BY <1>1, <1>5, IdleBound DEF Active
  <2>5. cycles.idle_act <= cycles.act + (t - at.first_act)
    BY <1>3, <2>4
  <2>6. at.first_act \in Int
    BY <1>1 DEF AtType, Stamp
  <2>7. at.first_act <= t
    BY <1>1, <2>4, <2>6
  <2>8. QED
    BY <1>1, <1>2, <1>3, <2>1, <2>2, <2>3, <2>5, <2>7, IdleActive
<1>6. QED
  BY <1>4, <1>5

LEMMA ReadCounters ==
  ASSUME CycleInv, CounterInv, NEW t \in (clk + 1)..MaxTime, Issued(t, 1), bank_state # {},
         NEW f \in {"latest_rd", "latest_wr"},
         cycles' = [cycles EXCEPT !["idle_act"] = @ + IdleAct(t)],
         at' = [Ended(at) EXCEPT ![f] = t],
         UNCHANGED <<bank_state, mem_state>>
  PROVE  CounterInv'
<1>1. /\ t \in Nat /\ t > clk /\ clk' = t /\ mem_state = "not_in_pd" /\ at \in AtType
  BY IssuedTime
<1>2. Active /\ Active'
  BY <1>1 DEF Active
<1>3. /\ cycles \in CyclesNat /\ cycles.idle_act \in Nat /\ cycles.act \in Nat
  BY CountTypes
<1>4. /\ IdleAct(t) \in Nat /\ t - at.first_act \in Nat
      /\ cycles.idle_act + IdleAct(t) <= cycles.act + (t - at.first_act)
  BY <1>1, <1>2, IdleBound
<1>5. cycles' \in CyclesNat
  BY <1>3, <1>4, RaiseNat DEF Counter
<1>6. cycles'.idle_act = cycles.idle_act + IdleAct(t) /\ cycles'.act = cycles.act
  BY <1>3 DEF CyclesNat, Counter
<1>7. Ended(at) \in AtType /\ Ended(at).first_act = at.first_act
  BY <1>1, IdleTypes
<1>8. at' \in AtType /\ at'.first_act = at.first_act /\ at'[f] = t
  BY <1>1, <1>7 DEF AtType, Stamp
<1>9. LastEnd(at') >= t
  <2>1. /\ at'.latest_rd >= 0 => LastEnd(at') >= at'.latest_rd
        /\ at'.latest_wr >= 0 => LastEnd(at') >= at'.latest_wr
    BY <1>8, EndFacts
  <2>2. CASE f = "latest_rd"
    BY <1>1, <1>8, <2>1, <2>2
  <2>3. CASE f = "latest_wr"
    BY <1>1, <1>8, <2>1, <2>3
  <2>4. QED
    BY <2>2, <2>3
<1>10. at'.first_act <= t
  <2>1. at.first_act \in Int
    BY <1>1 DEF AtType, Stamp
  <2>2. QED
    BY <1>1, <1>4, <1>8, <2>1
<1>11. QED
  BY <1>1, <1>2, <1>4, <1>5, <1>6, <1>8, <1>9, <1>10, IdleActive

\* The counters after an active time that ends at t
ActiveTo(t) ==
  [cycles EXCEPT !["act"] = @ + Max0(t - at.first_act), !["idle_act"] = @ + IdleAct(t)]

LEMMA ActiveEnds ==
  ASSUME CycleInv, CounterInv, NEW t \in Nat, t > clk, Active
  PROVE  ActiveTo(t) \in CyclesNat /\ ActiveTo(t).idle_act <= ActiveTo(t).act
<1>1. /\ IdleAct(t) \in Nat /\ t - at.first_act \in Nat
      /\ Max0(t - at.first_act) = t - at.first_act
      /\ cycles.idle_act + IdleAct(t) <= cycles.act + (t - at.first_act)
  BY IdleBound
<1>2. cycles \in CyclesNat
  BY CountTypes
<1> DEFINE x == Max0(t - at.first_act)
           z == IdleAct(t)
<1>3. x \in Nat /\ z \in Nat /\ cycles.idle_act + z <= cycles.act + x
  BY <1>1
<1>4. ActiveTo(t) = [cycles EXCEPT !["act"] = @ + x, !["idle_act"] = @ + z]
  BY DEF ActiveTo
<1> HIDE DEF x, z
<1>5. ActiveTo(t) \in CyclesNat
  <2>1. "act" \in Counter /\ "idle_act" \in Counter
    BY DEF Counter
  <2>2. [cycles EXCEPT !["act"] = @ + x, !["idle_act"] = @ + z] \in CyclesNat
    BY <1>2, <1>3, <2>1, RaiseTwoNat
  <2>3. QED
    BY <1>4, <2>2
<1>6. ActiveTo(t).idle_act = cycles.idle_act + z /\ ActiveTo(t).act = cycles.act + x
  BY <1>2, <1>4 DEF CyclesNat, Counter
<1>7. QED
  BY <1>3, <1>5, <1>6

\* The same for a precharged time
LEMMA PrechargedCounts ==
  ASSUME CounterInv, NEW t \in Nat, at \in AtType
  PROVE  /\ PrechargedTo(t) \in CyclesNat
         /\ PrechargedTo(t).idle_act = cycles.idle_act /\ PrechargedTo(t).act = cycles.act
<1>1. cycles \in CyclesNat
  BY CountTypes
<1> DEFINE x == Max0(t - at.last_pre)
           z == IdlePre(t)
<1>2. x \in Nat /\ z \in Nat
  <2>1. at.last_pre \in Int
    BY DEF AtType, Stamp
  <2>2. QED
    BY <2>1, IdlePreNat, MaxFacts
<1>3. PrechargedTo(t) = [cycles EXCEPT !["pre"] = @ + x, !["idle_pre"] = @ + z]
  BY DEF PrechargedTo
<1> HIDE DEF x, z
<1>4. PrechargedTo(t) \in CyclesNat
  <2>1. "pre" \in Counter /\ "idle_pre" \in Counter
    BY DEF Counter
  <2>2. [cycles EXCEPT !["pre"] = @ + x, !["idle_pre"] = @ + z] \in CyclesNat
    BY <1>1, <1>2, <2>1, RaiseTwoNat
  <2>3. QED
    BY <1>3, <2>2
<1>5. PrechargedTo(t).idle_act = cycles.idle_act /\ PrechargedTo(t).act = cycles.act
  BY <1>1, <1>3 DEF CyclesNat, Counter
<1>6. QED
  BY <1>4, <1>5

LEMMA PreCounters ==
  ASSUME CycleInv, CounterInv, NEW t \in (clk + 1)..MaxTime, NEW bs \in SUBSET Bank, Pre(t, bs)
  PROVE  CounterInv'
<1>1. /\ t \in Nat /\ t > clk /\ clk' = t /\ mem_state = "not_in_pd" /\ at \in AtType
      /\ mem_state' = mem_state
  BY IssuedTime DEF Pre
<1>2. CASE UNCHANGED <<bank_state, cycles, at>>
  BY <1>1, <1>2, IdleWaits
<1>3. CASE /\ bs \cap bank_state # {} /\ bank_state' = bank_state \ (bs \cap bank_state)
           /\ EndActive(t, bs)
  <2>1. CASE bank_state \subseteq bs
    <3>1. cycles' = ActiveTo(t) /\ ~Active' /\ Active
      BY <1>1, <1>3, <2>1 DEF EndActive, ActiveTo, Active
    <3>2. cycles' \in CyclesNat /\ cycles'.idle_act <= cycles'.act
      BY <1>1, <3>1, ActiveEnds
    <3>3. QED
      BY <3>1, <3>2, CountTypes, IdleInactive
  <2>2. CASE ~(bank_state \subseteq bs)
    <3>1. cycles' = cycles /\ at' = [at EXCEPT !.latest_pre = t] /\ Active /\ Active'
      BY <1>1, <1>3, <2>2 DEF EndActive, Active
    <3>2. at' \in AtType /\ at'.first_act = at.first_act
          /\ at'.latest_rd = at.latest_rd /\ at'.latest_wr = at.latest_wr
          /\ at'.latest_act = at.latest_act /\ at'.end_rd = at.end_rd /\ at'.end_wr = at.end_wr
          /\ at'.end_act = at.end_act
      BY <1>1, <3>1 DEF AtType, Stamp
    <3>3. LastEnd(at') = LastEnd(at)
      <4>1. /\ Ended(at').end_rd = Ended(at).end_rd /\ Ended(at').end_wr = Ended(at).end_wr
            /\ Ended(at').end_act = Ended(at).end_act
        BY <1>1, <3>2 DEF Ended, AtType, Stamp
      <4>2. QED
        BY <4>1 DEF LastEnd
    <3>4. cycles.idle_act <= cycles.act + Max0(Earlier(t, LastEnd(at)) - at.first_act)
      BY <1>1, <3>1, IdleBound
    <3>5. QED
      BY <1>1, <3>1, <3>2, <3>3, <3>4 DEF CounterInv, Idle
  <2>3. QED
    BY <2>1, <2>2
<1>4. QED
  BY <1>2, <1>3 DEF Pre, Close

LEMMA RefCounters ==
  ASSUME CycleInv, CounterInv, NEW t \in (clk + 1)..MaxTime, Ref(t)
  PROVE  CounterInv'
<1>1. /\ t \in Nat /\ IdlePre(t) \in Nat /\ Max0(t - at.last_pre) \in Nat
  BY IssuedTime DEF Ref
<1>2. ~Active /\ ~Active'
  BY DEF Ref, Active
<1>3. /\ cycles \in CyclesNat /\ cycles.idle_act \in Nat /\ cycles.act \in Nat
      /\ cycles.idle_act <= cycles.act
  BY <1>2, CountTypes
<1> DEFINE x == IdlePre(t)
           y == Max0(t - at.last_pre)
           z == RFC - RP
<1>4. x \in Nat /\ y \in Nat /\ z \in Nat
  BY <1>1, TimingFacts
<1>5. cycles' = [cycles EXCEPT !["idle_pre"] = @ + x, !["pre"] = @ + y, !["act"] = @ + z]
  BY DEF Ref
<1> HIDE DEF x, y, z
<1>6. cycles' \in CyclesNat
  <2>1. "idle_pre" \in Counter /\ "pre" \in Counter /\ "act" \in Counter
    BY DEF Counter
  <2>2. [cycles EXCEPT !["idle_pre"] = @ + x, !["pre"] = @ + y, !["act"] = @ + z] \in CyclesNat
    BY <1>3, <1>4, <2>1, RaiseThreeNat
  <2>3. QED
    BY <1>5, <2>2
<1>7. cycles'.idle_act = cycles.idle_act /\ cycles'.act = cycles.act + z
  BY <1>3, <1>5 DEF CyclesNat, Counter
<1>8. cycles'.idle_act <= cycles'.act
  BY <1>3, <1>4, <1>7
<1>9. QED
  BY <1>2, <1>3, <1>6, <1>8, IdleInactive

LEMMA PdnCounters ==
  ASSUME CycleInv, CounterInv, NEW t \in (clk + 1)..MaxTime, NEW mode, mode # "not_in_pd",
         PdnAct(t, mode) \/ PdnPre(t, mode) \/ SREn(t)
  PROVE  CounterInv'
<1>1. /\ t \in Nat /\ t > clk /\ mem_state = "not_in_pd" /\ at \in AtType
  BY IssuedTime DEF PdnAct, PdnPre, SREn
<1>2. ~Active'
  BY DEF PdnAct, PdnPre, SREn, Active
<1>3. /\ cycles \in CyclesNat /\ cycles.idle_act \in Nat /\ cycles.act \in Nat
      /\ ~Active => cycles.idle_act <= cycles.act
  BY CountTypes
<1>4. CASE PdnAct(t, mode)
  <2>1. cycles' = ActiveTo(t) /\ Active
    BY <1>1, <1>4 DEF PdnAct, ActiveTo, Active
  <2>2. cycles' \in CyclesNat /\ cycles'.idle_act <= cycles'.act
    BY <1>1, <2>1, ActiveEnds
  <2>3. QED
    BY <1>2, <1>3, <2>2, IdleInactive
<1>5. CASE PdnPre(t, mode) \/ SREn(t)
  <2>1. cycles' = PrechargedTo(t) /\ ~Active
    BY <1>1, <1>5 DEF PdnPre, SREn, PrechargedTo, Active
  <2>2. cycles' \in CyclesNat /\ cycles'.idle_act = cycles.idle_act /\ cycles'.act = cycles.act
    BY <1>1, <2>1, PrechargedCounts
  <2>3. cycles'.idle_act <= cycles'.act
    BY <1>3, <2>1, <2>2
  <2>4. QED
    BY <1>2, <1>3, <2>2, <2>3, IdleInactive
<1>6. QED
  BY <1>4, <1>5

LEMMA PupPreCounters ==
  ASSUME CycleInv, CounterInv, NEW t \in (clk + 1)..MaxTime, PupPre(t)
  PROVE  CounterInv'
<1>1. t \in Nat /\ t > clk
  BY TimeFacts
<1>2. mem_state \in {"f_pre_pd", "s_pre_pd"} /\ bank_state' = bank_state /\ bank_state = {}
  BY DEF PupPre, CycleInv, Modes
<1>3. ~Active /\ ~Active'
  BY <1>2 DEF Active
<1>4. cycles \in CyclesNat /\ cycles.idle_act <= cycles.act
  BY <1>3, CountTypes
<1> DEFINE x == Max0(t - at.pdn)
           z == IF mem_state = "f_pre_pd" \/ ~dll THEN XP ELSE XPDLL - RCD
<1>5. x \in Nat /\ z \in Nat
  <2>1. at.pdn \in Int
    BY DEF CycleInv, Types, AtType, Stamp
  <2>2. QED
    BY <1>1, <2>1, MaxFacts, TimingFacts
<1>6. cycles' = [cycles EXCEPT ![mem_state] = @ + x, !["pup_pre"] = @ + z]
  BY DEF PupPre
<1> HIDE DEF x, z
<1>7. mem_state \in Counter /\ mem_state # "pup_pre" /\ mem_state # "idle_act" /\ mem_state # "act"
  BY <1>2 DEF Counter
<1>8. cycles' \in CyclesNat
  <2>1. "pup_pre" \in Counter
    BY DEF Counter
  <2>2. [cycles EXCEPT ![mem_state] = @ + x, !["pup_pre"] = @ + z] \in CyclesNat
    BY <1>4, <1>5, <1>7, <2>1, RaiseTwoNat
  <2>3. QED
    BY <1>6, <2>2
<1>9. cycles'.idle_act = cycles.idle_act /\ cycles'.act = cycles.act
  BY <1>4, <1>6, <1>7 DEF CyclesNat, Counter
<1>10. QED
  BY <1>3, <1>4, <1>8, <1>9, IdleInactive

LEMMA PupActCounters ==
  ASSUME CycleInv, CounterInv, NEW t \in (clk + 1)..MaxTime, PupAct(t)
  PROVE  CounterInv'
<1>1. t \in Nat /\ t > clk /\ at \in AtType
  BY TimeFacts DEF CycleInv, Types
<1>2. /\ mem_state \in {"f_act_pd", "s_act_pd"} /\ bank_state' # {} /\ mem_state' = "not_in_pd"
      /\ clk' = t
  BY DEF PupAct, Leaves, CycleInv, Modes
<1>3. ~Active /\ Active'
  BY <1>2 DEF Active
<1>4. cycles \in CyclesNat /\ cycles.idle_act <= cycles.act
  BY <1>3, CountTypes
<1> DEFINE x == Max0(t - at.pdn)
           z == IF mem_state = "f_act_pd" \/ ~dll THEN XP ELSE XPDLL - RCD
           la == IF mem_state = "f_act_pd" \/ ~dll THEN t ELSE t + Max0(XPDLL - 2 * RCD)
<1>5. x \in Nat /\ z \in Nat /\ la \in Nat /\ la >= t
  <2>1. at.pdn \in Int
    BY DEF CycleInv, Types, AtType, Stamp
  <2>2. Max0(XPDLL - 2 * RCD) \in Nat
    BY MaxFacts, TimingFacts
  <2>3. x \in Nat /\ z \in Nat
    BY <1>1, <2>1, MaxFacts, TimingFacts
  <2>4. QED
    BY <1>1, <2>2, <2>3
<1>6. /\ cycles' = [cycles EXCEPT ![mem_state] = @ + x, !["pup_act"] = @ + z]
      /\ at' = [at EXCEPT !.latest_act = la, !.first_act = t]
  BY DEF PupAct
<1> HIDE DEF x, z, la
<1>7. mem_state \in Counter /\ mem_state # "pup_act" /\ mem_state # "idle_act" /\ mem_state # "act"
  BY <1>2 DEF Counter
<1>8. cycles' \in CyclesNat
  <2>1. "pup_act" \in Counter
    BY DEF Counter
  <2>2. [cycles EXCEPT ![mem_state] = @ + x, !["pup_act"] = @ + z] \in CyclesNat
    BY <1>4, <1>5, <1>7, <2>1, RaiseTwoNat
  <2>3. QED
    BY <1>6, <2>2
<1>9. cycles'.idle_act = cycles.idle_act /\ cycles'.act = cycles.act
  BY <1>4, <1>6, <1>7 DEF CyclesNat, Counter
<1>10. at' \in AtType /\ at'.first_act = t /\ at'.latest_act = la
  <2>1. t \in Int /\ la \in Int
    BY <1>1, <1>5
  <2>2. QED
    BY <1>1, <1>6, <2>1 DEF AtType, Stamp
<1>11. LastEnd(at') >= t
  <2>1. LastEnd(at') >= la /\ LastEnd(at') \in Int
    BY <1>5, <1>10, EndFacts
  <2>2. QED
    BY <1>1, <1>5, <2>1
<1>12. cycles'.idle_act <= cycles'.act + (t - at'.first_act) /\ at'.first_act <= t
  <2>1. cycles.act \in Nat /\ cycles.idle_act \in Nat
    BY CountTypes
  <2>2. QED
    BY <1>1, <1>4, <1>9, <1>10, <2>1
<1>13. QED
  BY <1>1, <1>2, <1>3, <1>8, <1>10, <1>11, <1>12, IdleActive

\* What the exit from self-refresh at t adds to the counters is not negative, whatever past
\* windows counted of the first refresh.
LEMMA RefreshLeft ==
  ASSUME CycleInv, NEW t \in (clk + 1)..MaxTime, mem_state = "sref",
         NEW spup, spup = IF dll THEN XSDLL - RCD ELSE XS,
         NEW spent, spent = t - at.sref
  PROVE  /\ RFC - RP - window_ref.act \in Nat /\ RP - window_ref.pre \in Nat
         /\ spup - 0 \in Nat /\ spent \in Nat
         /\ spent >= RFC - RP => spent - (RFC - RP) - window_ref.pre \in Nat
         /\ spent \in (RFC - RP)..(RFC - 1) =>
              /\ RP - (spent - (RFC - RP) - window_ref.pre) \in Nat
              /\ spup - (RP - (spent - (RFC - RP) - window_ref.pre)) \in Nat
         /\ spent < RFC - RP =>
              /\ spent - window_ref.act \in Nat /\ RFC - RP - spent \in Nat
              /\ spup - (RFC - spent) \in Nat
<1> DEFINE s == at.sref
           w == at.sref_window
           wa == window_ref.act
           wp == window_ref.pre
<1>1. /\ RFC \in Nat /\ RP \in Nat /\ RP < RFC /\ t \in Nat /\ t > clk /\ clk \in Nat
      /\ spup \in Nat /\ spup >= RFC
  BY TimingFacts, TimeFacts
<1>2. /\ s \in Int /\ w \in Int /\ s <= w /\ w <= clk + 1
      /\ wa = Earlier(w - s, RFC - RP) /\ wp = Earlier(Max0(w - s - (RFC - RP)), RP)
  BY DEF CycleInv, Types, Stamps, AtType, Stamp
<1>3. spent = t - s
  OBVIOUS
<1> HIDE DEF s, w, wa, wp
<1>4. w <= t
  BY <1>1, <1>2
<1>5. RFC - RP - wa \in Nat /\ RP - wp \in Nat /\ spup - 0 \in Nat /\ spent \in Nat
  BY <1>1, <1>2, <1>3, <1>4 DEF Max0, Earlier
<1>6. spent >= RFC - RP => spent - (RFC - RP) - wp \in Nat
  BY <1>1, <1>2, <1>3, <1>4 DEF Max0, Earlier
<1>7. spent \in (RFC - RP)..(RFC - 1) =>
        /\ RP - (spent - (RFC - RP) - wp) \in Nat
        /\ spup - (RP - (spent - (RFC - RP) - wp)) \in Nat
  BY <1>1, <1>2, <1>3, <1>4 DEF Max0, Earlier
<1>8. spent < RFC - RP =>
        spent - wa \in Nat /\ RFC - RP - spent \in Nat /\ spup - (RFC - spent) \in Nat
  BY <1>1, <1>2, <1>3, <1>4 DEF Max0, Earlier
<1>9. QED
  BY <1>5, <1>6, <1>7, <1>8 DEF wa, wp

\* The counters of the active rank
SameActive(c) == c.idle_act = cycles.idle_act /\ c.act = cycles.act

LEMMA ExitCounters ==
  ASSUME CounterInv, ~Active, ~Active', NEW t, NEW refresh, NEW counted \in CyclesNat,
         Exit(t, refresh, counted), SameActive(counted),
         NEW v \in Nat, v = (IF dll THEN XSDLL - RCD ELSE XS) - refresh
  PROVE  CounterInv'
<1>1. cycles' = [counted EXCEPT !["spup"] = @ + v]
  BY DEF Exit
<1>2. cycles' \in CyclesNat
  <2>1. "spup" \in Counter
    BY DEF Counter
  <2>2. [counted EXCEPT !["spup"] = @ + v] \in CyclesNat
    BY <2>1, RaiseNat
  <2>3. QED
    BY <1>1, <2>2
<1>3. cycles'.idle_act = counted.idle_act /\ cycles'.act = counted.act
  BY <1>1 DEF CyclesNat, Counter
<1>4. cycles \in CyclesNat /\ cycles.idle_act <= cycles.act
  BY CountTypes
<1>5. cycles'.idle_act <= cycles'.act
  BY <1>3, <1>4 DEF SameActive
<1>6. QED
  BY <1>2, <1>4, <1>5, IdleInactive

\* Three counters that are raised, none of them of the active rank
LEMMA RaiseRefresh ==
  ASSUME cycles \in CyclesNat, NEW x \in Nat, NEW y \in Nat, NEW z \in Nat,
         NEW f \in Counter, NEW g \in Counter, NEW h \in Counter,
         f # g, f # h, g # h, {f, g, h} \cap {"idle_act", "act"} = {}
  PROVE  /\ [cycles EXCEPT ![f] = @ + x, ![g] = @ + y, ![h] = @ + z] \in CyclesNat
         /\ SameActive([cycles EXCEPT ![f] = @ + x, ![g] = @ + y, ![h] = @ + z])
<1>1. [cycles EXCEPT ![f] = @ + x, ![g] = @ + y, ![h] = @ + z] \in CyclesNat
  BY RaiseThreeNat
<1>2. f # "act" /\ g # "act" /\ h # "act" /\ f # "idle_act" /\ g # "idle_act" /\ h # "idle_act"
  OBVIOUS
<1>3. SameActive([cycles EXCEPT ![f] = @ + x, ![g] = @ + y, ![h] = @ + z])
  BY <1>2 DEF SameActive, CyclesNat, Counter
<1>4. QED
  BY <1>1, <1>3

LEMMA SRExCounters ==
  ASSUME CycleInv, CounterInv, NEW t \in (clk + 1)..MaxTime, SREx(t)
  PROVE  CounterInv'
<1> DEFINE spup  == IF dll THEN XSDLL - RCD ELSE XS
           spent == t - at.sref
           A     == RFC - RP
           wa    == window_ref.act
           wp    == window_ref.pre
           pre   == spent - A - wp
<1>1. mem_state = "sref" /\ bank_state = {} /\ bank_state' = {}
  BY DEF SREx, CycleInv, Modes
<1>2. ~Active /\ ~Active' /\ cycles \in CyclesNat
  BY <1>1, CountTypes DEF Active
<1>3. /\ "sref_ref_act" \in Counter /\ "sref_ref_pre" \in Counter /\ "sref" \in Counter
      /\ "spup_ref_pre" \in Counter /\ "spup_ref_act" \in Counter
  BY DEF Counter
<1>4. /\ A - wa \in Nat /\ RP - wp \in Nat /\ spup - 0 \in Nat /\ spent \in Nat
      /\ spent >= A => pre \in Nat
      /\ spent \in A..(RFC - 1) => RP - pre \in Nat /\ spup - (RP - pre) \in Nat
      /\ spent < A => spent - wa \in Nat /\ A - spent \in Nat /\ spup - (RFC - spent) \in Nat
  BY <1>1, RefreshLeft
<1>5. CASE /\ spent >= RFC
           /\ Exit(t, 0,
                [cycles EXCEPT !.sref_ref_act = @ + (A - wa), !.sref_ref_pre = @ + (RP - wp),
                               !.sref = @ + Max0(t - Later(at.sref + RFC, at.sref_window))])
  <2> DEFINE x == A - wa
             y == RP - wp
             z == Max0(t - Later(at.sref + RFC, at.sref_window))
             c == [cycles EXCEPT !["sref_ref_act"] = @ + x, !["sref_ref_pre"] = @ + y, !["sref"] = @ + z]
             v == spup - 0
  <2>1. x \in Nat /\ y \in Nat /\ z \in Nat /\ v \in Nat
    <3>1. at.sref \in Int /\ at.sref_window \in Int /\ t \in Nat /\ RFC \in Nat
      BY TimingFacts, TimeFacts DEF CycleInv, Types, AtType, Stamp
    <3>2. z \in Nat
      BY <3>1 DEF Max0, Later
    <3>3. QED
      BY <1>4, <3>2
  <2>2. Exit(t, 0, c) /\ v = (IF dll THEN XSDLL - RCD ELSE XS) - 0
    BY <1>5
  <2> HIDE DEF x, y, z, v, spup, spent, A, wa, wp, pre
  <2>3. c \in CyclesNat /\ SameActive(c)
    BY <1>2, <1>3, <2>1, RaiseRefresh
  <2> HIDE DEF c
  <2>4. QED
    BY <1>2, <2>1, <2>2, <2>3, ExitCounters
<1>6. CASE /\ spent \in A..(RFC - 1)
           /\ Exit(t, RP - pre,
                [cycles EXCEPT !.sref_ref_act = @ + (A - wa), !.sref_ref_pre = @ + pre,
                               !.spup_ref_pre = @ + (RP - pre)])
  <2> DEFINE x == A - wa
             y == pre
             z == RP - pre
             c == [cycles EXCEPT !["sref_ref_act"] = @ + x, !["sref_ref_pre"] = @ + y, !["spup_ref_pre"] = @ + z]
             v == spup - z
  <2>1. x \in Nat /\ y \in Nat /\ z \in Nat /\ v \in Nat
    <3>1. spent >= A
      <4>1. A \in Int
        BY TimingFacts
      <4>2. QED
        BY <1>4, <1>6, <4>1
    <3>2. QED
      BY <1>4, <1>6, <3>1
  <2>2. Exit(t, z, c) /\ v = (IF dll THEN XSDLL - RCD ELSE XS) - z
    BY <1>6
  <2> HIDE DEF x, y, z, v, spup, spent, A, wa, wp, pre
  <2>3. c \in CyclesNat /\ SameActive(c)
    BY <1>2, <1>3, <2>1, RaiseRefresh
  <2> HIDE DEF c
  <2>4. QED
    BY <1>2, <2>1, <2>2, <2>3, ExitCounters
<1>7. CASE /\ spent < A
           /\ Exit(t, RFC - spent,
                [cycles EXCEPT !.sref_ref_act = @ + (spent - wa), !.spup_ref_act = @ + (A - spent),
                               !.spup_ref_pre = @ + RP])
  <2> DEFINE x == spent - wa
             y == A - spent
             z == RP
             c == [cycles EXCEPT !["sref_ref_act"] = @ + x, !["spup_ref_act"] = @ + y, !["spup_ref_pre"] = @ + z]
             r == RFC - spent
             v == spup - r
  <2>1. x \in Nat /\ y \in Nat /\ z \in Nat /\ v \in Nat
    BY <1>4, <1>7, TimingFacts
  <2>2. Exit(t, r, c) /\ v = (IF dll THEN XSDLL - RCD ELSE XS) - r
    BY <1>7
  <2> HIDE DEF x, y, z, v, r, spup, spent, A, wa, wp, pre
  <2>3. c \in CyclesNat /\ SameActive(c)
    BY <1>2, <1>3, <2>1, RaiseRefresh
  <2> HIDE DEF c
  <2>4. QED
    BY <1>2, <2>1, <2>2, <2>3, ExitCounters
<1>8. QED
  BY <1>5, <1>6, <1>7 DEF SREx

LEMMA WindowCounters ==
  ASSUME CycleInv, NEW t \in (clk + 1)..(MaxTime + 1), Window(t)
  PROVE  CounterInv'
<1>1. /\ t \in Nat /\ cycles' = NoCycles /\ at' = Cleared(t)
      /\ bank_state' = bank_state /\ mem_state' = mem_state /\ at \in AtType
  BY TimingAssumption DEF Window, state, CycleInv, Types
<1>2. cycles' \in CyclesNat /\ cycles'.idle_act = 0 /\ cycles'.act = 0
  BY <1>1 DEF NoCycles, CyclesNat, Counter
<1>3. at' \in AtType
  BY WindowEnds DEF CycleInv, Types
<1>4. at'.first_act = t /\ at'.latest_rd < 0 /\ at'.end_rd = t
  BY <1>1 DEF Cleared, AtType, Stamp
<1>5. LastEnd(at') \in Int /\ LastEnd(at') >= t
  BY <1>3, <1>4, EndFacts
<1>6. clk' \in Int
  BY WindowEnds DEF CycleInv, Types
<1>7. Max0(Earlier(clk', LastEnd(at')) - at'.first_act) \in Nat
  <2>1. Earlier(clk', LastEnd(at')) \in Int
    BY <1>5, <1>6 DEF Earlier
  <2>2. Earlier(clk', LastEnd(at')) - at'.first_act \in Int
    BY <1>1, <1>4, <2>1
  <2>3. QED
    BY <2>2, MaxFacts
<1>8. cycles'.idle_act <= cycles'.act
        + IF Active' THEN Max0(Earlier(clk', LastEnd(at')) - at'.first_act) ELSE 0
  BY <1>2, <1>7
<1>9. Active' => at'.first_act <= LastEnd(at')
  BY <1>1, <1>4, <1>5
<1>10. QED
  BY <1>2, <1>8, <1>9 DEF CounterInv, Idle

LEMMA StepCounters ==
  ASSUME CycleInv, CounterInv, [Next]_vars
  PROVE  CounterInv'
<1>1. CASE UNCHANGED vars
  <2>1. UNCHANGED <<cycles, at, clk, mem_state, bank_state>>
    BY <1>1 DEF vars, state
  <2>2. LastEnd(at') = LastEnd(at)
    BY <2>1
  <2>3. QED
    BY <2>1, <2>2 DEF CounterInv, Idle, Active
<1>2. ASSUME NEW t \in (clk + 1)..(MaxTime + 1), Window(t)
      PROVE  CounterInv'
  BY <1>2, WindowCounters
<1>3. ASSUME NEW t \in (clk + 1)..MaxTime, NEW b \in Bank,
             \/ Act(t, b) \/ Rd(t, b) \/ Wr(t, b) \/ Pre(t, {b}) \/ RefB(t, b)
             \/ \E mats \in (SUBSET Mat) \ {{}} : PartialAct(t, b, mats)
      PROVE  CounterInv'
  <2>1. CASE Act(t, b) \/ \E mats \in (SUBSET Mat) \ {{}} : PartialAct(t, b, mats)
    BY <2>1, ActCounters DEF Act, PartialAct
  <2>2. CASE Rd(t, b)
    <3>1. /\ Issued(t, 1) /\ bank_state # {}
          /\ cycles' = [cycles EXCEPT !["idle_act"] = @ + IdleAct(t)]
          /\ at' = [Ended(at) EXCEPT !["latest_rd"] = t]
          /\ UNCHANGED <<bank_state, mem_state>>
      BY <2>2 DEF Rd, state
    <3>2. QED
      BY <3>1, ReadCounters
  <2>3. CASE Wr(t, b)
    <3>1. /\ Issued(t, 1) /\ bank_state # {}
          /\ cycles' = [cycles EXCEPT !["idle_act"] = @ + IdleAct(t)]
          /\ at' = [Ended(at) EXCEPT !["latest_wr"] = t]
          /\ UNCHANGED <<bank_state, mem_state>>
      BY <2>3 DEF Wr, state
    <3>2. QED
      BY <3>1, ReadCounters
  <2>4. CASE Pre(t, {b})
    BY <2>4, PreCounters
  <2>5. CASE RefB(t, b)
    <3>1. Issued(t, 1) /\ UNCHANGED <<cycles, at, bank_state, mem_state>>
      BY <2>5 DEF RefB, state
    <3>2. t \in Nat /\ t > clk /\ clk' = t /\ mem_state = "not_in_pd"
      BY <3>1, IssuedTime
    <3>3. QED
      BY <3>1, <3>2, IdleWaits
  <2>6. QED
    BY <1>3, <2>1, <2>2, <2>3, <2>4, <2>5
<1>4. ASSUME NEW t \in (clk + 1)..MaxTime,
             \/ Pre(t, Bank) \/ Ref(t) \/ SREn(t) \/ SREx(t) \/ PupAct(t) \/ PupPre(t)
             \/ \E mode \in {"f_act_pd", "s_act_pd"} : PdnAct(t, mode)
             \/ \E mode \in {"f_pre_pd", "s_pre_pd"} : PdnPre(t, mode)
      PROVE  CounterInv'
  <2>1. CASE Pre(t, Bank)
    BY <2>1, PreCounters
  <2>2. CASE Ref(t) \/ SREx(t) \/ PupAct(t) \/ PupPre(t)
    BY <2>2, RefCounters, SRExCounters, PupActCounters, PupPreCounters
  <2>3. CASE SREn(t)
    BY <2>3, PdnCounters
  <2>4. ASSUME NEW mode \in {"f_act_pd", "s_act_pd"}, PdnAct(t, mode)
        PROVE  CounterInv'
    <3>1. mode # "not_in_pd"
      OBVIOUS
    <3>2. QED
      BY <2>4, <3>1, PdnCounters
  <2>5. ASSUME NEW mode \in {"f_pre_pd", "s_pre_pd"}, PdnPre(t, mode)
        PROVE  CounterInv'
    <3>1. mode # "not_in_pd"
      OBVIOUS
    <3>2. QED
      BY <2>5, <3>1, PdnCounters
  <2>6. QED
    BY <1>4, <2>1, <2>2, <2>3, <2>4, <2>5
<1>5. QED
  BY <1>1, <1>2, <1>3, <1>4 DEF Next

-----------------------------------------------------------------------------
(***************************************************************************)
(* The active cycles of the banks, and the refresh that past windows       *)
(* counted.                                                                *)
(***************************************************************************)
LEMMA BankCyclesNat ==
  ASSUME BankTimes, NEW t \in Nat
  PROVE  BankCycles(t) \in [Bank -> Nat]
<1> DEFINE x(b) == IF b \in bank_state THEN Max0(t - first_act_cycle_banks[b]) ELSE 0
<1>1. ASSUME NEW b \in Bank
      PROVE  actcyclesBanks[b] + x(b) \in Nat
  <2>1. actcyclesBanks[b] \in Nat /\ first_act_cycle_banks[b] \in Int
    BY DEF BankTimes
  <2>2. Max0(t - first_act_cycle_banks[b]) \in Nat
    BY <2>1, MaxFacts
  <2>3. QED
    BY <2>1, <2>2
<1>2. BankCycles(t) = [b \in Bank |-> actcyclesBanks[b] + x(b)]
  BY DEF BankCycles
<1> HIDE DEF x
<1>3. QED
  BY <1>1, <1>2

LEMMA StepBankTimes ==
  ASSUME CycleInv, BankTimes, [Next]_vars
  PROVE  BankTimes'
<1>0. actcyclesBanks \in [Bank -> Nat] /\ first_act_cycle_banks \in [Bank -> Int]
  BY DEF BankTimes
<1>1. CASE UNCHANGED vars
  BY <1>1, <1>0 DEF vars, BankTimes
<1>2. ASSUME NEW t \in (clk + 1)..(MaxTime + 1), Window(t)
      PROVE  BankTimes'
  <2>1. t \in Int
    BY TimingAssumption DEF CycleInv, Types
  <2>2. actcyclesBanks' = [b \in Bank |-> 0] /\ first_act_cycle_banks' = [b \in Bank |-> t]
    BY <1>2 DEF Window
  <2>3. QED
    BY <2>1, <2>2 DEF BankTimes
<1>3. ASSUME NEW t \in (clk + 1)..MaxTime, NEW b \in Bank,
             \/ Act(t, b) \/ Rd(t, b) \/ Wr(t, b)
             \/ \E mats \in (SUBSET Mat) \ {{}} : PartialAct(t, b, mats)
      PROVE  BankTimes'
  <2>1. UNCHANGED <<actcyclesBanks, first_act_cycle_banks>>
    BY <1>3 DEF Act, PartialAct, Rd, Wr
  <2>2. QED
    BY <1>0, <2>1 DEF BankTimes
<1>4. ASSUME NEW t \in (clk + 1)..MaxTime, NEW bs \in SUBSET Bank, Pre(t, bs)
      PROVE  BankTimes'
  <2>1. first_act_cycle_banks' = first_act_cycle_banks
    BY <1>4 DEF Pre
  <2>2. CASE actcyclesBanks' = actcyclesBanks
    BY <1>0, <2>1, <2>2 DEF BankTimes
  <2>3. CASE actcyclesBanks' = [b \in Bank |-> IF b \in bs \cap bank_state THEN BankCycles(t)[b]
                                               ELSE actcyclesBanks[b]]
    <3>1. BankCycles(t) \in [Bank -> Nat]
      BY BankCyclesNat, TimeFacts
    <3>2. actcyclesBanks' \in [Bank -> Nat]
      BY <1>0, <2>3, <3>1
    <3>3. QED
      BY <1>0, <2>1, <3>2 DEF BankTimes
  <2>4. QED
    BY <1>4, <2>2, <2>3 DEF Pre, Close
<1>5. ASSUME NEW t \in (clk + 1)..MaxTime, NEW b \in Bank, RefB(t, b)
      PROVE  BankTimes'
  <2>1. /\ actcyclesBanks' = [actcyclesBanks EXCEPT ![b] = @ + RAS + RP]
        /\ first_act_cycle_banks' = first_act_cycle_banks
    BY <1>5 DEF RefB
  <2>2. actcyclesBanks[b] + RAS + RP \in Nat
    BY <1>0, TimingFacts
  <2>3. actcyclesBanks' \in [Bank -> Nat]
    BY <1>0, <2>1, <2>2
  <2>4. QED
    BY <1>0, <2>1, <2>3 DEF BankTimes
<1>6. ASSUME NEW t \in (clk + 1)..MaxTime, Ref(t)
      PROVE  BankTimes'
  <2>1. /\ actcyclesBanks' = [b \in Bank |-> actcyclesBanks[b] + RFC - RP]
        /\ first_act_cycle_banks' = [b \in Bank |-> t]
    BY <1>6 DEF Ref
  <2>2. ASSUME NEW b \in Bank
        PROVE  actcyclesBanks[b] + RFC - RP \in Nat
    BY <1>0, TimingFacts
  <2>3. actcyclesBanks' \in [Bank -> Nat]
    BY <2>1, <2>2
  <2>4. first_act_cycle_banks' \in [Bank -> Int]
    BY <2>1, TimeFacts
  <2>5. QED
    BY <2>3, <2>4 DEF BankTimes
<1>7. ASSUME NEW t \in (clk + 1)..MaxTime, NEW mode, PdnAct(t, mode)
      PROVE  BankTimes'
  <2>1. actcyclesBanks' = BankCycles(t) /\ first_act_cycle_banks' = first_act_cycle_banks
    BY <1>7 DEF PdnAct
  <2>2. actcyclesBanks' \in [Bank -> Nat]
    BY <2>1, BankCyclesNat, TimeFacts
  <2>3. QED
    BY <1>0, <2>1, <2>2 DEF BankTimes
<1>8. ASSUME NEW t \in (clk + 1)..MaxTime, PupAct(t)
      PROVE  BankTimes'
  <2>1. actcyclesBanks' = actcyclesBanks /\ first_act_cycle_banks' = [b \in Bank |-> t]
    BY <1>8 DEF PupAct
  <2>2. t \in Int
    BY TimeFacts
  <2>3. QED
    BY <1>0, <2>1, <2>2 DEF BankTimes
<1>9. ASSUME NEW t \in (clk + 1)..MaxTime, NEW mode,
             PdnPre(t, mode) \/ PupPre(t) \/ SREn(t) \/ SREx(t)
      PROVE  BankTimes'
  <2>1. UNCHANGED <<actcyclesBanks, first_act_cycle_banks>>
    BY <1>9 DEF PdnPre, PupPre, SREn, SREx
  <2>2. QED
    BY <1>0, <2>1 DEF BankTimes
<1>10. QED
  BY <1>1, <1>2, <1>3, <1>4, <1>5, <1>6, <1>7, <1>8, <1>9 DEF Next

LEMMA StepRefs ==
  ASSUME CycleInv', Refs, [Next]_vars
  PROVE  Refs'
<1>1. CASE mem_state' = "sref"
  <2> DEFINE s == at'.sref
             w == at'.sref_window
             wa == window_ref'.act
             wp == window_ref'.pre
  <2>1. RFC \in Nat /\ RP \in Nat /\ RP < RFC
    BY TimingFacts
  <2>2. /\ s \in Int /\ w \in Int /\ s <= w
        /\ wa = Earlier(w - s, RFC - RP) /\ wp = Earlier(Max0(w - s - (RFC - RP)), RP)
    BY <1>1 DEF CycleInv, Types, Stamps, AtType, Stamp
  <2> HIDE DEF s, w, wa, wp
  <2>3. wa \in 0..(RFC - RP) /\ wp \in 0..RP
    BY <2>1, <2>2 DEF Max0, Earlier
  <2>4. window_ref'.act \in 0..(RFC - RP) /\ window_ref'.pre \in 0..RP
    BY <2>3 DEF wa, wp
  <2>5. QED
    BY <2>4 DEF Refs
<1>2. CASE mem_state' # "sref"
  <2>1. ASSUME NEW t, Window(t)
        PROVE  window_ref' = window_ref
    <3>1. mem_state # "sref"
      BY <1>2, <2>1 DEF Window, state
    <3>2. window_ref' = IF mem_state = "sref"
                        THEN [act |-> window_ref.act + RefreshCycles(t).act,
                              pre |-> window_ref.pre + RefreshCycles(t).pre]
                        ELSE window_ref
      BY <2>1 DEF Window
    <3>3. QED
      BY <3>1, <3>2
  <2>2. ASSUME NEW t, NEW b, \/ Act(t, b) \/ Rd(t, b) \/ Wr(t, b) \/ RefB(t, b)
                             \/ \E mats \in (SUBSET Mat) \ {{}} : PartialAct(t, b, mats)
        PROVE  window_ref' = window_ref
    BY <2>2 DEF Act, PartialAct, Rd, Wr, RefB
  <2>3. ASSUME NEW t, NEW bs, Pre(t, bs)
        PROVE  window_ref' = window_ref
    BY <2>3 DEF Pre
  <2>4. ASSUME NEW t, NEW mode, Ref(t) \/ PdnAct(t, mode) \/ PdnPre(t, mode)
        PROVE  window_ref' = window_ref
    BY <2>4 DEF Ref, PdnAct, PdnPre
  <2>5. ASSUME NEW t, PupAct(t) \/ PupPre(t) \/ SREx(t)
        PROVE  window_ref' = window_ref
    BY <2>5 DEF PupAct, PupPre, SREx, Leaves
  <2>6. ASSUME NEW t, SREn(t)
        PROVE  window_ref' = window_ref
    BY <1>2, <2>6 DEF SREn
  <2>7. ASSUME UNCHANGED vars
        PROVE  window_ref' = window_ref
    BY <2>7 DEF vars
  <2>8. window_ref' = window_ref
    BY <2>1, <2>2, <2>3, <2>4, <2>5, <2>6, <2>7 DEF Next
  <2>9. QED
    BY <2>8 DEF Refs
<1>3. QED
  BY <1>1, <1>2

-----------------------------------------------------------------------------
CountInv == CycleInv /\ RowInv /\ CounterInv /\ BankTimes /\ Refs

LEMMA InitCounters == Init => CounterInv /\ BankTimes /\ Refs
<1> SUFFICES ASSUME Init PROVE CounterInv /\ BankTimes /\ Refs
  OBVIOUS
<1>1. cycles \in CyclesNat /\ cycles.idle_act = 0 /\ cycles.act = 0
  BY DEF Init, NoCycles, CyclesNat, Counter
<1>2. ~Active
  BY DEF Init, Active
<1>3. BankTimes
  BY DEF Init, BankTimes
<1>4. window_ref.act = 0 /\ window_ref.pre = 0
  BY DEF Init
<1>5. 0 \in 0..(RFC - RP) /\ 0 \in 0..RP
  BY TimingFacts
<1>6. QED
  BY <1>1, <1>2, <1>3, <1>4, <1>5 DEF CounterInv, Idle, Refs

LEMMA CountInvariant == Spec => []CountInv
<1>1. Init => CountInv
  BY InitCycles, RowInit, InitCounters DEF CountInv
<1>2. CountInv /\ [Next]_vars => CountInv'
  BY StepCycles, StepRows, StepCounters, StepBankTimes, StepRefs DEF CountInv
<1>3. QED
  BY <1>1, <1>2, PTL DEF Spec

(***************************************************************************)
(* No counter of a window is ever negative, though the exit from a         *)
(* self-refresh is corrected by what earlier windows counted of its first  *)
(* refresh (handleSREx, CmdHandlers.cc:508), and an entry of the tallies   *)
(* is never below zero.                                                    *)
(***************************************************************************)
THEOREM CountsAreTyped == Spec => []TypeOK
<1>1. CountInv => TypeOK
  <2> SUFFICES ASSUME CountInv PROVE TypeOK
    OBVIOUS
  <2>1. DOMAIN NoCycles = Counter
    BY DEF NoCycles, Counter
  <2>2. /\ mem_state \in {"not_in_pd", "f_act_pd", "s_act_pd", "f_pre_pd", "s_pre_pd", "sref"}
        /\ cycles \in [DOMAIN NoCycles -> Nat]
    BY <2>1 DEF CountInv, CycleInv, Types, PowerDown, CounterInv, CyclesNat
  <2>3. /\ {bank_state, last_bank_state} \subseteq SUBSET Bank
        /\ bank_partial_state \in [Bank -> Width] /\ mat_state \in [Bank -> SUBSET Mat]
        /\ number \in [{"act", "pre"} -> [Bank -> [Width -> Nat]]]
    BY DEF CountInv, RowInv, RowTypes, Tally
  <2>4. /\ actcyclesBanks \in [Bank -> Nat]
        /\ window_ref.act \in 0..(RFC - RP) /\ window_ref.pre \in 0..RP
    BY DEF CountInv, BankTimes, Refs
  <2>5. QED
    BY <2>2, <2>3, <2>4 DEF TypeOK
<1>2. QED
  BY <1>1, CountInvariant, PTL

(***************************************************************************)
(* The idle cycles of the active rank are part of its active cycles: those *)
(* that the reads and writes find lie before the last operation's end, and *)
(* none is found twice (idle_act_update, CmdHandlers.cc).                  *)
(***************************************************************************)
THEOREM IdleIsWithin == Spec => []IdleWithin
<1>1. CountInv => IdleWithin
  <2> SUFFICES ASSUME CountInv PROVE IdleWithin
    OBVIOUS
  <2>1. /\ cycles.idle_act \in Nat /\ cycles.act \in Nat
        /\ ~Active => cycles.idle_act <= cycles.act
    BY CountTypes DEF CountInv
  <2>2. CASE Active
    <3>1. /\ clk \in Int /\ at.first_act \in Int /\ at \in AtType
      BY DEF CountInv, CycleInv, Types, AtType, Stamp
    <3>2. LastEnd(at) \in Int
      BY <3>1, EndFacts
    <3>3. cycles.idle_act <= cycles.act + Max0(Earlier(clk, LastEnd(at)) - at.first_act)
      BY <2>2 DEF CountInv, CounterInv, Idle
    <3>4. /\ Max0(Earlier(clk, LastEnd(at)) - at.first_act) <= Max0(clk - at.first_act)
          /\ Max0(Earlier(clk, LastEnd(at)) - at.first_act) \in Nat /\ Max0(clk - at.first_act) \in Nat
      BY <3>1, <3>2 DEF Max0, Earlier
    <3>5. cycles.idle_act <= cycles.act + Max0(clk - at.first_act)
      BY <2>1, <3>3, <3>4
    <3>6. QED
      BY <2>2, <3>5 DEF IdleWithin, Awake, Active
  <2>3. CASE ~Active
    <3>1. cycles.idle_act <= cycles.act + 0
      BY <2>1, <2>3
    <3>2. bank_state # {} => Awake(at.first_act) = 0
      BY <2>3 DEF Awake, Active
    <3>3. QED
      BY <3>1, <3>2 DEF IdleWithin
  <2>4. QED
    BY <2>2, <2>3
<1>2. QED
  BY <1>1, CountInvariant, PTL

=============================================================================
