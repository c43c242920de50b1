---------------------------- MODULE CommandAnalysis ----------------------------
(***************************************************************************)
(* What DRAMPower counts of the commands of one rank (CommandAnalysis of   *)
(* DRAMPower, with the partial activations added for sectored DRAM): how   *)
(* many commands of each kind, and in which state the rank spent its       *)
(* cycles.  The energy of a window is computed from these counts, which    *)
(* start again with the next window.                                       *)
(*                                                                         *)
(* The library is given the commands of a window as a list and evaluates   *)
(* it at the end, in the order of their times; here each is evaluated when *)
(* it is given.  Commands with auto-precharge are left out: the open-row   *)
(* policy of the controller never issues them.                             *)
(***************************************************************************)
EXTENDS Integers, FiniteSets

CONSTANTS
  Bank, Mat,                     \* banks of the rank, mats (sectors) of a bank
  RP, RCD, RAS, RFC, XP, XPDLL, XS, XSDLL, CompleteRD, CompleteWR,  \* timing
  dll,                           \* the memory has a DLL
  MaxTime                        \* bound: cycle of the last command

ASSUME TimingAssumption ==
  /\ {RP, RCD, RAS, RFC, XP, XPDLL, XS, XSDLL, CompleteRD, CompleteWR, MaxTime} \subseteq Nat \ {0}
  /\ dll \in BOOLEAN
  /\ RP < RFC /\ RFC <= XS /\ RFC + RCD <= XSDLL /\ RCD <= XPDLL
  /\ IsFiniteSet(Bank) /\ IsFiniteSet(Mat)

VARIABLES
  bank_state, last_bank_state,   \* the banks that are active, now and before power-down
  bank_partial_state,            \* per bank: number of active mats, 0 if not partial
  mat_state,                     \* per bank: its active mats
  mem_state,                     \* power-down or self-refresh
  at,                            \* cycles at which things happened last
  first_act_cycle_banks,
  window_ref,                    \* cycles of the self-refresh counted in past windows
  cycles, actcyclesBanks,        \* the counters of the window
  number,                        \* activations and precharges of the window, per bank
                                 \* and number of mats; the other commands are not counted
  clk,                           \* the last cycle that had a command
  ready,                         \* the rank takes no command before this cycle
  past                           \* history: window_cycles and open rows of past windows

state == <<bank_state, last_bank_state, bank_partial_state, mat_state, mem_state>>
vars  == <<state, at, first_act_cycle_banks, window_ref, cycles, actcyclesBanks,
           number, clk, ready, past>>

Max0(n) == IF n > 0 THEN n ELSE 0

Later(a, b) == IF a > b THEN a ELSE b

Earlier(a, b) == IF a < b THEN a ELSE b

Width == 0..Cardinality(Mat)     \* 0 stands for a command to the whole bank

NoCycles ==
  [act |-> 0, pre |-> 0, f_act_pd |-> 0, s_act_pd |-> 0, f_pre_pd |-> 0, s_pre_pd |-> 0,
   sref |-> 0, sref_ref_act |-> 0, sref_ref_pre |-> 0, spup_ref_act |-> 0,
   spup_ref_pre |-> 0, spup |-> 0, pup_act |-> 0, pup_pre |-> 0,
   idle_act |-> 0, idle_pre |-> 0]

NoCommands ==
  [k \in {"act", "pre"} |-> [b \in Bank |-> [n \in Width |-> 0]]]

Init ==
  /\ bank_state = {} /\ last_bank_state = {}
  /\ bank_partial_state = [b \in Bank |-> 0]
  /\ mat_state = [b \in Bank |-> {}]
  /\ mem_state = "not_in_pd"
  /\ at = [first_act |-> 0, last_pre |-> 0, latest_pre |-> -1, latest_act |-> -1,
           latest_rd |-> -1, latest_wr |-> -1, end_act |-> 0, end_rd |-> 0, end_wr |-> 0,
           pdn |-> 0, sref |-> 0, sref_window |-> 0]
  /\ first_act_cycle_banks = [b \in Bank |-> 0]
  /\ window_ref = [act |-> 0, pre |-> 0]
  /\ cycles = NoCycles
  /\ actcyclesBanks = [b \in Bank |-> 0]
  /\ number = NoCommands
  /\ clk = 0 /\ ready = 1
  /\ past = [cycles |-> 0, open |-> [b \in Bank |-> [n \in Width |-> 0]]]

-----------------------------------------------------------------------------
(***************************************************************************)
(* Idle cycles                                                             *)
(***************************************************************************)
\* idle_act_update: the ends of the last operations, and the cycles after them
Ended(a) ==
  [a EXCEPT !.end_rd  = IF a.latest_rd >= 0 THEN a.latest_rd + CompleteRD - 1 ELSE @,
            !.end_wr  = IF a.latest_wr >= 0 THEN a.latest_wr + CompleteWR - 1 ELSE @,
            !.end_act = IF a.latest_act >= 0 THEN a.latest_act + RCD - 1 ELSE @]

IdleAct(t) == Max0(t - Later(Later(Ended(at).end_rd, Ended(at).end_wr), Ended(at).end_act))

\* idle_pre_update
IdlePre(t) ==
  IF at.latest_pre > 0 THEN Max0(t - at.latest_pre - RP)
  ELSE IF at.latest_pre = 0 THEN t ELSE 0

\* Active cycles of the banks up to t
BankCycles(t) ==
  [b \in Bank |-> actcyclesBanks[b]
     + IF b \in bank_state THEN Max0(t - first_act_cycle_banks[b]) ELSE 0]

Opened(b, n) == [number EXCEPT !["act"][b][n] = @ + 1]

-----------------------------------------------------------------------------
(***************************************************************************)
(* Commands.  The rank gets at most one in a cycle, and none before it is  *)
(* ready: it is the controller that sees to that.                          *)
(***************************************************************************)
Issued(t, gap) ==
  /\ mem_state = "not_in_pd"
  /\ t >= ready /\ clk' = t /\ ready' = t + gap
  /\ UNCHANGED past

\* The end of a time in which no bank was active
EndPrecharged(t) ==
  IF bank_state = {}
  THEN /\ cycles' = [cycles EXCEPT !.pre = @ + Max0(t - at.last_pre), !.idle_pre = @ + IdlePre(t)]
       /\ at' = [at EXCEPT !.first_act = t, !.latest_act = t]
  ELSE /\ at' = [at EXCEPT !.latest_act = t]
       /\ UNCHANGED cycles

\* handleAct of a bank, handlePartialAct of some of its mats
Act(t, b) ==
  /\ b \notin bank_state
  /\ Issued(t, 1)
  /\ number' = Opened(b, 0)
  /\ EndPrecharged(t)
  /\ bank_state' = bank_state \cup {b}
  /\ UNCHANGED <<last_bank_state, bank_partial_state, mat_state, mem_state,
                 first_act_cycle_banks, window_ref, actcyclesBanks>>

PartialAct(t, b, mats) ==
  /\ b \notin bank_state
  /\ Issued(t, 1)
  /\ number' = Opened(b, Cardinality(mats))
  /\ bank_partial_state' = [bank_partial_state EXCEPT ![b] = @ + Cardinality(mats \ mat_state[b])]
  /\ mat_state' = [mat_state EXCEPT ![b] = @ \cup mats]
  /\ EndPrecharged(t)
  /\ bank_state' = bank_state \cup {b}
  /\ UNCHANGED <<last_bank_state, mem_state, first_act_cycle_banks, window_ref, actcyclesBanks>>

\* Mutant of Rd: the read is not noted as the latest operation.
RdUnnoted(t, b) ==
  /\ b \in bank_state
  /\ Issued(t, 1)
  /\ cycles' = [cycles EXCEPT !.idle_act = @ + IdleAct(t)]
  /\ at' = Ended(at)
  /\ UNCHANGED <<state, number, first_act_cycle_banks, window_ref, actcyclesBanks>>

\* handleRd and handleWr.  They are counted under the number of mats that are active,
\* which is not shown.
Rd(t, b) ==
  /\ b \in bank_state
  /\ Issued(t, 1)
  /\ cycles' = [cycles EXCEPT !.idle_act = @ + IdleAct(t)]
  /\ at' = [Ended(at) EXCEPT !.latest_rd = t]
  /\ UNCHANGED <<state, number, first_act_cycle_banks, window_ref, actcyclesBanks>>

Wr(t, b) ==
  /\ b \in bank_state
  /\ Issued(t, 1)
  /\ cycles' = [cycles EXCEPT !.idle_act = @ + IdleAct(t)]
  /\ at' = [Ended(at) EXCEPT !.latest_wr = t]
  /\ UNCHANGED <<state, number, first_act_cycle_banks, window_ref, actcyclesBanks>>

\* The precharges of banks `bs` are counted under the number of mats that are active.
Closed(bs) ==
  [b \in Bank |-> IF b \in bs THEN [number["pre"][b] EXCEPT ![bank_partial_state[b]] = @ + 1]
                  ELSE number["pre"][b]]

\* Banks `bs` are closed at t.
\* Mutant of Close: the number of active mats stays.
CloseStale(t, bs) ==
  /\ bank_state' = bank_state \ bs
  /\ mat_state' = [b \in Bank |-> IF b \in bs THEN {} ELSE mat_state[b]]
  /\ number' = [number EXCEPT !["pre"] = Closed(bs)]
  /\ actcyclesBanks' = [b \in Bank |-> IF b \in bs THEN BankCycles(t)[b] ELSE actcyclesBanks[b]]
  /\ UNCHANGED bank_partial_state

Close(t, bs) ==
  /\ bank_state' = bank_state \ bs
  /\ bank_partial_state' = [b \in Bank |-> IF b \in bs THEN 0 ELSE bank_partial_state[b]]
  /\ mat_state' =
       [b \in Bank |-> IF b \in bs /\ bank_partial_state[b] > 0 THEN {} ELSE mat_state[b]]
  /\ number' = [number EXCEPT !["pre"] = Closed(bs)]
  /\ actcyclesBanks' = [b \in Bank |-> IF b \in bs THEN BankCycles(t)[b] ELSE actcyclesBanks[b]]

\* The end of an active time, if no other bank is active
EndActive(t, bs) ==
  IF bank_state \subseteq bs
  THEN /\ cycles' = [cycles EXCEPT !.act = @ + Max0(t - at.first_act), !.idle_act = @ + IdleAct(t)]
       /\ at' = [Ended(at) EXCEPT !.last_pre = t, !.latest_pre = t]
  ELSE /\ at' = [at EXCEPT !.latest_pre = t]
       /\ UNCHANGED cycles

\* handlePre of one bank, handlePreA of all; without an active one they only warn.
Pre(t, bs) ==
  /\ Issued(t, 1)
  /\ IF bs \cap bank_state = {}
     THEN UNCHANGED <<bank_state, bank_partial_state, mat_state, number, actcyclesBanks, cycles, at>>
     ELSE Close(t, bs \cap bank_state) /\ EndActive(t, bs)
  /\ UNCHANGED <<last_bank_state, mem_state, first_act_cycle_banks, window_ref>>

\* handleRef: the cycles of the refresh are counted at once, its end is in the future.
Ref(t) ==
  /\ bank_state = {}
  /\ Issued(t, RFC)
  /\ cycles' = [cycles EXCEPT !.idle_pre = @ + IdlePre(t),
                              !.pre = @ + Max0(t - at.last_pre), !.act = @ + (RFC - RP)]
  /\ at' = [at EXCEPT !.first_act = t, !.last_pre = t + RFC - RP, !.latest_pre = t + RFC - RP]
  /\ first_act_cycle_banks' = [b \in Bank |-> t]
  /\ actcyclesBanks' = [b \in Bank |-> actcyclesBanks[b] + RFC - RP]
  /\ mat_state' = [b \in Bank |-> {}]
  /\ UNCHANGED <<bank_state, last_bank_state, bank_partial_state, mem_state, window_ref, number>>

\* handleRefB; the memory counts as precharged.
RefB(t, b) ==
  /\ b \notin bank_state
  /\ Issued(t, 1)
  /\ actcyclesBanks' = [actcyclesBanks EXCEPT ![b] = @ + RAS + RP]
  /\ UNCHANGED <<state, at, first_act_cycle_banks, window_ref, cycles, number>>

-----------------------------------------------------------------------------
(***************************************************************************)
(* Power-down, fast or slow exit, and self-refresh.  Ramulator's main      *)
(* program does not use them; traces given to DRAMPower do.                *)
(***************************************************************************)
PdnAct(t, mode) ==
  /\ bank_state # {}
  /\ Issued(t, 1)
  /\ mem_state' = mode
  /\ last_bank_state' = bank_state
  /\ cycles' = [cycles EXCEPT !.act = @ + Max0(t - at.first_act), !.idle_act = @ + IdleAct(t)]
  /\ actcyclesBanks' = BankCycles(t)
  /\ at' = [Ended(at) EXCEPT !.pdn = t]
  /\ UNCHANGED <<bank_state, bank_partial_state, mat_state, first_act_cycle_banks, window_ref,
                 number>>

PdnPre(t, mode) ==
  /\ bank_state = {}
  /\ Issued(t, 1)
  /\ mem_state' = mode
  /\ cycles' = [cycles EXCEPT !.pre = @ + Max0(t - at.last_pre), !.idle_pre = @ + IdlePre(t)]
  /\ at' = [at EXCEPT !.pdn = t]
  /\ UNCHANGED <<bank_state, last_bank_state, bank_partial_state, mat_state,
                 first_act_cycle_banks, window_ref, actcyclesBanks, number>>

\* The rank leaves a power-down or self-refresh at t.
Leaves(t, gap) ==
  /\ t > clk /\ clk' = t /\ ready' = t + gap
  /\ mem_state' = "not_in_pd"
  /\ UNCHANGED <<past, number, window_ref>>

PupAct(t) ==
  LET fast == mem_state = "f_act_pd"
      soon == fast \/ ~dll
  IN
  /\ mem_state \in {"f_act_pd", "s_act_pd"}
  /\ Leaves(t, IF soon THEN XP ELSE XPDLL)
  /\ cycles' = [cycles EXCEPT ![mem_state] = @ + Max0(t - at.pdn),
                              !.pup_act = @ + IF soon THEN XP ELSE XPDLL - RCD]
  /\ at' = [at EXCEPT !.latest_act = IF soon THEN t ELSE t + Max0(XPDLL - 2 * RCD),
                      !.first_act = t]
  /\ bank_state' = last_bank_state
  /\ first_act_cycle_banks' = [b \in Bank |-> t]
  /\ UNCHANGED <<last_bank_state, bank_partial_state, mat_state, actcyclesBanks>>

PupPre(t) ==
  LET soon == mem_state = "f_pre_pd" \/ ~dll IN
  /\ mem_state \in {"f_pre_pd", "s_pre_pd"}
  /\ Leaves(t, IF soon THEN XP ELSE XPDLL)
  /\ cycles' = [cycles EXCEPT ![mem_state] = @ + Max0(t - at.pdn),
                              !.pup_pre = @ + IF soon THEN XP ELSE XPDLL - RCD]
  /\ at' = [at EXCEPT !.latest_pre = IF soon THEN t ELSE t + Max0(XPDLL - RCD - RP),
                      !.last_pre = t]
  /\ UNCHANGED <<bank_state, last_bank_state, bank_partial_state, mat_state,
                 first_act_cycle_banks, actcyclesBanks>>

SREn(t) ==
  /\ bank_state = {}
  /\ Issued(t, 1)
  /\ mem_state' = "sref"
  /\ cycles' = [cycles EXCEPT !.pre = @ + Max0(t - at.last_pre), !.idle_pre = @ + IdlePre(t)]
  /\ at' = [at EXCEPT !.sref = t, !.sref_window = t]
  /\ window_ref' = [act |-> 0, pre |-> 0]
  /\ UNCHANGED <<bank_state, last_bank_state, bank_partial_state, mat_state,
                 first_act_cycle_banks, actcyclesBanks, number>>

\* The exit from self-refresh: spup cycles, of which `refresh` still belong to the
\* auto-refresh that a self-refresh begins with.
Exit(t, refresh, counted) ==
  LET spup == IF dll THEN XSDLL - RCD ELSE XS IN
  /\ cycles' = [counted EXCEPT !.spup = @ + (spup - refresh)]
  /\ at' = [at EXCEPT !.last_pre = t + refresh, !.latest_pre = t + Max0(spup - refresh - RP)]

SREx(t) ==
  LET refAct == RFC - RP
      spent  == t - at.sref
      pre    == spent - refAct - window_ref.pre
  IN
  /\ mem_state = "sref"
  /\ Leaves(t, IF dll THEN XSDLL ELSE XS)
  /\ \/ /\ spent >= RFC
        /\ Exit(t, 0,
             [cycles EXCEPT !.sref_ref_act = @ + (refAct - window_ref.act),
                            !.sref_ref_pre = @ + (RP - window_ref.pre),
                            !.sref = @ + Max0(t - Later(at.sref + RFC, at.sref_window))])
     \/ /\ spent \in refAct..(RFC - 1)
        /\ Exit(t, RP - pre,
             [cycles EXCEPT !.sref_ref_act = @ + (refAct - window_ref.act),
                            !.sref_ref_pre = @ + pre,
                            !.spup_ref_pre = @ + (RP - pre)])
     \/ /\ spent < refAct
        /\ Exit(t, RFC - spent,
             [cycles EXCEPT !.sref_ref_act = @ + (spent - window_ref.act),
                            !.spup_ref_act = @ + (refAct - spent),
                            !.spup_ref_pre = @ + RP])
  /\ UNCHANGED <<bank_state, last_bank_state, bank_partial_state, mat_state,
                 first_act_cycle_banks, actcyclesBanks>>

-----------------------------------------------------------------------------
(***************************************************************************)
(* The end of a window (calcWindowEnergy): handleNopEnd counts up to it,   *)
(* the energy is computed, and clearStats starts the next window.          *)
(***************************************************************************)
\* In self-refresh the cycles since the last window belong to the active part of the
\* first refresh, then to its precharge, and then to the self-refresh proper.
RefreshCycles(t) ==
  LET actEnd == at.sref + RFC - RP
      refEnd == at.sref + RFC
      Part(from, to) == Max0(Earlier(t, to) - Later(at.sref_window, from))
  IN  [act |-> Part(at.sref, actEnd), pre |-> Part(actEnd, refEnd),
       sref |-> Max0(t - Later(at.sref_window, refEnd))]

\* Mutant of AtEnd: a power-down is not counted up to the end of the window.
AtEndAwake(t) ==
  IF mem_state = "sref"
  THEN [cycles EXCEPT !.sref_ref_act = @ + RefreshCycles(t).act,
                      !.sref_ref_pre = @ + RefreshCycles(t).pre,
                      !.sref = @ + RefreshCycles(t).sref]
  ELSE IF mem_state # "not_in_pd" THEN cycles
  ELSE IF bank_state # {}
  THEN [cycles EXCEPT !.act = @ + Max0(t - at.first_act), !.idle_act = @ + IdleAct(t)]
  ELSE [cycles EXCEPT !.pre = @ + Max0(t - at.last_pre), !.idle_pre = @ + IdlePre(t)]

AtEnd(t) ==
  IF mem_state = "sref"
  THEN [cycles EXCEPT !.sref_ref_act = @ + RefreshCycles(t).act,
                      !.sref_ref_pre = @ + RefreshCycles(t).pre,
                      !.sref = @ + RefreshCycles(t).sref]
  ELSE IF mem_state # "not_in_pd" THEN [cycles EXCEPT ![mem_state] = @ + Max0(t - at.pdn)]
  ELSE IF bank_state # {}
  THEN [cycles EXCEPT !.act = @ + Max0(t - at.first_act), !.idle_act = @ + IdleAct(t)]
  ELSE [cycles EXCEPT !.pre = @ + Max0(t - at.last_pre), !.idle_pre = @ + IdlePre(t)]

Cleared(t) ==
  [at EXCEPT !.first_act = t, !.pdn = t, !.sref_window = t,
             !.end_act = t, !.end_rd = t, !.end_wr = t, !.latest_rd = -1, !.latest_wr = -1,
             !.last_pre = Later(t, @), !.latest_pre = Later(t, @),
             !.latest_act = IF @ < t THEN -1 ELSE @]

\* window_cycles of the power model
WindowCycles(c) ==
  c.act + c.pre + c.f_act_pd + c.f_pre_pd + c.s_act_pd + c.s_pre_pd + c.sref
  + c.sref_ref_act + c.sref_ref_pre + c.spup_ref_act + c.spup_ref_pre

OpenRows == [b \in Bank |-> [n \in Width |-> past.open[b][n] + number["act"][b][n] - number["pre"][b][n]]]

Window(t) ==
  /\ t > clk /\ clk' = t - 1
  /\ past' = [cycles |-> past.cycles + WindowCycles(AtEnd(t)), open |-> OpenRows]
  /\ cycles' = NoCycles
  /\ number' = NoCommands
  /\ actcyclesBanks' = [b \in Bank |-> 0]
  /\ at' = Cleared(t)
  /\ first_act_cycle_banks' = [b \in Bank |-> t]
  /\ window_ref' = IF mem_state = "sref"
                   THEN [act |-> window_ref.act + RefreshCycles(t).act,
                         pre |-> window_ref.pre + RefreshCycles(t).pre]
                   ELSE window_ref
  /\ UNCHANGED <<state, ready>>

-----------------------------------------------------------------------------
Next ==
  \/ \E t \in (clk + 1)..(MaxTime + 1) : Window(t)
  \/ \E t \in (clk + 1)..MaxTime :
    \/ \E b \in Bank : Act(t, b) \/ Rd(t, b) \/ Wr(t, b) \/ Pre(t, {b}) \/ RefB(t, b)
    \/ \E b \in Bank, mats \in (SUBSET Mat) \ {{}} : PartialAct(t, b, mats)
    \/ Pre(t, Bank)
    \/ Ref(t)
    \/ \E mode \in {"f_act_pd", "s_act_pd"} : PdnAct(t, mode)
    \/ \E mode \in {"f_pre_pd", "s_pre_pd"} : PdnPre(t, mode)
    \/ PupAct(t) \/ PupPre(t) \/ SREn(t) \/ SREx(t)

Spec == Init /\ [][Next]_vars

-----------------------------------------------------------------------------
(***************************************************************************)
(* The type of the state.  No counter of a window is negative, though some *)
(* are corrected by what earlier windows counted (CmdHandlers.cc:508).     *)
(***************************************************************************)
TypeOK ==
  /\ {bank_state, last_bank_state} \subseteq SUBSET Bank
  /\ bank_partial_state \in [Bank -> Width]
  /\ mat_state \in [Bank -> SUBSET Mat]
  /\ mem_state \in {"not_in_pd", "f_act_pd", "s_act_pd", "f_pre_pd", "s_pre_pd", "sref"}
  /\ cycles \in [DOMAIN NoCycles -> Nat]
  /\ actcyclesBanks \in [Bank -> Nat]
  /\ number \in [{"act", "pre"} -> [Bank -> [Width -> Nat]]]
  /\ window_ref.act \in 0..(RFC - RP) /\ window_ref.pre \in 0..RP

(***************************************************************************)
(* Every cycle is counted once, in one state of the rank: what all windows *)
(* counted together is the time up to the stamp from which the code counts *)
(* next, be it that a refresh reaches into the next window, a power-down   *)
(* lasts for several, or a self-refresh ends in the middle of its first    *)
(* refresh.  It does not say that the stamp is right: an exit from a       *)
(* self-refresh whose first precharge a window cut counts cycles again and *)
(* moves the stamp along with them (CmdHandlers.cc:571-582).               *)
(***************************************************************************)
CountedTo ==
  IF mem_state = "sref" THEN at.sref_window
  ELSE IF mem_state # "not_in_pd" THEN at.pdn
  ELSE IF bank_state # {} THEN at.first_act ELSE at.last_pre

CyclesCountedOnce == past.cycles + WindowCycles(cycles) = CountedTo

(***************************************************************************)
(* Activations and precharges are counted in pairs, under the same number  *)
(* of mats, whichever command closes the bank and in whichever window: the *)
(* activations of n mats without precharge are the open rows with n mats.  *)
(***************************************************************************)
RowsPaired ==
  \A b \in Bank, n \in Width :
    OpenRows[b][n] = IF b \in bank_state /\ n = bank_partial_state[b] THEN 1 ELSE 0

(***************************************************************************)
(* The idle cycles of the active rank are part of its active cycles,       *)
(* though they are found at each read or write and the others at its end.  *)
(***************************************************************************)
Awake(from) == IF mem_state = "not_in_pd" THEN Max0(clk - from) ELSE 0

IdleWithin ==
  cycles.idle_act <= cycles.act + IF bank_state # {} THEN Awake(at.first_act) ELSE 0

(***************************************************************************)
(* "Clock cycle of first activate command when memory state changes to     *)
(* ACT" (CommandAnalysis.h:218), and the same per bank: a bank that is     *)
(* closed was not active for longer than the rank.                         *)
(***************************************************************************)
BankWithinRank ==
  [][\A b \in bank_state : mem_state = "not_in_pd" /\ b \notin bank_state' =>
       actcyclesBanks'[b] - actcyclesBanks[b] <= clk' - at.first_act]_vars

=============================================================================
