-------------------------------- MODULE DDR4 --------------------------------
(***************************************************************************)
(* One rank of DDR4 DRAM as the controller sees it: the state a command    *)
(* leaves a bank in, the command a request needs next, and the number of   *)
(* cycles a command keeps later commands waiting.  The tables translated   *)
(* here are the lambdas of DDR4.cpp (init_prereq, init_lambda,             *)
(* init_timing) as the tree walk of DRAM.h applies them.                   *)
(*                                                                         *)
(* The rank holds one bank per bank group, so the "L" parameters separate  *)
(* commands to one bank and the "S" parameters commands to two banks.      *)
(* Power-down and self-refresh are left out: no code in this repository    *)
(* sends a POWERDOWN or SELFREFRESH request.                               *)
(***************************************************************************)
EXTENDS Integers

CONSTANTS
  Bank,          \* banks of the rank
  Row,           \* rows of a bank
  Sector,        \* sectors of a row (64 / sector_size of them)
  speed_entry    \* timing parameters, a record with the fields of SpeedEntry

SpeedFields ==
  {"nBL", "nCL", "nCWL", "nRCD", "nRP", "nRAS", "nRC", "nRTP", "nWR", "nCCDS",
   "nCCDL", "nWTRS", "nWTRL", "nRRDS", "nRRDL", "nRFC", "nFAW"}

\* nFAW is the 34 that Controller.cpp hardcodes for its sector budget.  The
\* nFAW of init_speed is 0, so the rule of init_timing for every fourth
\* activate never makes one wait and is left out.
ASSUME SpeedAssumption == speed_entry \in [SpeedFields -> Nat]

T == speed_entry

BankCmd == {"ACT", "PRE", "RD", "WR"}
RankCmd == {"PREA", "REF"}
Command == BankCmd \cup RankCmd

is_opening(cmd)   == cmd = "ACT"
is_accessing(cmd) == cmd \in {"RD", "WR"}
is_closing(cmd)   == cmd \in {"PRE", "PREA"}

read_latency == T.nCL + T.nBL

(***************************************************************************)
(* A bank: the rows that are open (one or none) and the sectors of the     *)
(* open row that were activated.                                           *)
(***************************************************************************)
BankState == [row_state : SUBSET Row, sectors : SUBSET Sector]

Closed == [row_state |-> {}, sectors |-> {}]

Opened(row, sectors) == [row_state |-> {row}, sectors |-> sectors]

\* A bank that was opened with no sector set is a conventional one: its whole
\* row is open.
SectorsOpen(bank, sectors) == bank.sectors = {} \/ sectors \subseteq bank.sectors

\* The command a RD or WR of the sectors of a row needs first.
prereq(bank, cmd, row, sectors) ==
  IF bank.row_state = {} THEN "ACT"
  ELSE IF row \in bank.row_state /\ SectorsOpen(bank, sectors) THEN cmd
  ELSE "PRE"

\* The command a REF needs first.
prereqREF(banks) ==
  IF \A b \in Bank : banks[b].row_state = {} THEN "REF" ELSE "PREA"

(***************************************************************************)
(* Cycles between command cmd and a later command: to the same bank        *)
(* (samebank), to another bank of the rank, or to the rank as a whole      *)
(* (later is PREA or REF).  Zero: no constraint.                           *)
(***************************************************************************)
Longer(a, b) == IF a >= b THEN a ELSE b

AfterACT(later, samebank) ==
  CASE later \in {"RD", "WR"} -> IF samebank THEN T.nRCD ELSE 0
    [] later = "PRE"  -> IF samebank THEN T.nRAS ELSE 0
    [] later = "ACT"  -> IF samebank THEN Longer(T.nRC, T.nRRDL) ELSE T.nRRDS
    [] later = "PREA" -> T.nRAS
    [] later = "REF"  -> T.nRC

AfterPRE(later, samebank) ==
  CASE later = "ACT" -> IF samebank THEN T.nRP ELSE 0
    [] later = "REF" -> T.nRP
    [] OTHER         -> 0

AfterRD(later, samebank) ==
  CASE later = "RD"   -> Longer(T.nBL, IF samebank THEN Longer(T.nCCDL, T.nCCDS) ELSE T.nCCDS)
    [] later = "WR"   -> T.nCL + T.nBL + 2 - T.nCWL
    [] later = "PRE"  -> IF samebank THEN T.nRTP ELSE 0
    [] later = "PREA" -> T.nRTP
    [] OTHER          -> 0

AfterWR(later, samebank) ==
  CASE later = "WR"   -> Longer(T.nBL, IF samebank THEN Longer(T.nCCDL, T.nCCDS) ELSE T.nCCDS)
    [] later = "RD"   -> T.nCWL + T.nBL + (IF samebank THEN Longer(T.nWTRL, T.nWTRS) ELSE T.nWTRS)
    [] later = "PRE"  -> IF samebank THEN T.nCWL + T.nBL + T.nWR ELSE 0
    [] later = "PREA" -> T.nCWL + T.nBL + T.nWR
    [] OTHER          -> 0

AfterPREA(later) == IF later \in {"ACT", "REF"} THEN T.nRP ELSE 0

AfterREF(later) == IF later \in {"ACT", "REF"} THEN T.nRFC ELSE 0

Gap(cmd, later, samebank) ==
  CASE cmd = "ACT"  -> AfterACT(later, samebank)
    [] cmd = "PRE"  -> AfterPRE(later, samebank)
    [] cmd = "RD"   -> AfterRD(later, samebank)
    [] cmd = "WR"   -> AfterWR(later, samebank)
    [] cmd = "PREA" -> AfterPREA(later)
    [] cmd = "REF"  -> AfterREF(later)

(***************************************************************************)
(* The code keeps, per node and command, next[cmd]: the first cycle the    *)
(* command is allowed in.  The model keeps the distance to it, which is    *)
(* what check() compares: 0 is "allowed now".                              *)
(***************************************************************************)
\* Mutant of Elapse: the distance is not held at zero.
ElapseUnclamped(wait) == wait - 1

Elapse(wait) == IF wait > 0 THEN wait - 1 ELSE 0

\* Mutant of ElapseRank: time passes for the banks only.
ElapseRankNever(next) == next

ElapseBanks(next) == [b \in Bank |-> [c \in BankCmd |-> Elapse(next[b][c])]]
ElapseRank(next)  == [c \in RankCmd |-> Elapse(next[c])]

\* update_timing for a command to one bank b.
UpdateBanks(next, cmd, b) ==
  [x \in Bank |-> [c \in BankCmd |-> Longer(next[x][c], Gap(cmd, c, x = b))]]

\* update_timing for a command to the rank.
UpdateAllBanks(next, cmd) ==
  [x \in Bank |-> [c \in BankCmd |-> Longer(next[x][c], Gap(cmd, c, TRUE))]]

UpdateRank(next, cmd) ==
  [c \in RankCmd |-> Longer(next[c], Gap(cmd, c, TRUE))]

=============================================================================
