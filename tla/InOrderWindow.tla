---------------------------- MODULE InOrderWindow ----------------------------
(***************************************************************************)
(* What the instruction window of a core promises: a queue of at most      *)
(* depth instructions.  In a cycle at most ipc of the oldest leave it, all *)
(* of them ready, and at most ipc enter behind the youngest; an answer     *)
(* takes missing sectors from instructions where they are, and one that    *)
(* was ready stays so.                                                     *)
(***************************************************************************)
EXTENDS Naturals, Sequences

CONSTANTS Core, ipc, depth

VARIABLE waiting   \* per core, from old to young: ready, and what is missing

Init == waiting = [k \in Core |-> << >>]

\* Queue q becomes r in a cycle that retires n instructions.
Cycled(q, r, n) ==
  /\ \A i \in 1..n : q[i].ready
  /\ Len(q) - n <= Len(r)
  /\ Len(r) <= Len(q) - n + ipc
  /\ Len(r) <= depth
  /\ \A i \in 1..(Len(q) - n) : r[i] = q[i + n]

Cycle ==
  \A k \in Core : \E n \in 0..ipc :
    n <= Len(waiting[k]) /\ Cycled(waiting[k], waiting'[k], n)

Answer ==
  \A k \in Core :
    LET q == waiting[k]
        r == waiting'[k]
    IN  /\ Len(r) = Len(q)
        /\ \A i \in 1..Len(q) : /\ r[i].left \subseteq q[i].left
                                /\ q[i].ready => r[i].ready
                                /\ r[i].ready => q[i].ready \/ r[i].left = {}

Next == Cycle \/ Answer

Spec == Init /\ [][Next]_waiting

=============================================================================
