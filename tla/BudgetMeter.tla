--------------------------- MODULE BudgetMeter ----------------------------
(***************************************************************************)
(* What the chokepoint promises about one counted resource, whatever the   *)
(* interleaving of its callers: every unit is charged by one caller, one   *)
(* at a time, and a charge that takes the total past the limit halts the   *)
(* caller that made it.  A halted caller charges no more, so the total     *)
(* passes the limit by at most one unit per caller: a hard limit checked   *)
(* after the fact, not a reservation made before.                          *)
(***************************************************************************)
EXTENDS Naturals

CONSTANTS Callers, Limit, Unlimited

VARIABLES charged, halted

meterVars == <<charged, halted>>

Init == charged = 0 /\ halted = {}

Charge(c) ==
  /\ c \notin halted
  /\ charged' = charged + 1
  /\ halted' \in {halted, halted \union {c}}
  /\ (Limit # Unlimited /\ charged' > Limit) => c \in halted'

(* A caller halts for another reason: another dimension of the budget.       *)
Halt(c) ==
  /\ c \notin halted
  /\ halted' = halted \union {c}
  /\ UNCHANGED charged

Next == \E c \in Callers : Charge(c) \/ Halt(c)

Spec == Init /\ [][Next]_meterVars
=============================================================================
