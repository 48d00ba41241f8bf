--------------------------- MODULE SlidingWindow --------------------------
(***************************************************************************)
(* What a rate limiter promises of one tool, whatever its clock says and   *)
(* whoever waits at its lock: stamps leave its window at any time, and a   *)
(* call is admitted, one at a time, only when those that are left leave    *)
(* room for it.  Both the limiter itself (RateLimiter) and the window that *)
(* the chokepoint keeps of it (ToolGate) implement this.                   *)
(***************************************************************************)
EXTENDS Naturals

CONSTANT Limit

VARIABLE inWindow   \* stamps that count against the limit

Init == inWindow = 0

(* Stamps are too old, or the tool is reset.                                 *)
Drop == inWindow' \in 0 .. inWindow

(* A call is admitted once what is old has been dropped.                     *)
Admit ==
  \E left \in 0 .. inWindow :
    /\ left < Limit
    /\ inWindow' = left + 1

Next == Drop \/ Admit

Spec == Init /\ [][Next]_inWindow
=============================================================================
