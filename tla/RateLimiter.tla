---------------------------- MODULE RateLimiter ----------------------------
(***************************************************************************)
(* tools/rate_limiter.py: the window of one tool between the threads that  *)
(* check it.  A thread reads the clock, waits for the lock and only then   *)
(* drops what is too old and appends its reading, so stamps enter the      *)
(* deque late and out of order.  The deque is the tail of admitted from    *)
(* head on: what was popped stays in the log for the properties.           *)
(***************************************************************************)
EXTENDS Integers, Sequences

CONSTANTS
  Threads,
  MaxCalls,   \* RateLimitPolicy.max_calls
  Window,     \* RateLimitPolicy.window_s, in ticks
  MaxDelay,   \* assumed: ticks between a reading of the clock and the lock
  ClockBound  \* bound: time.monotonic()

ASSUME RateAssumption ==
  /\ MaxCalls \in Nat \ {0}
  /\ Window \in Nat \ {0}
  /\ MaxDelay \in Nat
  /\ ClockBound \in Nat

VARIABLES
  clock,     \* time.monotonic()
  reading,   \* reading[t]: t's now while it waits for the lock, or -1
  admitted,  \* admissions since the last reset: the stamp, and when it was
  head       \* index in admitted of the deque's left end

rateVars == <<clock, reading, admitted, head>>

-----------------------------------------------------------------------------
Old(i, cutoff) == admitted[i].stamp < cutoff

(* Where popleft stops: at the first stamp that is not old, not behind it.   *)
StopsAt(i, cutoff) ==
  /\ i \in head .. Len(admitted) + 1
  /\ \A j \in head .. i - 1 : Old(j, cutoff)
  /\ i <= Len(admitted) => ~Old(i, cutoff)

(* Mutant: the limit itself still has room.                                  *)
FullPastLimit(i) == Len(admitted) - i + 1 > MaxCalls

Full(i) == Len(admitted) - i + 1 >= MaxCalls

ReadClock(t) ==
  /\ reading[t] = -1
  /\ reading' = [reading EXCEPT ![t] = clock]
  /\ UNCHANGED <<clock, admitted, head>>

(* check, in its lock, answering True.                                       *)
AdmitCall(t) ==
  /\ reading[t] # -1
  /\ \E i \in head .. Len(admitted) + 1 :
       /\ StopsAt(i, reading[t] - Window)
       /\ ~Full(i)
       /\ head' = i
  /\ admitted' = Append(admitted, [stamp |-> reading[t], at |-> clock])
  /\ reading' = [reading EXCEPT ![t] = -1]
  /\ UNCHANGED clock

(* check, in its lock, answering False.                                      *)
RefuseCall(t) ==
  /\ reading[t] # -1
  /\ \E i \in head .. Len(admitted) + 1 :
       /\ StopsAt(i, reading[t] - Window)
       /\ Full(i)
       /\ head' = i
  /\ reading' = [reading EXCEPT ![t] = -1]
  /\ UNCHANGED <<clock, admitted>>

(* remaining, which drops too; its own reading may be as old as any.         *)
Remaining ==
  /\ \E now \in (clock - MaxDelay) .. clock, i \in head .. Len(admitted) + 1 :
       /\ StopsAt(i, now - Window)
       /\ head' = i
  /\ UNCHANGED <<clock, reading, admitted>>

(* reset of this tool or of all.                                             *)
ResetWindow ==
  /\ admitted' = <<>>
  /\ head' = 1
  /\ UNCHANGED <<clock, reading>>

(* Time passes no further than the threads at the lock may wait.             *)
Tick ==
  /\ clock < ClockBound
  /\ \A t \in Threads : reading[t] # -1 => clock - reading[t] < MaxDelay
  /\ clock' = clock + 1
  /\ UNCHANGED <<reading, admitted, head>>

RateInit ==
  /\ clock = 0
  /\ reading = [t \in Threads |-> -1]
  /\ admitted = <<>>
  /\ head = 1

RateNext ==
  \/ \E t \in Threads : ReadClock(t) \/ AdmitCall(t) \/ RefuseCall(t)
  \/ Remaining \/ ResetWindow \/ Tick

RateSpec == RateInit /\ [][RateNext]_rateVars

-----------------------------------------------------------------------------
RateTypeOK ==
  /\ clock \in Nat
  /\ reading \in [Threads -> Nat \cup {-1}]
  /\ admitted \in Seq([stamp : Nat, at : Nat])
  /\ head \in 1 .. Len(admitted) + 1

(* Between an admission and the one MaxCalls later lies the window, less     *)
(* what a thread may have waited at the lock: unsorted stamps let no more    *)
(* through.  (check, rate_limiter.py:47-60.)                                 *)
WindowKept ==
  \A i \in 1 .. Len(admitted) - MaxCalls :
    admitted[i + MaxCalls].at - admitted[i].at > Window - MaxDelay

(* A call is refused only when the last MaxCalls admissions all came within  *)
(* the window and the longest wait: no old stamp hidden behind a younger one *)
(* keeps a caller out for longer.  (check, rate_limiter.py:53-57.)           *)
RefusedWhenBusy ==
  [][\A t \in Threads : RefuseCall(t) =>
       /\ Len(admitted) >= MaxCalls
       /\ \A i \in Len(admitted) - MaxCalls + 1 .. Len(admitted) :
            clock - admitted[i].at <= Window + MaxDelay]_rateVars

(* The limiter implements the abstract window: the deque's length.           *)
Limiter == INSTANCE SlidingWindow
             WITH Limit <- MaxCalls, inWindow <- Len(admitted) - head + 1
LimiterSpec == Limiter!Spec
=============================================================================
