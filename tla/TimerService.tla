---------------------------- MODULE TimerService ----------------------------
(***************************************************************************)
(* What the user timers promise.  A timer that runs expires when as many   *)
(* ticks have passed as it was started for, then, if it is periodic, after *)
(* every period; each expiry calls the callback once, in the order of the  *)
(* expiries.  An expiry may go without a callback only if Capacity of them *)
(* are still to come.                                                      *)
(***************************************************************************)
EXTENDS Naturals, Sequences

CONSTANTS Timer, Ticks, Capacity, Never

VARIABLES st,     \* "invalid", "stopped" or "running"
          type,   \* "once" or "periodic"
          left,   \* the ticks a running timer has left
          period, \* what a running timer was first started for
          due,    \* the timers whose callbacks are still to come
          called  \* the timer whose callback runs

vars == <<st, type, left, period, due, called>>

Init ==
    /\ st = [t \in Timer |-> "invalid"]
    /\ type = [t \in Timer |-> "once"]
    /\ left = [t \in Timer |-> 0]
    /\ period = [t \in Timer |-> 0]
    /\ due = <<>> /\ called = Never

Runs(t) == st[t] = "running"

Create(t) ==
    /\ st[t] = "invalid"
    /\ st' = [st EXCEPT ![t] = "stopped"]
    /\ \E y \in {"once", "periodic"} : type' = [type EXCEPT ![t] = y]
    /\ UNCHANGED <<left, period, due, called>>

\* A timer that runs is started again for n ticks, and keeps its period.
Start(t, n) ==
    /\ st[t] # "invalid"
    /\ left' = [left EXCEPT ![t] = n]
    /\ IF Runs(t) THEN UNCHANGED <<st, period>>
       ELSE st' = [st EXCEPT ![t] = "running"] /\ period' = [period EXCEPT ![t] = n]
    /\ UNCHANGED <<type, due, called>>

Halt(t, new) ==
    /\ st[t] # "invalid"
    /\ st' = [st EXCEPT ![t] = new]
    /\ left' = [left EXCEPT ![t] = 0] /\ period' = [period EXCEPT ![t] = 0]
    /\ UNCHANGED <<type, due, called>>

\* No tick comes before all that is due has expired.
Tick ==
    /\ \A t \in Timer : Runs(t) => left[t] > 0
    /\ left' = [t \in Timer |-> IF Runs(t) THEN left[t] - 1 ELSE 0]
    /\ UNCHANGED <<st, type, period, due, called>>

Expire(t) ==
    /\ Runs(t) /\ left[t] = 0
    /\ due' = Append(due, t) \/ (Len(due) >= Capacity /\ UNCHANGED due)
    /\ IF type[t] = "periodic"
       THEN left' = [left EXCEPT ![t] = period[t]] /\ UNCHANGED <<st, period>>
       ELSE /\ st' = [st EXCEPT ![t] = "stopped"] /\ period' = [period EXCEPT ![t] = 0]
            /\ UNCHANGED left
    /\ UNCHANGED <<type, called>>

Call ==
    /\ due # <<>> /\ called = Never
    /\ called' = Head(due) /\ due' = Tail(due)
    /\ UNCHANGED <<st, type, left, period>>

Return == called # Never /\ called' = Never /\ UNCHANGED <<st, type, left, period, due>>

Next ==
    \/ \E t \in Timer :
          \/ Create(t)
          \/ \E n \in Ticks : Start(t, n)
          \/ Halt(t, "stopped") \/ Halt(t, "invalid")
          \/ Expire(t)
    \/ Tick \/ Call \/ Return

Spec == Init /\ [][Next]_vars
=============================================================================
