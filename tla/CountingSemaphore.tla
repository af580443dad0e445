------------------------- MODULE CountingSemaphore --------------------------
(***************************************************************************)
(* What a set of semaphores promises: tokens are neither lost nor made up. *)
(* Every token a thread returns with was released, or was there when the   *)
(* semaphore was created, and was given to nobody else; a thread stops     *)
(* waiting with a token, by giving up, or because the semaphore is closed. *)
(***************************************************************************)
EXTENDS Naturals

CONSTANTS Sem, Thread, Counts

VARIABLES value,    \* the tokens released and not taken
          released, \* the releases since the creation
          waiting,  \* the threads that wait
          open,     \* the semaphore exists
          got       \* the threads whose last wait ended with a token

vars == <<value, released, waiting, open, got>>

Init ==
    /\ value = [o \in Sem |-> 0]
    /\ released = [o \in Sem |-> 0]
    /\ waiting = [o \in Sem |-> {}]
    /\ open = [o \in Sem |-> FALSE]
    /\ got = {}

\* A new semaphore knows nothing of the releases of the one before it.
Create(o, n) ==
    /\ ~open[o]
    /\ value' = [value EXCEPT ![o] = n]
    /\ released' = [released EXCEPT ![o] = 0]
    /\ open' = [open EXCEPT ![o] = TRUE]
    /\ UNCHANGED <<waiting, got>>

Release(o) ==
    /\ open[o]
    /\ value' = [value EXCEPT ![o] = @ + 1]
    /\ released' = [released EXCEPT ![o] = @ + 1]
    /\ UNCHANGED <<waiting, open, got>>

Take(o, t) ==
    /\ open[o] /\ value[o] > 0 /\ t \notin waiting[o]
    /\ value' = [value EXCEPT ![o] = @ - 1]
    /\ got' = got \cup {t}
    /\ UNCHANGED <<released, waiting, open>>

\* t starts to wait, or is told at once that there is no token.
Wait(o, t) ==
    /\ open[o] /\ \A s \in Sem : t \notin waiting[s]
    /\ waiting' \in {waiting, [waiting EXCEPT ![o] = @ \cup {t}]}
    /\ got' = got \ {t}
    /\ UNCHANGED <<value, released, open>>

Served(o, t) ==
    /\ t \in waiting[o]
    /\ waiting' = [waiting EXCEPT ![o] = @ \ {t}]
    /\ got' = got \cup {t}
    /\ UNCHANGED open

\* t returns with a token that was released before.
Hand(o, t) ==
    /\ Served(o, t) /\ value[o] > 0
    /\ value' = [value EXCEPT ![o] = @ - 1]
    /\ UNCHANGED released

\* A release and the return of t with its token in one step.
HandOver(o, t) ==
    /\ Served(o, t) /\ open[o]
    /\ released' = [released EXCEPT ![o] = @ + 1]
    /\ UNCHANGED value

GiveUp(o, t) ==
    /\ t \in waiting[o]
    /\ waiting' = [waiting EXCEPT ![o] = @ \ {t}]
    /\ UNCHANGED <<value, released, open, got>>

Close(o) ==
    /\ open[o]
    /\ open' = [open EXCEPT ![o] = FALSE]
    /\ value' = [value EXCEPT ![o] = 0]
    /\ waiting' = [waiting EXCEPT ![o] = {}]
    /\ UNCHANGED <<released, got>>

Next == \E o \in Sem :
    \/ Release(o) \/ Close(o)
    \/ \E n \in Counts : Create(o, n)
    \/ \E t \in Thread : 
          \/ Take(o, t) \/ Wait(o, t) \/ Hand(o, t) \/ HandOver(o, t)
          \/ GiveUp(o, t)

Spec == Init /\ [][Next]_vars
=============================================================================
