------------------------------- MODULE RtList -------------------------------
(***************************************************************************)
(* The list algebra of the RTX kernel, rt_List.c, and of the events of     *)
(* ticker_api.c.  A chain of control blocks linked through p_lnk (the      *)
(* ready list os_rdy, the waiting list of a semaphore, mailbox or mutex),  *)
(* through p_dlnk (the delay list os_dly) or through the next of an event  *)
(* is the sequence of the threads or events it passes through.             *)
(***************************************************************************)
EXTENDS Naturals, SequencesExt

(***************************************************************************)
(* The walk every insertion makes, of rt_List.c and of ticker_api.c: go    *)
(* down the list q until the first position of the set `stops', or its     *)
(* end, and link t there.                                                  *)
(***************************************************************************)
StopAt(q, stops) == IF stops = {} THEN Len(q) + 1 ELSE Min(stops)
InsertBefore(q, t, stops) == InsertAt(q, StopAt(q, stops), t)

\* Unlink t from q; a thread that is not in q leaves it as it is.
PositionsOf(q, t) == {i \in DOMAIN q : q[i] = t}
\* Mutant: what is chained behind t is lost with it.
UnlinkCut(q, t) == IF PositionsOf(q, t) = {} THEN q
                   ELSE SubSeq(q, 1, Min(PositionsOf(q, t)) - 1)

Unlink(q, t) == IF PositionsOf(q, t) = {} THEN q
                ELSE RemoveAt(q, Min(PositionsOf(q, t)))

(***************************************************************************)
(* rt_put_prio: behind every element of the same or a higher priority, in  *)
(* front of the first one of a lower priority.                             *)
(***************************************************************************)
PutPrio(q, t, prio) ==
    InsertBefore(q, t, {i \in DOMAIN q : prio[q[i]] < prio[t]})

(***************************************************************************)
(* rt_put_dly, on remaining times rem instead of the differences the code  *)
(* stores in delta_time: in front of the first element that is due at the  *)
(* same time or later.                                                     *)
(***************************************************************************)
\* Mutant: the list is not walked.
PutDlyLast(q, t, n, rem) == Append(q, t)

PutDly(q, t, n, rem) ==
    InsertBefore(q, t, {i \in DOMAIN q : rem[q[i]] >= n})

-----------------------------------------------------------------------------
\* A list is ordered when no element is followed by one of higher priority.
Ordered(q, prio) ==
    \A i, j \in DOMAIN q : i < j => prio[q[i]] >= prio[q[j]]

\* A delay list is rising when no element is due before one in front of it.
Rising(q, rem) ==
    \A i, j \in DOMAIN q : i < j => rem[q[i]] <= rem[q[j]]

\* No thread is chained twice.
Distinct(q) == \A i, j \in DOMAIN q : q[i] = q[j] => i = j
=============================================================================
