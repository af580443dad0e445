------------------------------ MODULE RtMutex -------------------------------
(***************************************************************************)
(* The recursive mutexes of rt_Mutex.c, with their priority inheritance,   *)
(* behind the services of rt_CMSIS.c: interrupts have no part in them.     *)
(***************************************************************************)
EXTENDS RtObjects

CONSTANTS MaxLevel,   \* bound: how often an owner takes a mutex again
          Deletable,  \* the mutexes that callers delete
          Uses        \* what programs there are, see use

ASSUME MutexAssumption ==
    /\ MaxLevel \in Nat \ {0}
    /\ Deletable \subseteq Obj
    /\ Uses \subseteq {"one", "nested"}

VARIABLES owner,  \* p_MCB->owner
          level,  \* p_MCB->level
          saved,  \* p_MCB->prio: the owner's priority when it took the mutex
          live,   \* p_MCB->cb_type = MUCB
          use     \* the program uses "one" mutex, and nobody delays while he
                  \* holds it; or they are "nested" and held over delays

mutVars == <<owner, level, saved, live, use>>
vars == <<kernelVars, mutVars>>

TypeOK ==
    /\ KernelTypeOK
    /\ psq = <<>>
    /\ owner \in [Obj -> Thread \cup {None}]
    /\ level \in [Obj -> 0 .. MaxLevel]
    /\ saved \in [Obj -> 0 .. MaxPrio]
    /\ live \in [Obj -> BOOLEAN]
    /\ use \in Uses

Init ==
    /\ KernelInit
    /\ owner = [o \in Obj |-> None]
    /\ level = [o \in Obj |-> 0]
    /\ saved = [o \in Obj |-> 0]
    /\ live = [o \in Obj |-> FALSE]
    /\ use \in Uses

-----------------------------------------------------------------------------
MutexCreate(o) ==
    /\ ~live[o] /\ (use = "nested" \/ \A other \in Obj : ~live[other])
    /\ SvcReturn(k)
    /\ owner' = [owner EXCEPT ![o] = None]
    /\ level' = [level EXCEPT ![o] = 0]
    /\ saved' = [saved EXCEPT ![o] = 0]
    /\ live' = [live EXCEPT ![o] = TRUE]
    /\ UNCHANGED use

\* The running thread takes a mutex that is free, or takes its own again.
MutexTake(o) ==
    /\ live[o] /\ level[o] < MaxLevel
    /\ level[o] = 0 \/ owner[o] = k.run
    /\ SvcReturn(k)
    /\ owner' = [owner EXCEPT ![o] = k.run]
    /\ level' = [level EXCEPT ![o] = @ + 1]
    /\ saved' = IF level[o] = 0 THEN [saved EXCEPT ![o] = k.prio[k.run]] ELSE saved
    /\ UNCHANGED <<live, use>>

\* The owner inherits the running thread's priority.  (Mutant: it does not.)
InheritNone(s, o) == s

Inherit(s, o) ==
    IF saved[o] < s.prio[s.run]
    THEN ResortPrio([s EXCEPT !.prio[owner[o]] = s.prio[s.run]], owner[o])
    ELSE s

\* The running thread finds the mutex taken by another.
MutexWait(o, n) ==
    /\ live[o] /\ level[o] # 0 /\ owner[o] # k.run
    /\ SvcReturn(IF n = 0 THEN k ELSE WaitFor(Inherit(k, o), o, n, "WAIT_MUT"))
    /\ UNCHANGED mutVars

\* The running thread, s.run, and the thread t it woke: which one continues?
HandOver(s, t) ==
    IF s.prio[s.run] >= RdyPrio(s)
    THEN Dispatch(s, t)
    ELSE SwitchToFirst(PutRdy(PutRdy(s, s.run), t))

\* Mutant: the owner is not cleared with the last release.
MayReleaseFree(o) == live[o] /\ owner[o] = k.run

MayRelease(o) == live[o] /\ level[o] # 0 /\ owner[o] = k.run

\* The running thread gets its priority back.  (Mutant: it does not.)
RestoredNot(o) == k

Restored(o) == [k EXCEPT !.prio[k.run] = saved[o]]

MutexRelease(o) ==
    LET next == Head(k.wait[o])
    IN /\ MayRelease(o)
       /\ IF level[o] > 1 \/ k.wait[o] = <<>>
          THEN /\ level' = [level EXCEPT ![o] = @ - 1]
               /\ SvcReturn(IF level[o] > 1 THEN k ELSE Preempted(Restored(o)))
               /\ UNCHANGED <<owner, saved>>
          ELSE /\ owner' = [owner EXCEPT ![o] = next]
               /\ saved' = [saved EXCEPT ![o] = k.prio[next]]
               /\ level' = [level EXCEPT ![o] = 1]
               /\ SvcReturn(HandOver(Woken(Restored(o), o), next))
       /\ UNCHANGED <<live, use>>

\* The owner gets its priority back, and a place in its list that fits it.
Restore(s, o) ==
    LET t == owner[o]
        restored == [s EXCEPT !.prio[t] = saved[o]]
    IN IF level[o] = 0 THEN s
       ELSE IF t = s.run THEN restored
       ELSE ResortPrio(restored, t)

MutexDelete(o) ==
    /\ live[o] /\ o \in Deletable
    /\ SvcReturn(Preempted(Flush(Restore(k, o), o)))
    /\ live' = [live EXCEPT ![o] = FALSE]
    /\ UNCHANGED <<owner, level, saved, use>>

-----------------------------------------------------------------------------
Holds(t, o) == live[o] /\ level[o] # 0 /\ owner[o] = t

OwnerDelay(n) ==
    /\ use = "nested" \/ \A o \in Obj : ~Holds(k.run, o)
    /\ Delay(n)
    /\ UNCHANGED mutVars

\* An owner that ends would never release.
NonOwnerEnds(t) ==
    /\ \A o \in Obj : ~Holds(t, o)
    /\ ThreadTerminate(t)
    /\ UNCHANGED mutVars

Svc == \E o \in Obj :
    \/ MutexCreate(o)
    \/ MutexTake(o)
    \/ \E n \in Timeouts : MutexWait(o, n)
    \/ MutexRelease(o)
    \/ MutexDelete(o)

Next ==
    \/ Svc
    \/ \E n \in Delays : OwnerDelay(n)
    \/ \E t \in Thread : NonOwnerEnds(t)
    \/ KernelStep /\ UNCHANGED mutVars

Spec == Init /\ [][Next]_vars

-----------------------------------------------------------------------------
(***************************************************************************)
(* A mutex that is free or deleted has nobody waiting, and its owner never *)
(* waits for itself: the mutex is handed over, never let go unnoticed.     *)
(***************************************************************************)
NoIdleMutex ==
    \A o \in Obj : k.wait[o] # <<>> =>
        /\ live[o] /\ level[o] # 0
        /\ owner[o] \notin ToSet(k.wait[o]) \cup {None}

(***************************************************************************)
(* Priority inheritance, in a program of one mutex: no owner is below a    *)
(* thread that waits for it, so that a thread between the two cannot keep  *)
(* both from running.                                                      *)
(***************************************************************************)
Inherits == use = "one" =>
    \A o \in Obj : \A t \in ToSet(k.wait[o]) : k.prio[owner[o]] >= k.prio[t]

(***************************************************************************)
(* In such a program a thread that does not hold the mutex has the         *)
(* priority it was created with.                                           *)
(***************************************************************************)
PriorityRestored == use = "one" =>
    \A t \in Thread : (\A o \in Obj : ~Holds(t, o)) => k.prio[t] = InitPrio[t]

(***************************************************************************)
(* rt_Mutex.c:175, of rt_mut_wait: "Raise the owner task priority if lower *)
(* than current priority."  Waiting for a mutex lowers no priority.        *)
(***************************************************************************)
WaitingRaises ==
    [][(\E o \in Obj, n \in Timeouts : MutexWait(o, n))
       => \A t \in Thread : k'.prio[t] >= k.prio[t]]_vars

(***************************************************************************)
(* The inductive invariants of the proofs.  A mutex that is held is held   *)
(* by a thread that lives.  In a program of one mutex the owner is always  *)
(* able to run, so that whoever comes to wait is of no lower priority, and *)
(* what it gets back with the last release is what it was created with.    *)
(***************************************************************************)
MInv ==
    /\ OInv /\ TypeOK /\ NoIdleMutex
    /\ \A o \in Obj : live[o] /\ level[o] # 0 => owner[o] \in Living(k)

PInv ==
    /\ Inherits /\ PriorityRestored
    /\ use = "one" =>
       /\ \A o, x \in Obj : live[o] /\ live[x] => o = x
       /\ \A o \in Obj, t \in Thread : Holds(t, o) =>
             /\ saved[o] = InitPrio[t] /\ k.prio[t] >= saved[o]
             /\ k.state[t] \in {"READY", "RUNNING"}
=============================================================================
