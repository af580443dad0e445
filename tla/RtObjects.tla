----------------------------- MODULE RtObjects ------------------------------
(***************************************************************************)
(* What the objects share: the kernel with the threads a program has       *)
(* created at its start, which may end but do not come back, the waiting   *)
(* lists, and what the deletion of an object does to those who wait.       *)
(***************************************************************************)
EXTENDS RtKernel

CONSTANTS Main,      \* the thread that runs first
          InitPrio,  \* the priority of each thread
          Timeouts,  \* the timeouts, in ticks, that callers ask for
          Delays,    \* the delays they ask for
          Killable,  \* the threads that end, or are terminated by others
          Prios      \* the priorities that threads give each other

ASSUME ObjectsAssumption ==
    /\ IsFiniteSet(Thread)
    /\ Main \in Thread \ {Idle}
    /\ InitPrio \in [Thread -> 0 .. MaxPrio]
    /\ \A t \in Thread : InitPrio[t] <= InitPrio[Main] /\ (InitPrio[t] = 0 <=> t = Idle)
    /\ MaxTaskRun >= Cardinality(Thread) - 1
    /\ Timeouts \cup Delays \subseteq 0 .. Forever
    /\ Killable \subseteq Thread \ {Idle} /\ Prios \subseteq 1 .. MaxPrio

\* Main runs, of the highest priority; the threads of q are ready, idle last.
Started(q) ==
    LET created == Cons(Main, q) IN
    [run |-> Main, rdy |-> q, dly |-> <<>>,
     wait |-> [o \in Obj |-> <<>>],
     state |-> [t \in Thread |-> IF t = Main THEN "RUNNING" ELSE "READY"],
     prio |-> InitPrio,
     tid |-> [t \in Thread |-> IF t = Idle THEN 0 ELSE Min(PositionsOf(created, t))],
     rem |-> [t \in Thread |-> 0],
     rlnk |-> [t \in Thread |-> None],
     active |-> [i \in 1 .. MaxTaskRun |-> IF i < Len(created) THEN created[i] ELSE None]]

KernelInit ==
    /\ \E q \in SetToSeqs(Thread \ {Main}) : Ordered(q, InitPrio) /\ k = Started(q)
    /\ mode = "thread" /\ psq = <<>> /\ pend = FALSE
    /\ robin = [task |-> None, time |-> 0] /\ time = 0

-----------------------------------------------------------------------------
\* Mutant: its timeout goes on.
WokenTimed(s, o) == GetWait(s, o)

\* The first thread that waits for o is taken off its list and its timeout.
Woken(s, o) == RmvDly(GetWait(s, o), Head(s.wait[o]))

\* The running thread waits for o.
WaitFor(s, o, timeout, blockState) == Block(PutWait(s, o, s.run), timeout, blockState)

\* The loops of rt_sem_delete and rt_mut_delete: all who wait become ready.
\* (Mutant: only the first.)
FlushFirst(s, o) ==
    IF s.wait[o] = <<>> THEN s ELSE PutRdy(Woken(s, o), Head(s.wait[o]))

Flush(s, o) ==
    LET n == Len(s.wait[o])
        woken[i \in 0 .. n] ==
            IF i = 0 THEN s
            ELSE PutRdy(Woken(woken[i - 1], o), Head(woken[i - 1].wait[o]))
    IN woken[n]

-----------------------------------------------------------------------------
Delay(n) == SvcReturn(Block(k, n, "WAIT_DLY"))
ThreadYield == SvcReturn(TskPass(k))
ThreadTerminate(t) == t \in Killable /\ Active(t) /\ SvcReturn(TskDelete(k, k.tid[t]))
ThreadSetPriority(t, p) == Active(t) /\ SvcReturn(TskPrio(k, k.tid[t], p))

Control(t) == ThreadTerminate(t) \/ \E p \in Prios : ThreadSetPriority(t, p)

KernelStep ==
    \/ SvcEnter \/ TickEnter \/ TickTimeout \/ TickExit
    \/ PopEnter \/ PopExit \/ Die
    \/ ThreadYield

(***************************************************************************)
(* A thread is in the list of an object exactly while its p_rlnk says so,  *)
(* in one list at most, and its state says that it waits: what wakes it,   *)
(* the object, the timeout or the deletion, takes it off everything else,  *)
(* and what ends it leaves it in no list.  The thread that rt_get_first    *)
(* takes is of the highest priority.                                       *)
(***************************************************************************)
Lives(t) == t = Idle \/ Active(t)
Waits(t) == t \in ToSet(k.dly) \/ \E o \in Obj : t \in ToSet(k.wait[o])

WaitLists ==
    /\ \A o \in Obj : Ordered(k.wait[o], k.prio) /\ Distinct(k.wait[o])
    /\ \A t \in Thread :
          IF ~Lives(t) THEN ~Runnable(t) /\ ~Waits(t)
          ELSE
          /\ \A o \in Obj : t \in ToSet(k.wait[o]) <=> k.rlnk[t] = o
          /\ k.rlnk[t] # None <=> k.state[t] \in {"WAIT_SEM", "WAIT_MBX", "WAIT_MUT"}
          /\ k.state[t] \in {"READY", "RUNNING"} <=> Runnable(t)
          /\ t \in ToSet(k.dly) => k.state[t] \in WaitState

(***************************************************************************)
(* What makes WaitLists inductive, for the threads of A: who is chained in *)
(* the list of an object waits for it, in the order of the priorities, and *)
(* who waits for an object is chained there; nobody else is anywhere.      *)
(* Objects adds the table, the running thread and the lists of RtKernel.   *)
(***************************************************************************)
ObjectWait == {"WAIT_SEM", "WAIT_MBX", "WAIT_MUT"}

Listed(s, A) ==
    /\ \A o \in Obj :
          /\ Distinct(s.wait[o]) /\ Ordered(s.wait[o], s.prio)
          /\ \A t \in ToSet(s.wait[o]) :
                t \in A /\ s.rlnk[t] = o /\ s.state[t] \in ObjectWait
    /\ \A t \in A :
          /\ s.rlnk[t] # None => t \in ToSet(s.wait[s.rlnk[t]])
          /\ s.state[t] \in ObjectWait => s.rlnk[t] # None
    /\ ToSet(s.rdy) \cup ToSet(s.dly) \cup {s.run} \subseteq A
    /\ s.state[s.run] \in {"READY", "RUNNING"}

Living(s) == {t \in Thread : t = Idle \/ (s.tid[t] # 0 /\ s.active[s.tid[t]] = t)}

Table(s) ==
    \A i \in 1 .. MaxTaskRun :
        s.active[i] # None => s.active[i] # Idle /\ s.tid[s.active[i]] = i

OInv ==
    /\ KernelTypeOK
    /\ Sound(k) /\ Homed(k, Living(k)) /\ Listed(k, Living(k)) /\ Table(k)
    /\ InThread => Running(k)
    /\ mode = "svc" => k.run # Idle
    /\ mode \in {"tick", "pop"} => {Idle, k.run} \subseteq ToSet(k.rdy)
    /\ mode \in {"thread", "svc", "pop"} => Due(k)
=============================================================================
