------------------------------ MODULE RtThread ------------------------------
(***************************************************************************)
(* Threads and their signals: the thread, delay and signal services of     *)
(* rt_CMSIS.c over the scheduler of RtKernel and the event flags of        *)
(* rt_Event.c.  Threads are created, restarted, terminated by themselves   *)
(* or by others, delayed, re-prioritised and signalled, by threads and by  *)
(* interrupts, while the tick goes on.                                     *)
(***************************************************************************)
EXTENDS RtKernel

CONSTANTS Main,         \* the thread osKernelStart leaves running
          MainPrio,     \* its priority
          Flags,        \* the signal flags
          Timeouts,     \* the timeouts, in ticks, that callers ask for
          CreatePrio,   \* the priority a thread is created with, by thread
          StaleHandles, \* callers may keep the handle of a thread that ended
          Prios,        \* the priorities callers set
          Killable,     \* the threads that others may terminate
          IsrSignals    \* the sets of flags interrupts send

ASSUME ThreadAssumption ==
    /\ Main \in Thread \ {Idle}
    /\ MainPrio \in 1 .. MaxPrio
    /\ Timeouts \subseteq 0 .. Forever
    /\ Prios \subseteq 1 .. MaxPrio
    /\ CreatePrio \in [Thread -> 1 .. MaxPrio]
    /\ StaleHandles \in BOOLEAN
    /\ Killable \subseteq Thread
    /\ IsrSignals \subseteq SUBSET Flags
    /\ MaxTaskRun >= 1

VARIABLES events,  \* the flags set for each thread and not yet taken
          waits    \* the flags a thread waits for, or those it was woken by

sigVars == <<events, waits>>
vars == <<kernelVars, sigVars>>

TypeOK ==
    /\ KernelTypeOK
    /\ psq \in Seq([id : Thread, arg : SUBSET Flags]) /\ Len(psq) <= FifoSize
    /\ events \in [Thread -> SUBSET Flags]
    /\ waits \in [Thread -> SUBSET Flags]

\* After osKernelStart: main runs, the idle demon is ready.
Init ==
    /\ k = [run |-> Main, rdy |-> <<Idle>>, dly |-> <<>>,
            wait |-> [o \in Obj |-> <<>>],
            state |-> [t \in Thread |-> IF t = Main THEN "RUNNING"
                                        ELSE IF t = Idle THEN "READY" ELSE "INACTIVE"],
            prio |-> [t \in Thread |-> IF t = Main THEN MainPrio ELSE 0],
            tid |-> [t \in Thread |-> IF t = Main THEN 1 ELSE 0],
            rem |-> [t \in Thread |-> 0],
            rlnk |-> [t \in Thread |-> None],
            active |-> [i \in 1 .. MaxTaskRun |-> IF i = 1 THEN Main ELSE None]]
    /\ mode = "thread" /\ psq = <<>> /\ pend = FALSE
    /\ robin = [task |-> None, time |-> 0] /\ time = 0
    /\ events = [t \in Thread |-> {}]
    /\ waits = [t \in Thread |-> {}]

-----------------------------------------------------------------------------
\* The threads a caller may name: h is the handle osThreadCreate returned.
Handle == {t \in Thread : k.tid[t] # 0 /\ (Active(t) \/ StaleHandles)}

\* Mutant: the entry behind the one that is looked for.
FreeTidNext == {i \in 1 .. MaxTaskRun - 1 : k.active[i + 1] = None}

FreeTid == {i \in 1 .. MaxTaskRun : k.active[i] = None}

\* A control block that is still in use must not be linked again.
Chained(t) == t = k.run \/ t \in ToSet(k.rdy) \cup ToSet(k.dly)

(***************************************************************************)
(* svcThreadCreate.  With no free entry rt_get_TID returns 0 and the code  *)
(* writes in front of the table; a restarted thread whose control block is *)
(* still chained cuts the list it is in: both are undefined from then on.  *)
(***************************************************************************)
ThreadCreate(t) ==
    /\ t \notin {Idle, Main} /\ ~Active(t)
    /\ IF FreeTid = {} \/ Chained(t)
       THEN /\ mode = "svc" /\ mode' = "undefined"
            /\ UNCHANGED <<k, psq, pend, robin, time, sigVars>>
       ELSE LET id == Min(FreeTid) IN
            /\ SvcReturn(Dispatch([k EXCEPT !.state[t] = "READY", !.prio[t] = CreatePrio[t],
                                            !.rlnk[t] = None, !.tid[t] = id,
                                            !.active[id] = t], t))
            /\ events' = [events EXCEPT ![t] = {}]
            /\ waits' = [waits EXCEPT ![t] = {}]

\* svcThreadTerminate, osThreadExit for the running thread's own handle.
ThreadTerminate(h) ==
    /\ h \in Handle
    /\ h \in Killable \cup {k.run}
    /\ SvcReturn(TskDelete(k, k.tid[h]))
    /\ UNCHANGED sigVars

ThreadYield ==
    /\ SvcReturn(TskPass(k))
    /\ UNCHANGED sigVars

ThreadSetPriority(h, p) ==
    /\ h \in Handle
    /\ SvcReturn(TskPrio(k, k.tid[h], p))
    /\ UNCHANGED sigVars

\* svcDelay with a timeout of n ticks.
Delay(n) ==
    /\ SvcReturn(Block(k, n, "WAIT_DLY"))
    /\ UNCHANGED sigVars

-----------------------------------------------------------------------------
\* rt_evt_set and rt_evt_psh find out alike whether flags f wake thread t.
Wakes(t, f) ==
    \/ k.state[t] = "WAIT_AND" /\ waits[t] \subseteq events[t] \cup f
    \/ k.state[t] = "WAIT_OR" /\ waits[t] \cap (events[t] \cup f) # {}

\* The flags of t after f has been set.
SetFlags(t, f) ==
    IF Wakes(t, f)
    THEN /\ events' = [events EXCEPT ![t] = (@ \cup f) \ waits[t]]
         /\ waits' = [waits EXCEPT ![t] =
                         IF k.state[t] = "WAIT_OR" THEN @ \cap (events[t] \cup f) ELSE @]
    ELSE /\ events' = [events EXCEPT ![t] = @ \cup f]
         /\ UNCHANGED waits

\* svcSignalSet, which acts on the thread that now owns the handle's entry.
SignalSet(h, f) ==
    LET t == k.active[k.tid[h]] IN
    /\ h \in Handle
    /\ IF t = None
       THEN SvcReturn(k) /\ UNCHANGED sigVars
       ELSE /\ SvcReturn(IF Wakes(t, f) THEN Dispatch(RmvDly(k, t), t) ELSE k)
            /\ SetFlags(t, f)

SignalClear(h, f) ==
    LET t == k.active[k.tid[h]] IN
    /\ h \in Handle
    /\ SvcReturn(k)
    /\ events' = IF t = None THEN events ELSE [events EXCEPT ![t] = @ \ f]
    /\ UNCHANGED waits

\* svcSignalWait: for all the flags of f, or for any flag when f is empty.
\* (Mutant of what it finds out first: it blocks without looking.)
FlagsUnseen(t, f) == FALSE

FlagsThere(t, f) == IF f # {} THEN f \subseteq events[t] ELSE events[t] # {}

SignalWait(f, n) ==
    LET t == k.run
        wanted == IF f # {} THEN f ELSE Flags
    IN IF FlagsThere(t, f)
       THEN /\ SvcReturn(k)
            /\ events' = [events EXCEPT ![t] = @ \ wanted]
            /\ waits' = [waits EXCEPT ![t] = IF f # {} THEN @ ELSE events[t]]
       ELSE /\ SvcReturn(Block(k, n, IF f # {} THEN "WAIT_AND" ELSE "WAIT_OR"))
            /\ waits' = [waits EXCEPT ![t] = wanted]
            /\ UNCHANGED events

\* isrSignalSet: the request names the control block found in the table.
IsrSignalSet(h, f) ==
    /\ h \in Handle /\ k.active[k.tid[h]] # None
    /\ PsqEnq([id |-> k.active[k.tid[h]], arg |-> f])
    /\ UNCHANGED sigVars

\* rt_evt_psh, for the request at the head of the queue.
PopSignal ==
    LET t == Head(psq).id
        f == Head(psq).arg
    IN /\ PopRequest(IF Wakes(t, f) THEN PutRdy(RmvDly(k, t), t) ELSE k)
       /\ SetFlags(t, f)

-----------------------------------------------------------------------------
\* What the threads may ask for, once in the SVC handler.
Svc ==
    \/ \E t \in Thread : ThreadCreate(t) \/ ThreadTerminate(t)
    \/ ThreadYield
    \/ \E t \in Thread, p \in Prios : ThreadSetPriority(t, p)
    \/ \E n \in Timeouts : Delay(n)
    \/ \E t \in Thread, f \in SUBSET Flags : SignalSet(t, f) \/ SignalClear(t, f)
    \/ \E f \in SUBSET Flags, n \in Timeouts : SignalWait(f, n)

Handler ==
    /\ SvcEnter \/ TickEnter \/ TickTimeout \/ TickExit \/ PopEnter \/ PopExit \/ Die
    /\ UNCHANGED sigVars

Isr == \E t \in Thread, f \in IsrSignals : IsrSignalSet(t, f)

Next == Svc \/ Handler \/ PopSignal \/ Isr

Spec == Init /\ [][Next]_vars

(***************************************************************************)
(* Handlers run to their end.  SysTick stays pending while another handler *)
(* runs and is taken when that one returns, hence the strong fairness.     *)
(***************************************************************************)
FairSpec ==
    /\ Spec
    /\ WF_vars(Svc) /\ WF_vars(TickTimeout /\ UNCHANGED sigVars)
    /\ WF_vars(TickExit /\ UNCHANGED sigVars)
    /\ SF_vars(TickEnter /\ UNCHANGED sigVars)

-----------------------------------------------------------------------------
(***************************************************************************)
(* The lists tell where an active thread is, exactly once, and agree with  *)
(* its state: a runnable thread is never forgotten, a blocked one is never *)
(* run, and only a thread with a timeout is in the delay list.             *)
(***************************************************************************)
Placement == ~Halted =>
    /\ Distinct(k.rdy) /\ Distinct(k.dly)
    /\ \A t \in Thread :
          /\ t \in ToSet(k.rdy) => k.state[t] = "READY"
          /\ t \in ToSet(k.dly) => k.state[t] \in WaitState
          /\ Active(t) =>
               /\ k.state[t] = "READY" => t \in ToSet(k.rdy)
               /\ k.state[t] = "RUNNING" <=> t = k.run /\ InThread
               /\ k.state[t] # "INACTIVE"

(***************************************************************************)
(* No wake-up is lost: a thread does not go on waiting for flags that are  *)
(* set, however rt_evt_wait, rt_evt_set, rt_evt_psh and the timeout race.  *)
(***************************************************************************)
NoMissedSignal ==
    \A t \in Thread : Active(t) => ~Wakes(t, {})

(***************************************************************************)
(* A thread that nobody terminates is removed from os_active_TCB by its    *)
(* own call only: what is done to one thread never ends another.           *)
(***************************************************************************)
EndsOnlyByItself ==
    [][\A t \in Thread \ Killable : Active(t) /\ ~Active(t)' => t = k.run]_vars

(***************************************************************************)
(* The inductive invariant of the proofs.  Beyond the properties: only     *)
(* SVC_Handler serves a thread, never the idle demon; the handlers that    *)
(* look for the next thread find at least the idle demon; no object's list *)
(* chains a thread in, and the idle demon has no entry in the table.       *)
(***************************************************************************)
IInv ==
    /\ TypeOK
    /\ Sound(k)
    /\ InThread => Running(k)
    /\ mode = "svc" => k.run # Idle
    /\ mode \in {"tick", "pop"} => Idle \in ToSet(k.rdy)
    /\ \A t \in Thread : k.rlnk[t] = None
    /\ \A i \in 1 .. MaxTaskRun : k.active[i] # Idle
    /\ mode \in {"thread", "svc", "pop"} => Due(k)

(***************************************************************************)
(* What it takes besides to know where the threads are: nobody owns two    *)
(* entries of the table, the thread a handler has interrupted stays ready  *)
(* until the handler is over, the active threads are where their states    *)
(* say, and no thread, ended or not, waits for flags that are there.       *)
(***************************************************************************)
HInv ==
    /\ \A i \in 1 .. MaxTaskRun : k.active[i] # None => k.tid[k.active[i]] = i
    /\ mode \in {"tick", "pop"} => k.run \in ToSet(k.rdy)
    /\ Homed(k, {t \in Thread : Active(t)})
    /\ \A t \in Thread : ~Wakes(t, {})

\* t can run, and no thread that can run has a higher priority.
Top(t) == Runnable(t) /\ \A u \in Thread : Runnable(u) => k.prio[u] <= k.prio[t]

(***************************************************************************)
(* Round robin: from the threads of the highest priority that can run,     *)
(* rt_chk_robin lets none wait for ever.                                   *)
(***************************************************************************)
RoundRobin == \A t \in Thread : <>[]Top(t) => []<>(k.run = t)

(***************************************************************************)
(* Every timeout comes: no thread stays in the delay list for ever.        *)
(***************************************************************************)
DelayEnds == \A t \in Thread : t \in ToSet(k.dly) ~> t \notin ToSet(k.dly)

(***************************************************************************)
(* cmsis_os.h:366, of osThreadTerminate: "Terminate execution of a thread  *)
(* and remove it from Active Threads."  The processor is never given to a  *)
(* thread that has been terminated.                                        *)
(***************************************************************************)
TerminatedStaysDead == InThread /\ k.run # Idle => Active(k.run)
=============================================================================
