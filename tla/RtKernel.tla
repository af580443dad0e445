------------------------------ MODULE RtKernel ------------------------------
(***************************************************************************)
(* The scheduler of the RTX kernel: rt_Task.c, rt_System.c, rt_Time.c,     *)
(* rt_Robin.c and the parts of rt_List.c that join two lists.              *)
(*                                                                         *)
(* The control blocks are one record k, so that an operation of the source *)
(* that calls another one is the composition of two operators:             *)
(*   run     os_tsk.run                                                    *)
(*   rdy     the ready list os_rdy        dly   the delay list os_dly      *)
(*   wait    for each object of Obj, the list of the threads that wait     *)
(*   state, prio, tid         the fields of a thread's TCB (tid: task_id)  *)
(*   rem     the ticks a thread of dly has left                            *)
(*   rlnk    the object whose list p_rlnk chains the thread in, or None    *)
(*   active  the table os_active_TCB                                       *)
(*                                                                         *)
(* The kernel runs in handlers that exclude each other (SVC, PendSV and    *)
(* SysTick); mode tells which one is in progress.  An interrupt of a       *)
(* peripheral may come between any two steps: it leaves its requests in    *)
(* the queue os_psq and pends PendSV.                                      *)
(***************************************************************************)
EXTENDS RtList

CONSTANTS Thread,      \* every thread, with the idle demon
          Idle,        \* os_idle_TCB
          None,        \* NULL
          Obj,         \* the objects threads wait for
          MaxPrio,     \* the highest priority
          MaxTaskRun,  \* os_maxtaskrun, the size of os_active_TCB
          Forever,     \* 0xffff, the timeout that never comes
          TimeMod,     \* 2^16, where the robin's copy of os_time wraps
          RobinTout,   \* os_rrobin
          FifoSize     \* os_fifo_size

ASSUME KernelAssumption ==
    /\ Idle \in Thread
    /\ None \notin Thread \cup Obj
    /\ MaxPrio \in Nat /\ MaxTaskRun \in Nat /\ FifoSize \in Nat
    /\ Forever \in Nat \ {0}
    /\ TimeMod \in Nat \ {0}
    /\ RobinTout \in 1 .. TimeMod

VARIABLES k,        \* the control blocks
          mode,     \* the handler in progress, or what the kernel died of
          psq,      \* os_psq: the requests interrupts left
          pend,     \* PendSV is pending
          robin,    \* os_robin: [task, time]
          time      \* os_time

kernelVars == <<k, mode, psq, pend, robin, time>>

WaitState == {"WAIT_DLY", "WAIT_OR", "WAIT_AND", "WAIT_SEM", "WAIT_MBX", "WAIT_MUT"}
State == {"INACTIVE", "READY", "RUNNING"} \cup WaitState
Mode == {"thread", "svc", "tick", "pop", "os_error", "undefined"}
Halted == mode \in {"os_error", "undefined"}

KernelRecord ==
    [run : Thread, rdy : Seq(Thread), dly : Seq(Thread),
     wait : [Obj -> Seq(Thread)],
     state : [Thread -> State], prio : [Thread -> 0 .. MaxPrio],
     tid : [Thread -> 0 .. MaxTaskRun],
     rem : [Thread -> 0 .. Forever], rlnk : [Thread -> Obj \cup {None}],
     active : [1 .. MaxTaskRun -> Thread \cup {None}]]

KernelTypeOK ==
    /\ k \in KernelRecord
    /\ mode \in Mode
    /\ pend \in BOOLEAN
    /\ robin \in [task : Thread \cup {None}, time : 0 .. TimeMod - 1]
    /\ time \in 0 .. TimeMod - 1

-----------------------------------------------------------------------------
\* The operations on the lists of a kernel record s.

\* Mutant: the state still says that t waits.
PutRdyStale(s, t) == [s EXCEPT !.rdy = PutPrio(@, t, s.prio)]

PutRdy(s, t) == [s EXCEPT !.rdy = PutPrio(@, t, s.prio), !.state[t] = "READY"]

PutRdyFirst(s, t) == [s EXCEPT !.rdy = Cons(t, @), !.state[t] = "READY"]

RdyPrio(s) == s.prio[Head(s.rdy)]

\* rt_get_first (&os_rdy) and rt_switch_req: the handler returns to that thread.
SwitchToFirst(s) == [s EXCEPT !.run = Head(s.rdy), !.rdy = Tail(@),
                              !.state[Head(s.rdy)] = "RUNNING"]

\* Mutant: first come, first served.
PutWaitLast(s, o, t) == [s EXCEPT !.wait[o] = Append(@, t), !.rlnk[t] = o]

PutWait(s, o, t) == [s EXCEPT !.wait[o] = PutPrio(@, t, s.prio), !.rlnk[t] = o]

\* rt_get_first on the list of an object.
GetWait(s, o) == [s EXCEPT !.wait[o] = Tail(@), !.rlnk[Head(s.wait[o])] = None]

RmvList(s, t) ==
    IF s.rlnk[t] # None THEN [s EXCEPT !.wait[s.rlnk[t]] = Unlink(@, t)]
                        ELSE [s EXCEPT !.rdy = Unlink(@, t)]

PutDelay(s, t, n) == [s EXCEPT !.dly = PutDly(@, t, n, s.rem), !.rem[t] = n]

RmvDly(s, t) == [s EXCEPT !.dly = Unlink(@, t), !.rem[t] = 0]

\* A queue that holds t is put in order again after prio[t] has changed.
\* (Mutant: it is left as it is.)
ResortNone(s, t) == s

ResortPrio(s, t) ==
    IF s.rlnk[t] # None
    THEN [s EXCEPT !.wait[s.rlnk[t]] = PutPrio(Unlink(@, t), t, s.prio)]
    ELSE IF s.state[t] = "READY"
         THEN [s EXCEPT !.rdy = PutPrio(Unlink(@, t), t, s.prio)]
         ELSE s

-----------------------------------------------------------------------------
\* Dispatching and blocking.

\* t has just become able to run: it preempts, or it joins the ready list.
Dispatch(s, t) ==
    IF s.prio[t] > s.prio[s.run]
    THEN [PutRdyFirst(s, s.run) EXCEPT !.run = t, !.state[t] = "RUNNING"]
    ELSE PutRdy(s, t)

\* The running thread steps back in favour of the first ready one.
StepBack(s) == SwitchToFirst(PutRdy(s, s.run))

\* It does so if the first ready thread is above it.  (Mutant: it never does.)
PreemptedNever(s) == s

Preempted(s) == IF RdyPrio(s) > s.prio[s.run] THEN StepBack(s) ELSE s

Block(s, timeout, blockState) ==
    IF timeout = 0 THEN s
    ELSE LET timed == IF timeout < Forever THEN PutDelay(s, s.run, timeout) ELSE s
         IN SwitchToFirst([timed EXCEPT !.state[s.run] = blockState])

TskPass(s) ==
    IF RdyPrio(s) = s.prio[s.run]
    THEN LET t == Head(s.rdy)
         IN [PutRdy([s EXCEPT !.rdy = Tail(@)], s.run)
               EXCEPT !.run = t, !.state[t] = "RUNNING"]
    ELSE s

\* `id' is the task_id of a handle: the thread that owns the entry now is meant.
TskPrio(s, id, newPrio) ==
    LET t == s.active[id]
        raised == [s EXCEPT !.prio[t] = newPrio]
        sorted == ResortPrio(raised, t)
    IN IF t = None THEN s
       ELSE IF t = s.run THEN Preempted(raised)
       ELSE IF sorted.state[t] = "READY"
       THEN Dispatch([sorted EXCEPT !.rdy = Tail(@)], Head(sorted.rdy))
       ELSE sorted

TskDeleteSelf(s) ==
    SwitchToFirst([s EXCEPT !.state[s.run] = "INACTIVE",
                            !.active[s.tid[s.run]] = None])

TskDeleteOther(s, id) ==
    LET t == s.active[id] IN
    IF t = None THEN s
    ELSE [RmvDly(RmvList(s, t), t) EXCEPT !.active[id] = None]

TskDelete(s, id) ==
    IF id = s.tid[s.run] THEN TskDeleteSelf(s) ELSE TskDeleteOther(s, id)

-----------------------------------------------------------------------------
(***************************************************************************)
(* The handlers.  A thread enters SVC_Handler unless PendSV is pending: it *)
(* would be taken first.  Which call it makes is decided in the step that  *)
(* leaves the handler, so that interrupts may come in between.             *)
(***************************************************************************)
SvcEnter ==
    /\ mode = "thread" /\ ~pend /\ k.run # Idle
    /\ mode' = "svc"
    /\ UNCHANGED <<k, psq, pend, robin, time>>

\* The call leaves the control blocks as s.
SvcReturn(s) ==
    /\ mode = "svc"
    /\ mode' = "thread"
    /\ k' = s
    /\ UNCHANGED <<psq, pend, robin, time>>

\* rt_chk_robin, called with the running thread at the head of s.rdy.
RobinStart(s) ==
    IF robin.task = Head(s.rdy) THEN robin
    ELSE [task |-> Head(s.rdy), time |-> (time + RobinTout - 1) % TimeMod]
RobinExpired(s) == RobinStart(s).time = time

\* The first ready thread goes behind its equals.  (Mutant: it goes back.)
RobinSwapBack(s) == s

RobinSwap(s) == [s EXCEPT !.rdy = PutPrio(Tail(@), Head(@), s.prio)]

\* Mutants: time counts for the threads that do not wait for it, too; or it
\* stands still while nothing runs.
DecDlyAll(s) == [s EXCEPT !.rem = [t \in Thread |-> @[t] - 1]]

DecDlyBusy(s) ==
    [s EXCEPT !.rem = [t \in Thread |->
        IF t \in ToSet(s.dly) /\ s.run # Idle THEN @[t] - 1 ELSE @[t]]]

DecDly(s) ==
    [s EXCEPT !.rem = [t \in Thread |-> IF t \in ToSet(s.dly) THEN @[t] - 1 ELSE @[t]]]

\* SysTick_Handler up to the loop of rt_dec_dly.
TickEnter ==
    LET s == PutRdyFirst(k, k.run) IN
    /\ mode = "thread" /\ ~pend
    /\ mode' = "tick"
    /\ k' = DecDly(IF RobinExpired(s) THEN RobinSwap(s) ELSE s)
    /\ robin' = IF RobinExpired(s) THEN [RobinStart(s) EXCEPT !.task = None]
                                   ELSE RobinStart(s)
    /\ time' = (time + 1) % TimeMod
    /\ UNCHANGED <<psq, pend>>

TimeoutDue == k.dly # <<>> /\ k.rem[Head(k.dly)] = 0

\* One turn of that loop: the head of the delay list gives up waiting.
TickTimeout ==
    LET t == Head(k.dly)
        o == k.rlnk[t]
        unqueued == IF o = None THEN k
                    ELSE [k EXCEPT !.wait[o] = Unlink(@, t), !.rlnk[t] = None]
    IN /\ mode = "tick" /\ TimeoutDue
       /\ k' = [PutRdy(unqueued, t) EXCEPT !.dly = Tail(@)]
       /\ UNCHANGED <<mode, psq, pend, robin, time>>

TickExit ==
    /\ mode = "tick" /\ ~TimeoutDue
    /\ mode' = "thread"
    /\ k' = SwitchToFirst(k)
    /\ UNCHANGED <<psq, pend, robin, time>>

\* PendSV_Handler up to the loop of rt_pop_req, and its end.
PopEnter ==
    /\ mode = "thread" /\ pend
    /\ mode' = "pop"
    /\ pend' = FALSE
    /\ k' = PutRdyFirst(k, k.run)
    /\ UNCHANGED <<psq, robin, time>>

\* One turn of that loop leaves the control blocks as s.
PopRequest(s) ==
    /\ mode = "pop" /\ psq # <<>>
    /\ psq' = Tail(psq)
    /\ k' = s
    /\ UNCHANGED <<mode, pend, robin, time>>

PopExit ==
    /\ mode = "pop" /\ psq = <<>>
    /\ mode' = "thread"
    /\ k' = SwitchToFirst(k)
    /\ UNCHANGED <<psq, pend, robin, time>>

(***************************************************************************)
(* rt_psq_enq and rt_psh_req, called by an interrupt at any time; a full   *)
(* queue is an os_error, which never returns.                              *)
(***************************************************************************)
PsqEnq(request) ==
    /\ ~Halted
    /\ IF Len(psq) < FifoSize
       THEN psq' = Append(psq, request) /\ pend' = TRUE /\ UNCHANGED mode
       ELSE mode' = "os_error" /\ UNCHANGED <<psq, pend>>
    /\ UNCHANGED <<k, robin, time>>

\* mbed_die: the processor loops for ever.
Die ==
    /\ Halted
    /\ UNCHANGED kernelVars

-----------------------------------------------------------------------------
(***************************************************************************)
(* What holds of the scheduler whatever services are built over it.        *)
(***************************************************************************)
\* A thread is active while its entry of os_active_TCB is its own.
Active(t) == k.tid[t] # 0 /\ k.active[k.tid[t]] = t

\* A thread that has the processor or a place in the ready list.
Runnable(t) == t \in ToSet(k.rdy) \/ t = k.run

\* A thread has the processor, or is being served by SVC_Handler.
InThread == mode \in {"thread", "svc"}

(***************************************************************************)
(* The ready list stays in the order rt_get_first relies on without        *)
(* looking, rt_put_rdy_first keeps it without looking either, and whenever *)
(* a thread has the processor it is not below the first ready one.         *)
(***************************************************************************)
PriorityOrder ==
    /\ Ordered(k.rdy, k.prio)
    /\ InThread /\ k.rdy # <<>> => k.prio[k.run] >= RdyPrio(k)

(***************************************************************************)
(* No handler finds the ready list empty: rt_get_first follows its head    *)
(* without a check.                                                        *)
(***************************************************************************)
AlwaysReady == (InThread /\ k.run = Idle) \/ Halted \/ Idle \in ToSet(k.rdy)

(***************************************************************************)
(* The delay list stays in the order of the deadlines, so that the loop of *)
(* rt_dec_dly, which stops at the first thread that is not due, misses     *)
(* none: no thread is left with a deadline that has passed.                *)
(***************************************************************************)
DelayOrder ==
    /\ Rising(k.dly, k.rem)
    /\ mode \in {"thread", "svc", "pop"} => \A t \in ToSet(k.dly) : k.rem[t] > 0

(***************************************************************************)
(* What makes the properties above inductive.  A record is sound when its  *)
(* two lists are ordered, pass through each thread once, and agree with    *)
(* the threads' states; Running adds what holds while a thread has the     *)
(* processor, and Due what holds outside rt_dec_dly.                       *)
(***************************************************************************)
Sound(s) ==
    /\ s \in KernelRecord
    /\ Distinct(s.rdy) /\ Ordered(s.rdy, s.prio)
    /\ Distinct(s.dly) /\ Rising(s.dly, s.rem)
    /\ \A t \in ToSet(s.rdy) : s.state[t] = "READY"
    /\ \A t \in ToSet(s.dly) : s.state[t] \in WaitState

Running(s) ==
    /\ s.state[s.run] = "RUNNING"
    /\ \A t \in ToSet(s.rdy) : s.prio[s.run] >= s.prio[t]
    /\ Idle \in ToSet(s.rdy) \cup {s.run}

Due(s) == \A t \in ToSet(s.dly) : s.rem[t] > 0

\* The threads of A are where their states say.
Homed(s, A) ==
    \A t \in A : /\ s.state[t] # "INACTIVE"
                 /\ s.state[t] = "READY" => t \in ToSet(s.rdy)
                 /\ s.state[t] = "RUNNING" => t = s.run
=============================================================================
