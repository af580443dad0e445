------------------------------- MODULE RtTimer -------------------------------
(***************************************************************************)
(* The user timers of rt_CMSIS.c.  The running timers are a list in which  *)
(* each counts from the one before it; the tick handler takes those that   *)
(* are due off its front and puts their addresses into a message queue, as *)
(* an interrupt would; the timer thread gets them and calls the callbacks. *)
(*                                                                         *)
(* The queue is the MessageQueue that RtMailbox implements, with one       *)
(* reader.  Any thread, the timer thread in a callback included, makes the *)
(* calls.                                                                  *)
(***************************************************************************)
EXTENDS Integers, Sequences, RtList

CONSTANTS Timer,     \* the control blocks of timers
          NoTimer,   \* NULL
          Ticks,     \* the delays, in ticks, that callers ask for
          TcntMod,   \* 2^16: tcnt is 16 bits wide
          CbqSize,   \* OS_TIMERCBQS, the size of osTimerMessageQ
          FifoSize   \* os_fifo_size

ASSUME TimerAssumption ==
    /\ NoTimer \notin Timer
    /\ Ticks \subseteq 1 .. TcntMod - 1
    /\ TcntMod \in Nat \ {0} /\ CbqSize \in Nat \ {0} /\ FifoSize \in Nat

VARIABLES list,   \* os_timer_head and what it chains
          cb,     \* the fields of each timer's control block; the counts of
                  \* one that does not run are 0, since nobody reads them
          cur,    \* p of sysTimerTick, while it loops
          phase,  \* "thread", "tick", or "os_error", which never returns
          posted, \* the requests in os_psq, to be served before threads go on
          box,    \* the ring of osTimerMessageQ
          reader  \* the timer thread: what it does, and for which timer

queueVars == <<posted, box, reader>>
timerVars == <<list, cb, cur, phase, queueVars>>

Block == [state : {"invalid", "stopped", "running"}, type : {"once", "periodic"},
          tcnt : 0 .. TcntMod - 1, icnt : 0 .. TcntMod - 1]

TimerTypeOK ==
    /\ list \in Seq(Timer)
    /\ cb \in [Timer -> Block]
    /\ cur \in Timer \cup {NoTimer}
    /\ phase \in {"thread", "tick", "os_error"}
    /\ posted \in Seq(Timer) /\ Len(posted) <= FifoSize
    /\ box \in Seq(Timer) /\ Len(box) <= CbqSize
    /\ reader \in [at : {"get", "waits"}, timer : {NoTimer}]
              \cup [at : {"fetch", "calls"}, timer : Timer]

At(place, t) == [at |-> place, timer |-> t]

TimerInit ==
    /\ list = <<>> /\ cur = NoTimer /\ phase = "thread"
    /\ cb = [t \in Timer |-> [state |-> "invalid", type |-> "once", tcnt |-> 0, icnt |-> 0]]
    /\ posted = <<>> /\ box = <<>>
    /\ reader = At("get", NoTimer)

-----------------------------------------------------------------------------
\* The ticks until the i-th timer of list l is due, with the blocks c.
Until(l, c, i) ==
    LET sum[j \in 0 .. Len(l)] == IF j = 0 THEN 0 ELSE sum[j - 1] + c[l[j]].tcnt
    IN sum[i]

\* Where the walk of rt_timer_insert ends: at the first timer due after n ticks.
Place(l, c, n) == StopAt(l, {i \in DOMAIN l : Until(l, c, i) > n})

Less(a, b) == (a - b) % TcntMod

\* rt_timer_insert: list l and blocks c with t, due in n ticks.  (Mutant: the
\* one behind it is not counted from it.)
InsertedCounts(l, c, t, n) ==
    [c EXCEPT ![t].tcnt = n - Until(l, c, Place(l, c, n) - 1)]

CountsWith(l, c, t, n) ==
    LET i == Place(l, c, n)
        own == n - Until(l, c, i - 1)
    IN [u \in Timer |->
          IF u = t THEN [c[u] EXCEPT !.tcnt = own]
          ELSE IF i <= Len(l) /\ u = l[i] THEN [c[u] EXCEPT !.tcnt = Less(@, own)]
          ELSE c[u]]

InsertTimer(l, c, t, n) ==
    /\ list' = InsertAt(l, Place(l, c, n), t)
    /\ cb' = CountsWith(l, c, t, n)

\* rt_timer_remove: the one behind t is counted from the one before it.
Chained(t) == t \in ToSet(list)
PlaceOf(t) == CHOOSE i \in DOMAIN list : list[i] = t

CountsWithout(t) ==
    LET i == PlaceOf(t)
    IN [u \in Timer |->
          IF u = t THEN [cb[u] EXCEPT !.tcnt = 0]
          ELSE IF i < Len(list) /\ u = list[i + 1]
          THEN [cb[u] EXCEPT !.tcnt = (@ + cb[t].tcnt) % TcntMod]
          ELSE cb[u]]

-----------------------------------------------------------------------------
(***************************************************************************)
(* The services, which PendSV precedes.                                    *)
(***************************************************************************)
InThread == phase = "thread" /\ posted = <<>>

TimerCreate(t, type) ==
    /\ cb[t].state = "invalid"
    /\ cb' = [cb EXCEPT ![t].state = "stopped", ![t].type = type]
    /\ UNCHANGED list

\* A timer that runs starts again; icnt stays.
TimerRestart(t, n) ==
    /\ cb[t].state = "running" /\ Chained(t)
    /\ InsertTimer(Unlink(list, t), CountsWithout(t), t, n)

TimerStart(t, n) ==
    /\ cb[t].state = "stopped"
    /\ InsertTimer(list, [cb EXCEPT ![t].state = "running", ![t].icnt = n], t, n)

Off(t, state) ==
    IF Chained(t)
    THEN list' = Unlink(list, t) /\ cb' = [CountsWithout(t) EXCEPT ![t].state = state, ![t].icnt = 0]
    ELSE UNCHANGED list /\ cb' = [cb EXCEPT ![t].state = state]

TimerStop(t) == cb[t].state = "running" /\ Off(t, "stopped")

TimerDelete(t) ==
    \/ cb[t].state = "running" /\ Off(t, "invalid")
    \/ cb[t].state = "stopped" /\ cb' = [cb EXCEPT ![t].state = "invalid"] /\ UNCHANGED list

Svc ==
    /\ InThread
    /\ \E t \in Timer :
          \/ \E type \in {"once", "periodic"} : TimerCreate(t, type)
          \/ \E n \in Ticks : TimerStart(t, n) \/ TimerRestart(t, n)
          \/ TimerStop(t)
          \/ TimerDelete(t)
    /\ UNCHANGED <<cur, phase, queueVars>>

-----------------------------------------------------------------------------
(***************************************************************************)
(* sysTimerTick, one step for each turn of its loop.                       *)
(***************************************************************************)
TickEnter ==
    /\ InThread /\ list # <<>>
    /\ phase' = "tick" /\ cur' = Head(list)
    /\ cb' = [cb EXCEPT ![Head(list)].tcnt = Less(@, 1)]
    /\ UNCHANGED <<list, queueVars>>

\* isrMessagePut, whose result nobody looks at: a full ring loses the message.
\* A full os_psq ends in os_error.
Overflows == Len(box) < CbqSize /\ Len(posted) = FifoSize
PostCallback(t) == posted' = IF Len(box) < CbqSize THEN Append(posted, t) ELSE posted

\* A timer that was to expire once has done so.  (Mutant: its state stays.)
StoppedNot(t) == cb

Stopped(t) == [cb EXCEPT ![t].state = "stopped", ![t].icnt = 0]

Expires == cur # NoTimer /\ cb[cur].tcnt = 0

TimerExpires ==
    LET rest == SubSeq(list, PlaceOf(cur) + 1, Len(list))
    IN /\ phase = "tick" /\ Expires
       /\ IF Overflows THEN phase' = "os_error" /\ UNCHANGED <<list, cb, cur, posted>>
          ELSE /\ PostCallback(cur)
               /\ cur' = IF rest = <<>> THEN NoTimer ELSE Head(rest)
               /\ IF cb[cur].type = "periodic"
                  THEN InsertTimer(rest, cb, cur, cb[cur].icnt)
                  ELSE list' = rest /\ cb' = Stopped(cur)
               /\ UNCHANGED phase
       /\ UNCHANGED <<box, reader>>

TickExit ==
    /\ phase = "tick" /\ ~Expires
    /\ phase' = "thread" /\ cur' = NoTimer
    /\ UNCHANGED <<list, cb, queueVars>>

-----------------------------------------------------------------------------
(***************************************************************************)
(* PendSV hands the messages over; the timer thread calls the callbacks.   *)
(***************************************************************************)
\* (Mutant: what finds the ring full is stored all the same.)
StoreAlways == box' = Append(box, Head(posted)) /\ posted' = Tail(posted) /\ UNCHANGED phase

StoreMessage ==
    IF Len(box) < CbqSize
    THEN box' = Append(box, Head(posted)) /\ posted' = Tail(posted) /\ UNCHANGED phase
    ELSE phase' = "os_error" /\ UNCHANGED <<box, posted>>

PopMessage ==
    /\ phase = "thread" /\ posted # <<>>
    /\ IF reader.at = "waits"
       THEN /\ reader' = At("fetch", Head(posted)) /\ posted' = Tail(posted)
            /\ UNCHANGED <<box, phase>>
       ELSE StoreMessage /\ UNCHANGED reader
    /\ UNCHANGED <<list, cb, cur>>

\* osMessageGet of the timer thread.  (Mutant: it waits whatever there is.)
GetWaits == reader' = At("waits", NoTimer) /\ UNCHANGED box

GetMessage ==
    IF box = <<>> THEN reader' = At("waits", NoTimer) /\ UNCHANGED box
    ELSE reader' = At("fetch", Head(box)) /\ box' = Tail(box)

\* svcTimerCall: the block still names its callback, whatever its state.
TimerCall == reader' = At("calls", reader.timer) /\ UNCHANGED box

TimerThread ==
    /\ InThread
    /\ \/ reader.at = "get" /\ GetMessage
       \/ reader.at = "fetch" /\ TimerCall
       \/ reader.at = "calls" /\ reader' = At("get", NoTimer) /\ UNCHANGED box
    /\ UNCHANGED <<list, cb, cur, phase, posted>>

Die == phase = "os_error" /\ UNCHANGED timerVars

Handler == TimerExpires \/ TickExit \/ PopMessage

TimerNext == Svc \/ TickEnter \/ Handler \/ TimerThread \/ Die

TimerSpec == TimerInit /\ [][TimerNext]_timerVars

(***************************************************************************)
(* Handlers run to their end.  The timer thread, of the priority           *)
(* osPriorityHigh, gets the processor again and again, and its callbacks   *)
(* return; calls of threads and ticks come in between, hence strong.       *)
(***************************************************************************)
FairTimerSpec == TimerSpec /\ WF_timerVars(Handler) /\ SF_timerVars(TimerThread)

-----------------------------------------------------------------------------
(***************************************************************************)
(* The list has the running timers and no other, each once, and the first  *)
(* is not overdue: rt_timer_remove finds what it looks for, and the 16-bit *)
(* count of the first never passes below 0 in a tick.                      *)
(***************************************************************************)
ListOfRunning ==
    /\ Distinct(list)
    /\ \A t \in Timer : Chained(t) <=> cb[t].state = "running"
    /\ phase = "thread" /\ list # <<>> => cb[Head(list)].tcnt > 0

(***************************************************************************)
(* The list of differences, the loop of the tick, the queue and the timer  *)
(* thread together are timers that expire on time, and whose callbacks are *)
(* called once for each expiry and in order, unless CbqSize of them wait.  *)
(***************************************************************************)
Left(t) == IF Chained(t) THEN Until(list, cb, PlaceOf(t)) ELSE 0

States == [t \in Timer |-> cb[t].state]
Types == [t \in Timer |-> cb[t].type]
Lefts == [t \in Timer |-> Left(t)]
Periods == [t \in Timer |-> cb[t].icnt]
Coming == (IF reader.at = "fetch" THEN <<reader.timer>> ELSE <<>>) \o box \o posted
Called == IF reader.at = "calls" THEN reader.timer ELSE NoTimer

Service == INSTANCE TimerService WITH
    Capacity <- CbqSize, Never <- NoTimer, st <- States, type <- Types,
    left <- Lefts, period <- Periods, due <- Coming, called <- Called

ServiceSpec == Service!Spec

(***************************************************************************)
(* Every callback that is due is called, unless the kernel has died.       *)
(***************************************************************************)
CallbackComes ==
    \A t \in Timer :
        t \in ToSet(Coming) ~> reader = At("calls", t) \/ phase = "os_error"

(***************************************************************************)
(* The inductive invariant of the proofs.  No timer is further away than   *)
(* 16 bits can say, so that neither the count of one that is inserted nor  *)
(* that of one behind a removed one is cut.  A tick takes timers off the   *)
(* front only: what it inserts again comes behind all that are due.        *)
(***************************************************************************)
TimerInv ==
    /\ TimerTypeOK /\ ListOfRunning
    /\ \A i \in DOMAIN list : Until(list, cb, i) < TcntMod
    /\ \A t \in Timer :
          IF Chained(t) THEN cb[t].icnt > 0 ELSE cb[t].tcnt = 0 /\ cb[t].icnt = 0
    /\ phase = "thread" => cur = NoTimer
    /\ phase = "tick" =>
          /\ cur # NoTimer => Chained(cur)
          /\ IF Expires THEN cur = Head(list)
             ELSE list # <<>> => cb[Head(list)].tcnt > 0
    /\ reader.at = "waits" => box = <<>>
=============================================================================
