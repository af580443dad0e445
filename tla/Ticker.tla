------------------------------- MODULE Ticker -------------------------------
(***************************************************************************)
(* The events of the microsecond ticker, ticker_api.c, and the Ticker and  *)
(* Timeout classes over them.  The events are a list in the order of their *)
(* timestamps, which are values of a counter that wraps; the interrupt of  *)
(* the counter serves those that are due and sets the alarm for the next.  *)
(*                                                                         *)
(* The list is changed with interrupts disabled, so that a change is one   *)
(* step towards the interrupt, which may be held up.  Timestamps are       *)
(* compared as numbers, and use says for which programs that is enough:    *)
(*   first     whatever the classes take, before the counter wraps         *)
(*   single    one Ticker, attached once and left alone, whose interrupt   *)
(*             comes at once                                               *)
(*   any       whatever the classes take                                   *)
(***************************************************************************)
EXTENDS Integers, Sequences, RtList

CONSTANTS Event,    \* the objects of the classes
          Tickers,  \* those that are Tickers; the others are Timeouts
          Null,     \* NULL; no alarm
          CountMod, \* 2^32: the counter and the timestamps are 32 bits wide
          Delays,   \* the delays, in ticks of the counter, that callers ask for
          Late,     \* bound: how long the interrupt may be held up
          Uses      \* what programs there are

ASSUME TickerAssumption ==
    /\ Tickers \subseteq Event /\ Null \notin Event \cup Int
    /\ {"thread", "irq"} \cap Event = {}
    /\ CountMod \in Nat \ {0, 1}
    /\ Delays \subseteq 1 .. CountMod - 1 /\ Delays # {}
    /\ Late \in Nat /\ \A d \in Delays : Late < d
    /\ Uses \subseteq {"first", "single", "any"}

VARIABLES queue,   \* queue->head and what it chains
          stamp,   \* the timestamp of each event
          delay,   \* _delay of each event
          last,    \* last_time of ticker_irq_handler
          mode,    \* "thread", "irq", or the event whose callback runs in it
          now,     \* the counter
          alarm,   \* the value of the counter at which the interrupt comes
          pend,    \* the interrupt is pending
          waits,   \* for how long it has been held up
          due,     \* history: the time an event in the list has left
          use      \* which of the programs it is

listVars == <<queue, stamp, delay>>
vars == <<listVars, last, mode, now, alarm, pend, waits, due, use>>

Time == 0 .. CountMod - 1

TypeOK ==
    /\ queue \in Seq(Event)
    /\ stamp \in [Event -> Time] /\ delay \in [Event -> Time]
    /\ last \in Time /\ now \in Time
    /\ mode \in {"thread", "irq"} \cup Event
    /\ alarm \in Time \cup {Null}
    /\ pend \in BOOLEAN /\ waits \in 0 .. Late
    /\ due \in [Event -> -Late .. CountMod]
    /\ use \in Uses

Init ==
    /\ queue = <<>> /\ last = 1
    /\ stamp = [e \in Event |-> 0] /\ delay = [e \in Event |-> 0]
    /\ mode = "thread" /\ now = 0
    /\ alarm = Null /\ pend = FALSE /\ waits = 0
    /\ due = [e \in Event |-> 0]
    /\ use \in Uses

-----------------------------------------------------------------------------
Queued(e) == e \in ToSet(queue)

\* Where in list q an event of time t belongs: behind its equals.
Behind(q, t) == StopAt(q, {i \in DOMAIN q : t < stamp[q[i]]})

\* ticker_insert_event: a new head sets the alarm.  (Mutant: it does not.)
InsertQuiet(q, e, t, set) ==
    /\ queue' = InsertAt(q, Behind(q, t), e)
    /\ stamp' = [stamp EXCEPT ![e] = t]
    /\ alarm' = set

Insert(q, e, t, set) ==
    /\ queue' = InsertAt(q, Behind(q, t), e)
    /\ stamp' = [stamp EXCEPT ![e] = t]
    /\ alarm' = IF Behind(q, t) = 1 THEN t ELSE set

\* ticker_remove_event: what is left of the list, and the alarm.
Without(e) == Unlink(queue, e)

AlarmWithout(e) ==
    IF queue = <<>> \/ Head(queue) # e THEN alarm
    ELSE IF Tail(queue) = <<>> THEN Null
    ELSE stamp[queue[2]]

\* The counter for which no timestamp wraps, whatever the delay.
Ends == CountMod - 1 - Max(Delays)

\* What may be attached and detached, and when: by threads, and by callbacks
\* that run in the interrupt.
MayCall(e) ==
    /\ mode # "irq"
    /\ use = "single" => e \in Tickers /\ \A other \in Event : delay[other] = 0

\* Ticker::setup: remove() and insert().
Setup(e, d) ==
    /\ MayCall(e)
    /\ delay' = [delay EXCEPT ![e] = d]
    /\ Insert(Without(e), e, (now + d) % CountMod, AlarmWithout(e))
    /\ due' = [due EXCEPT ![e] = d]
    /\ UNCHANGED <<last, mode, now, pend, waits, use>>

\* Ticker::detach, which also is the destructor's.
Detach(e) ==
    /\ MayCall(e) /\ Queued(e)
    /\ queue' = Without(e)
    /\ alarm' = AlarmWithout(e)
    /\ due' = [due EXCEPT ![e] = 0]
    /\ UNCHANGED <<stamp, delay, last, mode, now, pend, waits, use>>

-----------------------------------------------------------------------------
(***************************************************************************)
(* ticker_irq_handler, one step for each turn of its loop.                 *)
(***************************************************************************)
IrqEnter ==
    /\ mode = "thread" /\ pend
    /\ mode' = "irq" /\ pend' = FALSE /\ waits' = 0
    /\ UNCHANGED <<listVars, last, now, alarm, due, use>>

\* Is the head of the list due?  A timestamp below that of the event served
\* last is one after the wrap.  (Mutants: one that equals it is, too; the
\* event of the next microsecond is due.)
AfterWrapSame == stamp[Head(queue)] <= last /\ last <= now

AfterWrap == stamp[Head(queue)] < last /\ last <= now

DueSoon == queue # <<>> /\ stamp[Head(queue)] <= now + 1 /\ ~AfterWrap

Due == queue # <<>> /\ stamp[Head(queue)] <= now /\ ~AfterWrap

Served(e) ==
    /\ mode = "irq" /\ Due /\ e = Head(queue)
    /\ last' = stamp[e]
    /\ UNCHANGED <<delay, now, pend, waits, use>>

\* Ticker::handler; its function is called by a thread of its own.  (Mutant:
\* the sum is not cut at 32 bits.)
ServeTickerWide(e) ==
    /\ e \in Tickers /\ Served(e)
    /\ Insert(Tail(queue), e, stamp[e] + delay[e], alarm)
    /\ due' = [due EXCEPT ![e] = @ + delay[e]]
    /\ UNCHANGED mode

ServeTicker(e) ==
    /\ e \in Tickers /\ Served(e)
    /\ Insert(Tail(queue), e, (stamp[e] + delay[e]) % CountMod, alarm)
    /\ due' = [due EXCEPT ![e] = @ + delay[e]]
    /\ UNCHANGED mode

\* Timeout::handler calls the function itself.
ServeTimeout(e) ==
    /\ e \notin Tickers /\ Served(e)
    /\ queue' = Tail(queue) /\ mode' = e
    /\ due' = [due EXCEPT ![e] = 0]
    /\ UNCHANGED <<stamp, alarm>>

CallbackReturns ==
    /\ mode \in Event /\ mode' = "irq"
    /\ UNCHANGED <<listVars, last, now, alarm, pend, waits, due, use>>

\* The list is empty, or its head is in the future.
IrqExit ==
    /\ mode = "irq" /\ ~Due
    /\ mode' = "thread"
    /\ alarm' = IF queue = <<>> THEN Null ELSE stamp[Head(queue)]
    /\ UNCHANGED <<listVars, last, now, pend, waits, due, use>>

-----------------------------------------------------------------------------
HeldUp == IF use = "single" THEN 0 ELSE Late

\* The counter goes on, while the interrupt is held up too.
CountUp ==
    /\ mode = "thread"
    /\ use = "first" => now < Ends
    /\ pend => waits < HeldUp
    /\ now' = (now + 1) % CountMod
    /\ pend' = (pend \/ now' = alarm)
    /\ waits' = IF pend THEN waits + 1 ELSE 0
    /\ due' = [e \in Event |-> IF Queued(e) THEN due[e] - 1 ELSE 0]
    /\ UNCHANGED <<listVars, last, mode, alarm, use>>

Irq == IrqEnter \/ (\E e \in Event : ServeTicker(e) \/ ServeTimeout(e)) \/ CallbackReturns \/ IrqExit

Next ==
    \/ \E e \in Event : Detach(e) \/ \E d \in Delays : Setup(e, d)
    \/ Irq
    \/ CountUp

Spec == Init /\ [][Next]_vars

-----------------------------------------------------------------------------
(***************************************************************************)
(* No alarm is lost, however the calls of threads, of callbacks and the    *)
(* interrupt interleave: while events wait, the interrupt is pending or    *)
(* the alarm is that of the first of them, and each is in the list once.   *)
(***************************************************************************)
Armed ==
    /\ Distinct(queue)
    /\ mode = "thread" /\ queue # <<>> => pend \/ alarm = stamp[Head(queue)]

(***************************************************************************)
(* Every event is served when it is due, at the latest when the interrupt  *)
(* has been held up for as long as it may be: none is passed over, none is *)
(* taken for one after the wrap.                                           *)
(***************************************************************************)
OnTime ==
    \A e \in Event : Queued(e) => due[e] >= -HeldUp

(***************************************************************************)
(* No event is served before its time, in its first or a later period.     *)
(***************************************************************************)
NeverEarly ==
    [][\A e \in Event : ServeTicker(e) \/ ServeTimeout(e) => due[e] <= 0]_vars

(***************************************************************************)
(* ticker_api.c:66, of ticker_irq_handler: "This event and the following   *)
(* ones in the list are in the future."                                    *)
(***************************************************************************)
RestInFuture == [][IrqExit => \A e \in Event : Queued(e) => due[e] > 0]_vars

(***************************************************************************)
(* The inductive invariants of the proofs.  Before the counter wraps, the  *)
(* list is in the order of the times left, no event in it comes before the *)
(* one served last, and none is due unless the interrupt is pending, and   *)
(* then for as long as that has been held up.                              *)
(***************************************************************************)
Typed ==
    /\ queue \in Seq(Event)
    /\ stamp \in [Event -> Time] /\ delay \in [Event -> Time]
    /\ last \in Time /\ now \in Time
    /\ mode \in {"thread", "irq"} \cup Event
    /\ alarm \in Time \cup {Null}
    /\ pend \in BOOLEAN /\ waits \in 0 .. Late
    /\ due \in [Event -> Int] /\ \A e \in Event : ~Queued(e) => due[e] = 0
    /\ use \in Uses

InFirst ==
    /\ now <= Ends /\ (last <= now \/ last = 1)
    /\ Rising(queue, stamp)
    /\ \A e \in ToSet(queue) :
          /\ delay[e] \in Delays /\ due[e] = stamp[e] - now /\ last <= stamp[e]
          /\ due[e] >= -Late
          /\ mode = "thread" => due[e] >= IF pend THEN -waits ELSE 1
    /\ mode # "thread" => ~pend

(***************************************************************************)
(* A single Ticker is due when its interrupt is pending.  Once served its  *)
(* timestamp is not due again, be it above the counter, or below the one   *)
(* that was served.                                                        *)
(***************************************************************************)
NoneYet ==
    /\ queue = <<>> /\ \A e \in Event : delay[e] = 0
    /\ mode = "thread" /\ ~pend /\ alarm = Null

Alone(e) ==
    /\ e \in Tickers /\ queue = <<e>> /\ delay[e] \in Delays
    /\ due[e] \in 0 .. delay[e] /\ stamp[e] = (now + due[e]) % CountMod
    /\ \/ mode = "thread" /\ (pend <=> due[e] = 0)
       \/ mode = "irq" /\ ~pend /\ (due[e] = 0 \/ last = now)

TickInv ==
    /\ Typed /\ Armed
    /\ use = "first" => InFirst
    /\ use = "single" => NoneYet \/ \E e \in Tickers : Alone(e)
=============================================================================
