# Verification of the RTX kernel of arduino-ameba

The Arduino core for the Ameba board (RTL8195A) runs every sketch as a thread
of Keil's RTX kernel behind the CMSIS-RTOS services.  The kernel decides which
thread runs, keeps the delays, and gives threads and interrupts their signals,
semaphores, mutexes, message queues and timers.  The rest of the repository
stands on it: `delay()`, the `Thread` and `Ticker` classes, the port of lwIP.
This directory holds TLA+ models of that kernel, the TLC configurations that
check them, and proofs that TLAPS checks.

Paths below are relative to `src/hardware/arduino/ameba/`; a bare `rt_*.c` is
in `system/libameba/sw/os/rtx/src/`.

## The system

| part | state | operations | hard because |
|---|---|---|---|
| lists (`rt_List.c`) | `os_rdy`, `os_dly`, the list of each object, linked through the control blocks | ordered insertion, unlinking, taking the head, re-sorting, counting down the delays | one control block is in up to two lists, and every other file changes them |
| scheduler (`rt_Task.c`, `rt_Robin.c`) | `os_tsk.run`, `os_active_TCB`, state and priority of each thread, `os_robin` | create, delete, pass, set priority, block, dispatch, round robin | threads act on others in any state; handles are addresses of control blocks that are used again |
| handlers (`rt_System.c`, `HAL_CM3.s`) | `os_psq`, PendSV pending, `os_time` | SVC, SysTick, PendSV, requests of interrupts | interrupts come between any two steps; their requests are served later, on what has become of the object |
| signals (`rt_Event.c`) | `events`, `waits` of each thread | set, clear, wait for all or any, set by interrupts | timeout, wake-up and termination race |
| semaphores (`rt_Semaphore.c`) | tokens, list of waiters | create, wait, release, delete, release by interrupts | the release of an interrupt is served after the semaphore may have gone |
| mutexes (`rt_Mutex.c`) | owner, level, saved priority, list of waiters | create, wait, release, delete | priority inheritance re-sorts threads that wait elsewhere |
| mailboxes, mail, pools (`rt_Mailbox.c`, `rt_MemBox.c`) | ring of messages, one list for senders, receivers and allocators, its `state` | send, wait, both by interrupts, allocate, free | one list for three purposes, interrupts that change the ring directly |
| user timers (`rt_CMSIS.c`) | list of timers by differences, queue of 4 callbacks | create, start, stop, delete, tick, callback thread | the callback is a message: late, or for a timer that has changed |
| thread class, `delay()` (`cores/arduino/Thread.cpp`, `wiring.c`) | handle, definition with its control block | start, terminate, destructor, `get_state` | destructor acts through a stale handle |
| ticker (`ticker_api.c`, `Ticker.cpp`) | list of events by 32-bit time | insert, remove, interrupt | wrap-around; removal against re-insertion |
| serial buffer (`RingBuffer.cpp`, `UARTClass.cpp`) | head, tail, 64 bytes | store in the interrupt, read, `end` | no lock |
| port of lwIP (`lwip-sys/arch/sys_arch.c`) | pool of messages, nesting lock | mailboxes, semaphores, protect | timeouts converted twice |
| libraries, lwIP, chip headers | | | vendored, formatting or register access |

Threads call the kernel through SVC; the tick and PendSV run `rt_systick` and
`rt_pop_req`.  These three handlers have the lowest priorities and never
interrupt each other, so a handler is atomic towards threads and towards the
other handlers, but interrupts of peripherals may come at any time.  An
interrupt does not touch the lists: it queues a request in `os_psq` and
pends PendSV, which is taken when the running handler returns.

`PROJECT.json` lists each part with its files and its state, the hazards with
their lines and the properties that would show them.

## The modules

    RtList  <-  RtKernel  <-  RtThread                     MCThread
                          <-  RtObjects <- RtSemaphore     MCSemaphore
                                        <- RtMutex         MCMutex
                                        <- RtMailbox <- RtMail    MCMail
            <-  RtTimer                                    MCTimer
            <-  Ticker                                     MCTicker
    CountingSemaphore  (what RtSemaphore implements)
    MessageQueue       (what RtMailbox implements)
    TimerService       (what RtTimer implements)
    RtListProofs  <-  RtKernelProofs  <-  RtThreadProofs
                                      <-  RtObjectsProofs  <-  RtSemaphoreProofs
                                                           <-  RtMutexProofs
                                                           <-  RtMailProofs
                  <-  TimeProofs

A module of proofs extends the module it is about and the proofs it rests on;
`TimeProofs` is about `Ticker` and `RtTimer`.

**RtList** — a chain of control blocks is the sequence of the threads it
passes through.  `PutPrio`, `PutDly` and `Unlink` are the walks of
`rt_put_prio`, `rt_put_dly` and `rt_rmv_list`/`rt_rmv_dly`.  The code stores in
`delta_time` the difference to the next thread of the delay list; the module
keeps for each thread the ticks it has left, `rem`, from which the differences
follow.  The list of `ticker_api.c` is searched the same way, by timestamps, and
that of `rt_timer_insert` by differences, so that `Ticker` and `RtTimer` take
`StopAt`, `InsertAt` and `Unlink` from here, too.

**RtKernel** — the control blocks are one record `k`: running thread, ready
list, delay list, waiting lists, and for each thread its state, priority, task
number, remaining ticks and `p_rlnk`.  An operation of `rt_Task.c` is an
operator from record to record (`Dispatch`, `Block`, `TskPass`, `TskPrio`,
`TskDelete`...), so that a service that calls three of them is their
composition, as in the code.  The handlers are actions:

* `SvcEnter` / `SvcReturn(s)`: the call is decided in the step that leaves the
  handler, so that interrupts can come in between.  A thread enters SVC only
  when PendSV is not pending, since that would be taken first.
* `TickEnter`, one `TickTimeout` for each turn of the loop of `rt_dec_dly`,
  `TickExit`: `rt_systick`.
* `PopEnter`, one `PopRequest` for each turn of `rt_pop_req`, `PopExit`.
* `PsqEnq`: an interrupt, between any of these steps.  A full queue is
  `os_error`, after which nothing moves.

When a step of the code would write through a null pointer or outside a table,
`mode` becomes `"undefined"` and the model says nothing of what follows.

**RtThread** — the thread, delay and signal services of `rt_CMSIS.c` with
`rt_Event.c`.  A handle is the address of a control block; the services look
up its `task_id` and act on the thread that owns that entry of
`os_active_TCB` *now*, which is what `TskPrio`, `TskDelete` and `SignalSet` do.
`ThreadCreate` uses a control block again after its thread has ended, as
`Thread::start` does.

**RtObjects** — the kernel with a set of threads that exist from the start,
waiting for objects, what deletion does to those who wait, and threads that
end or get another priority in whatever state they are.
**RtSemaphore**, **RtMutex** and **RtMailbox** extend it with the operations
of `rt_Semaphore.c`, `rt_Mutex.c` and `rt_Mailbox.c`; the guards are the checks
of the services in `rt_CMSIS.c`.  `CountingSemaphore` is what a user may rely on: tokens are
neither lost nor made up, and a thread stops waiting with a token, by its
timeout or because the semaphore is deleted.  `MessageQueue` is a bounded
queue in which messages keep their order and each is delivered once; the puts
of interrupts are a second queue, of messages on their way.  `RtMailbox` maps
the part of the ring from `last` on to the one, `os_psq` to the other, and the
one list of threads, by `state`, to those who wait to put or to get.

**RtMail** — a mail queue is a mailbox and a pool with as many blocks as the
ring has room.  `AllocBox` and `FreeBox` are `rt_alloc_box` and `rt_free_box`,
`holder` says who has a block.  The threads that wait for memory are in the
one list of the mailbox, state 3; `MailFree` hands its block to the first of
them, `IsrMailFree` leaves that to PendSV (`PopMemory`).  What `rt_get_first`
takes from an empty list is `"undefined"`.  A variable `use`, chosen once,
says which programs there are: message queues (nothing but `RtMailbox`), mail
queues whose allocations do not wait (`poll`) or wait for ever (`wait`), and
any.

**RtTimer** — `os_timer_head` is a sequence, and `cb[t].tcnt` the 16-bit
difference to the timer before, as in the code; `InsertTimer` and
`CountsWithout` are the walks of `rt_timer_insert` and `rt_timer_remove`.  The
first ends at `Place`, before the first timer that is due after the new one,
by the sums of the differences (`Until`).  `sysTimerTick` is
`TickEnter`, one `TimerExpires` for each turn of its loop, and `TickExit`.
Its messages go through `posted` (`os_psq`) and `box` (the ring of
`osTimerMessageQ`) to `reader`, the timer thread.  This is the mailbox once
more, with one reader, in the form that `MessageQueue` gives it: `RtTimer`
stands on the queue that `RtMailbox` implements.
`TimerService` counts down for each timer, lets it expire at 0 and appends it
to the callbacks to come; it may drop an expiry only while the callback queue
is full.  The refinement maps the sum of the differences up to a timer to the
ticks it has left (`Lefts`), and the message the reader has fetched, the ring
and `os_psq`, in that order, to the callbacks to come (`Coming`).  `TimerInv` is
the invariant of the proofs.

**Ticker** — `ticker_api.c` with `Ticker.cpp` and `Timeout.cpp`.  The events
are a sequence, the timestamps values of a counter that wraps at `CountMod`.
The alarm of the hardware and its counter are external: the interrupt becomes
pending when the counter reaches the alarm, and may be taken up to `Late`
ticks later.  `due` is a history variable that is no subject to the wrap.
Time stands still in the interrupt, which serves the head of the list in
one step for each turn of the loop of `ticker_irq_handler`; the callback of a
`Timeout` runs in it and may attach and detach.  `Setup` reads the counter and
inserts in one step.  `use` says whether the program ends before the counter
wraps (`first`), has a single Ticker, attached once and left alone from then on (`single`), or
neither.

Operators marked *Mutant* in a comment stand in front of the definition they
spoil and are used nowhere: each is a plausible mistake in that piece of code,
and replacing the definition by it makes TLC find one property violated.

## What is checked

Passing runs:

| run | instance | properties |
|---|---|---|
| `thread` | main, two threads above it, one flag sent by threads and by an interrupt, timeouts 0, 1 and for ever, queue of 1 | `TypeOK`; `NoMissedSignal`: no thread waits for flags that are set; `EndsOnlyByItself`: what is done to one thread never ends another |
| `terminate` | the same threads terminating and re-prioritising each other, also through handles of threads that have ended | `PriorityOrder`, `AlwaysReady`, `Placement` |
| `fair` | three threads of one priority, delays of 1 and 2, slice of 2 ticks | `DelayOrder`; `RoundRobin`; `DelayEnds` (liveness) |
| `semaphore` | threads of priority 2, 2 and 1, an interrupt, a queue of 2, three releases; two threads end or are terminated while they wait, and threads set each other's priority | `TypeOK`, `NoIdleToken`, `WaitLists`, `HighestFirst`, and `CountingSpec`: the refinement of `CountingSemaphore` |
| `mutex` | priorities 3, 2, 1 and two mutexes, taken up to twice, nested in any order, with delays while they are held; a thread that owns none is terminated; and programs that use one mutex and do not block while they hold it | `TypeOK`, `PriorityOrder`, `WaitLists`, `NoIdleMutex`; of the programs with one mutex `Inherits`, `PriorityRestored` |
| `mailbox` | threads of priority 2, 2 and 1, a ring of two, a queue of 2; threads put one message and an interrupt another, or allocate, put, get and free two mails; the lowest thread is terminated while it waits | `MailTypeOK`, `WaitLists`; `OneSide`: threads wait to get from an empty ring or to put into a full one, and `state` says which; `FifoSpec`: the refinement of `MessageQueue`; `BlocksConserved`: each block is in one place, and a mail on its way finds room; `MemoryIsServed`: state 3 has a thread that waits, and nobody waits for memory that is free |
| `timer` | three timers of 1 or 2 ticks, a callback queue of 1, `os_psq` of 2 | `TimerTypeOK`; `ListOfRunning`: the list has the running timers, each once, and none is overdue; `ServiceSpec`: the refinement of `TimerService`; `CallbackComes` (liveness) |
| `ticker` | two Tickers and a Timeout, delays of 2 and 3, a counter that wraps at 12, an interrupt held up by at most 1 | `TypeOK`; `Armed`: no alarm is lost; `OnTime`: none is passed over; `NeverEarly` |

Runs that find what the code does other than its documents say:

| run | property | what happens |
|---|---|---|
| `dead` | `TerminatedStaysDead` (`cmsis_os.h:366`) | a signal queued by an interrupt puts a terminated thread back into the ready list (`rt_Event.c:185`) |
| `lowered` | `WaitingRaises` (`rt_Mutex.c:175`) | a thread that starts to wait lowers the priority the owner has inherited from a higher one |
| `mail_state` | `TaskIsWaiting` (`rt_CMSIS.c:1931`) | PendSV or a timeout takes the last thread that waits for memory off the list and leaves state 3; the next `osMailFree` of a thread follows an empty list |
| `ticker_wrap` | `RestInFuture` (`ticker_api.c:66`) | when the counter wraps, an event that is overdue counts as one of the next period, 71 minutes later: it is behind one set up for after the wrap, or the interrupt came after the wrap |

Bounds, and why they are enough:

* Three threads beside the idle demon: a running one, a waiting one and a
  third that acts in between.  The list operations do not depend on the
  length; that they are right for every length is proved.
* `Forever` stands for 0xffff and is the least number above the timeouts used.
  `TimeMod` stands for 2^16; it only matters to round robin, and is a divisor
  of the slice where it is larger than 1, so that the comparison modulo
  `TimeMod` comes true when it does in the code.
* `FifoSize` is 16 in `RTX_Conf_CM.c`; 1 or 2 make it overflow early.
* `Budget` ends the life of a semaphore after three releases, `MaxLevel` a
  recursion of a mutex at two.  `MaxTokens` lies above every count reached:
  the counter's own limit is left to a later run.
* `StaleHandles` is FALSE where a property holds only for callers that forget
  the handle of a thread that has ended.  With it, `EndsOnlyByItself` is
  false: a `Thread` destroyed after its thread has ended terminates the thread
  that has its table entry now (`Thread.cpp:113`).  No document promises more,
  so that there is no run of it.
* In `mailbox` interrupts put and do not get.  A put only adds to `os_psq`, so
  that one in the middle of a handler is one before or after it; allocating
  and freeing a block changes the free list only, with interrupts disabled.
  A get changes the ring at once, in the middle of `rt_mbx_send` and
  `rt_mbx_wait` too, which a model with whole handlers would hide.
* The messages of threads and of interrupts differ in `mailbox` (`SvcPuts`,
  `IsrPuts`) so that their order shows; what a message says decides nothing.
  Two mails are as many as the ring has room for.
* `use` in `RtMutex`, `RtMail` and `Ticker` names programs, not bounds: a
  property that speaks of one use is false of others, for the reason the
  violating runs and the hazards give.  In `RtMutex` the owner in `"one"` does
  not block, since an owner that waits for a second mutex passes nothing on,
  and releases out of order leave a priority raised.  In `RtMail` `poll` and
  `wait` keep state 3 from outliving those who wait (a thread terminated while
  it waits for memory leaves it, too); in `wait` threads get
  mails without waiting, since a thread that waits for memory joins the list
  of those that wait for mail without changing its state.
* In `timer`, `TcntMod` 8 stands for 2^16 and is above the sum of two delays;
  a queue of 1 stands for the 4 of `RTX_Conf_CM.c`, so that one timer fills it
  and two in a tick overflow `os_psq` or the ring.  The counts of a timer that
  does not run are set to 0, since nobody reads them.
* In `ticker`, `CountMod` 12 leaves nine ticks before the first wrap, enough
  for each Ticker to come round three times, and `single` runs for ever.  The
  interrupt may be held up by less than the least delay.
* Deadlock is checked in every run: a kernel with an idle demon always has a
  tick to take, and a halted one is `Die`.

**Fairness.**  A handler that has begun runs to its end: weak fairness of
`Svc`, `TickTimeout` and `TickExit`.  SysTick is a periodic exception that
stays pending while another handler runs, and is taken when that one returns:
strong fairness of `TickEnter`, which a thread that calls SVC in a loop
disables and enables again for ever.  Nothing is assumed of the threads: no
fairness of `SvcEnter` or of any call.  In `RtTimer` handlers run to their
end (weak fairness of `Handler`), and the timer thread, whose priority is
`osPriorityHigh`, gets the processor again and again and its callbacks return:
strong fairness of `TimerThread`, since calls and ticks of others come in
between.  A callback that never returns, or a thread of a higher priority
that never waits, does stop the timers.

## What is proved

All of it holds for every set of threads, objects, flags, messages and events,
for every number of priorities, width of a counter and size of a table or
queue, from the assumptions that the modules name (`KernelAssumption` and the
like, which TLC evaluates in every run).  Each theorem of a property follows
from an inductive invariant, proved with one lemma for each action; the
invariants that the runs do not list were checked by TLC before they were
proved.

**Lists and kernel.**  `RtListProofs` proves of `PutPrio`, `PutDly` and
`Unlink`, for lists of every length, that the result is ordered, passes through
each thread once, and has the elements it should have.  `RtKernelProofs` proves
for each operator on `k` what it keeps of `Sound(k)` (the record's type, both
lists ordered and without repetition, their elements in the right states),
`Running(k)` (the running thread is `RUNNING`, not below a ready one, the idle
demon is ready or runs) and `Due(k)` (no deadline has passed).

**Threads and signals** (`RtThreadProofs`).

    Invariance       Spec => []IInv
    TypeCorrect      Spec => []TypeOK
    PriorityCorrect  Spec => []PriorityOrder
    ReadyCorrect     Spec => []AlwaysReady
    DelayCorrect     Spec => []DelayOrder
    Homing           Spec => []HInv
    PlacementCorrect Spec => []Placement
    SignalsCorrect   Spec => []NoMissedSignal
    EndsCorrect      ~StaleHandles: Spec => EndsOnlyByItself

`PriorityOrder` is not inductive: `rt_put_rdy_first` keeps the order only if
the running thread is not below the head of the list, which in turn holds only
if `rt_block` and `rt_tsk_delete` take that head; and between two steps of a
handler no thread runs at all, so that the idle demon must be in the list.
`IInv` says which of this holds in which mode.  `HInv` is what it takes to know
where the threads are: nobody owns two entries of `os_active_TCB`, the thread a
handler has interrupted stays ready until the handler is over, every active
thread and no other is in the list its state names, and nobody, ended or not,
waits for flags that are set.  The two are proved one after the other:
`Invariance` is a hypothesis of every step of `HInv`.  `EndsOnlyByItself` is
false with stale handles, and is proved without.

**Objects** (`RtObjectsProofs`).  `OInv` is the same for threads that wait for
objects: `Sound`, `Homed`, `Table`, and `Listed`, which says that a thread is
chained in the list of an object exactly while its `p_rlnk` points there and
its state is `WAIT_SEM`, `WAIT_MBX` or `WAIT_MUT`, in the order of the
priorities.  The module proves that a thread that joins a list, the first of a
list that is let in, a deletion, a timeout, a change of priority and an end
keep it; the three modules below add what their objects count.

**Semaphores** (`RtSemaphoreProofs`).  `SemaphoreInvariance` (`SInv`) gives
`SemaphoreTypes`, `SemaphoreLists` (`WaitLists`), `TokensUsed`
(`NoIdleToken`), `HighestServed` (`HighestFirst`, an action property that also
covers what PendSV gives), and

    CountsRight  Spec => CountingSpec

that the semaphores implement `CountingSemaphore`, initial states, steps and
stuttering.  Its hypothesis, `\A n \in InitTokens : n + Budget <= MaxTokens`,
is that nobody releases a semaphore more often than its 16-bit counter can
count; beyond it the release of an interrupt may wrap the counter to 0 (see the
hazards).  For this `CInv` is needed: a semaphore may be deleted while requests for it are
in `os_psq`, and created again.  None of those is left by then, because PendSV
comes before the next service.

**Mutexes** (`RtMutexProofs`).  `MutexInvariance` (`MInv`: the lists, the
types, `NoIdleMutex`, and that the owner of a mutex is alive) gives
`MutexTypes`, `MutexOrder` (`PriorityOrder`), `MutexLists` (`WaitLists`) and
`MutexesHandedOver` (`NoIdleMutex`), for any number of mutexes, nested in any
order, while priorities change under the lists.  `InheritanceInvariance`
(`PInv`) gives `OwnersInherit` (`Inherits`) and `LoansReturned`
(`PriorityRestored`) in programs with one mutex.  Neither is inductive: whoever
comes to wait is of no lower priority than the owner, only because the owner
is able to run and the running thread is the highest of those; and the priority
is given back only because the one saved is that of the creation.

**Message and mail queues** (`RtMailProofs`).  Two layers.  `MailBase` holds of
any program: `OInv`, the requests are well-formed, and `ServedFirst`, PendSV
comes before the next service; it gives `MailLists` (`WaitLists`).
`MailInvariance` (`MailInv`) adds what holds of the programs that rely on the
list of a mailbox (`use` is not `any`):

    MailTypes             MailTypeOK
    MailOneSide           OneSide
    MailMemoryIsServed    MemoryIsServed
    MailTaskIsWaiting     TaskIsWaiting
    MailBlocksConserved   BlocksConserved
    MailIsFifo            FifoSpec

Apart from `MemoryIsServed` and `BlocksConserved`, which name the programs
themselves, these have the hypothesis that `any` is not among `Uses`;
`TaskIsWaiting` is the property that the run `mail_state` refutes for `any`.
`OneSide` is not inductive: a put by an interrupt looks at the ring
when it is called and fills it when PendSV serves it.  It does no harm because
of `UnderWay`: since then no thread has put anything, no sender waits, and the
ring has room when a service begins.  `ForMemory` says, of programs that wait
for memory, that their waiters have no timeout and nothing is in `os_psq`, so
that state 3 cannot outlive those who wait.  `BlocksConserved` follows from a
partition of the blocks (`Placed`): free, held, in the ring and on the way are
disjoint, and no message is twice in the ring or in `os_psq`.  With
`Cardinality(Message) <= Size` the blocks that have not arrived leave room in
the ring, by counting.  This is where `MailAssumption` enters: a mail queue is
one mailbox and one pool, with as many blocks as the ring has room, which is what
`osMailCreate` builds.  Message queues may be as many as there are.

`MailIsFifo` is the refinement of `MessageQueue`: puts of threads and of
interrupts, gets, those who wait on either side and give up or end, each handed
what is theirs in the order it came; what a program does with memory is a
stutter of the queue.

**Ticker** (`TimeProofs`).  `TickerInvariance` (`TickInv`) gives
`AlarmsKept` (`Armed`) for every program and across every wrap, and
`ServedOnTime` (`OnTime`), `NotBeforeTime` (`NeverEarly`) and `TickerTypes`
(`TypeOK`) where `Uses \subseteq {"first", "single"}`: of `any` they are false,
which is what `ticker_wrap` shows.  Before the first wrap (`InFirst`) the list
is in the order of the times left, and `last_time` is not after any of them; a
single Ticker (`NoneYet`, `Alone`) is due exactly when its interrupt is pending,
and has, after its service, a timestamp that `ticker_irq_handler` cannot take
for due, be it above the counter or, after a wrap, below the one served.

**User timers** (`TimeProofs`).  `TimerInvariance` (`TimerInv`) gives
`TimerTypes` (`TimerTypeOK`) and `TimerLists` (`ListOfRunning`), and

    TimersServe  TimerSpec => ServiceSpec

that the list of differences, the loop of the tick, the queue and the timer
thread implement `TimerService`: initial states, steps and stuttering.  The
ticks a timer has left are a sum of the differences before it.  `SumsExist`
shows, by induction over the length of the list, that `Until` is that sum, and
`UntilRises` that the sums rise along the list; then `InsertCorrect`,
`RemoveCorrect`, `TickCorrect` and `FirstExpires` say what each walk makes of
the ticks left: those of one timer are set, or all fall by one, and no other
changes.  Each service, the tick and each turn of its loop are reduced to that
(the lemmas `...Means`), and both `TimerInv` and the refinement follow.

`ListOfRunning` is not inductive, nor enough for the refinement; `TimerInv` adds
three things.  `tcnt` is 16 bits wide, and the count of a timer behind a removed one grows by
that of the removed: no sum of the list reaches 2^16, so that none is cut.
In the loop of the tick the code takes what is due for the head of the list,
and goes on with the one behind it in a list into which it may just have
inserted: what is inserted again comes at least one tick later, and so behind
all that are due, which is why a running timer has a period.  And a message
that PendSV hands to the waiting reader overtakes none in the ring, since the
reader waits only while the ring is empty.  The assumption
is that delays are of at least one tick and fit 16 bits (`TimerAssumption`);
`svcTimerStart` refuses 0, and `rt_ms2tick` returns at most 0xFFFF.

**Only model-checked.**

* Liveness: `RoundRobin`, `DelayEnds` and `CallbackComes` hold under fairness,
  which is out of the prover's reach.  Every other property of a passing run
  is stated by a theorem.
* The four runs that find a violation: there is nothing to prove.

## What is not modelled

* Stacks, register frames and `rt_stk_check`; what a service returns, except
  where a property needs it (`ret` in `RtSemaphore`).
* `rt_tsk_lock`, `rt_suspend` and `rt_resume`, `rt_itv_set` and `rt_itv_wait`:
  no service and no file in `src/` calls them.
* The idle demon's task number, 255, is 0 in the models: no thread has it as
  its handle, and no other thread gets it.
* Errors of parameters that end in `sysThreadError` before anything changes.
* Threads are created only while `os_active_TCB` has a free entry.  With none
  `svcThreadCreate` uses the 0 that `rt_get_TID` returns and writes in front of
  the table; what it hits there is the linker's choice.
* An interrupt that gets a message or a mail (`isr_mbx_receive`), with the
  hazards listed for it.
* The thread that calls the function of a `Ticker`, and `Timer`, which only
  reads the counter.  What `us_ticker_set_interrupt` does with a time that has
  passed is in the binary library of the chip.
* lwIP, most of the lines of the repository, is vendored; so are the headers
  of the chip, which hold no behaviour.  The models are of the kernel and of
  what this repository builds on it.
* In `RtObjects` threads are not created, and one that has ended does not come
  back; in `RtThread` there are no objects.  No thread ends while it owns a
  mutex, and priorities are set in the runs of semaphores only: the way mutexes
  save and restore priorities does not go with it.
* The parts marked so in the table of parts in `PROJECT.json`.

## Plan

Next, in this order:

1. Handlers of the mailbox in finer steps, and the gets of interrupts between
   them: a message taken twice, a ring overfilled, the message 0.
2. `RtDelay`: the differences of `delta_time` themselves, refined to `rem`.
3. `RingBuffer` (a reader and an interrupt without a lock).
4. `sys_arch.c` and the conversions of `rt_ms2tick`.
5. Termination of threads that own a mutex, and their return.

Each with its inductive invariant and its theorems.
