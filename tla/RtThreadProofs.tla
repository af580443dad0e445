--------------------------- MODULE RtThreadProofs ---------------------------
(***************************************************************************)
(* RtThread keeps its invariant, for any number of threads, priorities,    *)
(* flags, timeouts and entries of os_active_TCB.                           *)
(***************************************************************************)
EXTENDS RtThread, RtKernelProofs

\* The control blocks a service must leave for the thread that continues.
Servable(s) ==
    /\ Sound(s) /\ Running(s) /\ Due(s)
    /\ \A t \in Thread : s.rlnk[t] = None
    /\ \A i \in 1 .. MaxTaskRun : s.active[i] # Idle

SigTypeOK == events \in [Thread -> SUBSET Flags] /\ waits \in [Thread -> SUBSET Flags]

-----------------------------------------------------------------------------
LEMMA InitIInv == Init => IInv
<1> SUFFICES ASSUME Init PROVE IInv
  OBVIOUS
<1> USE KernelAssumption, ThreadAssumption DEF KernelAssumption, ThreadAssumption
<1>1. /\ k.run = Main /\ k.rdy = <<Idle>> /\ k.dly = <<>>
      /\ k.prio = [t \in Thread |-> IF t = Main THEN MainPrio ELSE 0]
      /\ k.state = [t \in Thread |-> IF t = Main THEN "RUNNING"
                                     ELSE IF t = Idle THEN "READY" ELSE "INACTIVE"]
      /\ k.rlnk = [t \in Thread |-> None]
      /\ k.active = [i \in 1 .. MaxTaskRun |-> IF i = 1 THEN Main ELSE None]
  BY DEF Init
<1>2. k \in KernelRecord
  BY DEF Init, KernelRecord, State
<1>3. ToSet(k.rdy) = {Idle} /\ ToSet(k.dly) = {}
  BY <1>1 DEF ToSet
<1>4. /\ Distinct(k.rdy) /\ Ordered(k.rdy, k.prio)
      /\ Distinct(k.dly) /\ Rising(k.dly, k.rem)
  BY <1>1 DEF Distinct, Ordered, Rising
<1>5. Sound(k)
  BY <1>1, <1>2, <1>3, <1>4 DEF Sound
<1>6. Running(k) /\ Due(k)
  BY <1>1, <1>3 DEF Running, Due
<1>7. TypeOK
  <2>1. robin \in [task : Thread \cup {None}, time : 0 .. TimeMod - 1]
    BY DEF Init
  <2>2. psq \in Seq([id : Thread, arg : SUBSET Flags]) /\ Len(psq) <= FifoSize
    <3>1. psq = <<>>
      BY DEF Init
    <3> QED BY <3>1
  <2>3. mode \in Mode /\ pend \in BOOLEAN /\ time \in 0 .. TimeMod - 1
    <3>1. time = 0 /\ mode = "thread"
      BY DEF Init
    <3>2. pend \in BOOLEAN
      BY Zenon DEF Init
    <3> QED BY <3>1, <3>2 DEF Mode
  <2>4. events \in [Thread -> SUBSET Flags] /\ waits \in [Thread -> SUBSET Flags]
    BY DEF Init
  <2> QED BY <1>2, <2>1, <2>2, <2>3, <2>4 DEF TypeOK, KernelTypeOK
<1> QED BY <1>1, <1>5, <1>6, <1>7 DEF Init, IInv

-----------------------------------------------------------------------------
\* What a service finds.
LEMMA SvcFinds ==
    ASSUME IInv, mode = "svc"
    PROVE  Servable(k) /\ k.run # Idle /\ SigTypeOK
  BY DEF IInv, InThread, Servable, TypeOK, SigTypeOK

\* A service that leaves what it must keeps the invariant.
LEMMA SvcKeeps ==
    ASSUME IInv, NEW s, SvcReturn(s), Servable(s), SigTypeOK'
    PROVE  IInv'
<1>1. s \in KernelRecord
  BY DEF Servable, Sound
<1>2. TypeOK'
  BY <1>1 DEF IInv, TypeOK, KernelTypeOK, SvcReturn, SigTypeOK, Mode
<1> QED BY <1>2 DEF IInv, SvcReturn, Servable

LEMMA CreateKeeps ==
    ASSUME IInv, NEW t \in Thread, ThreadCreate(t)
    PROVE  IInv'
<1> USE KernelAssumption, ThreadAssumption
<1>1. CASE FreeTid = {} \/ Chained(t)
  BY <1>1 DEF ThreadCreate, IInv, TypeOK, KernelTypeOK, Mode, InThread, sigVars
<1>2. CASE ~(FreeTid = {} \/ Chained(t))
  <2> DEFINE id == Min(FreeTid)
             f == [k.state EXCEPT ![t] = "READY"]
             g == [k.prio EXCEPT ![t] = CreatePrio[t]]
             l == [k.rlnk EXCEPT ![t] = None]
             c == [k.tid EXCEPT ![t] = id]
             a == [k.active EXCEPT ![id] = t]
             u == [k EXCEPT !.state = f, !.prio = g, !.rlnk = l, !.tid = c, !.active = a]
  <2>1. /\ SvcReturn(Dispatch([k EXCEPT !.state[t] = "READY", !.prio[t] = CreatePrio[t],
                                        !.rlnk[t] = None, !.tid[t] = id,
                                        !.active[id] = t], t))
        /\ t \notin {Idle, Main} /\ t # k.run
        /\ t \notin ToSet(k.rdy) /\ t \notin ToSet(k.dly)
        /\ events' = [events EXCEPT ![t] = {}]
        /\ waits' = [waits EXCEPT ![t] = {}]
    BY <1>2 DEF ThreadCreate, Chained
  <2>2. mode = "svc"
    BY <2>1 DEF SvcReturn
  <2>3. Servable(k) /\ k.run # Idle /\ SigTypeOK
    BY <2>2, SvcFinds
  <2>4. id \in 1 .. MaxTaskRun
    <3>1. FreeTid \in SUBSET Nat /\ FreeTid # {} /\ FreeTid \subseteq 1 .. MaxTaskRun
      BY <1>2 DEF FreeTid
    <3> QED BY <3>1, MinProperties
  <2> HIDE DEF id
  <2>5. /\ k \in KernelRecord /\ k.rdy \in Seq(Thread) /\ k.state \in [Thread -> State]
        /\ k.prio \in [Thread -> 0 .. MaxPrio] /\ k.prio \in [Thread -> Nat]
        /\ k.rlnk \in [Thread -> Obj \cup {None}]
        /\ k.tid \in [Thread -> 0 .. MaxTaskRun]
        /\ k.active \in [1 .. MaxTaskRun -> Thread \cup {None}]
        /\ ToSet(k.rdy) \subseteq Thread /\ ToSet(k.dly) \subseteq Thread
    BY <2>3, SoundFields DEF Servable
  <2>6. [k EXCEPT !.state[t] = "READY", !.prio[t] = CreatePrio[t],
                  !.rlnk[t] = None, !.tid[t] = id, !.active[id] = t] = u
    BY <2>5 DEF KernelRecord
  <2>7. /\ f \in [Thread -> State] /\ \A x \in Thread : x # t => f[x] = k.state[x]
    BY <2>5 DEF State
  <2>8. /\ g \in [Thread -> 0 .. MaxPrio] /\ g \in [Thread -> Nat]
        /\ \A x \in Thread : x # t => k.prio[x] = g[x]
    BY <2>5 DEF KernelAssumption, ThreadAssumption
  <2>9. /\ l \in [Thread -> Obj \cup {None}] /\ c \in [Thread -> 0 .. MaxTaskRun]
        /\ a \in [1 .. MaxTaskRun -> Thread \cup {None}]
        /\ \A x \in Thread : k.rlnk[x] = None => l[x] = None
        /\ \A i \in 1 .. MaxTaskRun : a[i] \in {k.active[i], t}
    <3>1. l \in [Thread -> Obj \cup {None}] /\ \A x \in Thread : k.rlnk[x] = None => l[x] = None
      BY <2>5
    <3>2. id \in 0 .. MaxTaskRun
      BY <2>4 DEF KernelAssumption
    <3>3. c \in [Thread -> 0 .. MaxTaskRun]
      BY <2>5, <3>2
    <3>4. a \in [1 .. MaxTaskRun -> Thread \cup {None}]
      BY <2>4, <2>5
    <3>5. \A i \in 1 .. MaxTaskRun : a[i] \in {k.active[i], t}
      BY <2>4, <2>5
    <3> QED BY <3>1, <3>3, <3>4, <3>5
  <2> HIDE DEF f, g, l, c, a
  <2>10. /\ u \in KernelRecord /\ u.rdy = k.rdy /\ u.dly = k.dly /\ u.rem = k.rem
         /\ u.run = k.run /\ u.state = f /\ u.prio = g /\ u.rlnk = l /\ u.active = a
    BY <2>5, <2>7, <2>8, <2>9 DEF KernelRecord
  <2> HIDE DEF u
  <2>11. Ordered(k.rdy, g)
    <3>1. Ordered(k.rdy, k.prio)
      BY <2>3 DEF Servable, Sound
    <3>2. \A x \in ToSet(k.rdy) : k.prio[x] = g[x]
      BY <2>1, <2>5, <2>8
    <3> QED BY <2>5, <2>8, <3>1, <3>2, OrderedSame
  <2>12. Sound(u)
    BY <2>1, <2>3, <2>5, <2>7, <2>10, <2>11 DEF Servable, Sound
  <2>13. /\ u.state[u.run] = "RUNNING" /\ Idle \in ToSet(u.rdy)
         /\ \A x \in ToSet(u.rdy) : u.prio[u.run] >= u.prio[x]
    <3>1. k.run \in Thread
      BY <2>3, SoundFields DEF Servable
    <3>2. /\ k.state[k.run] = "RUNNING" /\ Idle \in ToSet(k.rdy)
          /\ \A x \in ToSet(k.rdy) : k.prio[k.run] >= k.prio[x]
      BY <2>3 DEF Servable, Running
    <3>3. f[k.run] = "RUNNING" /\ g[k.run] = k.prio[k.run]
      BY <2>1, <2>7, <2>8, <3>1, <3>2
    <3>4. \A x \in ToSet(k.rdy) : g[k.run] >= g[x]
      BY <2>1, <2>5, <2>8, <3>2, <3>3
    <3> QED BY <2>10, <3>2, <3>3, <3>4
  <2> DEFINE r == Dispatch(u, t)
  <2>14. Sound(r) /\ Running(r) /\ Frame(u, r) /\ SameDelay(u, r)
    BY <2>1, <2>10, <2>12, <2>13, DispatchSound
  <2> HIDE DEF r
  <2>15. Due(r)
    BY <2>3, <2>10, <2>14 DEF Servable, Due, SameDelay
  <2>16. Servable(r)
    <3>1. \A x \in Thread : r.rlnk[x] = None
      BY <2>3, <2>9, <2>10, <2>14 DEF Servable, Frame
    <3>2. \A i \in 1 .. MaxTaskRun : r.active[i] # Idle
      BY <2>1, <2>3, <2>9, <2>10, <2>14, ZenonT(30) DEF Servable, Frame
    <3> QED BY <2>14, <2>15, <3>1, <3>2 DEF Servable
  <2>17. SigTypeOK'
    BY <2>1, <2>3 DEF SigTypeOK
  <2> QED BY <2>1, <2>6, <2>16, <2>17, SvcKeeps DEF r
<1> QED BY <1>1, <1>2

\* A service that moves no entry of the table.
LEMMA FramedKeeps ==
    ASSUME IInv, NEW s, SvcReturn(s), SigTypeOK',
           Sound(s), Running(s), Due(s), Frame(k, s)
    PROVE  IInv'
<1>1. mode = "svc"
  BY DEF SvcReturn
<1>2. Servable(s)
  BY <1>1, SvcFinds DEF Servable, Frame
<1> QED BY <1>2, SvcKeeps

LEMMA HandleEntry ==
    ASSUME IInv, NEW h \in Thread, h \in Handle
    PROVE  /\ k.tid[h] \in 1 .. MaxTaskRun
           /\ k.active[k.tid[h]] \in Thread \cup {None} /\ k.active[k.tid[h]] # Idle
<1>1. /\ k.tid \in [Thread -> 0 .. MaxTaskRun]
      /\ k.active \in [1 .. MaxTaskRun -> Thread \cup {None}]
  BY KernelAssumption, SoundFields DEF IInv
<1>2. k.tid[h] # 0
  BY DEF Handle
<1>3. k.tid[h] \in 1 .. MaxTaskRun
  BY <1>1, <1>2, KernelAssumption DEF KernelAssumption
<1> QED BY <1>1, <1>3 DEF IInv

LEMMA TerminateKeeps ==
    ASSUME IInv, NEW h \in Thread, ThreadTerminate(h)
    PROVE  IInv'
<1> DEFINE r == TskDelete(k, k.tid[h])
<1>1. h \in Handle /\ SvcReturn(r) /\ UNCHANGED sigVars
  BY DEF ThreadTerminate
<1>2. mode = "svc"
  BY <1>1 DEF SvcReturn
<1>3. Servable(k) /\ k.run # Idle /\ SigTypeOK
  BY <1>2, SvcFinds
<1>4. k.tid[h] \in 1 .. MaxTaskRun /\ k.active[k.tid[h]] # Idle
  BY <1>1, HandleEntry
<1>5. /\ Sound(r) /\ Running(r) /\ Due(r) /\ r.rlnk = k.rlnk
      /\ \A i \in 1 .. MaxTaskRun : r.active[i] \in {k.active[i], None}
  BY <1>3, <1>4, KernelAssumption, TskDeleteSound DEF Servable
<1> HIDE DEF r
<1>6. Idle # None
  BY KernelAssumption DEF KernelAssumption
<1>7. Servable(r)
  BY <1>3, <1>5, <1>6 DEF Servable
<1>8. SigTypeOK'
  BY <1>1, <1>3 DEF SigTypeOK, sigVars
<1> QED BY <1>1, <1>7, <1>8, SvcKeeps

LEMMA YieldKeeps ==
    ASSUME IInv, ThreadYield
    PROVE  IInv'
<1> DEFINE r == TskPass(k)
<1>1. SvcReturn(r) /\ UNCHANGED sigVars
  BY DEF ThreadYield
<1>2. mode = "svc"
  BY <1>1 DEF SvcReturn
<1>3. Servable(k) /\ k.run # Idle /\ SigTypeOK
  BY <1>2, SvcFinds
<1>4. Sound(r) /\ Running(r) /\ Frame(k, r) /\ SameDelay(k, r)
  BY <1>3, KernelAssumption, TskPassSound DEF Servable
<1> HIDE DEF r
<1>5. Due(r)
  BY <1>3, <1>4 DEF Servable, Due, SameDelay
<1>6. SigTypeOK'
  BY <1>1, <1>3 DEF SigTypeOK, sigVars
<1> QED BY <1>1, <1>4, <1>5, <1>6, FramedKeeps

LEMMA SetPriorityKeeps ==
    ASSUME IInv, NEW h \in Thread, NEW p \in Prios, ThreadSetPriority(h, p)
    PROVE  IInv'
<1> DEFINE r == TskPrio(k, k.tid[h], p)
<1>1. h \in Handle /\ SvcReturn(r) /\ UNCHANGED sigVars
  BY DEF ThreadSetPriority
<1>2. mode = "svc"
  BY <1>1 DEF SvcReturn
<1>3. Servable(k) /\ k.run # Idle /\ SigTypeOK
  BY <1>2, SvcFinds
<1>4. k.tid[h] \in 1 .. MaxTaskRun
  BY <1>1, HandleEntry
<1>5. p \in 0 .. MaxPrio
  BY ThreadAssumption, KernelAssumption DEF ThreadAssumption, KernelAssumption
<1>6. Sound(r) /\ Running(r) /\ Frame(k, r) /\ SameDelay(k, r)
  BY <1>3, <1>4, <1>5, KernelAssumption, TskPrioSound DEF Servable
<1> HIDE DEF r
<1>7. Due(r)
  BY <1>3, <1>6 DEF Servable, Due, SameDelay
<1>8. SigTypeOK'
  BY <1>1, <1>3 DEF SigTypeOK, sigVars
<1> QED BY <1>1, <1>6, <1>7, <1>8, FramedKeeps

\* rt_block, whatever else the service does to the flags.
LEMMA BlockKeeps ==
    ASSUME IInv, NEW n \in Timeouts, NEW b \in WaitState,
           SvcReturn(Block(k, n, b)), SigTypeOK'
    PROVE  IInv'
<1>1. mode = "svc"
  BY DEF SvcReturn
<1>2. Servable(k) /\ k.run # Idle
  BY <1>1, SvcFinds
<1>3. n \in 0 .. Forever
  BY ThreadAssumption DEF ThreadAssumption
<1>4. /\ Sound(Block(k, n, b)) /\ Running(Block(k, n, b))
      /\ Frame(k, Block(k, n, b)) /\ Due(Block(k, n, b))
  BY <1>2, <1>3, KernelAssumption, BlockSound DEF Servable
<1> QED BY <1>4, FramedKeeps

LEMMA DelayKeeps ==
    ASSUME IInv, NEW n \in Timeouts, Delay(n)
    PROVE  IInv'
<1>1. SvcReturn(Block(k, n, "WAIT_DLY")) /\ UNCHANGED sigVars
  BY DEF Delay
<1>2. SigTypeOK'
  BY <1>1, SvcFinds DEF SvcReturn, SigTypeOK, sigVars
<1>3. "WAIT_DLY" \in WaitState
  BY DEF WaitState
<1> QED BY <1>1, <1>2, <1>3, BlockKeeps

-----------------------------------------------------------------------------
\* Flags set for a thread keep their type.
LEMMA SetFlagsType ==
    ASSUME SigTypeOK, NEW t \in Thread, NEW f \in SUBSET Flags, SetFlags(t, f)
    PROVE  SigTypeOK'
<1>1. CASE Wakes(t, f)
  <2>1. /\ events' = [events EXCEPT ![t] = (@ \cup f) \ waits[t]]
        /\ waits' = [waits EXCEPT ![t] =
                        IF k.state[t] = "WAIT_OR" THEN @ \cap (events[t] \cup f) ELSE @]
    BY <1>1 DEF SetFlags
  <2> QED BY <2>1 DEF SigTypeOK
<1>2. CASE ~Wakes(t, f)
  <2>1. events' = [events EXCEPT ![t] = @ \cup f] /\ UNCHANGED waits
    BY <1>2 DEF SetFlags
  <2> QED BY <2>1 DEF SigTypeOK
<1> QED BY <1>1, <1>2

\* A thread that flags wake is in no list but, perhaps, the delay list.
LEMMA WokenApart ==
    ASSUME IInv, NEW t \in Thread, NEW f, Wakes(t, f)
    PROVE  /\ t \notin ToSet(k.rdy)
           /\ InThread => t # k.run
  BY DEF IInv, Sound, Running, Wakes

LEMMA SignalSetKeeps ==
    ASSUME IInv, NEW h \in Thread, NEW f \in SUBSET Flags, SignalSet(h, f)
    PROVE  IInv'
<1> DEFINE t == k.active[k.tid[h]]
           u == RmvDly(k, t)
           r == Dispatch(u, t)
<1>1. h \in Handle
  BY DEF SignalSet
<1>2. t \in Thread \cup {None}
  BY <1>1, HandleEntry
<1>3. CASE t = None
  <2>1. SvcReturn(k) /\ UNCHANGED sigVars
    BY <1>3 DEF SignalSet
  <2>2. Servable(k) /\ SigTypeOK
    BY <2>1, SvcFinds DEF SvcReturn
  <2>3. SigTypeOK'
    BY <2>1, <2>2 DEF SigTypeOK, sigVars
  <2> QED BY <2>1, <2>2, <2>3, SvcKeeps
<1>4. CASE t # None
  <2>1. /\ SvcReturn(IF Wakes(t, f) THEN r ELSE k)
        /\ SetFlags(t, f)
    BY <1>4 DEF SignalSet
  <2> HIDE DEF t
  <2>2. t \in Thread
    BY <1>2, <1>4
  <2>3. mode = "svc" /\ InThread
    BY <2>1 DEF SvcReturn, InThread
  <2>4. Servable(k) /\ k.run # Idle /\ SigTypeOK
    BY <2>3, SvcFinds
  <2>5. SigTypeOK'
    BY <2>1, <2>2, <2>4, SetFlagsType
  <2>6. CASE ~Wakes(t, f)
    BY <2>1, <2>4, <2>5, <2>6, SvcKeeps
  <2>7. CASE Wakes(t, f)
    <3>1. t \notin ToSet(k.rdy) /\ t # k.run
      BY <2>2, <2>3, <2>7, WokenApart
    <3>2. /\ Sound(u) /\ Frame(k, u) /\ u.run = k.run /\ u.prio = k.prio
          /\ u.state = k.state /\ u.rdy = k.rdy
          /\ ToSet(u.dly) = ToSet(k.dly) \ {t} /\ Due(u)
      BY <2>2, <2>4, KernelAssumption, RmvDlySound DEF Servable
    <3> HIDE DEF u
    <3>3. /\ u.state[u.run] = "RUNNING" /\ Idle \in ToSet(u.rdy)
          /\ \A x \in ToSet(u.rdy) : u.prio[u.run] >= u.prio[x]
      BY <2>4, <3>2 DEF Servable, Running
    <3>4. t # u.run /\ t \notin ToSet(u.rdy) /\ t \notin ToSet(u.dly)
      BY <3>1, <3>2
    <3>5. Sound(r) /\ Running(r) /\ Frame(u, r) /\ SameDelay(u, r)
      BY <2>2, <3>2, <3>3, <3>4, KernelAssumption, DispatchSound
    <3> HIDE DEF r
    <3>6. Due(r) /\ Frame(k, r)
      BY <3>2, <3>5 DEF Due, SameDelay, Frame
    <3> QED BY <2>1, <2>5, <2>7, <3>5, <3>6, FramedKeeps
  <2> QED BY <2>6, <2>7
<1> QED BY <1>3, <1>4

LEMMA SignalClearKeeps ==
    ASSUME IInv, NEW h \in Thread, NEW f \in SUBSET Flags, SignalClear(h, f)
    PROVE  IInv'
<1> DEFINE t == k.active[k.tid[h]]
<1>1. /\ SvcReturn(k) /\ h \in Handle /\ UNCHANGED waits
      /\ events' = IF t = None THEN events ELSE [events EXCEPT ![t] = @ \ f]
  BY DEF SignalClear
<1>2. Servable(k) /\ SigTypeOK
  BY <1>1, SvcFinds DEF SvcReturn
<1>3. t \in Thread \cup {None}
  BY <1>1, HandleEntry
<1> HIDE DEF t
<1>4. SigTypeOK'
  BY <1>1, <1>2, <1>3 DEF SigTypeOK
<1> QED BY <1>1, <1>2, <1>4, SvcKeeps

LEMMA SignalWaitKeeps ==
    ASSUME IInv, NEW f \in SUBSET Flags, NEW n \in Timeouts, SignalWait(f, n)
    PROVE  IInv'
<1> DEFINE t == k.run
           wanted == IF f # {} THEN f ELSE Flags
           b == IF f # {} THEN "WAIT_AND" ELSE "WAIT_OR"
<1>1. mode = "svc"
  BY DEF SignalWait, SvcReturn
<1>2. Servable(k) /\ SigTypeOK /\ t \in Thread
  BY <1>1, SvcFinds, KernelAssumption, SoundFields DEF Servable
<1>3. wanted \in SUBSET Flags /\ b \in WaitState
  BY DEF WaitState
<1>4. CASE FlagsThere(t, f)
  <2>1. /\ SvcReturn(k)
        /\ events' = [events EXCEPT ![t] = @ \ wanted]
        /\ waits' = [waits EXCEPT ![t] = IF f # {} THEN @ ELSE events[t]]
    BY <1>4 DEF SignalWait
  <2> HIDE DEF t, wanted
  <2>2. SigTypeOK'
    BY <1>2, <2>1 DEF SigTypeOK
  <2> QED BY <1>2, <2>1, <2>2, SvcKeeps
<1>5. CASE ~FlagsThere(t, f)
  <2>1. /\ SvcReturn(Block(k, n, b))
        /\ waits' = [waits EXCEPT ![t] = wanted]
        /\ UNCHANGED events
    BY <1>5 DEF SignalWait
  <2> HIDE DEF t, wanted, b
  <2>2. SigTypeOK'
    BY <1>2, <1>3, <2>1 DEF SigTypeOK
  <2> QED BY <1>3, <2>1, <2>2, BlockKeeps
<1> QED BY <1>4, <1>5

-----------------------------------------------------------------------------
\* The handlers that switch: SysTick and PendSV.

\* Putting the running thread first opens either handler.
LEMMA EnterFinds ==
    ASSUME IInv, mode = "thread"
    PROVE  /\ Sound(PutRdyFirst(k, k.run)) /\ Due(PutRdyFirst(k, k.run))
           /\ Frame(k, PutRdyFirst(k, k.run))
           /\ Idle \in ToSet(PutRdyFirst(k, k.run).rdy)
           /\ PutRdyFirst(k, k.run).rdy # <<>>
           /\ Head(PutRdyFirst(k, k.run).rdy) \in Thread
<1>1. Sound(k) /\ Running(k) /\ Due(k)
  BY DEF IInv, InThread
<1>2. k.run \in Thread /\ k.run \notin ToSet(k.rdy) /\ k.run \notin ToSet(k.dly)
  BY <1>1, KernelAssumption, RunningApart DEF Running
<1>3. \A x \in ToSet(k.rdy) : k.prio[k.run] >= k.prio[x]
  BY <1>1 DEF Running
<1> DEFINE r == PutRdyFirst(k, k.run)
<1>4. /\ Sound(r) /\ Frame(k, r) /\ SameDelay(k, r)
      /\ ToSet(r.rdy) = ToSet(k.rdy) \cup {k.run} /\ r.rdy # <<>> /\ Head(r.rdy) = k.run
  BY <1>1, <1>2, <1>3, KernelAssumption, PutRdyFirstSound
<1> HIDE DEF r
<1>5. Idle \in ToSet(r.rdy)
  BY <1>1, <1>4 DEF Running
<1>6. Due(r)
  BY <1>1, <1>4 DEF Due, SameDelay
<1> QED BY <1>2, <1>4, <1>5, <1>6 DEF r

\* Giving the processor to the first ready thread closes either handler.
LEMMA ExitFinds ==
    ASSUME IInv, mode \in {"tick", "pop"}, Due(k)
    PROVE  /\ Sound(SwitchToFirst(k)) /\ Running(SwitchToFirst(k))
           /\ Due(SwitchToFirst(k)) /\ Frame(k, SwitchToFirst(k))
<1>1. Sound(k) /\ Idle \in ToSet(k.rdy)
  BY DEF IInv
<1> DEFINE r == SwitchToFirst(k)
<1>2. Sound(r) /\ Running(r) /\ Frame(k, r) /\ SameDelay(k, r)
  BY <1>1, KernelAssumption, SwitchSound
<1> HIDE DEF r
<1>3. Due(r)
  BY <1>2 DEF Due, SameDelay
<1> QED BY <1>2, <1>3 DEF r

\* What is left to show once the control blocks are known.
LEMMA HandlerKeeps ==
    ASSUME IInv, TypeOK', Sound(k'), Frame(k, k'),
           InThread' => Running(k'), mode' = "svc" => k'.run # Idle,
           mode' \in {"tick", "pop"} => Idle \in ToSet(k'.rdy),
           mode' \in {"thread", "svc", "pop"} => Due(k')
    PROVE  IInv'
  BY DEF IInv, Frame

LEMMA TickEnterKeeps ==
    ASSUME IInv, TickEnter, UNCHANGED sigVars
    PROVE  IInv'
<1> DEFINE s == PutRdyFirst(k, k.run)
           v == IF RobinExpired(s) THEN RobinSwap(s) ELSE s
<1>1. /\ mode = "thread" /\ mode' = "tick" /\ k' = DecDly(v)
      /\ robin' = IF RobinExpired(s) THEN [RobinStart(s) EXCEPT !.task = None]
                                     ELSE RobinStart(s)
      /\ time' = (time + 1) % TimeMod
      /\ psq' = psq /\ pend' = pend
  BY DEF TickEnter
<1>2. /\ Sound(s) /\ Due(s) /\ Frame(k, s) /\ Idle \in ToSet(s.rdy)
      /\ s.rdy # <<>> /\ Head(s.rdy) \in Thread
  BY <1>1, EnterFinds
<1> HIDE DEF s
<1>3. Sound(v) /\ Due(v) /\ Frame(k, v) /\ Idle \in ToSet(v.rdy)
  <2>1. CASE RobinExpired(s)
    <3>1. /\ Sound(RobinSwap(s)) /\ Frame(s, RobinSwap(s)) /\ SameDelay(s, RobinSwap(s))
          /\ ToSet(RobinSwap(s).rdy) = ToSet(s.rdy)
      BY <1>2, KernelAssumption, RobinSwapSound
    <3> QED BY <1>2, <2>1, <3>1 DEF Due, SameDelay, Frame
  <2>2. CASE ~RobinExpired(s)
    BY <1>2, <2>2
  <2> QED BY <2>1, <2>2
<1> HIDE DEF v
<1>4. Sound(k') /\ Frame(k, k') /\ Idle \in ToSet(k'.rdy)
  <2>1. /\ Sound(DecDly(v)) /\ Frame(v, DecDly(v))
        /\ DecDly(v).rdy = v.rdy
    BY <1>3, KernelAssumption, DecDlySound
  <2> QED BY <1>1, <1>3, <2>1 DEF Frame
<1>5. time' \in 0 .. TimeMod - 1 /\ robin' \in [task : Thread \cup {None}, time : 0 .. TimeMod - 1]
  <2>1. /\ time \in 0 .. TimeMod - 1
        /\ robin \in [task : Thread \cup {None}, time : 0 .. TimeMod - 1]
    BY DEF IInv, TypeOK, KernelTypeOK
  <2>2. \A n \in Int : n % TimeMod \in 0 .. TimeMod - 1
    BY KernelAssumption DEF KernelAssumption
  <2>3. time + 1 \in Int /\ time + RobinTout - 1 \in Int
    BY <2>1, KernelAssumption DEF KernelAssumption
  <2>4. RobinStart(s) \in [task : Thread \cup {None}, time : 0 .. TimeMod - 1]
    BY <1>2, <2>1, <2>2, <2>3 DEF RobinStart
  <2> QED BY <1>1, <2>2, <2>3, <2>4
<1>6. TypeOK'
  <2>1. k' \in KernelRecord
    BY <1>4 DEF Sound
  <2> QED BY <1>1, <1>5, <2>1 DEF IInv, TypeOK, KernelTypeOK, Mode, sigVars
<1> QED BY <1>1, <1>4, <1>6, HandlerKeeps DEF InThread

LEMMA TickTimeoutKeeps ==
    ASSUME IInv, TickTimeout, UNCHANGED sigVars
    PROVE  IInv'
<1> DEFINE t == Head(k.dly)
           u == [k EXCEPT !.dly = Tail(@)]
           r == PutRdy(u, t)
<1>1. /\ mode = "tick" /\ k.dly # <<>> /\ k \in KernelRecord /\ Sound(k)
      /\ UNCHANGED <<mode, psq, pend, robin, time>>
  BY DEF TickTimeout, TimeoutDue, IInv, Sound
<1>2. /\ Sound(u) /\ Frame(k, u) /\ u.rdy = k.rdy
      /\ t \in ToSet(k.dly) /\ t \in Thread
      /\ ToSet(u.dly) = ToSet(k.dly) \ {t}
  BY <1>1, KernelAssumption, TakeDelaySound
<1>3. t \notin ToSet(k.rdy)
  BY <1>1, <1>2, KernelAssumption, SoundFields
<1>4. k' = r
  <2>1. k.rlnk[t] = None
    BY <1>2 DEF IInv
  <2>2. k' = [PutRdy(k, t) EXCEPT !.dly = Tail(@)]
    BY <2>1 DEF TickTimeout
  <2> QED BY <1>1, <2>2 DEF PutRdy, KernelRecord
<1> HIDE DEF u, t
<1>5. /\ Sound(r) /\ Frame(u, r) /\ ToSet(r.rdy) = ToSet(u.rdy) \cup {t}
  BY <1>2, <1>3, KernelAssumption, PutRdySound
<1> HIDE DEF r
<1>6. Sound(k') /\ Frame(k, k') /\ Idle \in ToSet(k'.rdy)
  BY <1>1, <1>2, <1>4, <1>5 DEF Frame, IInv
<1>7. TypeOK'
  <2>1. k' \in KernelRecord
    BY <1>6 DEF Sound
  <2> QED BY <1>1, <2>1 DEF IInv, TypeOK, KernelTypeOK, sigVars
<1> QED BY <1>1, <1>6, <1>7, HandlerKeeps DEF InThread

LEMMA TickExitKeeps ==
    ASSUME IInv, TickExit, UNCHANGED sigVars
    PROVE  IInv'
<1>1. /\ mode = "tick" /\ mode' = "thread" /\ k' = SwitchToFirst(k)
      /\ UNCHANGED <<psq, pend, robin, time>> /\ Sound(k)
      /\ ~TimeoutDue
  BY DEF TickExit, IInv
<1>2. Due(k)
  <2>1. CASE k.dly = <<>>
    BY <2>1 DEF Due, ToSet
  <2>2. CASE k.dly # <<>>
    <3> DEFINE r == [k EXCEPT !.dly = Tail(@)]
    <3>1. /\ Head(k.dly) \in Thread
          /\ \A x \in ToSet(k.dly) : k.rem[Head(k.dly)] <= k.rem[x]
      BY <1>1, <2>2, KernelAssumption, TakeDelaySound
    <3>2. k.rem \in [Thread -> Nat] /\ ToSet(k.dly) \subseteq Thread
      BY <1>1, KernelAssumption, SoundFields
    <3>3. k.rem[Head(k.dly)] # 0
      BY <1>1, <2>2 DEF TimeoutDue
    <3> QED BY <3>1, <3>2, <3>3 DEF Due
  <2> QED BY <2>1, <2>2
<1>3. Sound(k') /\ Running(k') /\ Due(k') /\ Frame(k, k')
  BY <1>1, <1>2, ExitFinds
<1>4. TypeOK'
  <2>1. k' \in KernelRecord
    BY <1>3 DEF Sound
  <2> QED BY <1>1, <2>1 DEF IInv, TypeOK, KernelTypeOK, Mode, sigVars
<1> QED BY <1>1, <1>3, <1>4, HandlerKeeps

LEMMA PopEnterKeeps ==
    ASSUME IInv, PopEnter, UNCHANGED sigVars
    PROVE  IInv'
<1>1. /\ mode = "thread" /\ mode' = "pop" /\ pend' = FALSE
      /\ k' = PutRdyFirst(k, k.run) /\ UNCHANGED <<psq, robin, time>>
  BY DEF PopEnter
<1>2. Sound(k') /\ Due(k') /\ Frame(k, k') /\ Idle \in ToSet(k'.rdy)
  BY <1>1, EnterFinds
<1>3. TypeOK'
  <2>1. k' \in KernelRecord
    BY <1>2 DEF Sound
  <2> QED BY <1>1, <2>1 DEF IInv, TypeOK, KernelTypeOK, Mode, sigVars
<1> QED BY <1>1, <1>2, <1>3, HandlerKeeps DEF InThread

LEMMA PopExitKeeps ==
    ASSUME IInv, PopExit, UNCHANGED sigVars
    PROVE  IInv'
<1>1. /\ mode = "pop" /\ mode' = "thread" /\ k' = SwitchToFirst(k)
      /\ UNCHANGED <<psq, pend, robin, time>> /\ Due(k)
  BY DEF PopExit, IInv
<1>2. Sound(k') /\ Running(k') /\ Due(k') /\ Frame(k, k')
  BY <1>1, ExitFinds
<1>3. TypeOK'
  <2>1. k' \in KernelRecord
    BY <1>2 DEF Sound
  <2> QED BY <1>1, <2>1 DEF IInv, TypeOK, KernelTypeOK, Mode, sigVars
<1> QED BY <1>1, <1>2, <1>3, HandlerKeeps

\* rt_evt_psh: a request never finds its thread in the ready list.
LEMMA PopSignalKeeps ==
    ASSUME IInv, PopSignal
    PROVE  IInv'
<1> DEFINE t == Head(psq).id
           f == Head(psq).arg
           u == RmvDly(k, t)
           r == PutRdy(u, t)
           Request == [id : Thread, arg : SUBSET Flags]
<1>1. /\ mode = "pop" /\ psq # <<>> /\ psq' = Tail(psq)
      /\ k' = IF Wakes(t, f) THEN r ELSE k
      /\ UNCHANGED <<mode, pend, robin, time>>
      /\ SetFlags(t, f)
  BY DEF PopSignal, PopRequest
<1>2. /\ psq \in Seq(Request) /\ Len(psq) <= FifoSize
      /\ Sound(k) /\ Due(k) /\ Idle \in ToSet(k.rdy) /\ SigTypeOK
  BY <1>1 DEF IInv, TypeOK, SigTypeOK
<1>3. /\ Head(psq) \in Request /\ Tail(psq) \in Seq(Request) /\ Len(Tail(psq)) = Len(psq) - 1
      /\ Len(psq) \in Nat
  <2> HIDE DEF Request
  <2> QED BY <1>1, <1>2
<1>4. t \in Thread /\ f \in SUBSET Flags
  BY <1>3
<1> HIDE DEF t, f
<1>5. SigTypeOK'
  BY <1>1, <1>2, <1>4, SetFlagsType
<1>6. Sound(k') /\ Due(k') /\ Frame(k, k') /\ Idle \in ToSet(k'.rdy)
  <2>1. CASE ~Wakes(t, f)
    BY <1>1, <1>2, <2>1 DEF Frame
  <2>2. CASE Wakes(t, f)
    <3>1. t \notin ToSet(k.rdy)
      BY <1>4, <2>2, WokenApart
    <3>2. /\ Sound(u) /\ Frame(k, u) /\ u.rdy = k.rdy
          /\ ToSet(u.dly) = ToSet(k.dly) \ {t} /\ Due(u)
      BY <1>2, <1>4, KernelAssumption, RmvDlySound
    <3> HIDE DEF u
    <3>3. t \notin ToSet(u.rdy) /\ t \notin ToSet(u.dly)
      BY <3>1, <3>2
    <3>4. /\ Sound(r) /\ Frame(u, r) /\ SameDelay(u, r)
          /\ ToSet(r.rdy) = ToSet(u.rdy) \cup {t}
      BY <1>4, <3>2, <3>3, KernelAssumption, PutRdySound
    <3> HIDE DEF r
    <3> QED BY <1>1, <1>2, <2>2, <3>2, <3>4 DEF Frame, SameDelay, Due
  <2> QED BY <2>1, <2>2
<1>7. TypeOK'
  <2>1. k' \in KernelRecord
    BY <1>6 DEF Sound
  <2>2. psq' \in Seq(Request) /\ Len(psq') <= FifoSize
    BY <1>1, <1>2, <1>3, KernelAssumption DEF KernelAssumption
  <2> QED BY <1>1, <1>5, <2>1, <2>2 DEF IInv, TypeOK, KernelTypeOK, SigTypeOK
<1> QED BY <1>1, <1>6, <1>7, HandlerKeeps DEF InThread

LEMMA IsrKeeps ==
    ASSUME IInv, NEW h \in Thread, NEW f \in IsrSignals, IsrSignalSet(h, f)
    PROVE  IInv'
<1> DEFINE request == [id |-> k.active[k.tid[h]], arg |-> f]
           Request == [id : Thread, arg : SUBSET Flags]
<1>1. /\ ~Halted /\ h \in Handle /\ k.active[k.tid[h]] # None
      /\ IF Len(psq) < FifoSize
         THEN psq' = Append(psq, request) /\ pend' = TRUE /\ UNCHANGED mode
         ELSE mode' = "os_error" /\ UNCHANGED <<psq, pend>>
      /\ UNCHANGED <<k, robin, time>> /\ UNCHANGED sigVars
  BY DEF IsrSignalSet, PsqEnq
<1>2. request \in Request
  BY <1>1, HandleEntry, ThreadAssumption DEF ThreadAssumption
<1>3. psq \in Seq(Request) /\ Len(psq) <= FifoSize /\ Len(psq) \in Nat
  BY DEF IInv, TypeOK
<1>4. CASE Len(psq) < FifoSize
  <2>1. psq' = Append(psq, request) /\ pend' = TRUE /\ mode' = mode
    BY <1>1, <1>4
  <2>2. psq' \in Seq(Request) /\ Len(psq') <= FifoSize
    <3> HIDE DEF request, Request
    <3> QED BY <1>2, <1>3, <1>4, <2>1, KernelAssumption DEF KernelAssumption
  <2>3. TypeOK'
    BY <1>1, <2>1, <2>2 DEF IInv, TypeOK, KernelTypeOK, sigVars
  <2> QED BY <1>1, <2>1, <2>3 DEF IInv, InThread
<1>5. CASE ~(Len(psq) < FifoSize)
  <2>1. mode' = "os_error" /\ UNCHANGED <<psq, pend>>
    BY <1>1, <1>5
  <2>2. TypeOK'
    BY <1>1, <2>1 DEF IInv, TypeOK, KernelTypeOK, Mode, sigVars
  <2> QED BY <1>1, <2>1, <2>2 DEF IInv, InThread
<1> QED BY <1>4, <1>5

-----------------------------------------------------------------------------
LEMMA NextIInv == IInv /\ [Next]_vars => IInv'
<1> SUFFICES ASSUME IInv, [Next]_vars PROVE IInv'
  OBVIOUS
<1>1. CASE UNCHANGED vars
  BY <1>1 DEF vars, kernelVars, sigVars, IInv, TypeOK, KernelTypeOK, InThread
<1>2. CASE Svc
  <2>1. ASSUME NEW t \in Thread, ThreadCreate(t) PROVE IInv'
    BY <2>1, CreateKeeps
  <2>2. ASSUME NEW t \in Thread, ThreadTerminate(t) PROVE IInv'
    BY <2>2, TerminateKeeps
  <2>3. CASE ThreadYield
    BY <2>3, YieldKeeps
  <2>4. ASSUME NEW t \in Thread, NEW p \in Prios, ThreadSetPriority(t, p) PROVE IInv'
    BY <2>4, SetPriorityKeeps
  <2>5. ASSUME NEW n \in Timeouts, Delay(n) PROVE IInv'
    BY <2>5, DelayKeeps
  <2>6. ASSUME NEW t \in Thread, NEW f \in SUBSET Flags, SignalSet(t, f) PROVE IInv'
    BY <2>6, SignalSetKeeps
  <2>7. ASSUME NEW t \in Thread, NEW f \in SUBSET Flags, SignalClear(t, f) PROVE IInv'
    BY <2>7, SignalClearKeeps
  <2>8. ASSUME NEW f \in SUBSET Flags, NEW n \in Timeouts, SignalWait(f, n) PROVE IInv'
    BY <2>8, SignalWaitKeeps
  <2> QED BY <1>2, <2>1, <2>2, <2>3, <2>4, <2>5, <2>6, <2>7, <2>8 DEF Svc
<1>3. CASE Handler
  <2>1. CASE SvcEnter
    BY <1>3, <2>1 DEF Handler, SvcEnter, sigVars, IInv, TypeOK, KernelTypeOK, Mode, InThread
  <2>2. CASE TickEnter
    BY <1>3, <2>2, TickEnterKeeps DEF Handler
  <2>3. CASE TickTimeout
    BY <1>3, <2>3, TickTimeoutKeeps DEF Handler
  <2>4. CASE TickExit
    BY <1>3, <2>4, TickExitKeeps DEF Handler
  <2>5. CASE PopEnter
    BY <1>3, <2>5, PopEnterKeeps DEF Handler
  <2>6. CASE PopExit
    BY <1>3, <2>6, PopExitKeeps DEF Handler
  <2>7. CASE Die
    BY <1>3, <2>7 DEF Handler, Die, kernelVars, sigVars, IInv, TypeOK, KernelTypeOK, InThread
  <2> QED BY <1>3, <2>1, <2>2, <2>3, <2>4, <2>5, <2>6, <2>7 DEF Handler
<1>4. CASE PopSignal
  BY <1>4, PopSignalKeeps
<1>5. CASE Isr
  BY <1>5, IsrKeeps DEF Isr
<1> QED BY <1>1, <1>2, <1>3, <1>4, <1>5 DEF Next

(***************************************************************************)
(* The invariant holds in every state, whatever threads and interrupts do. *)
(***************************************************************************)
THEOREM Invariance == Spec => []IInv
  BY InitIInv, NextIInv, PTL DEF Spec

(***************************************************************************)
(* Types: in particular the queue os_psq never overruns os_fifo_size, and  *)
(* a thread's task_id stays within os_active_TCB.                          *)
(***************************************************************************)
THEOREM TypeCorrect == Spec => []TypeOK
<1>1. IInv => TypeOK
  BY DEF IInv
<1> QED BY Invariance, <1>1, PTL

(***************************************************************************)
(* The processor is never with a thread below a ready one once a handler   *)
(* has returned, and the ready list stays in order through every handler.  *)
(***************************************************************************)
THEOREM PriorityCorrect == Spec => []PriorityOrder
<1>1. IInv => PriorityOrder
  <2> SUFFICES ASSUME IInv PROVE PriorityOrder
    OBVIOUS
  <2>1. Sound(k) /\ Ordered(k.rdy, k.prio)
    BY DEF IInv, Sound
  <2>2. ASSUME InThread, k.rdy # <<>> PROVE k.prio[k.run] >= RdyPrio(k)
    <3> DEFINE r == [k EXCEPT !.rdy = Tail(@)]
    <3>1. Head(k.rdy) \in ToSet(k.rdy)
      BY <2>1, <2>2, KernelAssumption, TakeReadySound
    <3> QED BY <2>2, <3>1 DEF IInv, Running, RdyPrio
  <2> QED BY <2>1, <2>2 DEF PriorityOrder
<1> QED BY Invariance, <1>1, PTL

(***************************************************************************)
(* Whoever blocks, dies or is deleted, rt_get_first finds a ready thread.  *)
(***************************************************************************)
THEOREM ReadyCorrect == Spec => []AlwaysReady
<1>1. IInv => AlwaysReady
  <2> SUFFICES ASSUME IInv PROVE AlwaysReady
    OBVIOUS
  <2>1. mode \in Mode
    BY DEF IInv, TypeOK, KernelTypeOK
  <2> QED BY <2>1 DEF IInv, AlwaysReady, Mode, Halted, InThread, Running
<1> QED BY Invariance, <1>1, PTL

(***************************************************************************)
(* The delay list stays in the order of the deadlines, and no deadline is  *)
(* missed by the tick that brings it.                                      *)
(***************************************************************************)
THEOREM DelayCorrect == Spec => []DelayOrder
<1>1. IInv => DelayOrder
  BY DEF IInv, DelayOrder, Sound, Due
<1> QED BY Invariance, <1>1, PTL

-----------------------------------------------------------------------------
(***************************************************************************)
(* The second invariant, HInv, on top of the first.  Alive(s) are the      *)
(* threads whose entry of the table of s is their own.                     *)
(***************************************************************************)
Alive(s) == {t \in Thread : s.tid[t] # 0 /\ s.active[s.tid[t]] = t}
Entries(s) == \A i \in 1 .. MaxTaskRun : s.active[i] # None => s.tid[s.active[i]] = i
Unwoken == \A t \in Thread : ~Wakes(t, {})

LEMMA HInvParts ==
    HInv <=> /\ Entries(k) /\ Homed(k, Alive(k)) /\ Unwoken
             /\ mode \in {"tick", "pop"} => k.run \in ToSet(k.rdy)
<1>1. Alive(k) = {t \in Thread : Active(t)}
  BY DEF Alive, Active
<1> QED BY <1>1 DEF HInv, Entries, Unwoken

LEMMA InitHInv == Init => HInv
<1> SUFFICES ASSUME Init PROVE HInv
  OBVIOUS
<1> USE KernelAssumption, ThreadAssumption DEF KernelAssumption, ThreadAssumption
<1>1. /\ k.run = Main /\ k.rdy = <<Idle>>
      /\ k.state = [t \in Thread |-> IF t = Main THEN "RUNNING"
                                     ELSE IF t = Idle THEN "READY" ELSE "INACTIVE"]
      /\ k.tid = [t \in Thread |-> IF t = Main THEN 1 ELSE 0]
      /\ k.active = [i \in 1 .. MaxTaskRun |-> IF i = 1 THEN Main ELSE None]
      /\ mode = "thread"
  BY DEF Init
<1>2. Alive(k) = {Main} /\ Entries(k)
  BY <1>1 DEF Alive, Entries
<1>3. Homed(k, Alive(k))
  BY <1>1, <1>2 DEF Homed
<1>4. Unwoken
  BY <1>1 DEF Unwoken, Wakes
<1> QED BY <1>1, <1>2, <1>3, <1>4, HInvParts

\* Flags that nobody touches stay unseen by those who already waited.
LEMMA StillUnwoken ==
    ASSUME Unwoken, UNCHANGED sigVars, Moves(k, k', {})
    PROVE  Unwoken'
  BY DEF Unwoken, Wakes, Moves, WaitState, sigVars

\* The flags of one thread change, and it is seen to.
LEMMA OthersUnwoken ==
    ASSUME Unwoken, NEW t \in Thread, Moves(k, k', {t}), ~Wakes(t, {})',
           \A x \in Thread : x # t => events'[x] = events[x] /\ waits'[x] = waits[x]
    PROVE  Unwoken'
  BY DEF Unwoken, Wakes, Moves, WaitState

\* A step that leaves the table alone.
Homes == HInv' /\ k'.active = k.active /\ k'.tid = k.tid

LEMMA TableKept ==
    ASSUME HInv, k'.active = k.active, k'.tid = k.tid, Homed(k', Alive(k)), Unwoken',
           mode' \in {"tick", "pop"} => k'.run \in ToSet(k'.rdy)
    PROVE  Homes
<1>1. Alive(k') = Alive(k)
  BY DEF Alive
<1>2. Entries(k')
  BY HInvParts DEF Entries
<1> QED BY <1>1, <1>2, HInvParts DEF Homes, HInv, Entries, Unwoken, Alive, Active

LEMMA HSvcFinds ==
    ASSUME IInv, HInv, mode = "svc"
    PROVE  /\ KernelAssumption /\ Servable(k) /\ Sound(k) /\ Running(k) /\ Due(k)
           /\ k.run # Idle /\ SigTypeOK /\ k.run \in Thread
           /\ Entries(k) /\ Homed(k, Alive(k)) /\ Unwoken /\ Alive(k) \in SUBSET Thread
<1>1. Servable(k) /\ k.run # Idle /\ SigTypeOK
  BY SvcFinds
<1>2. Sound(k) /\ Running(k) /\ Due(k)
  BY <1>1 DEF Servable
<1>3. Alive(k) \in SUBSET Thread
  BY DEF Alive
<1> QED BY <1>1, <1>2, <1>3, HInvParts, SoundFields, KernelAssumption

\* A service that keeps the table and the flags.
LEMMA SvcHomes ==
    ASSUME IInv, HInv, NEW s, SvcReturn(s), UNCHANGED sigVars,
           Frame(k, s), Homed(s, Alive(k)), Moves(k, s, {})
    PROVE  Homes
<1>1. k' = s /\ mode' = "thread" /\ Unwoken
  BY HInvParts DEF SvcReturn
<1>2. Unwoken'
  BY <1>1, StillUnwoken
<1> QED BY <1>1, <1>2, TableKept DEF Frame

\* An ended thread that is started again takes an entry that nobody owns.
LEMMA CreateHomes ==
    ASSUME IInv, HInv, NEW t \in Thread, ThreadCreate(t)
    PROVE  HInv' /\ Alive(k) \subseteq Alive(k')
<1>1. CASE FreeTid = {} \/ Chained(t)
  <2>1. k' = k /\ mode' = "undefined" /\ UNCHANGED sigVars
    BY <1>1 DEF ThreadCreate
  <2>2. Moves(k, k', {}) /\ Unwoken /\ Homed(k, Alive(k))
    BY <2>1, HInvParts DEF Moves
  <2> QED BY <2>1, <2>2, StillUnwoken, TableKept DEF Homes, Alive
<1>2. CASE ~(FreeTid = {} \/ Chained(t))
  <2> DEFINE id == Min(FreeTid)
             f == [k.state EXCEPT ![t] = "READY"]
             g == [k.prio EXCEPT ![t] = CreatePrio[t]]
             l == [k.rlnk EXCEPT ![t] = None]
             c == [k.tid EXCEPT ![t] = id]
             a == [k.active EXCEPT ![id] = t]
             u == [k EXCEPT !.state = f, !.prio = g, !.rlnk = l, !.tid = c, !.active = a]
             r == Dispatch(u, t)
  <2>1. /\ SvcReturn(Dispatch([k EXCEPT !.state[t] = "READY", !.prio[t] = CreatePrio[t],
                                        !.rlnk[t] = None, !.tid[t] = id,
                                        !.active[id] = t], t))
        /\ t # k.run /\ t \notin ToSet(k.rdy) /\ t \notin ToSet(k.dly)
        /\ t \notin Alive(k)
        /\ events' = [events EXCEPT ![t] = {}]
        /\ waits' = [waits EXCEPT ![t] = {}]
    BY <1>2 DEF ThreadCreate, Chained, Alive, Active
  <2>2. mode = "svc" /\ mode' = "thread"
    BY <2>1 DEF SvcReturn
  <2>3. /\ KernelAssumption /\ Servable(k) /\ Sound(k) /\ Running(k) /\ Due(k)
        /\ k.run # Idle /\ SigTypeOK /\ k.run \in Thread
        /\ Entries(k) /\ Homed(k, Alive(k)) /\ Unwoken /\ Alive(k) \in SUBSET Thread
    BY <2>2, HSvcFinds
  <2>4. id \in FreeTid /\ id \in 1 .. MaxTaskRun /\ k.active[id] = None
    <3>1. FreeTid \in SUBSET Nat /\ FreeTid # {}
      BY <1>2 DEF FreeTid
    <3>2. id \in FreeTid
      BY <3>1, MinProperties
    <3> QED BY <3>2 DEF FreeTid
  <2> HIDE DEF id
  <2>5. /\ k \in KernelRecord /\ k.rdy \in Seq(Thread) /\ k.state \in [Thread -> State]
        /\ k.prio \in [Thread -> 0 .. MaxPrio] /\ k.prio \in [Thread -> Nat]
        /\ k.rlnk \in [Thread -> Obj \cup {None}]
        /\ k.tid \in [Thread -> 0 .. MaxTaskRun]
        /\ k.active \in [1 .. MaxTaskRun -> Thread \cup {None}]
        /\ ToSet(k.rdy) \subseteq Thread /\ ToSet(k.dly) \subseteq Thread
    BY <2>3, SoundFields
  <2>6. [k EXCEPT !.state[t] = "READY", !.prio[t] = CreatePrio[t],
                  !.rlnk[t] = None, !.tid[t] = id, !.active[id] = t] = u
    BY <2>5 DEF KernelRecord
  <2>7. /\ f \in [Thread -> State] /\ f[t] = "READY"
        /\ \A x \in Thread : x # t => f[x] = k.state[x]
    BY <2>5 DEF State
  <2>8. /\ g \in [Thread -> 0 .. MaxPrio] /\ g \in [Thread -> Nat]
        /\ \A x \in Thread : x # t => k.prio[x] = g[x]
    BY <2>5, KernelAssumption, ThreadAssumption DEF KernelAssumption, ThreadAssumption
  <2>9. l \in [Thread -> Obj \cup {None}]
    BY <2>5
  <2>10. /\ c \in [Thread -> 0 .. MaxTaskRun] /\ c[t] = id
         /\ \A x \in Thread : x # t => c[x] = k.tid[x]
    <3>1. id \in 0 .. MaxTaskRun
      BY <2>4, KernelAssumption DEF KernelAssumption
    <3> QED BY <2>5, <3>1
  <2>11. /\ a \in [1 .. MaxTaskRun -> Thread \cup {None}] /\ a[id] = t
         /\ \A i \in 1 .. MaxTaskRun : i # id => a[i] = k.active[i]
    BY <2>4, <2>5
  <2> HIDE DEF f, g, l, c, a
  <2>12. /\ u \in KernelRecord /\ u.rdy = k.rdy /\ u.dly = k.dly /\ u.rem = k.rem
         /\ u.run = k.run /\ u.state = f /\ u.prio = g /\ u.tid = c /\ u.active = a
    BY <2>5, <2>7, <2>8, <2>9, <2>10, <2>11 DEF KernelRecord
  <2> HIDE DEF u
  <2>13. Ordered(k.rdy, g)
    <3>1. Ordered(k.rdy, k.prio)
      BY <2>3 DEF Sound
    <3>2. \A x \in ToSet(k.rdy) : k.prio[x] = g[x]
      BY <2>1, <2>5, <2>8
    <3> QED BY <2>5, <2>8, <3>1, <3>2, OrderedSame
  <2>14. Sound(u)
    BY <2>1, <2>3, <2>5, <2>7, <2>12, <2>13 DEF Sound
  <2>15. /\ u.state[u.run] = "RUNNING" /\ Idle \in ToSet(u.rdy)
         /\ \A x \in ToSet(u.rdy) : u.prio[u.run] >= u.prio[x]
    <3>1. /\ k.state[k.run] = "RUNNING" /\ Idle \in ToSet(k.rdy)
          /\ \A x \in ToSet(k.rdy) : k.prio[k.run] >= k.prio[x]
      BY <2>3 DEF Running
    <3>2. f[k.run] = "RUNNING" /\ g[k.run] = k.prio[k.run]
      BY <2>1, <2>3, <2>7, <2>8, <3>1
    <3>3. \A x \in ToSet(k.rdy) : g[k.run] >= g[x]
      BY <2>1, <2>5, <2>8, <3>1, <3>2
    <3> QED BY <2>12, <3>1, <3>2, <3>3
  <2>16. Alive(u) = Alive(k) \cup {t} /\ Entries(u)
    <3>1. id # 0 /\ t # None /\ \A x \in Thread : k.tid[x] \in 0 .. MaxTaskRun
      BY <2>4, <2>5, KernelAssumption DEF KernelAssumption
    <3>2. \A x \in Thread : x \in Alive(u) <=> x \in Alive(k) \cup {t}
      <4> SUFFICES ASSUME NEW x \in Thread PROVE x \in Alive(u) <=> x \in Alive(k) \cup {t}
        OBVIOUS
      <4>1. CASE x = t
        BY <2>10, <2>11, <2>12, <3>1, <4>1 DEF Alive
      <4>2. CASE x # t
        <5>1. u.tid[x] = k.tid[x] /\ k.tid[x] \in 0 .. MaxTaskRun
          BY <2>10, <2>12, <3>1, <4>2
        <5>2. CASE k.tid[x] = 0
          BY <4>2, <5>1, <5>2 DEF Alive
        <5>3. CASE k.tid[x] = id
          <6>1. u.active[u.tid[x]] = t /\ k.active[k.tid[x]] = None /\ x # None
            BY <2>4, <2>11, <2>12, <5>1, <5>3, KernelAssumption DEF KernelAssumption
          <6> QED BY <4>2, <5>1, <6>1 DEF Alive
        <5>4. CASE k.tid[x] # 0 /\ k.tid[x] # id
          <6>1. k.tid[x] \in 1 .. MaxTaskRun
            BY <5>1, <5>4, KernelAssumption DEF KernelAssumption
          <6>2. u.active[u.tid[x]] = k.active[k.tid[x]]
            BY <2>11, <2>12, <5>1, <5>4, <6>1
          <6> QED BY <4>2, <5>1, <6>2 DEF Alive
        <5> QED BY <5>2, <5>3, <5>4
      <4> QED BY <4>1, <4>2
    <3>3. Entries(u)
      <4> SUFFICES ASSUME NEW i \in 1 .. MaxTaskRun, u.active[i] # None
                   PROVE  u.tid[u.active[i]] = i
        BY DEF Entries
      <4>1. CASE i = id
        BY <2>10, <2>11, <2>12, <4>1
      <4>2. CASE i # id
        <5>1. u.active[i] = k.active[i] /\ k.active[i] \in Thread /\ k.tid[k.active[i]] = i
          BY <2>3, <2>5, <2>11, <2>12, <4>2 DEF Entries
        <5>2. i # 0
          OBVIOUS
        <5>3. k.active[i] # t
          BY <2>1, <5>1, <5>2 DEF Alive
        <5> QED BY <2>10, <2>12, <5>1, <5>3
      <4> QED BY <4>1, <4>2
    <3> QED BY <3>2, <3>3 DEF Alive
  <2>17. Homed(u, (Alive(k) \cup {t}) \ {t})
    BY <2>3, <2>7, <2>12 DEF Homed
  <2>18. Alive(k) \cup {t} \in SUBSET Thread /\ t # u.run /\ t \notin ToSet(u.rdy)
         /\ t \notin ToSet(u.dly)
    BY <2>1, <2>3, <2>12
  <2>19. /\ Homed(r, Alive(k) \cup {t}) /\ Moves(u, r, {t}) /\ r.state[t] \notin WaitState
    BY <2>3, <2>14, <2>15, <2>17, <2>18, DispatchMoves
  <2>20. Frame(u, r)
    BY <2>3, <2>14, <2>15, <2>18, DispatchSound
  <2>21. k' = r
    BY <2>1, <2>6 DEF SvcReturn
  <2> HIDE DEF r
  <2>22. Alive(k') = Alive(u) /\ Entries(k')
    BY <2>16, <2>20, <2>21 DEF Alive, Entries, Frame
  <2>23. Unwoken'
    <3>1. Moves(k, k', {t})
      BY <2>7, <2>12, <2>19, <2>21 DEF Moves
    <3>2. ~Wakes(t, {})'
      BY <2>19, <2>21 DEF Wakes, WaitState
    <3>3. \A x \in Thread : x # t => events'[x] = events[x] /\ waits'[x] = waits[x]
      BY <2>1, <2>3 DEF SigTypeOK
    <3> QED BY <2>3, <3>1, <3>2, <3>3, OthersUnwoken
  <2>24. Homed(k', Alive(k'))
    BY <2>16, <2>19, <2>21, <2>22
  <2>25. Alive(k) \subseteq Alive(k')
    BY <2>16, <2>22
  <2>26. HInv'
    BY <2>2, <2>22, <2>23, <2>24 DEF HInv, Entries, Unwoken, Alive, Active
  <2> QED BY <2>25, <2>26
<1> QED BY <1>1, <1>2

(***************************************************************************)
(* An entry is cleared: its owner is the only one who stops being alive.   *)
(***************************************************************************)
LEMMA EntryCleared ==
    ASSUME KernelAssumption, NEW s, s \in KernelRecord, Entries(s),
           NEW id \in 1 .. MaxTaskRun,
           NEW r, r.tid = s.tid, r.active = [s.active EXCEPT ![id] = None]
    PROVE  Entries(r) /\ Alive(r) = Alive(s) \ {s.active[id]}
<1>1. /\ s.active \in [1 .. MaxTaskRun -> Thread \cup {None}]
      /\ s.tid \in [Thread -> 0 .. MaxTaskRun]
  BY DEF KernelRecord
<1>2. /\ r.active[id] = None
      /\ \A i \in 1 .. MaxTaskRun : i # id => r.active[i] = s.active[i]
  BY <1>1
<1>3. Entries(r)
  BY <1>2 DEF Entries
<1>4. ASSUME NEW x \in Thread PROVE x \in Alive(r) <=> x \in Alive(s) \ {s.active[id]}
  <2>1. s.tid[x] \in 0 .. MaxTaskRun /\ x # None
    BY <1>1, KernelAssumption DEF KernelAssumption
  <2>2. CASE s.tid[x] = 0
    BY <2>2 DEF Alive
  <2>3. CASE s.tid[x] = id
    BY <1>2, <2>1, <2>3 DEF Alive
  <2>4. CASE s.tid[x] # 0 /\ s.tid[x] # id
    <3>1. s.tid[x] \in 1 .. MaxTaskRun
      BY <2>1, <2>4, KernelAssumption DEF KernelAssumption
    <3>2. r.active[s.tid[x]] = s.active[s.tid[x]]
      BY <1>2, <2>4, <3>1
    <3>3. x = s.active[id] => s.tid[x] = id
      BY <2>1 DEF Entries
    <3> QED BY <2>4, <3>2, <3>3 DEF Alive
  <2> QED BY <2>2, <2>3, <2>4
<1> QED BY <1>3, <1>4 DEF Alive

LEMMA TerminateHomes ==
    ASSUME IInv, HInv, NEW h \in Thread, ThreadTerminate(h)
    PROVE  HInv'
<1> DEFINE id == k.tid[h]
           A == Alive(k) \ {k.active[id]}
           r == TskDelete(k, id)
<1>1. h \in Handle /\ SvcReturn(r) /\ UNCHANGED sigVars
  BY DEF ThreadTerminate
<1>2. mode = "svc" /\ mode' = "thread" /\ k' = r
  BY <1>1 DEF SvcReturn
<1>3. /\ KernelAssumption /\ Servable(k) /\ Sound(k) /\ Running(k)
      /\ k.run # Idle /\ k.run \in Thread
      /\ Entries(k) /\ Homed(k, Alive(k)) /\ Unwoken /\ Alive(k) \in SUBSET Thread
  BY <1>2, HSvcFinds
<1>4. id \in 1 .. MaxTaskRun /\ k.active[id] # Idle
  BY <1>1, HandleEntry
<1> HIDE DEF id
<1>5. A \in SUBSET Thread /\ Homed(k, A) /\ k.active[id] \notin A
  BY <1>3 DEF Homed
<1>6. id = k.tid[k.run] => k.run \notin A
  BY DEF Alive
<1>7. k.active[id] \in Thread => k.rlnk[k.active[id]] = None
  BY <1>3 DEF Servable
<1>8. /\ Homed(r, A) /\ Moves(k, r, {}) /\ r.tid = k.tid
      /\ r.active = [k.active EXCEPT ![id] = None]
  <2> HIDE DEF A
  <2> QED BY <1>3, <1>4, <1>5, <1>6, <1>7, TskDeleteMoves
<1> HIDE DEF r
<1>9. k \in KernelRecord
  BY <1>3 DEF Sound
<1>10. Entries(r) /\ Alive(r) = A
  BY <1>3, <1>4, <1>8, <1>9, EntryCleared
<1>11. Unwoken'
  BY <1>1, <1>2, <1>3, <1>8, StillUnwoken
<1>12. Entries(k') /\ Homed(k', Alive(k'))
  BY <1>2, <1>8, <1>10
<1> QED BY <1>2, <1>11, <1>12 DEF HInv, Entries, Unwoken, Alive, Active

LEMMA YieldHomes ==
    ASSUME IInv, HInv, ThreadYield
    PROVE  Homes
<1> DEFINE r == TskPass(k)
<1>1. SvcReturn(r) /\ UNCHANGED sigVars /\ mode = "svc"
  BY DEF ThreadYield, SvcReturn
<1>2. /\ KernelAssumption /\ Sound(k) /\ Running(k) /\ k.run # Idle
      /\ Homed(k, Alive(k)) /\ Alive(k) \in SUBSET Thread
  BY <1>1, HSvcFinds
<1>3. Homed(r, Alive(k)) /\ Moves(k, r, {})
  BY <1>2, TskPassMoves
<1>4. Frame(k, r)
  BY <1>2, TskPassSound
<1> HIDE DEF r
<1> QED BY <1>1, <1>3, <1>4, SvcHomes

LEMMA SetPriorityHomes ==
    ASSUME IInv, HInv, NEW h \in Thread, NEW p \in Prios, ThreadSetPriority(h, p)
    PROVE  Homes
<1> DEFINE id == k.tid[h]
           r == TskPrio(k, id, p)
<1>1. h \in Handle /\ SvcReturn(r) /\ UNCHANGED sigVars /\ mode = "svc"
  BY DEF ThreadSetPriority, SvcReturn
<1>2. /\ KernelAssumption /\ Servable(k) /\ Sound(k) /\ Running(k) /\ k.run # Idle
      /\ Entries(k) /\ Homed(k, Alive(k)) /\ Alive(k) \in SUBSET Thread
  BY <1>1, HSvcFinds
<1>3. id \in 1 .. MaxTaskRun
  BY <1>1, HandleEntry
<1> HIDE DEF id
<1>4. p \in 0 .. MaxPrio
  BY ThreadAssumption, KernelAssumption DEF ThreadAssumption, KernelAssumption
<1>5. k.active[id] \in Thread => k.rlnk[k.active[id]] = None
  BY <1>2 DEF Servable
<1>6. k.active[id] \in Thread => k.active[id] \in Alive(k)
  BY <1>2, <1>3, KernelAssumption DEF KernelAssumption, Entries, Alive
<1>7. Homed(r, Alive(k)) /\ Moves(k, r, {})
  BY <1>2, <1>3, <1>4, <1>5, <1>6, TskPrioMoves
<1>8. Frame(k, r)
  BY <1>2, <1>3, <1>4, <1>5, TskPrioSound
<1> HIDE DEF r
<1> QED BY <1>1, <1>7, <1>8, SvcHomes

(***************************************************************************)
(* rt_block, in whatever state: what is waited for is the caller's to see  *)
(* to, if he is put to wait at all.                                        *)
(***************************************************************************)
LEMMA BlockHomes ==
    ASSUME IInv, HInv, NEW n \in Timeouts, NEW b \in WaitState,
           SvcReturn(Block(k, n, b)), NEW t \in Thread, t = k.run,
           \A x \in Thread : x # t => events'[x] = events[x] /\ waits'[x] = waits[x],
           k'.state[t] = b => ~Wakes(t, {})'
    PROVE  Homes
<1> DEFINE r == Block(k, n, b)
<1>1. mode = "svc" /\ mode' = "thread" /\ k' = r
  BY DEF SvcReturn
<1>2. /\ KernelAssumption /\ Sound(k) /\ Running(k) /\ Due(k) /\ k.run # Idle
      /\ Homed(k, Alive(k)) /\ Alive(k) \in SUBSET Thread /\ Unwoken
  BY <1>1, HSvcFinds
<1>3. n \in 0 .. Forever
  BY ThreadAssumption DEF ThreadAssumption
<1>4. /\ Homed(r, Alive(k)) /\ Moves(k, r, {t})
      /\ n = 0 => r = k
      /\ n # 0 => r.state[t] = b
  <2>1. Homed(r, Alive(k)) /\ Moves(k, r, {k.run}) /\ Blocked(k, r, n, b)
    BY <1>2, <1>3, BlockMoves
  <2> HIDE DEF r
  <2> QED BY <2>1 DEF Blocked
<1>5. Frame(k, r)
  BY <1>2, <1>3, BlockSound
<1> HIDE DEF r
<1>6. ~Wakes(t, {})'
  <2>1. CASE n = 0
    <3>1. k'.state[t] = "RUNNING"
      BY <1>1, <1>2, <1>4, <2>1 DEF Running
    <3> QED BY <3>1 DEF Wakes
  <2>2. CASE n # 0
    BY <1>1, <1>4, <2>2
  <2> QED BY <2>1, <2>2
<1>7. Unwoken'
  BY <1>1, <1>2, <1>4, <1>6, OthersUnwoken
<1> QED BY <1>1, <1>4, <1>5, <1>7, TableKept DEF Frame

LEMMA DelayHomes ==
    ASSUME IInv, HInv, NEW n \in Timeouts, Delay(n)
    PROVE  Homes
<1>1. SvcReturn(Block(k, n, "WAIT_DLY")) /\ UNCHANGED sigVars
  BY DEF Delay
<1>2. "WAIT_DLY" \in WaitState
  BY DEF WaitState
<1>3. PICK t \in Thread : t = k.run
  BY <1>1, HSvcFinds DEF SvcReturn
<1>4. k'.state[t] = "WAIT_DLY" => ~Wakes(t, {})'
  BY DEF Wakes
<1> QED BY <1>1, <1>2, <1>3, <1>4, BlockHomes DEF sigVars

-----------------------------------------------------------------------------
(***************************************************************************)
(* Flags set for t: he has them now, or he goes on waiting for others.     *)
(***************************************************************************)
LEMMA SetFlagsSeen ==
    ASSUME SigTypeOK, NEW t \in Thread, NEW f \in SUBSET Flags, SetFlags(t, f), Unwoken,
           Wakes(t, f) => Moves(k, k', {t}) /\ k'.state[t] \notin WaitState,
           ~Wakes(t, f) => k' = k
    PROVE  Unwoken'
<1>1. \A x \in Thread : x # t => events'[x] = events[x] /\ waits'[x] = waits[x]
  BY DEF SetFlags, SigTypeOK
<1>2. Moves(k, k', {t})
  BY DEF Moves
<1>3. ~Wakes(t, {})'
  <2>1. CASE Wakes(t, f)
    <3>1. k'.state[t] \notin WaitState
      BY <2>1
    <3> QED BY <3>1 DEF Wakes, WaitState
  <2>2. CASE ~Wakes(t, f)
    <3>1. k' = k /\ waits' = waits /\ events'[t] = events[t] \cup f
      BY <2>2 DEF SetFlags, SigTypeOK
    <3> QED BY <2>2, <3>1 DEF Wakes
  <2> QED BY <2>1, <2>2
<1> QED BY <1>1, <1>2, <1>3, OthersUnwoken

LEMMA SignalSetHomes ==
    ASSUME IInv, HInv, NEW h \in Thread, NEW f \in SUBSET Flags, SignalSet(h, f)
    PROVE  Homes
<1> DEFINE t == k.active[k.tid[h]]
           u == RmvDly(k, t)
           r == Dispatch(u, t)
<1>1. h \in Handle /\ mode = "svc" /\ InThread
  BY DEF SignalSet, SvcReturn, InThread
<1>2. t \in Thread \cup {None}
  BY <1>1, HandleEntry
<1>3. /\ KernelAssumption /\ Servable(k) /\ Sound(k) /\ Running(k) /\ SigTypeOK
      /\ Homed(k, Alive(k)) /\ Alive(k) \in SUBSET Thread /\ Unwoken
  BY <1>1, HSvcFinds
<1>4. Frame(k, k) /\ Moves(k, k, {})
  BY DEF Frame, Moves
<1>5. CASE t = None
  <2>1. SvcReturn(k) /\ UNCHANGED sigVars
    BY <1>5 DEF SignalSet
  <2> QED BY <1>3, <1>4, <2>1, SvcHomes
<1>6. CASE t # None
  <2>1. SvcReturn(IF Wakes(t, f) THEN r ELSE k) /\ SetFlags(t, f)
    BY <1>6 DEF SignalSet
  <2> HIDE DEF t
  <2>2. t \in Thread
    BY <1>2, <1>6
  <2>3. k' = (IF Wakes(t, f) THEN r ELSE k) /\ mode' = "thread"
    BY <2>1 DEF SvcReturn
  <2>4. CASE ~Wakes(t, f)
    <3>1. k' = k
      BY <2>3, <2>4
    <3>2. Unwoken'
      BY <1>3, <2>1, <2>2, <2>4, <3>1, SetFlagsSeen
    <3> QED BY <1>3, <2>3, <3>1, <3>2, TableKept
  <2>5. CASE Wakes(t, f)
    <3>1. t \notin ToSet(k.rdy) /\ t # k.run
      BY <1>1, <2>2, <2>5, WokenApart
    <3>2. /\ Sound(u) /\ Frame(k, u) /\ u.run = k.run /\ u.prio = k.prio
          /\ u.state = k.state /\ u.rdy = k.rdy
          /\ ToSet(u.dly) = ToSet(k.dly) \ {t}
      BY <1>3, <2>2, RmvDlySound
    <3> HIDE DEF u
    <3>3. /\ u.state[u.run] = "RUNNING" /\ Idle \in ToSet(u.rdy) \cup {u.run, t}
          /\ \A x \in ToSet(u.rdy) : u.prio[u.run] >= u.prio[x]
      BY <1>3, <3>2 DEF Running
    <3>4. /\ t # u.run /\ t \notin ToSet(u.rdy) /\ t \notin ToSet(u.dly)
          /\ Homed(u, Alive(k) \ {t})
      BY <1>3, <3>1, <3>2 DEF Homed
    <3>5. Homed(r, Alive(k)) /\ Moves(u, r, {t}) /\ r.state[t] \notin WaitState
      BY <1>3, <2>2, <3>2, <3>3, <3>4, DispatchMoves
    <3>6. Frame(u, r)
      BY <1>3, <2>2, <3>2, <3>3, <3>4, DispatchSound
    <3> HIDE DEF r
    <3>7. k' = r /\ Moves(k, r, {t}) /\ Frame(k, r)
      BY <2>3, <2>5, <3>2, <3>5, <3>6 DEF Moves, Frame
    <3>8. Unwoken'
      BY <1>3, <2>1, <2>2, <2>5, <3>5, <3>7, SetFlagsSeen
    <3> QED BY <2>3, <3>5, <3>7, <3>8, TableKept DEF Frame
  <2> QED BY <2>4, <2>5
<1> QED BY <1>5, <1>6

LEMMA SignalClearHomes ==
    ASSUME IInv, HInv, NEW h \in Thread, NEW f \in SUBSET Flags, SignalClear(h, f)
    PROVE  Homes
<1> DEFINE t == k.active[k.tid[h]]
<1>1. /\ SvcReturn(k) /\ h \in Handle /\ UNCHANGED waits
      /\ events' = IF t = None THEN events ELSE [events EXCEPT ![t] = @ \ f]
  BY DEF SignalClear
<1>2. mode = "svc" /\ k' = k /\ mode' = "thread"
  BY <1>1 DEF SvcReturn
<1>3. SigTypeOK /\ Homed(k, Alive(k)) /\ Unwoken
  BY <1>2, HSvcFinds
<1>4. t \in Thread \cup {None}
  BY <1>1, HandleEntry
<1> HIDE DEF t
<1>5. \A x \in Thread : events'[x] \subseteq events[x]
  BY <1>1, <1>3, <1>4 DEF SigTypeOK
<1>6. Unwoken'
  BY <1>1, <1>2, <1>3, <1>5 DEF Unwoken, Wakes
<1> QED BY <1>2, <1>3, <1>6, TableKept

LEMMA SignalWaitHomes ==
    ASSUME IInv, HInv, NEW f \in SUBSET Flags, NEW n \in Timeouts, SignalWait(f, n)
    PROVE  Homes
<1> DEFINE wanted == IF f # {} THEN f ELSE Flags
           b == IF f # {} THEN "WAIT_AND" ELSE "WAIT_OR"
<1>1. mode = "svc"
  BY DEF SignalWait, SvcReturn
<1>2. SigTypeOK /\ k.run \in Thread /\ Homed(k, Alive(k)) /\ Unwoken /\ Running(k)
  BY <1>1, HSvcFinds
<1>3. PICK t \in Thread : t = k.run
  BY <1>2
<1>4. CASE FlagsThere(t, f)
  <2>1. /\ SvcReturn(k)
        /\ events' = [events EXCEPT ![t] = @ \ wanted]
        /\ waits' = [waits EXCEPT ![t] = IF f # {} THEN @ ELSE events[t]]
    BY <1>4, <1>3 DEF SignalWait
  <2>2. k' = k /\ mode' = "thread"
    BY <2>1 DEF SvcReturn
  <2>3. k'.state[t] = "RUNNING" /\ Moves(k, k', {t})
    BY <1>2, <1>3, <2>2 DEF Running, Moves
  <2>4. \A x \in Thread : x # t => events'[x] = events[x] /\ waits'[x] = waits[x]
    BY <1>2, <2>1 DEF SigTypeOK
  <2>5. ~Wakes(t, {})'
    BY <2>3 DEF Wakes
  <2>6. Unwoken'
    BY <1>2, <2>3, <2>4, <2>5, OthersUnwoken
  <2> QED BY <1>2, <2>2, <2>6, TableKept
<1>5. CASE ~FlagsThere(t, f)
  <2>1. /\ SvcReturn(Block(k, n, b))
        /\ waits' = [waits EXCEPT ![t] = wanted]
        /\ UNCHANGED events
    BY <1>5, <1>3 DEF SignalWait
  <2>2. b \in WaitState
    BY DEF WaitState
  <2>3. \A x \in Thread : x # t => events'[x] = events[x] /\ waits'[x] = waits[x]
    BY <1>2, <2>1 DEF SigTypeOK
  <2>4. waits'[t] = wanted /\ events'[t] = events[t]
    BY <1>2, <2>1 DEF SigTypeOK
  <2>5. k'.state[t] = b => ~Wakes(t, {})'
    <3>1. CASE f # {}
      BY <1>5, <2>4, <3>1 DEF Wakes, FlagsThere
    <3>2. CASE f = {}
      BY <1>5, <2>4, <3>2 DEF Wakes, FlagsThere
    <3> QED BY <3>1, <3>2
  <2> HIDE DEF b
  <2> QED BY <1>3, <2>1, <2>2, <2>3, <2>5, BlockHomes
<1> QED BY <1>4, <1>5

-----------------------------------------------------------------------------
\* A handler has put the running thread in front of the ready list.
LEMMA EnterHomes ==
    ASSUME IInv, HInv, mode = "thread"
    PROVE  LET r == PutRdyFirst(k, k.run) IN
           /\ Sound(r) /\ Frame(k, r) /\ Homed(r, Alive(k)) /\ Moves(k, r, {})
           /\ r.run = k.run /\ k.run \in ToSet(r.rdy) /\ r.rdy # <<>>
<1> DEFINE r == PutRdyFirst(k, k.run)
<1>1. Sound(k) /\ Running(k) /\ Homed(k, Alive(k))
  BY HInvParts DEF IInv, InThread
<1>2. /\ k.run \in Thread /\ k.run \notin ToSet(k.rdy) /\ k.run \notin ToSet(k.dly)
      /\ k.state \in [Thread -> State] /\ k.state[k.run] = "RUNNING"
  BY <1>1, KernelAssumption, RunningApart, SoundFields DEF Running
<1>3. \A x \in ToSet(k.rdy) : k.prio[k.run] >= k.prio[x]
  BY <1>1 DEF Running
<1>4. /\ Sound(r) /\ Frame(k, r) /\ r.run = k.run /\ r.rdy # <<>>
      /\ ToSet(r.rdy) = ToSet(k.rdy) \cup {k.run}
      /\ r.state = [k.state EXCEPT ![k.run] = "READY"]
  BY <1>1, <1>2, <1>3, KernelAssumption, PutRdyFirstSound
<1> HIDE DEF r
<1>5. r.state[k.run] = "READY" /\ \A x \in Thread : x # k.run => r.state[x] = k.state[x]
  BY <1>2, <1>4
<1>6. Homed(r, Alive(k))
  BY <1>1, <1>4, <1>5 DEF Homed, Alive
<1>7. Moves(k, r, {})
  BY <1>2, <1>4, <1>5 DEF Moves, WaitState
<1> QED BY <1>4, <1>6, <1>7 DEF r

\* A handler's step moves nobody but those who can run.
LEMMA HandlerHomes ==
    ASSUME HInv, UNCHANGED sigVars, Frame(k, k'), Homed(k', Alive(k)), Moves(k, k', {}),
           mode' \in {"tick", "pop"} => k'.run \in ToSet(k'.rdy)
    PROVE  Homes
<1>1. Unwoken'
  BY HInvParts, StillUnwoken
<1> QED BY <1>1, TableKept DEF Frame

LEMMA TickEnterHomes ==
    ASSUME IInv, HInv, TickEnter, UNCHANGED sigVars
    PROVE  Homes
<1> DEFINE s == PutRdyFirst(k, k.run)
           v == IF RobinExpired(s) THEN RobinSwap(s) ELSE s
           w == DecDly(v)
<1>1. mode = "thread" /\ k' = w
  BY DEF TickEnter
<1>2. /\ Sound(s) /\ Frame(k, s) /\ Homed(s, Alive(k)) /\ Moves(k, s, {})
      /\ s.run = k.run /\ k.run \in ToSet(s.rdy) /\ s.rdy # <<>>
  BY <1>1, EnterHomes
<1> HIDE DEF s
<1>3. /\ ToSet(v.rdy) = ToSet(s.rdy) /\ v.run = s.run /\ v.state = s.state
      /\ Frame(s, v) /\ v \in KernelRecord
  <2>1. CASE RobinExpired(s)
    <3>1. /\ Sound(RobinSwap(s)) /\ Frame(s, RobinSwap(s))
          /\ ToSet(RobinSwap(s).rdy) = ToSet(s.rdy) /\ RobinSwap(s).run = s.run
      BY <1>2, KernelAssumption, RobinSwapSound
    <3>2. RobinSwap(s).state = s.state
      BY <1>2 DEF RobinSwap, Sound, KernelRecord
    <3> QED BY <2>1, <3>1, <3>2 DEF Sound
  <2>2. CASE ~RobinExpired(s)
    BY <1>2, <2>2 DEF Frame, Sound
  <2> QED BY <2>1, <2>2
<1> HIDE DEF v
<1>4. w.rdy = v.rdy /\ w.run = v.run /\ w.state = v.state /\ Frame(v, w)
  BY <1>3 DEF DecDly, KernelRecord, Frame
<1> HIDE DEF w
<1>5. Homed(k', Alive(k)) /\ Moves(k, k', {}) /\ Frame(k, k') /\ k'.run \in ToSet(k'.rdy)
  BY <1>1, <1>2, <1>3, <1>4 DEF Homed, Moves, Frame
<1> QED BY <1>5, HandlerHomes

LEMMA TickTimeoutHomes ==
    ASSUME IInv, HInv, TickTimeout, UNCHANGED sigVars
    PROVE  Homes
<1> DEFINE t == Head(k.dly)
           u == [k EXCEPT !.dly = Tail(@)]
           r == PutRdy(u, t)
<1>1. /\ mode = "tick" /\ k.dly # <<>> /\ k \in KernelRecord /\ Sound(k)
      /\ Homed(k, Alive(k)) /\ k.run \in ToSet(k.rdy) /\ Unwoken
  BY HInvParts DEF TickTimeout, TimeoutDue, IInv, Sound
<1>2. /\ Sound(u) /\ Frame(k, u) /\ u.rdy = k.rdy
      /\ t \in ToSet(k.dly) /\ t \in Thread
      /\ ToSet(u.dly) = ToSet(k.dly) \ {t}
  BY <1>1, KernelAssumption, TakeDelaySound
<1>3. t \notin ToSet(k.rdy)
  BY <1>1, <1>2, KernelAssumption, SoundFields
<1>4. k' = r
  <2>1. k.rlnk[t] = None
    BY <1>2 DEF IInv
  <2>2. k' = [PutRdy(k, t) EXCEPT !.dly = Tail(@)]
    BY <2>1 DEF TickTimeout
  <2> QED BY <1>1, <2>2 DEF PutRdy, KernelRecord
<1>5. u.state = k.state /\ u.run = k.run
  BY <1>1 DEF KernelRecord
<1> HIDE DEF u, t
<1>6. /\ Frame(u, r) /\ ToSet(r.rdy) = ToSet(u.rdy) \cup {t} /\ r.run = u.run
      /\ r.state = [u.state EXCEPT ![t] = "READY"]
  BY <1>2, <1>3, KernelAssumption, PutRdySound
<1>7. Homed(r, Alive(k)) /\ Moves(u, r, {t})
  <2>1. Homed(u, Alive(k) \ {t}) /\ Alive(k) \in SUBSET Thread
    BY <1>1, <1>2, <1>5 DEF Homed, Alive
  <2> QED BY <1>2, <1>3, <2>1, KernelAssumption, PutRdyMoves
<1> HIDE DEF r
<1>8. r.state[t] = "READY"
  BY <1>1, <1>2, <1>5, <1>6, KernelAssumption, SoundFields
<1>9. Moves(k, k', {t}) /\ Frame(k, k') /\ k'.run \in ToSet(k'.rdy)
  BY <1>1, <1>2, <1>4, <1>5, <1>6, <1>7 DEF Moves, Frame
<1>10. Unwoken'
  <2>1. PICK x \in Thread : x = t
    BY <1>2
  <2>2. Moves(k, k', {x}) /\ ~Wakes(x, {})'
    BY <1>4, <1>8, <1>9, <2>1 DEF Wakes
  <2> QED BY <1>1, <2>2, OthersUnwoken DEF sigVars
<1> QED BY <1>4, <1>7, <1>9, <1>10, TableKept DEF Frame

LEMMA ExitHomes ==
    ASSUME IInv, HInv, mode \in {"tick", "pop"}, k' = SwitchToFirst(k), mode' = "thread",
           UNCHANGED sigVars
    PROVE  Homes
<1>1. /\ Sound(k) /\ Idle \in ToSet(k.rdy) /\ Homed(k, Alive(k))
      /\ k.run \in ToSet(k.rdy) /\ Alive(k) \in SUBSET Thread
  BY HInvParts DEF IInv, Alive
<1>2. k.state[k.run] # "RUNNING"
  BY <1>1 DEF Sound
<1>3. Homed(k', Alive(k)) /\ Moves(k, k', {})
  BY <1>1, <1>2, KernelAssumption, SwitchMoves
<1>4. Frame(k, k')
  BY <1>1, KernelAssumption, SwitchSound
<1> QED BY <1>3, <1>4, HandlerHomes

LEMMA PopEnterHomes ==
    ASSUME IInv, HInv, PopEnter, UNCHANGED sigVars
    PROVE  Homes
<1> DEFINE r == PutRdyFirst(k, k.run)
<1>1. mode = "thread" /\ k' = r
  BY DEF PopEnter
<1>2. /\ Frame(k, r) /\ Homed(r, Alive(k)) /\ Moves(k, r, {})
      /\ r.run = k.run /\ k.run \in ToSet(r.rdy)
  BY <1>1, EnterHomes
<1> HIDE DEF r
<1> QED BY <1>1, <1>2, HandlerHomes

LEMMA PopSignalHomes ==
    ASSUME IInv, HInv, PopSignal
    PROVE  Homes
<1> DEFINE t == Head(psq).id
           f == Head(psq).arg
           u == RmvDly(k, t)
           r == PutRdy(u, t)
           Request == [id : Thread, arg : SUBSET Flags]
<1>1. /\ mode = "pop" /\ mode' = "pop" /\ psq # <<>>
      /\ k' = IF Wakes(t, f) THEN r ELSE k
      /\ SetFlags(t, f)
  BY DEF PopSignal, PopRequest
<1>2. /\ psq \in Seq(Request) /\ Sound(k) /\ SigTypeOK
      /\ Homed(k, Alive(k)) /\ Unwoken /\ k.run \in ToSet(k.rdy)
  BY <1>1, HInvParts DEF IInv, TypeOK, SigTypeOK
<1>3. Head(psq) \in Request
  <2> HIDE DEF Request
  <2> QED BY <1>1, <1>2
<1>4. PICK x \in Thread, g \in SUBSET Flags : x = t /\ g = f
  BY <1>3
<1>5. SetFlags(x, g) /\ k' = (IF Wakes(x, g) THEN PutRdy(RmvDly(k, x), x) ELSE k)
  BY <1>1, <1>4
<1> HIDE DEF t, f, u, r
<1>6. CASE ~Wakes(x, g)
  <2>1. k' = k
    BY <1>5, <1>6
  <2>2. Unwoken'
    BY <1>2, <1>5, <1>6, <2>1, SetFlagsSeen
  <2> QED BY <1>2, <2>1, <2>2, TableKept
<1>7. CASE Wakes(x, g)
  <2> DEFINE v == RmvDly(k, x)
             w == PutRdy(v, x)
  <2>1. x \notin ToSet(k.rdy)
    BY <1>7, WokenApart
  <2>2. /\ Sound(v) /\ Frame(k, v) /\ v.rdy = k.rdy /\ v.run = k.run /\ v.state = k.state
        /\ ToSet(v.dly) = ToSet(k.dly) \ {x}
    BY <1>2, KernelAssumption, RmvDlySound
  <2> HIDE DEF v
  <2>3. /\ x \notin ToSet(v.rdy) /\ x \notin ToSet(v.dly)
        /\ Homed(v, Alive(k) \ {x}) /\ Alive(k) \in SUBSET Thread
    BY <1>2, <2>1, <2>2 DEF Homed, Alive
  <2>4. /\ Frame(v, w) /\ ToSet(w.rdy) = ToSet(v.rdy) \cup {x} /\ w.run = v.run
        /\ w.state = [v.state EXCEPT ![x] = "READY"]
    BY <2>2, <2>3, KernelAssumption, PutRdySound
  <2>5. Homed(w, Alive(k)) /\ Moves(v, w, {x})
    BY <2>2, <2>3, KernelAssumption, PutRdyMoves
  <2>6. k' = w
    BY <1>5, <1>7 DEF v
  <2> HIDE DEF w
  <2>7. /\ Frame(k, k') /\ Moves(k, k', {x}) /\ k'.run \in ToSet(k'.rdy)
        /\ k'.state[x] \notin WaitState
    <3>1. w.state[x] = "READY"
      BY <2>2, <2>4, KernelAssumption, SoundFields
    <3> QED BY <1>2, <2>2, <2>4, <2>5, <2>6, <3>1 DEF Frame, Moves, WaitState
  <2>8. Unwoken'
    BY <1>2, <1>5, <1>7, <2>7, SetFlagsSeen
  <2> QED BY <2>5, <2>6, <2>7, <2>8, TableKept DEF Frame
<1> QED BY <1>6, <1>7

(***************************************************************************)
(* Only the creation and the termination of a thread touch the table.      *)
(***************************************************************************)
LEMMA NextHomes ==
    ASSUME IInv, HInv, [Next]_vars
    PROVE  \/ Homes
           \/ HInv' /\ \E t \in Thread : ThreadCreate(t)
           \/ HInv' /\ \E t \in Thread : ThreadTerminate(t)
<1>1. ASSUME k' = k, UNCHANGED sigVars, mode' \in {"tick", "pop"} => mode' = mode
      PROVE  Homes
  <2>1. Frame(k, k') /\ Moves(k, k', {}) /\ Homed(k', Alive(k))
    BY <1>1, HInvParts DEF Frame, Moves
  <2>2. mode' \in {"tick", "pop"} => k'.run \in ToSet(k'.rdy)
    BY <1>1, HInvParts
  <2> QED BY <1>1, <2>1, <2>2, HandlerHomes
<1>2. CASE UNCHANGED vars
  BY <1>1, <1>2 DEF vars, kernelVars
<1>3. CASE Svc
  <2>1. ASSUME NEW t \in Thread, ThreadCreate(t) PROVE HInv'
    BY <2>1, CreateHomes
  <2>2. ASSUME NEW t \in Thread, ThreadTerminate(t) PROVE HInv'
    BY <2>2, TerminateHomes
  <2>3. CASE ThreadYield
    BY <2>3, YieldHomes
  <2>4. ASSUME NEW t \in Thread, NEW p \in Prios, ThreadSetPriority(t, p) PROVE Homes
    BY <2>4, SetPriorityHomes
  <2>5. ASSUME NEW n \in Timeouts, Delay(n) PROVE Homes
    BY <2>5, DelayHomes
  <2>6. ASSUME NEW t \in Thread, NEW f \in SUBSET Flags, SignalSet(t, f) PROVE Homes
    BY <2>6, SignalSetHomes
  <2>7. ASSUME NEW t \in Thread, NEW f \in SUBSET Flags, SignalClear(t, f) PROVE Homes
    BY <2>7, SignalClearHomes
  <2>8. ASSUME NEW f \in SUBSET Flags, NEW n \in Timeouts, SignalWait(f, n) PROVE Homes
    BY <2>8, SignalWaitHomes
  <2> QED BY <1>3, <2>1, <2>2, <2>3, <2>4, <2>5, <2>6, <2>7, <2>8 DEF Svc
<1>4. CASE Handler
  <2>1. CASE SvcEnter
    BY <1>1, <1>4, <2>1 DEF Handler, SvcEnter
  <2>2. CASE TickEnter
    BY <1>4, <2>2, TickEnterHomes DEF Handler
  <2>3. CASE TickTimeout
    BY <1>4, <2>3, TickTimeoutHomes DEF Handler
  <2>4. CASE TickExit
    BY <1>4, <2>4, ExitHomes DEF Handler, TickExit
  <2>5. CASE PopEnter
    BY <1>4, <2>5, PopEnterHomes DEF Handler
  <2>6. CASE PopExit
    BY <1>4, <2>6, ExitHomes DEF Handler, PopExit
  <2>7. CASE Die
    BY <1>1, <1>4, <2>7 DEF Handler, Die, kernelVars
  <2> QED BY <1>4, <2>1, <2>2, <2>3, <2>4, <2>5, <2>6, <2>7 DEF Handler
<1>5. CASE PopSignal
  BY <1>5, PopSignalHomes
<1>6. CASE Isr
  <2>1. PICK h \in Thread, f \in IsrSignals : IsrSignalSet(h, f)
    BY <1>6 DEF Isr
  <2>2. k' = k /\ UNCHANGED sigVars /\ (mode' \in {"tick", "pop"} => mode' = mode)
    BY <2>1 DEF IsrSignalSet, PsqEnq
  <2> QED BY <1>1, <2>2
<1> QED BY <1>2, <1>3, <1>4, <1>5, <1>6 DEF Next

(***************************************************************************)
(* The second invariant: every active thread, and no other, is where its   *)
(* state says, nobody has two entries of os_active_TCB, and nobody waits   *)
(* for flags that are set.                                                 *)
(***************************************************************************)
THEOREM Homing == Spec => []HInv
<1>1. Init => HInv
  BY InitHInv
<1>2. IInv /\ HInv /\ [Next]_vars => HInv'
  BY NextHomes DEF Homes
<1> QED BY Invariance, <1>1, <1>2, PTL DEF Spec

(***************************************************************************)
(* The lists tell where every active thread is, and agree with its state.  *)
(***************************************************************************)
THEOREM PlacementCorrect == Spec => []Placement
<1>1. IInv /\ HInv => Placement
  <2> SUFFICES ASSUME IInv, HInv, ~Halted PROVE Placement
    BY DEF Placement
  <2>1. Sound(k) /\ mode \in Mode /\ (InThread => Running(k))
    BY DEF IInv, TypeOK, KernelTypeOK
  <2>2. /\ mode \in {"tick", "pop"} => k.run \in ToSet(k.rdy)
        /\ Homed(k, {t \in Thread : Active(t)})
    BY DEF HInv
  <2>3. ASSUME NEW t \in Thread, Active(t)
        PROVE  /\ k.state[t] = "READY" => t \in ToSet(k.rdy)
               /\ k.state[t] = "RUNNING" <=> t = k.run /\ InThread
               /\ k.state[t] # "INACTIVE"
    <3>1. /\ k.state[t] = "READY" => t \in ToSet(k.rdy)
          /\ k.state[t] = "RUNNING" => t = k.run
          /\ k.state[t] # "INACTIVE"
      BY <2>2, <2>3 DEF Homed
    <3>2. InThread => k.state[k.run] = "RUNNING"
      BY <2>1 DEF Running
    <3>3. ~InThread => k.state[k.run] = "READY"
      BY <2>1, <2>2 DEF Mode, Halted, InThread, Sound
    <3> QED BY <3>1, <3>2, <3>3
  <2> QED BY <2>1, <2>3 DEF Placement, Sound
<1> QED BY Invariance, Homing, <1>1, PTL

(***************************************************************************)
(* No wake-up is lost, however the waiting, the setting of the flags, the  *)
(* requests of the interrupts and the timeouts race.                       *)
(***************************************************************************)
THEOREM SignalsCorrect == Spec => []NoMissedSignal
<1>1. HInv => NoMissedSignal
  BY DEF HInv, NoMissedSignal
<1> QED BY Homing, <1>1, PTL

(***************************************************************************)
(* Where no handle outlives its thread, what is done to one thread never   *)
(* ends another: a thread outside Killable leaves the table only by its    *)
(* own call.                                                               *)
(***************************************************************************)
THEOREM EndsCorrect ==
    ASSUME StaleHandles = FALSE
    PROVE  Spec => EndsOnlyByItself
<1> DEFINE Own == \A t \in Thread \ Killable : Active(t) /\ ~Active(t)' => t = k.run
<1>1. ASSUME IInv, HInv, [Next]_vars PROVE Own
  <2> SUFFICES ASSUME NEW t \in Thread \ Killable, Active(t), ~Active(t)'
               PROVE  t = k.run
    OBVIOUS
  <2>1. CASE Homes
    BY <2>1 DEF Homes, Active
  <2>2. ASSUME NEW h \in Thread, ThreadTerminate(h) PROVE t = k.run
    <3> DEFINE id == k.tid[h]
               r == TskDelete(k, id)
               A == Alive(k) \ {k.active[id]}
    <3>1. h \in Handle /\ h \in Killable \cup {k.run} /\ k' = r /\ mode = "svc"
      BY <2>2 DEF ThreadTerminate, SvcReturn
    <3>2. k.active[id] = h
      BY <3>1 DEF Handle, Active
    <3>3. /\ KernelAssumption /\ Servable(k) /\ Sound(k) /\ Running(k) /\ k.run # Idle
          /\ Entries(k) /\ Homed(k, Alive(k)) /\ Alive(k) \in SUBSET Thread
      BY <1>1, <3>1, HSvcFinds
    <3>4. id \in 1 .. MaxTaskRun /\ k.active[id] # Idle
      BY <1>1, <3>1, HandleEntry
    <3> HIDE DEF id
    <3>5. /\ A \in SUBSET Thread /\ Homed(k, A) /\ k.active[id] \notin A
          /\ id = k.tid[k.run] => k.run \notin A
          /\ k.active[id] \in Thread => k.rlnk[k.active[id]] = None
      BY <3>3 DEF Homed, Alive, Servable
    <3> HIDE DEF A
    <3>6. r.tid = k.tid /\ r.active = [k.active EXCEPT ![id] = None]
      BY <3>3, <3>4, <3>5, TskDeleteMoves
    <3> HIDE DEF r
    <3>7. Alive(r) = Alive(k) \ {k.active[id]}
      BY <3>3, <3>4, <3>6, EntryCleared DEF Sound
    <3>8. t \in Alive(k) /\ t \notin Alive(r)
      BY <3>1 DEF Alive, Active
    <3> QED BY <3>1, <3>2, <3>7, <3>8
  <2>3. ASSUME NEW x \in Thread, ThreadCreate(x) PROVE t = k.run
    <3>1. Alive(k) \subseteq Alive(k')
      BY <1>1, <2>3, CreateHomes
    <3> QED BY <3>1 DEF Alive, Active
  <2> QED BY <1>1, <2>1, <2>2, <2>3, NextHomes
<1>2. IInv /\ HInv /\ [Next]_vars => [Own]_vars
  BY <1>1
<1> QED BY Invariance, Homing, <1>2, PTL DEF Spec, EndsOnlyByItself
=============================================================================
