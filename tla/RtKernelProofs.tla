--------------------------- MODULE RtKernelProofs ---------------------------
(***************************************************************************)
(* What the operations of the scheduler keep, for every record they are    *)
(* applied to: lemmas for the invariants of the modules built over it.     *)
(***************************************************************************)
EXTENDS RtKernel, RtListProofs

\* The fields that the moves between the lists leave alone.
Frame(s, r) ==
    /\ r.rlnk = s.rlnk /\ r.active = s.active
    /\ r.tid = s.tid /\ r.wait = s.wait

\* The delay list is left alone as well.
SameDelay(s, r) == r.dly = s.dly /\ r.rem = s.rem

LEMMA MembersOf ==
    ASSUME NEW T, NEW q \in Seq(T)
    PROVE  ToSet(q) \subseteq T
  BY DEF ToSet

\* What the operations are allowed to assume of the fields of a sound record.
LEMMA SoundFields ==
    ASSUME KernelAssumption, NEW s, Sound(s)
    PROVE  /\ s \in KernelRecord
           /\ s.run \in Thread
           /\ s.rdy \in Seq(Thread) /\ s.dly \in Seq(Thread)
           /\ s.state \in [Thread -> State]
           /\ s.prio \in [Thread -> 0 .. MaxPrio] /\ s.prio \in [Thread -> Nat]
           /\ s.rem \in [Thread -> 0 .. Forever] /\ s.rem \in [Thread -> Nat]
           /\ s.rlnk \in [Thread -> Obj \cup {None}]
           /\ s.tid \in [Thread -> 0 .. MaxTaskRun]
           /\ s.active \in [1 .. MaxTaskRun -> Thread \cup {None}]
           /\ ToSet(s.rdy) \subseteq Thread /\ ToSet(s.dly) \subseteq Thread
           /\ \A t \in ToSet(s.rdy) : t \notin ToSet(s.dly)
<1>1. s \in KernelRecord
  BY DEF Sound
<1>2. /\ s.run \in Thread
      /\ s.rdy \in Seq(Thread) /\ s.dly \in Seq(Thread)
      /\ s.state \in [Thread -> State]
      /\ s.prio \in [Thread -> 0 .. MaxPrio]
      /\ s.rem \in [Thread -> 0 .. Forever]
      /\ s.rlnk \in [Thread -> Obj \cup {None}]
      /\ s.tid \in [Thread -> 0 .. MaxTaskRun]
      /\ s.active \in [1 .. MaxTaskRun -> Thread \cup {None}]
  BY <1>1 DEF KernelRecord
<1>3. s.prio \in [Thread -> Nat] /\ s.rem \in [Thread -> Nat]
  BY <1>2, KernelAssumption DEF KernelAssumption
<1>4. ToSet(s.rdy) \subseteq Thread /\ ToSet(s.dly) \subseteq Thread
  BY <1>2, MembersOf
<1>5. \A t \in ToSet(s.rdy) : t \notin ToSet(s.dly)
  BY DEF Sound, WaitState
<1> QED BY <1>1, <1>2, <1>3, <1>4, <1>5

\* rt_put_prio on the ready list.
LEMMA PutRdySound ==
    ASSUME KernelAssumption, NEW s, Sound(s), NEW t \in Thread,
           t \notin ToSet(s.rdy), t \notin ToSet(s.dly)
    PROVE  /\ Sound(PutRdy(s, t))
           /\ Frame(s, PutRdy(s, t)) /\ SameDelay(s, PutRdy(s, t))
           /\ PutRdy(s, t).run = s.run /\ PutRdy(s, t).prio = s.prio
           /\ ToSet(PutRdy(s, t).rdy) = ToSet(s.rdy) \cup {t}
           /\ PutRdy(s, t).state = [s.state EXCEPT ![t] = "READY"]
<1> DEFINE q == PutPrio(s.rdy, t, s.prio)
           f == [s.state EXCEPT ![t] = "READY"]
           r == [s EXCEPT !.rdy = q, !.state = f]
<1>1. /\ s.rdy \in Seq(Thread) /\ s.prio \in [Thread -> Nat]
      /\ s.state \in [Thread -> State] /\ s \in KernelRecord
  BY SoundFields
<1>2. /\ q \in Seq(Thread) /\ ToSet(q) = ToSet(s.rdy) \cup {t}
      /\ Ordered(q, s.prio) /\ Distinct(q)
  BY <1>1, PutPrioCorrect, SMTT(30) DEF Sound
<1> HIDE DEF q
<1>3. f \in [Thread -> State]
  BY <1>1 DEF State
<1>4. PutRdy(s, t) = r
  BY <1>1 DEF PutRdy, q, KernelRecord
<1>5. /\ r \in KernelRecord /\ r.rdy = q /\ r.state = f /\ r.run = s.run
      /\ r.prio = s.prio /\ Frame(s, r) /\ SameDelay(s, r)
  BY <1>1, <1>2, <1>3 DEF KernelRecord, Frame, SameDelay
<1>6. Sound(r)
  BY <1>1, <1>2, <1>5 DEF Sound, SameDelay
<1> QED BY <1>2, <1>4, <1>5, <1>6

\* rt_put_rdy_first.
LEMMA PutRdyFirstSound ==
    ASSUME KernelAssumption, NEW s, Sound(s), NEW t \in Thread,
           t \notin ToSet(s.rdy), t \notin ToSet(s.dly),
           \A x \in ToSet(s.rdy) : s.prio[t] >= s.prio[x]
    PROVE  /\ Sound(PutRdyFirst(s, t))
           /\ Frame(s, PutRdyFirst(s, t)) /\ SameDelay(s, PutRdyFirst(s, t))
           /\ PutRdyFirst(s, t).run = s.run /\ PutRdyFirst(s, t).prio = s.prio
           /\ ToSet(PutRdyFirst(s, t).rdy) = ToSet(s.rdy) \cup {t}
           /\ PutRdyFirst(s, t).rdy # <<>> /\ Head(PutRdyFirst(s, t).rdy) = t
           /\ PutRdyFirst(s, t).state = [s.state EXCEPT ![t] = "READY"]
<1> DEFINE q == Cons(t, s.rdy)
           f == [s.state EXCEPT ![t] = "READY"]
           r == [s EXCEPT !.rdy = q, !.state = f]
<1>1. /\ s.rdy \in Seq(Thread) /\ s.prio \in [Thread -> Nat]
      /\ s.state \in [Thread -> State] /\ s \in KernelRecord
  BY SoundFields
<1>2. /\ q \in Seq(Thread) /\ ToSet(q) = ToSet(s.rdy) \cup {t}
      /\ q # <<>> /\ Head(q) = t
      /\ Ordered(q, s.prio) /\ Distinct(q)
  BY <1>1, PutFirstCorrect DEF Sound
<1> HIDE DEF q
<1>3. f \in [Thread -> State]
  BY <1>1 DEF State
<1>4. PutRdyFirst(s, t) = r
  BY <1>1 DEF PutRdyFirst, q, KernelRecord
<1>5. /\ r \in KernelRecord /\ r.rdy = q /\ r.state = f /\ r.run = s.run
      /\ r.prio = s.prio /\ Frame(s, r) /\ SameDelay(s, r)
  BY <1>1, <1>2, <1>3 DEF KernelRecord, Frame, SameDelay
<1>6. Sound(r)
  BY <1>1, <1>2, <1>5 DEF Sound, SameDelay
<1> QED BY <1>2, <1>4, <1>5, <1>6

\* rt_get_first on the ready list.
LEMMA TakeReadySound ==
    ASSUME KernelAssumption, NEW s, Sound(s), s.rdy # <<>>,
           NEW r, r = [s EXCEPT !.rdy = Tail(@)]
    PROVE  /\ Sound(r) /\ Frame(s, r) /\ SameDelay(s, r)
           /\ r.run = s.run /\ r.prio = s.prio /\ r.state = s.state
           /\ Head(s.rdy) \in ToSet(s.rdy) /\ Head(s.rdy) \in Thread
           /\ ToSet(r.rdy) = ToSet(s.rdy) \ {Head(s.rdy)}
           /\ \A x \in ToSet(s.rdy) : s.prio[Head(s.rdy)] >= s.prio[x]
<1> DEFINE q == Tail(s.rdy)
           h == Head(s.rdy)
<1>1. /\ s.rdy \in Seq(Thread) /\ s.prio \in [Thread -> Nat]
      /\ s \in KernelRecord
  BY SoundFields
<1>2. /\ h \in Thread /\ h \in ToSet(s.rdy)
      /\ q \in Seq(Thread) /\ ToSet(q) = ToSet(s.rdy) \ {h} /\ Distinct(q)
      /\ Ordered(q, s.prio)
      /\ \A x \in ToSet(s.rdy) : s.prio[h] >= s.prio[x]
  <2>1. Distinct(s.rdy) /\ Ordered(s.rdy, s.prio)
    BY DEF Sound
  <2> QED BY <1>1, <2>1, TakeFirstCorrect
<1> HIDE DEF q, h
<1>3. r = [s EXCEPT !.rdy = q]
  BY DEF q
<1>4. /\ r \in KernelRecord /\ r.rdy = q /\ r.state = s.state /\ r.run = s.run
      /\ r.prio = s.prio /\ Frame(s, r) /\ SameDelay(s, r)
  BY <1>1, <1>2, <1>3 DEF KernelRecord, Frame, SameDelay
<1>5. Sound(r)
  BY <1>2, <1>4 DEF Sound, SameDelay
<1> QED BY <1>2, <1>4, <1>5 DEF h

(***************************************************************************)
(* rt_switch_req: the processor goes to a thread that is in no list and    *)
(* that no ready thread is above.                                          *)
(***************************************************************************)
LEMMA GiveProcessorSound ==
    ASSUME KernelAssumption, NEW s, Sound(s), NEW t \in Thread,
           t \notin ToSet(s.rdy), t \notin ToSet(s.dly),
           \A x \in ToSet(s.rdy) : s.prio[t] >= s.prio[x],
           Idle \in ToSet(s.rdy) \cup {t},
           NEW r, r = [s EXCEPT !.run = t, !.state[t] = "RUNNING"]
    PROVE  /\ Sound(r) /\ Running(r) /\ Frame(s, r) /\ SameDelay(s, r)
           /\ r.prio = s.prio
<1> DEFINE f == [s.state EXCEPT ![t] = "RUNNING"]
<1>1. s.state \in [Thread -> State] /\ s \in KernelRecord
      /\ ToSet(s.rdy) \subseteq Thread /\ ToSet(s.dly) \subseteq Thread
  BY SoundFields
<1>2. f \in [Thread -> State] /\ f[t] = "RUNNING"
      /\ \A x \in Thread : x # t => f[x] = s.state[x]
  BY <1>1 DEF State
<1> HIDE DEF f
<1>3. r = [s EXCEPT !.run = t, !.state = f]
  BY <1>1 DEF KernelRecord, f
<1>4. /\ r \in KernelRecord /\ r.rdy = s.rdy /\ r.state = f /\ r.run = t
      /\ r.prio = s.prio /\ Frame(s, r) /\ SameDelay(s, r)
  BY <1>1, <1>2, <1>3 DEF KernelRecord, Frame, SameDelay
<1>5. Sound(r)
  BY <1>1, <1>2, <1>4 DEF Sound, SameDelay
<1>6. Running(r)
  BY <1>2, <1>4 DEF Running
<1> QED BY <1>4, <1>5, <1>6

LEMMA SwitchSound ==
    ASSUME KernelAssumption, NEW s, Sound(s), Idle \in ToSet(s.rdy)
    PROVE  /\ Sound(SwitchToFirst(s)) /\ Running(SwitchToFirst(s))
           /\ Frame(s, SwitchToFirst(s)) /\ SameDelay(s, SwitchToFirst(s))
<1> DEFINE h == Head(s.rdy)
           u == [s EXCEPT !.rdy = Tail(@)]
           r == [u EXCEPT !.run = h, !.state[h] = "RUNNING"]
<1>1. s \in KernelRecord /\ s.rdy # <<>>
  BY SoundFields DEF ToSet
<1>2. /\ Sound(u) /\ Frame(s, u) /\ SameDelay(s, u) /\ u.prio = s.prio
      /\ h \in ToSet(s.rdy) /\ h \in Thread
      /\ ToSet(u.rdy) = ToSet(s.rdy) \ {h}
      /\ \A x \in ToSet(s.rdy) : s.prio[h] >= s.prio[x]
  BY <1>1, TakeReadySound
<1>3. SwitchToFirst(s) = r
  BY <1>1 DEF SwitchToFirst, KernelRecord
<1>4. h \notin ToSet(u.rdy) /\ h \notin ToSet(u.dly) /\ Idle \in ToSet(u.rdy) \cup {h}
  BY <1>2, SoundFields DEF SameDelay
<1>5. \A x \in ToSet(u.rdy) : u.prio[h] >= u.prio[x]
  BY <1>2
<1> HIDE DEF u, h
<1>6. Sound(r) /\ Running(r) /\ Frame(u, r) /\ SameDelay(u, r)
  BY <1>2, <1>4, <1>5, GiveProcessorSound
<1> QED BY <1>2, <1>3, <1>6 DEF Frame, SameDelay

\* The running thread is in no list.
LEMMA RunningApart ==
    ASSUME KernelAssumption, NEW s, Sound(s), s.state[s.run] = "RUNNING"
    PROVE  s.run \in Thread /\ s.run \notin ToSet(s.rdy) /\ s.run \notin ToSet(s.dly)
  BY SoundFields DEF Sound, WaitState

(***************************************************************************)
(* rt_rmv_dly.                                                             *)
(***************************************************************************)
LEMMA RmvDlySound ==
    ASSUME KernelAssumption, NEW s, Sound(s), NEW t \in Thread
    PROVE  /\ Sound(RmvDly(s, t)) /\ Frame(s, RmvDly(s, t))
           /\ RmvDly(s, t).run = s.run /\ RmvDly(s, t).prio = s.prio
           /\ RmvDly(s, t).state = s.state /\ RmvDly(s, t).rdy = s.rdy
           /\ ToSet(RmvDly(s, t).dly) = ToSet(s.dly) \ {t}
           /\ Due(s) => Due(RmvDly(s, t))
<1> DEFINE q == Unlink(s.dly, t)
           f == [s.rem EXCEPT ![t] = 0]
           r == [s EXCEPT !.dly = q, !.rem = f]
<1>1. /\ s.dly \in Seq(Thread) /\ s.rem \in [Thread -> Nat]
      /\ s.rem \in [Thread -> 0 .. Forever] /\ s \in KernelRecord
      /\ ToSet(s.dly) \subseteq Thread
  BY SoundFields
<1>2. Distinct(s.dly) /\ Rising(s.dly, s.rem)
  BY DEF Sound
<1>3. /\ q \in Seq(Thread) /\ ToSet(q) = ToSet(s.dly) \ {t} /\ Distinct(q)
      /\ Rising(q, s.rem)
  BY <1>1, <1>2, UnlinkCorrect
<1> HIDE DEF q
<1>4. /\ f \in [Thread -> 0 .. Forever] /\ f \in [Thread -> Nat]
      /\ \A x \in Thread : x # t => f[x] = s.rem[x]
  BY <1>1, KernelAssumption DEF KernelAssumption
<1>5. Rising(q, f)
  <2>1. \A x \in ToSet(q) : s.rem[x] = f[x]
    BY <1>1, <1>3, <1>4
  <2> HIDE DEF f
  <2> QED BY <1>1, <1>3, <1>4, <2>1, OrderedSame
<1>6. RmvDly(s, t) = r
  BY <1>1 DEF RmvDly, q, KernelRecord
<1> HIDE DEF f
<1>7. /\ r \in KernelRecord /\ r.rdy = s.rdy /\ r.state = s.state /\ r.run = s.run
      /\ r.prio = s.prio /\ Frame(s, r) /\ r.dly = q /\ r.rem = f
  BY <1>1, <1>3, <1>4 DEF KernelRecord, Frame
<1>8. Sound(r)
  BY <1>3, <1>5, <1>7 DEF Sound
<1>9. Due(s) => Due(r)
  BY <1>1, <1>3, <1>4, <1>7 DEF Due
<1> QED BY <1>3, <1>6, <1>7, <1>8, <1>9

\* rt_put_dly, with the time the thread is given.
LEMMA PutDelayKeeps ==
    ASSUME NEW T, NEW q \in Seq(T), NEW t \in T, t \notin ToSet(q),
           NEW rem \in [T -> Nat], NEW n \in Nat, NEW g, g = [rem EXCEPT ![t] = n],
           Distinct(q), Rising(q, rem)
    PROVE  /\ PutDly(q, t, n, rem) \in Seq(T)
           /\ ToSet(PutDly(q, t, n, rem)) = ToSet(q) \cup {t}
           /\ Distinct(PutDly(q, t, n, rem))
           /\ Rising(PutDly(q, t, n, rem), g)
<1>1. g \in [T -> Nat] /\ g[t] = n /\ \A x \in T : x # t => g[x] = rem[x]
  OBVIOUS
<1>2. /\ PutDly(q, t, g[t], rem) \in Seq(T)
      /\ ToSet(PutDly(q, t, g[t], rem)) = ToSet(q) \cup {t}
      /\ Distinct(PutDly(q, t, g[t], rem))
      /\ Rising(PutDly(q, t, g[t], rem), g)
  BY ONLY <1>1, PutDlyCorrect, q \in Seq(T), t \in T, t \notin ToSet(q),
          rem \in [T -> Nat], Distinct(q), Rising(q, rem)
<1> QED BY ONLY <1>1, <1>2

(***************************************************************************)
(* The running thread is put aside with a state in which it may wait.      *)
(***************************************************************************)
LEMMA BlockSound ==
    ASSUME KernelAssumption, NEW s, Sound(s), Running(s), Due(s), s.run # Idle,
           NEW n \in 0 .. Forever, NEW b \in WaitState
    PROVE  /\ Sound(Block(s, n, b)) /\ Running(Block(s, n, b))
           /\ Frame(s, Block(s, n, b)) /\ Due(Block(s, n, b))
<1> DEFINE t == s.run
           f == [s.state EXCEPT ![t] = b]
           timed == IF n < Forever THEN PutDelay(s, t, n) ELSE s
           u == [timed EXCEPT !.state[t] = b]
<1>1. /\ s.dly \in Seq(Thread) /\ s.rem \in [Thread -> Nat]
      /\ s.rem \in [Thread -> 0 .. Forever] /\ s \in KernelRecord
      /\ ToSet(s.rdy) \subseteq Thread /\ ToSet(s.dly) \subseteq Thread
      /\ s.state \in [Thread -> State]
  BY SoundFields
<1>2. t \in Thread /\ t \notin ToSet(s.rdy) /\ t \notin ToSet(s.dly)
  BY RunningApart DEF Running
<1>3. Idle \in ToSet(s.rdy)
  BY DEF Running
<1>4. /\ f \in [Thread -> State] /\ f[t] = b
      /\ \A x \in Thread : x # t => f[x] = s.state[x]
  BY <1>1, <1>2 DEF State
<1>5. CASE n = 0
  BY <1>5 DEF Block, Frame
<1>6. ASSUME n # 0 PROVE Sound(u) /\ Frame(s, u) /\ Due(u) /\ u.rdy = s.rdy
  <2>1. CASE n < Forever
    <3> DEFINE q == PutDly(s.dly, t, n, s.rem)
               g == [s.rem EXCEPT ![t] = n]
               r == [s EXCEPT !.dly = q, !.rem = g, !.state = f]
    <3>1. n \in Nat /\ n > 0
      BY <1>6, KernelAssumption DEF KernelAssumption
    <3>2. Distinct(s.dly) /\ Rising(s.dly, s.rem)
      BY DEF Sound
    <3>3. /\ q \in Seq(Thread) /\ ToSet(q) = ToSet(s.dly) \cup {t} /\ Distinct(q)
          /\ Rising(q, g)
      <4> HIDE DEF t
      <4> QED BY <1>1, <1>2, <3>1, <3>2, PutDelayKeeps
    <3> HIDE DEF q
    <3>4. /\ g \in [Thread -> 0 .. Forever] /\ g[t] = n
          /\ \A x \in Thread : x # t => g[x] = s.rem[x]
      BY <1>1, <1>2
    <3>5. u = r
      BY <1>1, <2>1 DEF PutDelay, q, KernelRecord
    <3> HIDE DEF f, g, u
    <3>6. /\ r \in KernelRecord /\ r.rdy = s.rdy /\ r.state = f /\ r.run = s.run
          /\ r.prio = s.prio /\ Frame(s, r) /\ r.dly = q /\ r.rem = g
      BY <1>1, <1>4, <3>3, <3>4 DEF KernelRecord, Frame
    <3>7. Sound(r)
      BY <1>1, <1>2, <1>4, <3>3, <3>6 DEF Sound
    <3>8. Due(r)
      BY <1>1, <3>1, <3>3, <3>4, <3>6 DEF Due
    <3> QED BY <3>5, <3>6, <3>7, <3>8
  <2>2. CASE ~(n < Forever)
    <3> DEFINE r == [s EXCEPT !.state = f]
    <3>1. u = r
      BY <1>1, <2>2 DEF KernelRecord
    <3> HIDE DEF f, u
    <3>2. /\ r \in KernelRecord /\ r.rdy = s.rdy /\ r.state = f /\ r.run = s.run
          /\ r.prio = s.prio /\ Frame(s, r) /\ SameDelay(s, r)
      BY <1>1, <1>4 DEF KernelRecord, Frame, SameDelay
    <3>3. Sound(r)
      BY <1>1, <1>2, <1>4, <3>2 DEF Sound, SameDelay
    <3> QED BY <3>1, <3>2, <3>3 DEF Due, SameDelay
  <2> QED BY <2>1, <2>2
<1>7. CASE n # 0
  <2>1. Block(s, n, b) = SwitchToFirst(u)
    BY <1>7 DEF Block
  <2> HIDE DEF u
  <2>2. Sound(u) /\ Frame(s, u) /\ Due(u) /\ Idle \in ToSet(u.rdy)
    BY <1>3, <1>6, <1>7
  <2>3. /\ Sound(SwitchToFirst(u)) /\ Running(SwitchToFirst(u))
        /\ Frame(u, SwitchToFirst(u)) /\ SameDelay(u, SwitchToFirst(u))
    BY <2>2, SwitchSound
  <2> QED BY <2>1, <2>2, <2>3 DEF Frame, SameDelay, Due
<1> QED BY <1>5, <1>7

(***************************************************************************)
(* rt_dispatch, for a thread that is in no list.                           *)
(***************************************************************************)
LEMMA DispatchSound ==
    ASSUME KernelAssumption, NEW s, Sound(s), s.state[s.run] = "RUNNING",
           \A x \in ToSet(s.rdy) : s.prio[s.run] >= s.prio[x],
           NEW t \in Thread, t # s.run, t \notin ToSet(s.rdy), t \notin ToSet(s.dly),
           Idle \in ToSet(s.rdy) \cup {s.run, t}
    PROVE  /\ Sound(Dispatch(s, t)) /\ Running(Dispatch(s, t))
           /\ Frame(s, Dispatch(s, t)) /\ SameDelay(s, Dispatch(s, t))
<1>1. /\ s.run \in Thread /\ s.run \notin ToSet(s.rdy) /\ s.run \notin ToSet(s.dly)
      /\ s.prio \in [Thread -> Nat] /\ s.state \in [Thread -> State]
      /\ ToSet(s.rdy) \subseteq Thread
  BY RunningApart, SoundFields
<1>2. CASE s.prio[t] > s.prio[s.run]
  <2> DEFINE v == PutRdyFirst(s, s.run)
             r == [v EXCEPT !.run = t, !.state[t] = "RUNNING"]
  <2>1. /\ Sound(v) /\ Frame(s, v) /\ SameDelay(s, v) /\ v.prio = s.prio
        /\ ToSet(v.rdy) = ToSet(s.rdy) \cup {s.run}
    BY <1>1, PutRdyFirstSound
  <2>2. Dispatch(s, t) = r
    BY <1>2 DEF Dispatch
  <2> HIDE DEF v
  <2>3. /\ t \notin ToSet(v.rdy) /\ t \notin ToSet(v.dly)
        /\ Idle \in ToSet(v.rdy) \cup {t}
    BY <2>1 DEF SameDelay
  <2>4. \A x \in ToSet(v.rdy) : v.prio[t] >= v.prio[x]
    BY <1>1, <1>2, <2>1
  <2>5. Sound(r) /\ Running(r) /\ Frame(v, r) /\ SameDelay(v, r)
    BY <2>1, <2>3, <2>4, GiveProcessorSound
  <2> QED BY <2>1, <2>2, <2>5 DEF Frame, SameDelay
<1>3. CASE ~(s.prio[t] > s.prio[s.run])
  <2> DEFINE r == PutRdy(s, t)
  <2>1. /\ Sound(r) /\ Frame(s, r) /\ SameDelay(s, r)
        /\ r.prio = s.prio /\ r.run = s.run
        /\ ToSet(r.rdy) = ToSet(s.rdy) \cup {t}
        /\ r.state = [s.state EXCEPT ![t] = "READY"]
    BY PutRdySound
  <2>2. Dispatch(s, t) = r
    BY <1>3 DEF Dispatch
  <2> HIDE DEF r
  <2>3. Running(r)
    BY <1>1, <1>3, <2>1 DEF Running
  <2> QED BY <2>1, <2>2, <2>3
<1> QED BY <1>2, <1>3

\* The running thread steps back.
LEMMA StepBackSound ==
    ASSUME KernelAssumption, NEW s, Sound(s), s.state[s.run] = "RUNNING",
           Idle \in ToSet(s.rdy) \cup {s.run}
    PROVE  /\ Sound(StepBack(s)) /\ Running(StepBack(s))
           /\ Frame(s, StepBack(s)) /\ SameDelay(s, StepBack(s))
<1> DEFINE u == PutRdy(s, s.run)
<1>1. s.run \in Thread /\ s.run \notin ToSet(s.rdy) /\ s.run \notin ToSet(s.dly)
  BY RunningApart
<1>2. Sound(u) /\ Frame(s, u) /\ SameDelay(s, u) /\ Idle \in ToSet(u.rdy)
  BY <1>1, PutRdySound
<1>3. StepBack(s) = SwitchToFirst(u)
  BY DEF StepBack
<1> HIDE DEF u
<1> QED BY <1>2, <1>3, SwitchSound DEF Frame, SameDelay

\* rt_tsk_pass, which the idle demon never calls.
LEMMA TskPassSound ==
    ASSUME KernelAssumption, NEW s, Sound(s), Running(s), s.run # Idle
    PROVE  /\ Sound(TskPass(s)) /\ Running(TskPass(s))
           /\ Frame(s, TskPass(s)) /\ SameDelay(s, TskPass(s))
<1> DEFINE h == Head(s.rdy)
           u == [s EXCEPT !.rdy = Tail(@)]
           v == PutRdy(u, s.run)
           r == [v EXCEPT !.run = h, !.state[h] = "RUNNING"]
<1>1. /\ s.run \in Thread /\ s.run \notin ToSet(s.rdy) /\ s.run \notin ToSet(s.dly)
      /\ s.prio \in [Thread -> Nat] /\ ToSet(s.rdy) \subseteq Thread
  BY RunningApart, SoundFields DEF Running
<1>2. Idle \in ToSet(s.rdy) /\ s.rdy # <<>>
  BY DEF Running, ToSet
<1>3. CASE ~(RdyPrio(s) = s.prio[s.run])
  BY <1>3 DEF TskPass, Frame, SameDelay
<1>4. CASE RdyPrio(s) = s.prio[s.run]
  <2>1. /\ Sound(u) /\ Frame(s, u) /\ SameDelay(s, u) /\ u.run = s.run /\ u.prio = s.prio
        /\ h \in ToSet(s.rdy) /\ h \in Thread
        /\ ToSet(u.rdy) = ToSet(s.rdy) \ {h}
        /\ \A x \in ToSet(s.rdy) : s.prio[h] >= s.prio[x]
    BY <1>2, TakeReadySound
  <2>2. TskPass(s) = r
    BY <1>4 DEF TskPass
  <2>3. s.prio[h] = s.prio[s.run]
    BY <1>4 DEF RdyPrio
  <2> HIDE DEF u, h
  <2>4. s.run \notin ToSet(u.rdy) /\ s.run \notin ToSet(u.dly)
    BY <1>1, <2>1 DEF SameDelay
  <2>5. /\ Sound(v) /\ Frame(u, v) /\ SameDelay(u, v) /\ v.prio = u.prio
        /\ ToSet(v.rdy) = ToSet(u.rdy) \cup {s.run}
    BY <1>1, <2>1, <2>4, PutRdySound
  <2> HIDE DEF v
  <2>6. /\ h \notin ToSet(v.rdy) /\ h \notin ToSet(v.dly)
        /\ Idle \in ToSet(v.rdy) \cup {h}
    BY <1>1, <1>2, <2>1, <2>5, SoundFields DEF SameDelay
  <2>7. \A x \in ToSet(v.rdy) : v.prio[h] >= v.prio[x]
    BY <1>1, <2>1, <2>3, <2>5
  <2>8. Sound(r) /\ Running(r) /\ Frame(v, r) /\ SameDelay(v, r)
    BY <2>1, <2>5, <2>6, <2>7, GiveProcessorSound
  <2> HIDE DEF r
  <2> QED BY <2>1, <2>2, <2>5, <2>8 DEF Frame, SameDelay
<1> QED BY <1>3, <1>4

(***************************************************************************)
(* A priority changes and rt_resort_prio follows, for a thread that no     *)
(* object's list chains in.                                                *)
(***************************************************************************)
Reprio(s, t, p) == ResortPrio([s EXCEPT !.prio[t] = p], t)

LEMMA ReprioSound ==
    ASSUME KernelAssumption, NEW s, Sound(s), NEW t \in Thread, s.rlnk[t] = None,
           NEW p \in 0 .. MaxPrio
    PROVE  /\ Sound(Reprio(s, t, p))
           /\ Frame(s, Reprio(s, t, p)) /\ SameDelay(s, Reprio(s, t, p))
           /\ Reprio(s, t, p).run = s.run /\ Reprio(s, t, p).state = s.state
           /\ Reprio(s, t, p).prio = [s.prio EXCEPT ![t] = p]
           /\ ToSet(Reprio(s, t, p).rdy) =
                 IF s.state[t] = "READY" THEN ToSet(s.rdy) \cup {t} ELSE ToSet(s.rdy)
<1> DEFINE g == [s.prio EXCEPT ![t] = p]
           u == [s EXCEPT !.prio[t] = p]
           r == Reprio(s, t, p)
           w == Unlink(s.rdy, t)
           q == PutPrio(w, t, g)
<1>1. /\ s.rdy \in Seq(Thread) /\ s.prio \in [Thread -> 0 .. MaxPrio]
      /\ s.prio \in [Thread -> Nat] /\ s \in KernelRecord
      /\ ToSet(s.rdy) \subseteq Thread
  BY SoundFields
<1>2. Distinct(s.rdy) /\ Ordered(s.rdy, s.prio)
  BY DEF Sound
<1>3. /\ g \in [Thread -> 0 .. MaxPrio] /\ g \in [Thread -> Nat]
      /\ \A x \in Thread : x # t => s.prio[x] = g[x]
  BY <1>1, KernelAssumption DEF KernelAssumption
<1>4. u = [s EXCEPT !.prio = g]
  BY <1>1 DEF KernelRecord
<1> HIDE DEF g, u, r
<1>5. CASE s.state[t] = "READY"
  <2>1. /\ w \in Seq(Thread) /\ ToSet(w) = ToSet(s.rdy) \ {t}
        /\ Distinct(w) /\ Ordered(w, s.prio)
    BY <1>1, <1>2, UnlinkCorrect
  <2>2. \A x \in ToSet(w) : s.prio[x] = g[x]
    BY <1>1, <1>3, <2>1
  <2>3. Ordered(w, g)
    BY <1>1, <1>3, <2>1, <2>2, OrderedSame
  <2>4. t \notin ToSet(w)
    BY <2>1
  <2> HIDE DEF w
  <2>5. /\ q \in Seq(Thread) /\ ToSet(q) = ToSet(w) \cup {t}
        /\ Ordered(q, g) /\ Distinct(q)
    <3>1. w \in Seq(Thread) /\ g \in [Thread -> Nat]
      BY <1>3, <2>1
    <3>2. Distinct(w) /\ Ordered(w, g) /\ t \notin ToSet(w)
      BY <2>1, <2>3, <2>4
    <3> QED BY ONLY <3>1, <3>2, t \in Thread, PutPrioCorrect DEF q
  <2>6. u.rlnk[t] = None /\ u.state[t] = "READY" /\ u.rdy = s.rdy /\ u.prio = g
    BY <1>1, <1>4, <1>5 DEF KernelRecord
  <2>7. r = [u EXCEPT !.rdy = q]
    BY <2>6 DEF ResortPrio, Reprio, r, u, w
  <2> HIDE DEF q
  <2>8. /\ r \in KernelRecord /\ r.rdy = q /\ r.state = s.state /\ r.run = s.run
        /\ r.prio = g /\ Frame(s, r) /\ SameDelay(s, r)
    BY ONLY <1>1, <1>3, <1>4, <2>5, <2>7 DEF KernelRecord, Frame, SameDelay
  <2>9. ToSet(q) = ToSet(s.rdy) \cup {t}
    BY <2>1, <2>5
  <2>10. Sound(r)
    BY <1>1, <1>5, <2>5, <2>8, <2>9 DEF Sound, SameDelay
  <2> QED BY <1>5, <2>8, <2>9, <2>10 DEF g, r
<1>6. CASE s.state[t] # "READY"
  <2>1. t \notin ToSet(s.rdy)
    BY <1>6 DEF Sound
  <2>2. \A x \in ToSet(s.rdy) : s.prio[x] = g[x]
    BY <1>1, <1>3, <2>1
  <2>3. Ordered(s.rdy, g)
    BY <1>1, <1>2, <1>3, <2>2, OrderedSame
  <2>4. u.rlnk[t] = None /\ u.state[t] # "READY"
    BY <1>1, <1>4, <1>6 DEF KernelRecord
  <2>5. r = u
    BY <2>4 DEF ResortPrio, Reprio, r, u
  <2>6. /\ r \in KernelRecord /\ r.rdy = s.rdy /\ r.state = s.state /\ r.run = s.run
        /\ r.prio = g /\ Frame(s, r) /\ SameDelay(s, r)
    BY ONLY <1>1, <1>3, <1>4, <2>5 DEF KernelRecord, Frame, SameDelay
  <2>7. Sound(r)
    BY <2>3, <2>6 DEF Sound, SameDelay
  <2> QED BY <1>6, <2>6, <2>7 DEF g, r
<1> QED BY <1>5, <1>6

\* rt_tsk_prio: the running thread's priority, another's, or nobody's.
LEMMA TskPrioSound ==
    ASSUME KernelAssumption, NEW s, Sound(s), Running(s), s.run # Idle,
           NEW id \in 1 .. MaxTaskRun, NEW p \in 0 .. MaxPrio,
           s.active[id] \in Thread => s.rlnk[s.active[id]] = None
    PROVE  /\ Sound(TskPrio(s, id, p)) /\ Running(TskPrio(s, id, p))
           /\ Frame(s, TskPrio(s, id, p)) /\ SameDelay(s, TskPrio(s, id, p))
<1> DEFINE t == s.active[id]
           u == [s EXCEPT !.prio[t] = p]
           sorted == ResortPrio(u, t)
           r == TskPrio(s, id, p)
<1>1. /\ s.run \in Thread /\ s.run \notin ToSet(s.rdy) /\ s.run \notin ToSet(s.dly)
      /\ s.prio \in [Thread -> Nat] /\ ToSet(s.rdy) \subseteq Thread
      /\ s.rdy \in Seq(Thread) /\ s \in KernelRecord
      /\ t \in Thread \cup {None}
      /\ t \in Thread => s.rlnk[t] = None
      /\ \A x \in ToSet(s.rdy) : s.state[x] = "READY"
  BY RunningApart, SoundFields DEF Running, Sound
<1>2. /\ Idle \in ToSet(s.rdy) /\ s.rdy # <<>> /\ s.state[s.run] = "RUNNING"
      /\ \A x \in ToSet(s.rdy) : s.prio[s.run] >= s.prio[x]
  BY DEF Running, ToSet
<1>3. CASE t = None
  <2>1. r = s
    BY <1>3 DEF TskPrio
  <2> QED BY <2>1 DEF Frame, SameDelay
<1>4. ASSUME t \in Thread
      PROVE  /\ Sound(sorted) /\ Frame(s, sorted) /\ SameDelay(s, sorted)
             /\ sorted.run = s.run /\ sorted.state = s.state
             /\ sorted.prio = [s.prio EXCEPT ![t] = p]
             /\ ToSet(sorted.rdy) = IF s.state[t] = "READY" THEN ToSet(s.rdy) \cup {t}
                                                            ELSE ToSet(s.rdy)
  <2> HIDE DEF t
  <2>1. s.rlnk[t] = None
    BY <1>1, <1>4
  <2>2. sorted = Reprio(s, t, p)
    BY DEF Reprio
  <2> HIDE DEF u, sorted
  <2> QED BY <1>4, <2>1, <2>2, ReprioSound
<1> HIDE DEF t
<1>5. CASE t # None /\ t = s.run
  <2>1. s.rlnk[t] = None /\ u.rlnk[t] = None /\ u.state[t] = "RUNNING" /\ u.rdy = s.rdy
    BY <1>1, <1>2, <1>5 DEF KernelRecord
  <2>2. sorted = u
    BY <2>1 DEF ResortPrio
  <2>3. t \in Thread
    BY <1>1, <1>5
  <2> HIDE DEF u
  <2>4. /\ Sound(u) /\ Frame(s, u) /\ SameDelay(s, u) /\ u.run = s.run
        /\ u.prio = [s.prio EXCEPT ![t] = p] /\ u.state[u.run] = "RUNNING"
    BY <1>2, <1>4, <2>2, <2>3
  <2>5. r = IF RdyPrio(u) > p THEN StepBack(u) ELSE u
    <3>1. r = Preempted(u)
      BY <1>5 DEF TskPrio, u, t
    <3>2. u.prio[u.run] = p
      BY <1>1, <1>5, <2>4
    <3> QED BY <3>1, <3>2 DEF Preempted
  <2>6. CASE RdyPrio(u) > p
    <3>1. /\ Sound(StepBack(u)) /\ Running(StepBack(u))
          /\ Frame(u, StepBack(u)) /\ SameDelay(u, StepBack(u))
      BY <1>2, <2>1, <2>4, StepBackSound
    <3> QED BY <2>4, <2>5, <2>6, <3>1 DEF Frame, SameDelay
  <2>7. CASE ~(RdyPrio(u) > p)
    <3>1. /\ Head(u.rdy) \in Thread /\ u.prio \in [Thread -> Nat]
          /\ \A x \in ToSet(u.rdy) : x \in Thread /\ u.prio[Head(u.rdy)] >= u.prio[x]
      <4> DEFINE v == [u EXCEPT !.rdy = Tail(@)]
      <4>1. u.rdy # <<>>
        BY <1>2, <2>1
      <4>2. /\ Head(u.rdy) \in Thread
            /\ \A x \in ToSet(u.rdy) : u.prio[Head(u.rdy)] >= u.prio[x]
        BY <2>4, <4>1, TakeReadySound
      <4> QED BY <2>4, <4>2, SoundFields
    <3>2. u.prio[u.run] = p
      BY <1>1, <1>5, <2>4
    <3>3. ~(u.prio[Head(u.rdy)] > p)
      BY <2>7 DEF RdyPrio
    <3>4. p \in Nat
      BY KernelAssumption DEF KernelAssumption
    <3>5. \A x \in ToSet(u.rdy) : u.prio[u.run] >= u.prio[x]
      BY <3>1, <3>2, <3>3, <3>4
    <3>6. Running(u)
      BY <1>2, <2>1, <2>4, <3>5 DEF Running
    <3> QED BY <2>4, <2>5, <2>7, <3>6
  <2> QED BY <2>6, <2>7
<1>6. CASE t # None /\ t # s.run
  <2>1. t \in Thread
    BY <1>1, <1>6
  <2> HIDE DEF sorted
  <2>2. /\ Sound(sorted) /\ Frame(s, sorted) /\ SameDelay(s, sorted)
        /\ sorted.run = s.run /\ sorted.state = s.state
        /\ sorted.prio = [s.prio EXCEPT ![t] = p]
        /\ ToSet(sorted.rdy) = IF s.state[t] = "READY" THEN ToSet(s.rdy) \cup {t}
                                                       ELSE ToSet(s.rdy)
    BY <1>4, <2>1
  <2>3. /\ sorted.prio \in [Thread -> Nat]
        /\ \A x \in Thread : x # t => sorted.prio[x] = s.prio[x]
    BY <1>1, <2>1, <2>2, SoundFields
  <2>4. CASE sorted.state[t] # "READY"
    <3>1. r = sorted
      BY <1>6, <2>4 DEF TskPrio, sorted, t
    <3>2. ToSet(sorted.rdy) = ToSet(s.rdy) /\ t \notin ToSet(s.rdy)
      BY <1>1, <2>2, <2>4
    <3>3. Running(sorted)
      BY <1>1, <1>2, <1>6, <2>2, <2>3, <3>2 DEF Running
    <3> QED BY <2>2, <3>1, <3>3
  <2>5. CASE sorted.state[t] = "READY"
    <3> DEFINE h == Head(sorted.rdy)
               v == [sorted EXCEPT !.rdy = Tail(@)]
    <3>1. r = Dispatch(v, h)
      BY <1>6, <2>5 DEF TskPrio, sorted, t
    <3>2. sorted.rdy # <<>>
      BY <2>2, <2>5 DEF ToSet
    <3>3. /\ Sound(v) /\ Frame(sorted, v) /\ SameDelay(sorted, v)
          /\ v.run = sorted.run /\ v.prio = sorted.prio /\ v.state = sorted.state
          /\ h \in ToSet(sorted.rdy) /\ h \in Thread
          /\ ToSet(v.rdy) = ToSet(sorted.rdy) \ {h}
          /\ \A x \in ToSet(sorted.rdy) : sorted.prio[h] >= sorted.prio[x]
      BY <2>2, <3>2, TakeReadySound
    <3> HIDE DEF v, h
    <3>4. /\ h # v.run /\ h \notin ToSet(v.rdy) /\ h \notin ToSet(v.dly)
          /\ Idle \in ToSet(v.rdy) \cup {v.run, h}
      <4>1. h \in ToSet(s.rdy) \cup {t}
        BY <2>2, <3>3
      <4>2. h \notin ToSet(sorted.dly)
        BY <2>2, <3>3, SoundFields
      <4> QED BY <1>1, <1>2, <1>6, <2>2, <3>3, <4>1, <4>2 DEF SameDelay
    <3>5. v.state[v.run] = "RUNNING"
      BY <1>2, <2>2, <3>3
    <3>6. \A x \in ToSet(v.rdy) : v.prio[v.run] >= v.prio[x]
      <4> SUFFICES ASSUME NEW x \in ToSet(v.rdy) PROVE v.prio[v.run] >= v.prio[x]
        OBVIOUS
      <4>1. x \in ToSet(s.rdy) \cup {t} /\ x # h /\ x \in Thread
        BY <1>1, <2>1, <2>2, <3>3
      <4>2. v.prio[v.run] = s.prio[s.run] /\ v.prio = sorted.prio
        BY <1>1, <1>6, <2>2, <2>3, <3>3
      <4>3. CASE x # t
        BY <1>2, <2>3, <4>1, <4>2, <4>3
      <4>4. CASE x = t
        <5>1. h # t /\ h \in ToSet(s.rdy) /\ h \in Thread
          BY <2>2, <3>3, <4>1, <4>4
        <5>2. sorted.prio[h] = s.prio[h] /\ s.prio[s.run] >= s.prio[h]
          BY <1>2, <2>3, <5>1
        <5>3. sorted.prio[h] >= sorted.prio[x]
          BY <3>3
        <5> QED BY <1>1, <2>3, <4>1, <4>2, <5>1, <5>2, <5>3
      <4> QED BY <4>3, <4>4
    <3>7. /\ Sound(Dispatch(v, h)) /\ Running(Dispatch(v, h))
          /\ Frame(v, Dispatch(v, h)) /\ SameDelay(v, Dispatch(v, h))
      BY <3>3, <3>4, <3>5, <3>6, DispatchSound
    <3> QED BY <2>2, <3>1, <3>3, <3>7 DEF Frame, SameDelay
  <2> QED BY <2>4, <2>5
<1> QED BY <1>3, <1>5, <1>6

(***************************************************************************)
(* rt_tsk_delete.  No entry but the deleted one changes.                   *)
(***************************************************************************)
LEMMA TskDeleteSound ==
    ASSUME KernelAssumption, NEW s, Sound(s), Running(s), s.run # Idle, Due(s),
           NEW id \in 1 .. MaxTaskRun, s.active[id] # Idle,
           s.active[id] \in Thread => s.rlnk[s.active[id]] = None
    PROVE  /\ Sound(TskDelete(s, id)) /\ Running(TskDelete(s, id)) /\ Due(TskDelete(s, id))
           /\ TskDelete(s, id).rlnk = s.rlnk
           /\ \A i \in 1 .. MaxTaskRun : TskDelete(s, id).active[i] \in {s.active[i], None}
<1> DEFINE r == TskDelete(s, id)
           t == s.active[id]
           a == [s.active EXCEPT ![id] = None]
<1>1. /\ s.run \in Thread /\ s.run \notin ToSet(s.rdy) /\ s.run \notin ToSet(s.dly)
      /\ s.prio \in [Thread -> Nat] /\ ToSet(s.rdy) \subseteq Thread
      /\ ToSet(s.dly) \subseteq Thread
      /\ s.rdy \in Seq(Thread) /\ s \in KernelRecord /\ s.state \in [Thread -> State]
      /\ s.active \in [1 .. MaxTaskRun -> Thread \cup {None}]
      /\ t \in Thread \cup {None}
  BY RunningApart, SoundFields DEF Running
<1>2. /\ Idle \in ToSet(s.rdy) /\ s.state[s.run] = "RUNNING"
      /\ \A x \in ToSet(s.rdy) : s.prio[s.run] >= s.prio[x]
  BY DEF Running
<1>3. /\ a \in [1 .. MaxTaskRun -> Thread \cup {None}]
      /\ \A i \in 1 .. MaxTaskRun : a[i] \in {s.active[i], None}
  BY <1>1
<1> HIDE DEF a, t
<1>4. CASE id = s.tid[s.run]
  <2> DEFINE f == [s.state EXCEPT ![s.run] = "INACTIVE"]
             u == [s EXCEPT !.state = f, !.active = a]
  <2>1. /\ f \in [Thread -> State]
        /\ \A x \in Thread : x # s.run => f[x] = s.state[x]
    BY <1>1 DEF State
  <2>2. u = [s EXCEPT !.state[s.run] = "INACTIVE", !.active[s.tid[s.run]] = None]
    BY <1>1, <1>4 DEF KernelRecord, a
  <2>3. r = SwitchToFirst(u)
    BY <1>4, <2>2 DEF TskDelete, TskDeleteSelf
  <2> HIDE DEF f
  <2>4. /\ u \in KernelRecord /\ u.rdy = s.rdy /\ u.state = f /\ u.run = s.run
        /\ u.prio = s.prio /\ SameDelay(s, u) /\ u.active = a /\ u.rlnk = s.rlnk
    BY <1>1, <1>3, <2>1 DEF KernelRecord, SameDelay
  <2> HIDE DEF u
  <2>5. Sound(u)
    BY <1>1, <2>1, <2>4 DEF Sound, SameDelay
  <2>6. /\ Sound(SwitchToFirst(u)) /\ Running(SwitchToFirst(u))
        /\ Frame(u, SwitchToFirst(u)) /\ SameDelay(u, SwitchToFirst(u))
    BY <1>2, <2>4, <2>5, SwitchSound
  <2>7. SwitchToFirst(u).active = a /\ SwitchToFirst(u).rlnk = s.rlnk
    BY <2>4, <2>6 DEF Frame
  <2>8. Due(SwitchToFirst(u))
    BY <2>4, <2>6 DEF Due, SameDelay
  <2> QED BY <1>3, <2>3, <2>6, <2>7, <2>8
<1>5. CASE id # s.tid[s.run] /\ t = None
  <2>1. r = s
    BY <1>5 DEF TskDelete, TskDeleteOther, t
  <2> QED BY <1>1, <2>1
<1>6. CASE id # s.tid[s.run] /\ t # None
  <2> DEFINE q == Unlink(s.rdy, t)
             u == [s EXCEPT !.rdy = q]
             v == RmvDly(u, t)
             w == [v EXCEPT !.active = a]
  <2>1. t \in Thread /\ s.rlnk[t] = None /\ t # Idle
    BY <1>1, <1>6 DEF t
  <2>2. Distinct(s.rdy) /\ Ordered(s.rdy, s.prio)
    BY DEF Sound
  <2>3. /\ q \in Seq(Thread) /\ ToSet(q) = ToSet(s.rdy) \ {t}
        /\ Distinct(q) /\ Ordered(q, s.prio)
    BY <1>1, <2>1, <2>2, UnlinkCorrect
  <2> HIDE DEF q
  <2>4. /\ u \in KernelRecord /\ u.rdy = q /\ u.state = s.state /\ u.run = s.run
        /\ u.prio = s.prio /\ Frame(s, u) /\ SameDelay(s, u)
    BY <1>1, <2>3 DEF KernelRecord, Frame, SameDelay
  <2>5. RmvList(s, t) = u
    BY <2>1 DEF RmvList, q
  <2> HIDE DEF u
  <2>6. Sound(u)
    BY <2>3, <2>4 DEF Sound, SameDelay
  <2>7. Due(u)
    BY <2>4 DEF SameDelay, Due
  <2>8. /\ Sound(v) /\ Frame(u, v) /\ v.run = u.run /\ v.prio = u.prio
        /\ v.state = u.state /\ v.rdy = u.rdy /\ Due(v)
    BY <2>1, <2>6, <2>7, RmvDlySound
  <2> HIDE DEF v
  <2>9. v \in KernelRecord /\ v.active = s.active
    BY <2>4, <2>8 DEF Frame, Sound
  <2>10. r = w
    BY <1>6, <2>5, <2>9 DEF TskDelete, TskDeleteOther, v, a, t, KernelRecord
  <2>11. /\ w \in KernelRecord /\ w.rdy = v.rdy /\ w.state = v.state /\ w.run = v.run
         /\ w.prio = v.prio /\ SameDelay(v, w) /\ w.active = a /\ w.rlnk = v.rlnk
    BY <1>3, <2>9 DEF KernelRecord, SameDelay
  <2> HIDE DEF w
  <2>12. Sound(w) /\ Due(w)
    BY <2>8, <2>11 DEF Sound, SameDelay, Due
  <2>13. Running(w)
    BY <1>2, <2>1, <2>3, <2>4, <2>8, <2>11 DEF Running
  <2>14. w.rlnk = s.rlnk /\ w.active = a
    BY <2>4, <2>8, <2>11 DEF Frame
  <2> QED BY <1>3, <2>10, <2>12, <2>13, <2>14
<1> QED BY <1>4, <1>5, <1>6

(***************************************************************************)
(* rt_dec_dly and its loop: what is due next, and the head of the list.    *)
(***************************************************************************)
LEMMA DecDlySound ==
    ASSUME KernelAssumption, NEW s, Sound(s), Due(s)
    PROVE  /\ Sound(DecDly(s)) /\ Frame(s, DecDly(s))
           /\ DecDly(s).run = s.run /\ DecDly(s).rdy = s.rdy
<1> DEFINE f == [t \in Thread |-> IF t \in ToSet(s.dly) THEN s.rem[t] - 1 ELSE s.rem[t]]
           r == [s EXCEPT !.rem = f]
<1>1. /\ s.dly \in Seq(Thread) /\ s.rem \in [Thread -> 0 .. Forever]
      /\ s \in KernelRecord /\ ToSet(s.dly) \subseteq Thread
      /\ \A i \in DOMAIN s.dly : s.dly[i] \in ToSet(s.dly)
  BY SoundFields DEF ToSet
<1>2. \A x \in ToSet(s.dly) : s.rem[x] > 0
  BY DEF Due
<1>3. /\ f \in [Thread -> 0 .. Forever]
      /\ \A x \in ToSet(s.dly) : f[x] = s.rem[x] - 1
  BY <1>1, <1>2, KernelAssumption DEF KernelAssumption
<1>4. DecDly(s) = r
  BY <1>1 DEF DecDly, KernelRecord
<1> HIDE DEF f
<1>5. Rising(s.dly, f)
  <2>1. \A i, j \in DOMAIN s.dly : i < j => s.rem[s.dly[i]] <= s.rem[s.dly[j]]
    BY DEF Sound, Rising
  <2>2. \A i \in DOMAIN s.dly :
           f[s.dly[i]] = s.rem[s.dly[i]] - 1 /\ s.rem[s.dly[i]] \in Int
    BY <1>1, <1>3, KernelAssumption DEF KernelAssumption
  <2> QED BY <2>1, <2>2 DEF Rising
<1>6. /\ r \in KernelRecord /\ r.rdy = s.rdy /\ r.state = s.state /\ r.run = s.run
      /\ r.prio = s.prio /\ Frame(s, r) /\ r.dly = s.dly /\ r.rem = f
  BY <1>1, <1>3 DEF KernelRecord, Frame
<1>7. Sound(r)
  BY <1>5, <1>6 DEF Sound
<1> QED BY <1>4, <1>6, <1>7

LEMMA TakeDelaySound ==
    ASSUME KernelAssumption, NEW s, Sound(s), s.dly # <<>>,
           NEW r, r = [s EXCEPT !.dly = Tail(@)]
    PROVE  /\ Sound(r) /\ Frame(s, r) /\ r.rdy = s.rdy
           /\ Head(s.dly) \in ToSet(s.dly) /\ Head(s.dly) \in Thread
           /\ ToSet(r.dly) = ToSet(s.dly) \ {Head(s.dly)}
           /\ \A x \in ToSet(s.dly) : s.rem[Head(s.dly)] <= s.rem[x]
<1> DEFINE q == Tail(s.dly)
           h == Head(s.dly)
<1>1. s.dly \in Seq(Thread) /\ s.rem \in [Thread -> Nat] /\ s \in KernelRecord
  BY SoundFields
<1>2. Distinct(s.dly) /\ Rising(s.dly, s.rem)
  BY DEF Sound
<1>3. /\ h \in Thread /\ h \in ToSet(s.dly)
      /\ q \in Seq(Thread) /\ ToSet(q) = ToSet(s.dly) \ {h} /\ Distinct(q)
      /\ Rising(q, s.rem)
      /\ \A x \in ToSet(s.dly) : s.rem[h] <= s.rem[x]
  BY <1>1, <1>2, TakeFirstCorrect
<1> HIDE DEF q, h
<1>4. r = [s EXCEPT !.dly = q]
  BY DEF q
<1>5. /\ r \in KernelRecord /\ r.rdy = s.rdy /\ r.state = s.state /\ r.run = s.run
      /\ r.prio = s.prio /\ Frame(s, r) /\ r.dly = q /\ r.rem = s.rem
  BY ONLY <1>1, <1>3, <1>4 DEF KernelRecord, Frame
<1>6. Sound(r)
  BY <1>3, <1>5 DEF Sound
<1> QED BY <1>3, <1>5, <1>6 DEF h

\* rt_chk_robin moves the first ready thread behind its equals.
LEMMA RobinSwapSound ==
    ASSUME KernelAssumption, NEW s, Sound(s), s.rdy # <<>>
    PROVE  /\ Sound(RobinSwap(s)) /\ Frame(s, RobinSwap(s)) /\ SameDelay(s, RobinSwap(s))
           /\ ToSet(RobinSwap(s).rdy) = ToSet(s.rdy) /\ RobinSwap(s).run = s.run
<1> DEFINE h == Head(s.rdy)
           u == [s EXCEPT !.rdy = Tail(@)]
           v == PutRdy(u, h)
<1>1. s \in KernelRecord /\ s.state \in [Thread -> State]
  BY SoundFields
<1>2. /\ Sound(u) /\ Frame(s, u) /\ SameDelay(s, u)
      /\ u.run = s.run /\ u.prio = s.prio /\ u.state = s.state
      /\ h \in ToSet(s.rdy) /\ h \in Thread
      /\ ToSet(u.rdy) = ToSet(s.rdy) \ {h}
  BY TakeReadySound
<1>3. s.state[h] = "READY"
  BY <1>2 DEF Sound
<1>4. RobinSwap(s) = v
  BY <1>1, <1>2, <1>3, ZenonT(30) DEF RobinSwap, PutRdy, KernelRecord
<1> HIDE DEF u, h
<1>5. h \notin ToSet(u.rdy) /\ h \notin ToSet(u.dly)
  BY <1>2, SoundFields DEF SameDelay
<1>6. /\ Sound(v) /\ Frame(u, v) /\ SameDelay(u, v) /\ v.run = u.run
      /\ ToSet(v.rdy) = ToSet(u.rdy) \cup {h}
  BY <1>2, <1>5, PutRdySound
<1> HIDE DEF v
<1> QED BY <1>2, <1>4, <1>6 DEF Frame, SameDelay
-----------------------------------------------------------------------------
(***************************************************************************)
(* Which threads the operations move.  From s to r, nobody outside W       *)
(* starts or stops to wait, and nobody else comes to run or to be ready    *)
(* but those who already could.                                            *)
(***************************************************************************)
Moves(s, r, W) ==
    /\ \A x \in Thread \ W :
          s.state[x] \in WaitState \/ r.state[x] \in WaitState => r.state[x] = s.state[x]
    /\ ToSet(r.rdy) \cup {r.run} \subseteq ToSet(s.rdy) \cup {s.run} \cup W

\* rt_get_first and rt_switch_req, when the thread that ran runs no more.
LEMMA SwitchMoves ==
    ASSUME KernelAssumption, NEW s, Sound(s), Idle \in ToSet(s.rdy),
           NEW A \in SUBSET Thread, Homed(s, A), s.state[s.run] # "RUNNING"
    PROVE  /\ Homed(SwitchToFirst(s), A) /\ Moves(s, SwitchToFirst(s), {})
           /\ SwitchToFirst(s).prio = s.prio /\ SwitchToFirst(s).run \in ToSet(s.rdy)
           /\ ToSet(SwitchToFirst(s).rdy) \subseteq ToSet(s.rdy)
           /\ SwitchToFirst(s).state = [s.state EXCEPT ![SwitchToFirst(s).run] = "RUNNING"]
<1> DEFINE h == Head(s.rdy)
           u == [s EXCEPT !.rdy = Tail(@)]
           f == [s.state EXCEPT ![h] = "RUNNING"]
           r == [u EXCEPT !.run = h, !.state = f]
<1>1. /\ s \in KernelRecord /\ s.rdy # <<>> /\ s.state \in [Thread -> State]
      /\ ToSet(s.rdy) \subseteq Thread
  BY SoundFields DEF ToSet
<1>2. /\ u \in KernelRecord /\ u.prio = s.prio /\ u.state = s.state /\ u.run = s.run
      /\ h \in ToSet(s.rdy) /\ h \in Thread
      /\ ToSet(u.rdy) = ToSet(s.rdy) \ {h}
  BY <1>1, TakeReadySound DEF Sound
<1>3. SwitchToFirst(s) = r
  BY <1>1 DEF SwitchToFirst, KernelRecord
<1>4. s.state[h] = "READY"
  BY <1>2 DEF Sound
<1> HIDE DEF u, h
<1>5. f[h] = "RUNNING" /\ \A x \in Thread : x # h => f[x] = s.state[x]
  BY <1>1, <1>2
<1>6. /\ r.prio = s.prio /\ r.run = h /\ r.rdy = u.rdy /\ r.state = f
  BY <1>2 DEF KernelRecord
<1> HIDE DEF r
<1>7. Homed(r, A)
  BY <1>1, <1>2, <1>5, <1>6 DEF Homed
<1>8. Moves(s, r, {})
  BY <1>2, <1>4, <1>5, <1>6 DEF Moves, WaitState
<1> QED BY <1>2, <1>3, <1>6, <1>7, <1>8

\* rt_put_prio on the ready list, for a thread that could have been anywhere.
LEMMA PutRdyMoves ==
    ASSUME KernelAssumption, NEW s, Sound(s), NEW t \in Thread,
           t \notin ToSet(s.rdy), t \notin ToSet(s.dly),
           NEW A \in SUBSET Thread, Homed(s, A \ {t})
    PROVE  Homed(PutRdy(s, t), A) /\ Moves(s, PutRdy(s, t), {t})
<1> DEFINE r == PutRdy(s, t)
<1>1. /\ r.run = s.run /\ ToSet(r.rdy) = ToSet(s.rdy) \cup {t}
      /\ r.state = [s.state EXCEPT ![t] = "READY"]
      /\ s.state \in [Thread -> State]
  BY PutRdySound, SoundFields
<1> HIDE DEF r
<1>2. r.state[t] = "READY" /\ \A x \in Thread : x # t => r.state[x] = s.state[x]
  BY <1>1
<1>3. Homed(r, A)
  BY <1>1, <1>2 DEF Homed
<1>4. Moves(s, r, {t})
  BY <1>1, <1>2 DEF Moves
<1> QED BY <1>3, <1>4 DEF r

LEMMA DispatchMoves ==
    ASSUME KernelAssumption, NEW s, Sound(s), s.state[s.run] = "RUNNING",
           \A x \in ToSet(s.rdy) : s.prio[s.run] >= s.prio[x],
           NEW t \in Thread, t # s.run, t \notin ToSet(s.rdy), t \notin ToSet(s.dly),
           NEW A \in SUBSET Thread, Homed(s, A \ {t})
    PROVE  /\ Homed(Dispatch(s, t), A) /\ Moves(s, Dispatch(s, t), {t})
           /\ Dispatch(s, t).prio = s.prio /\ Dispatch(s, t).state[t] \notin WaitState
<1>1. /\ s.run \in Thread /\ s.run \notin ToSet(s.rdy) /\ s.run \notin ToSet(s.dly)
      /\ s.state \in [Thread -> State]
  BY RunningApart, SoundFields
<1>2. CASE s.prio[t] > s.prio[s.run]
  <2> DEFINE v == PutRdyFirst(s, s.run)
             f == [v.state EXCEPT ![t] = "RUNNING"]
             r == [v EXCEPT !.run = t, !.state = f]
  <2>1. /\ Sound(v) /\ v.prio = s.prio
        /\ ToSet(v.rdy) = ToSet(s.rdy) \cup {s.run}
        /\ v.state = [s.state EXCEPT ![s.run] = "READY"]
    BY <1>1, PutRdyFirstSound
  <2>2. v \in KernelRecord
    BY <2>1 DEF Sound
  <2>3. Dispatch(s, t) = r
    BY <1>2, <2>2 DEF Dispatch, KernelRecord
  <2> HIDE DEF v
  <2>4. /\ f[t] = "RUNNING" /\ f[s.run] = "READY"
        /\ \A x \in Thread : x # t /\ x # s.run => f[x] = s.state[x]
    BY <1>1, <2>1
  <2>5. r.prio = s.prio /\ r.run = t /\ r.rdy = v.rdy /\ r.state = f
    BY <2>1, <2>2 DEF KernelRecord
  <2> HIDE DEF r, f
  <2>6. Homed(r, A)
    BY <1>1, <2>1, <2>4, <2>5 DEF Homed
  <2>7. Moves(s, r, {t})
    BY <1>1, <2>1, <2>4, <2>5 DEF Moves, WaitState
  <2> QED BY <2>3, <2>4, <2>5, <2>6, <2>7 DEF WaitState
<1>3. CASE ~(s.prio[t] > s.prio[s.run])
  <2>1. Dispatch(s, t) = PutRdy(s, t)
    BY <1>3 DEF Dispatch
  <2>2. PutRdy(s, t).prio = s.prio /\ PutRdy(s, t).state[t] = "READY"
    <3>1. /\ PutRdy(s, t).prio = s.prio
          /\ PutRdy(s, t).state = [s.state EXCEPT ![t] = "READY"]
      BY PutRdySound
    <3> QED BY <1>1, <3>1
  <2>3. Homed(PutRdy(s, t), A) /\ Moves(s, PutRdy(s, t), {t})
    BY PutRdyMoves
  <2> QED BY <2>1, <2>2, <2>3 DEF WaitState
<1> QED BY <1>2, <1>3

\* The running thread steps back, and nobody waits for that.
LEMMA StepBackMoves ==
    ASSUME KernelAssumption, NEW s, Sound(s), s.state[s.run] = "RUNNING",
           Idle \in ToSet(s.rdy) \cup {s.run},
           NEW A \in SUBSET Thread, Homed(s, A)
    PROVE  /\ Homed(StepBack(s), A) /\ Moves(s, StepBack(s), {})
           /\ StepBack(s).prio = s.prio
<1> DEFINE u == PutRdy(s, s.run)
           r == SwitchToFirst(u)
<1>1. s.run \in Thread /\ s.run \notin ToSet(s.rdy) /\ s.run \notin ToSet(s.dly)
      /\ s.state \in [Thread -> State]
  BY RunningApart, SoundFields
<1>2. /\ Sound(u) /\ Idle \in ToSet(u.rdy) /\ u.prio = s.prio /\ u.run = s.run
      /\ u.state[s.run] = "READY" /\ ToSet(u.rdy) = ToSet(s.rdy) \cup {s.run}
  BY <1>1, PutRdySound
<1>3. Homed(s, A \ {s.run})
  BY DEF Homed
<1>4. Homed(u, A) /\ Moves(s, u, {s.run})
  BY <1>1, <1>3, PutRdyMoves
<1> HIDE DEF u
<1>5. /\ Homed(r, A) /\ Moves(u, r, {}) /\ r.prio = u.prio
      /\ r.run \in ToSet(u.rdy)
      /\ r.state = [u.state EXCEPT ![r.run] = "RUNNING"]
  BY <1>2, <1>4, SwitchMoves
<1>6. Moves(s, r, {})
  BY <1>1, <1>2, <1>4, <1>5 DEF Moves, WaitState
<1> QED BY <1>2, <1>5, <1>6 DEF StepBack, u

\* rt_block: the running thread is the one that may come to wait.
Blocked(s, r, n, b) ==
    /\ r.prio = s.prio
    /\ ToSet(r.dly) \subseteq ToSet(s.dly) \cup {s.run}
    /\ IF n = 0 THEN r = s ELSE r.state[s.run] = b

LEMMA BlockMoves ==
    ASSUME KernelAssumption, NEW s, Sound(s), Running(s), Due(s), s.run # Idle,
           NEW n \in 0 .. Forever, NEW b \in WaitState,
           NEW A \in SUBSET Thread, Homed(s, A)
    PROVE  /\ Homed(Block(s, n, b), A) /\ Moves(s, Block(s, n, b), {s.run})
           /\ Blocked(s, Block(s, n, b), n, b)
<1> DEFINE t == s.run
           f == [s.state EXCEPT ![t] = b]
           timed == IF n < Forever THEN PutDelay(s, t, n) ELSE s
           u == [timed EXCEPT !.state[t] = b]
           r == SwitchToFirst(u)
<1>1. /\ s.dly \in Seq(Thread) /\ s.rem \in [Thread -> Nat] /\ s \in KernelRecord
      /\ ToSet(s.rdy) \subseteq Thread /\ s.state \in [Thread -> State]
  BY SoundFields
<1>2. t \in Thread /\ t \notin ToSet(s.rdy) /\ t \notin ToSet(s.dly) /\ Idle \in ToSet(s.rdy)
  BY RunningApart DEF Running
<1>3. CASE n = 0
  <2>1. Block(s, n, b) = s
    BY <1>3 DEF Block
  <2> QED BY <1>3, <2>1 DEF Moves, Blocked
<1>4. CASE n # 0
  <2>1. Block(s, n, b) = r
    BY <1>4 DEF Block
  <2>2. /\ f \in [Thread -> State] /\ f[t] = b /\ b # "RUNNING" /\ b # "INACTIVE" /\ b # "READY"
        /\ \A x \in Thread : x # t => f[x] = s.state[x]
    BY <1>1, <1>2 DEF State, WaitState
  <2>3. /\ u.rdy = s.rdy /\ u.run = s.run /\ u.prio = s.prio /\ u.state = f
        /\ ToSet(u.dly) \subseteq ToSet(s.dly) \cup {t}
    <3>1. CASE n < Forever
      <4> DEFINE q == PutDly(s.dly, t, n, s.rem)
                 g == [s.rem EXCEPT ![t] = n]
      <4>1. /\ g \in [Thread -> Nat] /\ g[t] = n
            /\ \A x \in Thread : x # t => g[x] = s.rem[x]
        BY <1>1, <1>2, KernelAssumption DEF KernelAssumption
      <4>2. /\ q \in Seq(Thread) /\ ToSet(q) = ToSet(s.dly) \cup {t} /\ Distinct(q)
            /\ Rising(q, g)
        <5>1. Distinct(s.dly) /\ Rising(s.dly, s.rem) /\ n \in Nat
          BY KernelAssumption DEF Sound, KernelAssumption
        <5> HIDE DEF t
        <5> QED BY <1>1, <1>2, <5>1, PutDelayKeeps, SMTT(30)
      <4> HIDE DEF q
      <4>3. u = [s EXCEPT !.dly = q, !.rem = g, !.state = f]
        BY <1>1, <3>1 DEF PutDelay, q, KernelRecord
      <4> HIDE DEF g, f, u
      <4> QED BY <1>1, <4>2, <4>3 DEF KernelRecord
    <3>2. CASE ~(n < Forever)
      <4>1. u = [s EXCEPT !.state = f]
        BY <1>1, <3>2 DEF KernelRecord
      <4> HIDE DEF f, u
      <4> QED BY <1>1, <4>1 DEF KernelRecord
    <3> QED BY <3>1, <3>2
  <2>4. Sound(u)
    <3>3. /\ \A x \in ToSet(s.rdy) : f[x] = "READY"
          /\ \A x \in ToSet(s.dly) \cup {t} : f[x] \in WaitState
          /\ Distinct(s.rdy) /\ Ordered(s.rdy, s.prio)
          /\ Distinct(s.dly) /\ Rising(s.dly, s.rem)
      <4>1. /\ \A x \in ToSet(s.rdy) : s.state[x] = "READY"
            /\ \A x \in ToSet(s.dly) : s.state[x] \in WaitState
            /\ Distinct(s.rdy) /\ Ordered(s.rdy, s.prio)
            /\ Distinct(s.dly) /\ Rising(s.dly, s.rem)
        BY DEF Sound
      <4> HIDE DEF f
      <4> QED BY <1>1, <1>2, <2>2, <4>1, SoundFields
    <3>1. CASE n < Forever
      <4> DEFINE q == PutDly(s.dly, t, n, s.rem)
                 g == [s.rem EXCEPT ![t] = n]
      <4>1. /\ g \in [Thread -> Nat] /\ g[t] = n /\ g \in [Thread -> 0 .. Forever]
            /\ \A x \in Thread : x # t => g[x] = s.rem[x]
        BY <1>1, <1>2, SoundFields, KernelAssumption DEF KernelAssumption
      <4>2. /\ q \in Seq(Thread) /\ ToSet(q) = ToSet(s.dly) \cup {t} /\ Distinct(q)
            /\ Rising(q, g)
        <5>1. Distinct(s.dly) /\ Rising(s.dly, s.rem) /\ n \in Nat
          BY KernelAssumption DEF Sound, KernelAssumption
        <5> HIDE DEF t
        <5> QED BY <1>1, <1>2, <5>1, PutDelayKeeps, SMTT(30)
      <4> HIDE DEF q
      <4>3. u = [s EXCEPT !.dly = q, !.rem = g, !.state = f]
        BY <1>1, <3>1 DEF PutDelay, q, KernelRecord
      <4> HIDE DEF g, f, u
      <4>4. /\ u \in KernelRecord /\ u.dly = q /\ u.rem = g
        BY <1>1, <2>2, <4>1, <4>2, <4>3 DEF KernelRecord
      <4> QED BY <2>3, <3>3, <4>2, <4>4 DEF Sound
    <3>2. CASE ~(n < Forever)
      <4>1. u = [s EXCEPT !.state = f]
        BY <1>1, <3>2 DEF KernelRecord
      <4> HIDE DEF f, u
      <4>2. /\ u \in KernelRecord /\ u.dly = s.dly /\ u.rem = s.rem
        BY <1>1, <2>2, <4>1 DEF KernelRecord
      <4> QED BY <2>3, <3>3, <4>2 DEF Sound
    <3> QED BY <3>1, <3>2
  <2> HIDE DEF u, f
  <2>5. Homed(u, A)
    BY <1>2, <2>2, <2>3 DEF Homed
  <2>6. /\ Homed(r, A) /\ Moves(u, r, {}) /\ r.prio = u.prio
        /\ r.run \in ToSet(u.rdy)
        /\ r.state = [u.state EXCEPT ![r.run] = "RUNNING"]
    BY <1>2, <2>2, <2>3, <2>4, <2>5, SwitchMoves
  <2>7. SameDelay(u, r)
    BY <1>2, <2>3, <2>4, SwitchSound
  <2> HIDE DEF r
  <2>8. r.state[t] = b
    BY <1>2, <2>2, <2>3, <2>6
  <2>9. Moves(s, r, {s.run})
    BY <2>2, <2>3, <2>6 DEF Moves
  <2> QED BY <1>4, <2>1, <2>3, <2>6, <2>7, <2>8, <2>9 DEF SameDelay, Blocked
<1> QED BY <1>3, <1>4

\* rt_switch_req alone, for a thread that is in no list.
LEMMA GiveProcessorMoves ==
    ASSUME KernelAssumption, NEW s, Sound(s), NEW t \in Thread,
           NEW A \in SUBSET Thread, Homed(s, A \ {t}), s.state[s.run] # "RUNNING",
           NEW r, r = [s EXCEPT !.run = t, !.state[t] = "RUNNING"]
    PROVE  /\ Homed(r, A) /\ r.run = t /\ r.rdy = s.rdy
           /\ r.state = [s.state EXCEPT ![t] = "RUNNING"]
<1> DEFINE f == [s.state EXCEPT ![t] = "RUNNING"]
<1>1. s.state \in [Thread -> State] /\ s \in KernelRecord
  BY SoundFields
<1>2. f[t] = "RUNNING" /\ \A x \in Thread : x # t => f[x] = s.state[x]
  BY <1>1
<1>3. r = [s EXCEPT !.run = t, !.state = f]
  BY <1>1 DEF KernelRecord
<1> HIDE DEF f
<1>4. r.rdy = s.rdy /\ r.state = f /\ r.run = t
  BY <1>1, <1>3 DEF KernelRecord
<1>5. Homed(r, A)
  BY <1>2, <1>4 DEF Homed
<1> QED BY <1>4, <1>5 DEF f

LEMMA TskPassMoves ==
    ASSUME KernelAssumption, NEW s, Sound(s), Running(s), s.run # Idle,
           NEW A \in SUBSET Thread, Homed(s, A)
    PROVE  /\ Homed(TskPass(s), A) /\ Moves(s, TskPass(s), {})
           /\ TskPass(s).prio = s.prio
<1> DEFINE h == Head(s.rdy)
           u == [s EXCEPT !.rdy = Tail(@)]
           v == PutRdy(u, s.run)
           r == [v EXCEPT !.run = h, !.state[h] = "RUNNING"]
<1>1. /\ s.run \in Thread /\ s.run \notin ToSet(s.rdy) /\ s.run \notin ToSet(s.dly)
      /\ ToSet(s.rdy) \subseteq Thread /\ s.state \in [Thread -> State]
      /\ s.state[s.run] = "RUNNING" /\ s.rdy # <<>>
  BY RunningApart, SoundFields DEF Running, ToSet
<1>2. CASE ~(RdyPrio(s) = s.prio[s.run])
  BY <1>2 DEF TskPass, Moves
<1>3. CASE RdyPrio(s) = s.prio[s.run]
  <2>1. /\ Sound(u) /\ SameDelay(s, u) /\ u.run = s.run /\ u.prio = s.prio /\ u.state = s.state
        /\ h \in ToSet(s.rdy) /\ h \in Thread
        /\ ToSet(u.rdy) = ToSet(s.rdy) \ {h}
    BY <1>1, TakeReadySound
  <2>2. TskPass(s) = r
    BY <1>3 DEF TskPass
  <2>3. s.state[h] = "READY"
    BY <2>1 DEF Sound
  <2> HIDE DEF u, h
  <2>4. /\ s.run \notin ToSet(u.rdy) /\ s.run \notin ToSet(u.dly)
        /\ Homed(u, (A \ {h}) \ {s.run})
    BY <1>1, <2>1 DEF SameDelay, Homed
  <2>5. /\ Sound(v) /\ v.run = s.run /\ v.prio = s.prio
        /\ ToSet(v.rdy) = ToSet(u.rdy) \cup {s.run}
        /\ v.state = [s.state EXCEPT ![s.run] = "READY"]
    <3>1. /\ Sound(v) /\ v.run = u.run /\ v.prio = u.prio
          /\ ToSet(v.rdy) = ToSet(u.rdy) \cup {s.run}
          /\ v.state = [u.state EXCEPT ![s.run] = "READY"]
      <4>1. Sound(u) /\ s.run \in Thread /\ s.run \notin ToSet(u.rdy) /\ s.run \notin ToSet(u.dly)
        BY <1>1, <2>1, <2>4
      <4> QED BY ONLY KernelAssumption, <4>1, PutRdySound DEF v
    <3> HIDE DEF v
    <3> QED BY <2>1, <3>1
  <2>6. Homed(v, A \ {h})
    BY <1>1, <2>1, <2>4, PutRdyMoves
  <2>7. v \in KernelRecord
    BY <2>5 DEF Sound
  <2> HIDE DEF v
  <2>8. v.state[v.run] = "READY" /\ r.prio = v.prio
    BY <1>1, <2>5, <2>7 DEF KernelRecord
  <2>9. /\ Homed(r, A) /\ r.run = h /\ r.rdy = v.rdy
        /\ r.state = [v.state EXCEPT ![h] = "RUNNING"]
    <3>1. /\ Sound(v) /\ h \in Thread /\ Homed(v, A \ {h}) /\ v.state[v.run] # "RUNNING"
      BY <2>1, <2>5, <2>6, <2>8
    <3> QED BY ONLY KernelAssumption, <3>1, A \in SUBSET Thread, GiveProcessorMoves, ZenonT(30) DEF r
  <2> HIDE DEF r
  <2>10. /\ \A x \in Thread : x # h /\ x # s.run => r.state[x] = s.state[x]
         /\ r.state[h] = "RUNNING" /\ h # s.run => r.state[s.run] = "READY"
    BY <1>1, <2>1, <2>5, <2>9
  <2>11. Moves(s, r, {})
    BY <1>1, <2>1, <2>3, <2>5, <2>9, <2>10 DEF Moves, WaitState
  <2> QED BY <2>2, <2>5, <2>8, <2>9, <2>11
<1> QED BY <1>2, <1>3

\* rt_tsk_prio moves nobody but those who can run.
LEMMA TskPrioMoves ==
    ASSUME KernelAssumption, NEW s, Sound(s), Running(s), s.run # Idle,
           NEW id \in 1 .. MaxTaskRun, NEW p \in 0 .. MaxPrio,
           s.active[id] \in Thread => s.rlnk[s.active[id]] = None,
           NEW A \in SUBSET Thread, Homed(s, A),
           s.active[id] \in Thread => s.active[id] \in A
    PROVE  /\ Homed(TskPrio(s, id, p), A) /\ Moves(s, TskPrio(s, id, p), {})
           /\ TskPrio(s, id, p).prio = IF s.active[id] \in Thread
                                       THEN [s.prio EXCEPT ![s.active[id]] = p]
                                       ELSE s.prio
<1> DEFINE t == s.active[id]
           u == [s EXCEPT !.prio[t] = p]
           sorted == ResortPrio(u, t)
           r == TskPrio(s, id, p)
<1>1. /\ s.run \in Thread /\ s.run \notin ToSet(s.rdy) /\ s.run \notin ToSet(s.dly)
      /\ s.prio \in [Thread -> Nat] /\ ToSet(s.rdy) \subseteq Thread
      /\ s \in KernelRecord /\ s.state \in [Thread -> State]
      /\ t \in Thread \cup {None} /\ None \notin Thread
      /\ t \in Thread => s.rlnk[t] = None /\ t \in A
      /\ \A x \in ToSet(s.rdy) : s.state[x] = "READY"
  BY RunningApart, SoundFields, KernelAssumption DEF Running, Sound, KernelAssumption
<1>2. /\ Idle \in ToSet(s.rdy) /\ s.rdy # <<>> /\ s.state[s.run] = "RUNNING"
      /\ \A x \in ToSet(s.rdy) : s.prio[s.run] >= s.prio[x]
  BY DEF Running, ToSet
<1>3. CASE t = None
  <2>1. r = s
    BY <1>3 DEF TskPrio
  <2> QED BY <1>1, <1>3, <2>1 DEF Moves
<1>4. ASSUME t \in Thread
      PROVE  /\ Sound(sorted) /\ SameDelay(s, sorted)
             /\ sorted.run = s.run /\ sorted.state = s.state
             /\ sorted.prio = [s.prio EXCEPT ![t] = p]
             /\ ToSet(sorted.rdy) = ToSet(s.rdy)
             /\ Homed(sorted, A)
  <2> HIDE DEF t
  <2>1. s.state[t] = "READY" => t \in ToSet(s.rdy)
    BY <1>1, <1>4 DEF Homed
  <2>2. sorted = Reprio(s, t, p)
    BY DEF Reprio
  <2> HIDE DEF u, sorted
  <2>3. s.rlnk[t] = None
    BY <1>1, <1>4
  <2>4. /\ Sound(sorted) /\ SameDelay(s, sorted)
        /\ sorted.run = s.run /\ sorted.state = s.state
        /\ sorted.prio = [s.prio EXCEPT ![t] = p]
        /\ ToSet(sorted.rdy) = IF s.state[t] = "READY" THEN ToSet(s.rdy) \cup {t}
                                                       ELSE ToSet(s.rdy)
    BY <1>4, <2>2, <2>3, ReprioSound
  <2>5. ToSet(sorted.rdy) = ToSet(s.rdy)
    <3>1. CASE s.state[t] = "READY"
      <4>1. ToSet(sorted.rdy) = ToSet(s.rdy) \cup {t} /\ t \in ToSet(s.rdy)
        BY <2>1, <2>4, <3>1
      <4> QED BY <4>1
    <3>2. CASE s.state[t] # "READY"
      BY <2>4, <3>2
    <3> QED BY <3>1, <3>2
  <2> QED BY <2>4, <2>5 DEF Homed
<1> HIDE DEF t
<1>5. CASE t # None /\ t = s.run
  <2>1. s.rlnk[t] = None /\ u.rlnk[t] = None /\ u.state[t] = "RUNNING" /\ u.rdy = s.rdy
    BY <1>1, <1>2, <1>5 DEF KernelRecord
  <2>2. sorted = u
    BY <2>1 DEF ResortPrio
  <2>3. t \in Thread
    BY <1>1, <1>5
  <2> HIDE DEF u
  <2>4. /\ Sound(u) /\ u.run = s.run /\ u.state = s.state /\ Homed(u, A)
        /\ u.prio = [s.prio EXCEPT ![t] = p] /\ u.state[u.run] = "RUNNING"
    BY <1>2, <1>4, <2>2, <2>3
  <2>5. r = Preempted(u)
    BY <1>5 DEF TskPrio, u, t
  <2>6. CASE RdyPrio(u) > u.prio[u.run]
    <3>1. Homed(StepBack(u), A) /\ Moves(u, StepBack(u), {}) /\ StepBack(u).prio = u.prio
      BY <1>2, <2>1, <2>4, StepBackMoves
    <3>2. r = StepBack(u)
      BY <2>5, <2>6 DEF Preempted
    <3>3. Moves(s, r, {})
      BY <2>1, <2>4, <3>1, <3>2 DEF Moves
    <3> QED BY <2>3, <2>4, <3>1, <3>2, <3>3 DEF t
  <2>7. CASE ~(RdyPrio(u) > u.prio[u.run])
    <3>1. r = u
      BY <2>5, <2>7 DEF Preempted
    <3>2. Moves(s, r, {})
      BY <2>1, <2>4, <3>1 DEF Moves
    <3> QED BY <2>3, <2>4, <3>1, <3>2 DEF t
  <2> QED BY <2>6, <2>7
<1>6. CASE t # None /\ t # s.run
  <2>1. t \in Thread
    BY <1>1, <1>6
  <2> HIDE DEF sorted
  <2>2. /\ Sound(sorted) /\ SameDelay(s, sorted)
        /\ sorted.run = s.run /\ sorted.state = s.state
        /\ sorted.prio = [s.prio EXCEPT ![t] = p]
        /\ ToSet(sorted.rdy) = ToSet(s.rdy)
        /\ Homed(sorted, A)
    BY <1>4, <2>1
  <2>3. CASE sorted.state[t] # "READY"
    <3>1. r = sorted
      BY <1>6, <2>3 DEF TskPrio, sorted, t
    <3> QED BY <2>1, <2>2, <3>1 DEF Moves, t
  <2>4. CASE sorted.state[t] = "READY"
    <3> DEFINE h == Head(sorted.rdy)
               v == [sorted EXCEPT !.rdy = Tail(@)]
               d == Dispatch(v, h)
    <3>1. r = d
      BY <1>6, <2>4 DEF TskPrio, sorted, t
    <3>2. sorted.rdy # <<>>
      <4>1. Idle \in ToSet(sorted.rdy)
        BY <1>2, <2>2
      <4> QED BY <4>1 DEF ToSet
    <3>3. /\ Sound(v) /\ SameDelay(sorted, v)
          /\ v.run = sorted.run /\ v.prio = sorted.prio /\ v.state = sorted.state
          /\ h \in ToSet(sorted.rdy) /\ h \in Thread
          /\ ToSet(v.rdy) = ToSet(sorted.rdy) \ {h}
          /\ \A x \in ToSet(sorted.rdy) : sorted.prio[h] >= sorted.prio[x]
      BY <2>2, <3>2, TakeReadySound
    <3> HIDE DEF v, h
    <3>4. /\ h # v.run /\ h \notin ToSet(v.rdy) /\ h \notin ToSet(v.dly)
          /\ Homed(v, A \ {h}) /\ v.state[v.run] = "RUNNING"
      <4>1. h \notin ToSet(sorted.dly)
        BY <2>2, <3>3, SoundFields
      <4> QED BY <1>1, <1>2, <2>2, <3>3, <4>1 DEF SameDelay, Homed
    <3>5. \A x \in ToSet(v.rdy) : v.prio[v.run] >= v.prio[x]
      <4> SUFFICES ASSUME NEW x \in ToSet(v.rdy) PROVE v.prio[v.run] >= v.prio[x]
        OBVIOUS
      <4>1. x \in ToSet(s.rdy) /\ x # h /\ x \in Thread /\ h \in ToSet(s.rdy) /\ h \in Thread
        BY <1>1, <2>2, <3>3
      <4>2. v.prio[v.run] = s.prio[s.run] /\ v.prio = sorted.prio
        BY <1>1, <1>6, <2>1, <2>2, <3>3
      <4>3. /\ sorted.prio \in [Thread -> Nat]
            /\ \A y \in Thread : y # t => sorted.prio[y] = s.prio[y]
        BY <1>1, <2>1, <2>2, SoundFields
      <4>4. CASE x # t
        BY <1>2, <4>1, <4>2, <4>3, <4>4
      <4>5. CASE x = t
        <5>1. sorted.prio[h] = s.prio[h] /\ s.prio[s.run] >= s.prio[h]
          BY <1>2, <4>1, <4>3, <4>5
        <5>2. sorted.prio[h] >= sorted.prio[x]
          BY <3>3
        <5> QED BY <1>1, <4>1, <4>2, <4>3, <5>1, <5>2
      <4> QED BY <4>4, <4>5
    <3>6. /\ Homed(d, A) /\ Moves(v, d, {h}) /\ d.prio = v.prio /\ d.state[h] \notin WaitState
      BY <3>3, <3>4, <3>5, DispatchMoves
    <3> HIDE DEF d
    <3>7. s.state[h] = "READY" /\ h \in ToSet(s.rdy)
      BY <1>1, <2>2, <3>3
    <3>8. Moves(s, d, {})
      BY <2>2, <3>3, <3>6, <3>7 DEF Moves, WaitState
    <3> QED BY <2>1, <2>2, <3>1, <3>3, <3>6, <3>8 DEF t
  <2> QED BY <2>3, <2>4
<1> QED BY <1>3, <1>5, <1>6

\* rt_tsk_delete takes the thread that ends off the lists and the processor.
LEMMA TskDeleteMoves ==
    ASSUME KernelAssumption, NEW s, Sound(s), Running(s), s.run # Idle,
           NEW id \in 1 .. MaxTaskRun, s.active[id] # Idle,
           s.active[id] \in Thread => s.rlnk[s.active[id]] = None,
           NEW A \in SUBSET Thread, Homed(s, A), s.active[id] \notin A,
           id = s.tid[s.run] => s.run \notin A
    PROVE  /\ Homed(TskDelete(s, id), A) /\ Moves(s, TskDelete(s, id), {})
           /\ TskDelete(s, id).active = [s.active EXCEPT ![id] = None]
           /\ TskDelete(s, id).tid = s.tid /\ TskDelete(s, id).prio = s.prio
           /\ TskDelete(s, id).wait = s.wait
           /\ ToSet(TskDelete(s, id).dly) \subseteq ToSet(s.dly)
           /\ id = s.tid[s.run] =>
                 s.run \notin ToSet(TskDelete(s, id).rdy) \cup {TskDelete(s, id).run}
           /\ id # s.tid[s.run] =>
                 /\ s.active[id] \notin ToSet(TskDelete(s, id).rdy)
                 /\ s.active[id] \notin ToSet(TskDelete(s, id).dly)
                 /\ TskDelete(s, id).run = s.run
<1> DEFINE r == TskDelete(s, id)
           t == s.active[id]
           a == [s.active EXCEPT ![id] = None]
<1>1. /\ s.run \in Thread /\ s.run \notin ToSet(s.rdy) /\ s.run \notin ToSet(s.dly)
      /\ ToSet(s.rdy) \subseteq Thread /\ ToSet(s.dly) \subseteq Thread
      /\ s.rdy \in Seq(Thread) /\ s \in KernelRecord /\ s.state \in [Thread -> State]
      /\ s.active \in [1 .. MaxTaskRun -> Thread \cup {None}]
      /\ t \in Thread \cup {None} /\ None \notin Thread
  BY RunningApart, SoundFields, KernelAssumption DEF Running, KernelAssumption
<1>2. Idle \in ToSet(s.rdy) /\ s.state[s.run] = "RUNNING"
  BY DEF Running
<1>3. /\ a \in [1 .. MaxTaskRun -> Thread \cup {None}]
      /\ t = None => a = s.active
  BY <1>1
<1> HIDE DEF a, t
<1>4. CASE id = s.tid[s.run]
  <2> DEFINE f == [s.state EXCEPT ![s.run] = "INACTIVE"]
             u == [s EXCEPT !.state = f, !.active = a]
             d == SwitchToFirst(u)
  <2>1. /\ f \in [Thread -> State] /\ f[s.run] = "INACTIVE"
        /\ \A x \in Thread : x # s.run => f[x] = s.state[x]
    BY <1>1 DEF State
  <2>2. u = [s EXCEPT !.state[s.run] = "INACTIVE", !.active[s.tid[s.run]] = None]
    BY <1>1, <1>4 DEF KernelRecord, a
  <2>3. r = d
    BY <1>4, <2>2 DEF TskDelete, TskDeleteSelf
  <2> HIDE DEF f
  <2>4. /\ u \in KernelRecord /\ u.rdy = s.rdy /\ u.state = f /\ u.run = s.run
        /\ u.prio = s.prio /\ SameDelay(s, u) /\ u.active = a /\ u.tid = s.tid
        /\ u.wait = s.wait
    BY <1>1, <1>3, <2>1 DEF KernelRecord, SameDelay
  <2> HIDE DEF u
  <2>5. Sound(u)
    BY <1>1, <2>1, <2>4 DEF Sound, SameDelay
  <2>6. Homed(u, A)
    BY <1>1, <1>4, <2>1, <2>4 DEF Homed
  <2>7. /\ Homed(d, A) /\ Moves(u, d, {}) /\ d.prio = u.prio
        /\ d.run \in ToSet(u.rdy) /\ ToSet(d.rdy) \subseteq ToSet(u.rdy)
    BY <1>2, <2>1, <2>4, <2>5, <2>6, SwitchMoves
  <2>8. Frame(u, d) /\ SameDelay(u, d)
    BY <1>2, <2>4, <2>5, SwitchSound
  <2> HIDE DEF d
  <2>9. Moves(s, d, {})
    BY <1>1, <1>2, <2>1, <2>4, <2>7 DEF Moves, WaitState
  <2> QED BY <1>1, <1>4, <2>3, <2>4, <2>7, <2>8, <2>9 DEF Frame, SameDelay, a
<1>5. CASE id # s.tid[s.run] /\ t = None
  <2>1. r = s
    BY <1>5 DEF TskDelete, TskDeleteOther, t
  <2>2. Moves(s, s, {})
    BY DEF Moves
  <2>3. None \notin ToSet(s.rdy) /\ None \notin ToSet(s.dly)
    BY <1>1
  <2> QED BY <1>3, <1>5, <2>1, <2>2, <2>3 DEF a, t
<1>6. CASE id # s.tid[s.run] /\ t # None
  <2> DEFINE q == Unlink(s.rdy, t)
             u == [s EXCEPT !.rdy = q]
             v == RmvDly(u, t)
             w == [v EXCEPT !.active = a]
  <2>1. t \in Thread /\ s.rlnk[t] = None /\ t \notin A
    BY <1>1, <1>6 DEF t
  <2>2. Distinct(s.rdy) /\ Ordered(s.rdy, s.prio)
    BY DEF Sound
  <2>3. /\ q \in Seq(Thread) /\ ToSet(q) = ToSet(s.rdy) \ {t}
        /\ Distinct(q) /\ Ordered(q, s.prio)
    BY <1>1, <2>1, <2>2, UnlinkCorrect, SoundFields
  <2> HIDE DEF q
  <2>4. /\ u \in KernelRecord /\ u.rdy = q /\ u.state = s.state /\ u.run = s.run
        /\ u.prio = s.prio /\ Frame(s, u) /\ SameDelay(s, u)
    BY <1>1, <2>3 DEF KernelRecord, Frame, SameDelay
  <2>5. RmvList(s, t) = u
    BY <2>1 DEF RmvList, q
  <2> HIDE DEF u
  <2>6. Sound(u)
    BY <2>3, <2>4 DEF Sound, SameDelay
  <2>7. /\ Sound(v) /\ Frame(u, v) /\ v.run = u.run /\ v.prio = u.prio
        /\ v.state = u.state /\ v.rdy = u.rdy /\ ToSet(v.dly) = ToSet(u.dly) \ {t}
    BY <2>1, <2>6, RmvDlySound
  <2> HIDE DEF v
  <2>8. v \in KernelRecord /\ v.active = s.active
    BY <2>4, <2>7 DEF Frame, Sound
  <2>9. r = w
    BY <1>6, <2>5, <2>8 DEF TskDelete, TskDeleteOther, v, a, t, KernelRecord
  <2>10. /\ w.rdy = v.rdy /\ w.state = v.state /\ w.run = v.run
         /\ w.prio = v.prio /\ SameDelay(v, w) /\ w.active = a /\ w.tid = v.tid
         /\ w.wait = v.wait
    BY <2>8 DEF KernelRecord, SameDelay
  <2> HIDE DEF w
  <2>11. Homed(w, A)
    BY <2>1, <2>3, <2>4, <2>7, <2>10 DEF Homed
  <2>12. Moves(s, w, {})
    BY <2>3, <2>4, <2>7, <2>10 DEF Moves
  <2> QED BY <1>6, <2>3, <2>4, <2>7, <2>9, <2>10, <2>11, <2>12 DEF Frame, SameDelay, a, t
<1> QED BY <1>4, <1>5, <1>6
=============================================================================
