-------------------------- MODULE RtObjectsProofs ---------------------------
(***************************************************************************)
(* What the kernel keeps of the waiting lists, for any number of threads,  *)
(* objects and priorities: the part that semaphores, mutexes and mailboxes *)
(* share of the proofs about them.                                         *)
(***************************************************************************)
EXTENDS RtObjects, RtKernelProofs, FiniteSetTheorems

\* A record in which the threads of A, and nobody else, are where they should.
Consistent(s, A) == Sound(s) /\ Homed(s, A) /\ Listed(s, A)

\* From s to r nobody joins the list of an object.
Shrinks(s, r) == \A o \in Obj : ToSet(r.wait[o]) \subseteq ToSet(s.wait[o])

\* Nobody joins or leaves one, or it is t who leaves.
SameWaiters(s, r) == \A o \in Obj : ToSet(r.wait[o]) = ToSet(s.wait[o])
Leaves(s, r, t) == \A o \in Obj : ToSet(r.wait[o]) = ToSet(s.wait[o]) \ {t}

\* The table of the threads stays as it is.
SameTable(s, r) == r.active = s.active /\ r.tid = s.tid

LEMMA WaitFields ==
    ASSUME KernelAssumption, NEW s, Sound(s)
    PROVE  /\ s.wait \in [Obj -> Seq(Thread)]
           /\ \A o \in Obj : s.wait[o] \in Seq(Thread) /\ ToSet(s.wait[o]) \subseteq Thread
<1>1. s.wait \in [Obj -> Seq(Thread)]
  BY DEF Sound, KernelRecord
<1>2. ASSUME NEW o \in Obj
      PROVE  s.wait[o] \in Seq(Thread) /\ ToSet(s.wait[o]) \subseteq Thread
  BY <1>1, MembersOf
<1> QED BY <1>1, <1>2

LEMMA NoMembers ==
    ASSUME NEW S, NEW q \in Seq(S)
    PROVE  ToSet(q) = {} <=> q = <<>>
<1>1. DOMAIN q = 1 .. Len(q) /\ Len(q) \in Nat /\ (Len(q) = 0 <=> q = <<>>)
  OBVIOUS
<1>2. ToSet(q) = {} <=> DOMAIN q = {}
  BY DEF ToSet
<1>3. 1 .. Len(q) = {} <=> Len(q) = 0
  <2>1. Len(q) # 0 => 1 \in 1 .. Len(q)
    BY <1>1
  <2>2. Len(q) = 0 => 1 .. Len(q) = {}
    BY <1>1
  <2> QED BY <2>1, <2>2
<1> QED BY <1>1, <1>2, <1>3

LEMMA NobodyJoins ==
    ASSUME KernelAssumption, NEW s, NEW r, Sound(s), Sound(r), Shrinks(s, r)
    PROVE  \A o \in Obj : s.wait[o] = <<>> => r.wait[o] = <<>>
<1>1. \A o \in Obj : s.wait[o] \in Seq(Thread) /\ r.wait[o] \in Seq(Thread)
  BY WaitFields
<1> QED BY <1>1, NoMembers DEF Shrinks

\* No thread stops being chained where it is when others move: those of W come
\* from no list, and go to none of an object.
LEMMA MovedListed ==
    ASSUME KernelAssumption, NEW A \in SUBSET Thread, NEW B \in SUBSET A,
           NEW W \in SUBSET A, A \subseteq B \cup W,
           NEW s, NEW r, Sound(s), Sound(r), Listed(s, B), Moves(s, r, W),
           r.wait = s.wait, r.rlnk = s.rlnk,
           \A o \in Obj : \A x \in ToSet(s.wait[o]) : r.prio[x] = s.prio[x],
           \A x \in W : s.rlnk[x] = None /\ r.state[x] \notin ObjectWait,
           ToSet(r.dly) \subseteq ToSet(s.dly) \cup W,
           r.state[r.run] \in {"READY", "RUNNING"}
    PROVE  Listed(r, A)
<1>1. /\ s.prio \in [Thread -> Nat] /\ r.prio \in [Thread -> Nat]
      /\ \A o \in Obj : s.wait[o] \in Seq(Thread) /\ ToSet(s.wait[o]) \subseteq Thread
  BY SoundFields, WaitFields
<1>2. ASSUME NEW o \in Obj
      PROVE  /\ Distinct(r.wait[o]) /\ Ordered(r.wait[o], r.prio)
             /\ \A t \in ToSet(r.wait[o]) :
                   t \in A /\ r.rlnk[t] = o /\ r.state[t] \in ObjectWait
  <2>1. /\ Distinct(s.wait[o]) /\ Ordered(s.wait[o], s.prio)
        /\ \A t \in ToSet(s.wait[o]) :
              t \in B /\ s.rlnk[t] = o /\ s.state[t] \in ObjectWait
    BY DEF Listed
  <2>2. Ordered(s.wait[o], r.prio)
    BY <1>1, <2>1, OrderedSame
  <2>3. ASSUME NEW t \in ToSet(s.wait[o])
        PROVE  t \in A /\ r.rlnk[t] = o /\ r.state[t] \in ObjectWait
    <3>1. t \notin W
      BY <2>1, <2>3 DEF KernelAssumption
    <3>2. t \in Thread \ W /\ s.state[t] \in WaitState
      BY <2>1, <2>3, <3>1 DEF ObjectWait, WaitState
    <3> QED BY <2>1, <2>3, <3>2 DEF Moves
  <2> QED BY <2>1, <2>2, <2>3
<1>3. ASSUME NEW t \in A
      PROVE  /\ r.rlnk[t] # None => t \in ToSet(r.wait[r.rlnk[t]])
             /\ r.state[t] \in ObjectWait => r.rlnk[t] # None
  <2>1. CASE t \in W
    BY <2>1
  <2>2. CASE t \notin W
    <3>1. r.state[t] \in ObjectWait => s.state[t] \in ObjectWait
      BY <2>2 DEF Moves, ObjectWait, WaitState
    <3> QED BY <2>2, <3>1 DEF Listed
  <2> QED BY <2>1, <2>2
<1>4. ToSet(r.rdy) \cup ToSet(r.dly) \cup {r.run} \subseteq A
  BY DEF Moves, Listed
<1> QED BY <1>2, <1>3, <1>4 DEF Listed

\* Who can be chosen to run is not in a list of those who wait.
LEMMA QueueApart ==
    ASSUME KernelAssumption, NEW s, NEW A \in SUBSET Thread, Consistent(s, A),
           NEW o \in Obj, NEW t \in ToSet(s.wait[o])
    PROVE  /\ t \in A /\ t \in Thread /\ t # s.run /\ t \notin ToSet(s.rdy)
           /\ s.rlnk[t] = o /\ s.state[t] \in ObjectWait
<1>1. t \in A /\ s.rlnk[t] = o /\ s.state[t] \in ObjectWait
  BY DEF Consistent, Listed
<1>2. s.state[s.run] \in {"READY", "RUNNING"}
  BY DEF Consistent, Listed
<1>3. t \notin ToSet(s.rdy)
  BY <1>1 DEF Consistent, Sound, ObjectWait
<1> QED BY <1>1, <1>2, <1>3 DEF ObjectWait

(***************************************************************************)
(* A thread that waits for o is taken off its list, and its timeout off    *)
(* the delay list: it is nowhere, and all others are where they were.      *)
(***************************************************************************)
Without(s, r, o, t) ==
    /\ r.run = s.run /\ r.rdy = s.rdy /\ r.prio = s.prio /\ r.state = s.state
    /\ ToSet(r.dly) \subseteq ToSet(s.dly) \ {t}
    /\ \A x \in Thread \ {t} : r.rlnk[x] = s.rlnk[x]
    /\ \A x \in Obj \ {o} : r.wait[x] = s.wait[x]
    /\ ToSet(r.wait[o]) = ToSet(s.wait[o]) \ {t}
    /\ Distinct(r.wait[o]) /\ Ordered(r.wait[o], s.prio)

LEMMA TakenOut ==
    ASSUME KernelAssumption, NEW s, NEW A \in SUBSET Thread, Consistent(s, A),
           NEW o \in Obj, NEW t \in ToSet(s.wait[o]), NEW r, Sound(r),
           Without(s, r, o, t)
    PROVE  Consistent(r, A \ {t}) /\ Leaves(s, r, t)
<1>1. Sound(s) /\ Listed(s, A) /\ Homed(s, A) /\ s.rlnk \in [Thread -> Obj \cup {None}]
  BY SoundFields DEF Consistent
<1>2. t \in A /\ t # s.run /\ t \notin ToSet(s.rdy) /\ s.rlnk[t] = o
  BY QueueApart
<1> USE DEF Without
<1>3. Homed(r, A \ {t}) /\ Leaves(s, r, t)
  <2>1. \A x \in Obj \ {o} : t \notin ToSet(s.wait[x])
    BY <1>1, <1>2 DEF Listed
  <2> QED BY <1>1, <2>1 DEF Homed, Leaves
<1>4. Listed(r, A \ {t})
  <2>1. ASSUME NEW x \in Obj
        PROVE  /\ Distinct(r.wait[x]) /\ Ordered(r.wait[x], r.prio)
               /\ \A y \in ToSet(r.wait[x]) :
                     y \in A \ {t} /\ r.rlnk[y] = x /\ r.state[y] \in ObjectWait
    <3>1. /\ Distinct(s.wait[x]) /\ Ordered(s.wait[x], s.prio)
          /\ \A y \in ToSet(s.wait[x]) :
                y \in A /\ s.rlnk[y] = x /\ s.state[y] \in ObjectWait
      BY <1>1 DEF Listed
    <3>2. ToSet(r.wait[x]) \subseteq ToSet(s.wait[x]) \ {t}
      BY <1>2, <3>1
    <3>3. Distinct(r.wait[x]) /\ Ordered(r.wait[x], r.prio)
      BY <3>1
    <3> QED BY <3>1, <3>2, <3>3
  <2>2. ASSUME NEW y \in A \ {t}
        PROVE  /\ r.rlnk[y] # None => y \in ToSet(r.wait[r.rlnk[y]])
               /\ r.state[y] \in ObjectWait => r.rlnk[y] # None
    <3>1. /\ s.rlnk[y] # None => s.rlnk[y] \in Obj /\ y \in ToSet(s.wait[s.rlnk[y]])
          /\ s.state[y] \in ObjectWait => s.rlnk[y] # None
      BY <1>1 DEF Listed
    <3> QED BY <3>1
  <2>3. /\ ToSet(r.rdy) \cup ToSet(r.dly) \cup {r.run} \subseteq A \ {t}
        /\ r.state[r.run] \in {"READY", "RUNNING"}
    BY <1>1, <1>2 DEF Listed
  <2> QED BY <2>1, <2>2, <2>3 DEF Listed
<1> QED BY <1>3, <1>4 DEF Consistent

(***************************************************************************)
(* rt_get_first on the list of an object and rt_rmv_dly: the thread is in  *)
(* no list, and all others are where they were.                            *)
(***************************************************************************)
\* The record r, without the first thread of the list of o.
Freed(s, r, o) ==
    /\ Sound(r) /\ (Due(s) => Due(r))
    /\ r.run = s.run /\ r.rdy = s.rdy /\ r.prio = s.prio /\ r.state = s.state
    /\ SameTable(s, r) /\ Shrinks(s, r)
    /\ r.rlnk = [s.rlnk EXCEPT ![Head(s.wait[o])] = None]
    /\ r.wait = [s.wait EXCEPT ![o] = Tail(@)]
    /\ ToSet(r.dly) \subseteq ToSet(s.dly) \ {Head(s.wait[o])}

LEMMA WokenFreed ==
    ASSUME KernelAssumption, NEW s, Sound(s), NEW o \in Obj, s.wait[o] # <<>>
    PROVE  Freed(s, Woken(s, o), o)
<1> DEFINE h == Head(s.wait[o])
           w == [s.wait EXCEPT ![o] = Tail(@)]
           l == [s.rlnk EXCEPT ![h] = None]
           u == [s EXCEPT !.wait = w, !.rlnk = l]
           r == RmvDly(u, h)
<1>1. /\ s \in KernelRecord /\ s.wait \in [Obj -> Seq(Thread)]
      /\ s.rlnk \in [Thread -> Obj \cup {None}] /\ s.wait[o] \in Seq(Thread)
  BY SoundFields, WaitFields
<1>2. h \in Thread /\ h \in ToSet(s.wait[o]) /\ Tail(s.wait[o]) \in Seq(Thread)
  BY <1>1 DEF ToSet
<1>3. /\ w \in [Obj -> Seq(Thread)] /\ l \in [Thread -> Obj \cup {None}]
      /\ w[o] = Tail(s.wait[o]) /\ \A x \in Obj : x # o => w[x] = s.wait[x]
  BY <1>1, <1>2
<1>4. GetWait(s, o) = u
  BY <1>1 DEF GetWait, KernelRecord
<1> HIDE DEF h
<1>5. /\ u \in KernelRecord /\ u.wait = w /\ u.rlnk = l /\ SameTable(s, u)
      /\ u.run = s.run /\ u.rdy = s.rdy /\ u.prio = s.prio /\ u.state = s.state
      /\ u.dly = s.dly /\ u.rem = s.rem
  <2> HIDE DEF w, l
  <2> QED BY <1>1, <1>3 DEF KernelRecord, SameTable
<1> HIDE DEF u
<1>6. Sound(u) /\ (Due(s) => Due(u))
  BY <1>5 DEF Sound, Due
<1>7. /\ Sound(r) /\ Frame(u, r) /\ r.run = u.run /\ r.prio = u.prio
      /\ r.state = u.state /\ r.rdy = u.rdy
      /\ ToSet(r.dly) = ToSet(u.dly) \ {h} /\ (Due(u) => Due(r))
  BY <1>2, <1>6, RmvDlySound
<1> HIDE DEF r
<1>8. ToSet(Tail(s.wait[o])) \subseteq ToSet(s.wait[o])
  <2>1. \A i \in DOMAIN Tail(s.wait[o]) : /\ i + 1 \in DOMAIN s.wait[o]
                                         /\ Tail(s.wait[o])[i] = s.wait[o][i + 1]
    BY <1>1
  <2> QED BY <2>1 DEF ToSet
<1>9. Shrinks(s, r)
  BY <1>3, <1>5, <1>7, <1>8 DEF Shrinks, Frame
<1>10. Freed(s, r, o)
  BY <1>5, <1>6, <1>7, <1>9 DEF Freed, Frame, SameTable, h
<1> QED BY <1>4, <1>10 DEF Woken, r, h

\* From s to r, the thread h is taken off the list of o, and is nowhere.
FirstTaken(s, r, o, h, A) ==
    /\ Consistent(r, A \ {h}) /\ Freed(s, r, o) /\ r.rlnk[h] = None
    /\ ToSet(Tail(s.wait[o])) = ToSet(s.wait[o]) \ {h}
    /\ h \in ToSet(s.wait[o]) /\ h \in A /\ h # s.run
    /\ h \notin ToSet(s.rdy) /\ h \notin ToSet(r.dly)
    /\ \A x \in ToSet(s.wait[o]) : s.prio[h] >= s.prio[x]

LEMMA WokenListed ==
    ASSUME KernelAssumption, NEW s, NEW A \in SUBSET Thread, Consistent(s, A),
           NEW o \in Obj, s.wait[o] # <<>>
    PROVE  FirstTaken(s, Woken(s, o), o, Head(s.wait[o]), A)
<1> DEFINE h == Head(s.wait[o])
           r == Woken(s, o)
<1>1. Sound(s) /\ Listed(s, A) /\ Homed(s, A)
  BY DEF Consistent
<1>2. Freed(s, r, o)
  BY <1>1, WokenFreed
<1> HIDE DEF r
<1>3. /\ s.wait \in [Obj -> Seq(Thread)] /\ s.wait[o] \in Seq(Thread)
      /\ s.prio \in [Thread -> Nat] /\ s.rlnk \in [Thread -> Obj \cup {None}]
  BY <1>1, SoundFields, WaitFields
<1>4. Distinct(s.wait[o]) /\ Ordered(s.wait[o], s.prio)
  BY <1>1 DEF Listed
<1>5. /\ h \in ToSet(s.wait[o]) /\ ToSet(Tail(s.wait[o])) = ToSet(s.wait[o]) \ {h}
      /\ Distinct(Tail(s.wait[o])) /\ Ordered(Tail(s.wait[o]), s.prio)
      /\ \A x \in ToSet(s.wait[o]) : s.prio[h] >= s.prio[x]
  BY <1>3, <1>4, TakeFirstCorrect
<1>6. /\ h \in A /\ h \in Thread /\ h # s.run /\ h \notin ToSet(s.rdy)
      /\ s.rlnk[h] = o
  BY <1>5, QueueApart
<1>7. /\ r.wait[o] = Tail(s.wait[o]) /\ \A x \in Obj : x # o => r.wait[x] = s.wait[x]
      /\ r.rlnk[h] = None /\ \A x \in Thread : x # h => r.rlnk[x] = s.rlnk[x]
  BY <1>2, <1>3, <1>6 DEF Freed
<1>8. Consistent(r, A \ {h})
  <2>1. Sound(r) /\ Without(s, r, o, h)
    BY <1>2, <1>5, <1>7 DEF Freed, Without
  <2> QED BY ONLY KernelAssumption, A \in SUBSET Thread, Consistent(s, A), o \in Obj,
             <1>5, <2>1, TakenOut
<1>9. FirstTaken(s, r, o, h, A)
  BY <1>2, <1>5, <1>6, <1>7, <1>8 DEF FirstTaken, Freed
<1> QED BY <1>9 DEF r, h

-----------------------------------------------------------------------------
\* A thread that is in no list becomes ready, or runs at once.
LEMMA PutRdyJoins ==
    ASSUME KernelAssumption, NEW s, NEW A \in SUBSET Thread, NEW t \in A,
           Consistent(s, A \ {t}), s.rlnk[t] = None
    PROVE  /\ Consistent(PutRdy(s, t), A) /\ Frame(s, PutRdy(s, t))
           /\ PutRdy(s, t).prio = s.prio /\ PutRdy(s, t).run = s.run
           /\ ToSet(PutRdy(s, t).rdy) = ToSet(s.rdy) \cup {t}
           /\ PutRdy(s, t).state = [s.state EXCEPT ![t] = "READY"]
           /\ Due(s) => Due(PutRdy(s, t))
<1> DEFINE r == PutRdy(s, t)
<1>1. /\ Sound(s) /\ Listed(s, A \ {t}) /\ Homed(s, A \ {t}) /\ t \in Thread
      /\ t \notin ToSet(s.rdy) /\ t \notin ToSet(s.dly) /\ s.run # t
      /\ s.state[s.run] \in {"READY", "RUNNING"}
  BY DEF Consistent, Listed
<1>2. /\ Sound(r) /\ Frame(s, r) /\ SameDelay(s, r) /\ r.run = s.run /\ r.prio = s.prio
      /\ r.state = [s.state EXCEPT ![t] = "READY"]
      /\ ToSet(r.rdy) = ToSet(s.rdy) \cup {t}
  BY <1>1, PutRdySound
<1>3. Homed(r, A) /\ Moves(s, r, {t})
  BY <1>1, PutRdyMoves
<1> HIDE DEF r
<1>4. r.state[t] = "READY" /\ r.state[r.run] = s.state[s.run]
  BY <1>1, <1>2, SoundFields
<1>5. Listed(r, A)
  <2> DEFINE B == A \ {t}
             W == {t}
  <2>1. /\ B \in SUBSET A /\ W \in SUBSET A /\ A \subseteq B \cup W
        /\ Listed(s, B) /\ Moves(s, r, W)
    BY <1>1, <1>3
  <2>2. /\ r.wait = s.wait /\ r.rlnk = s.rlnk /\ r.prio = s.prio
        /\ ToSet(r.dly) \subseteq ToSet(s.dly) \cup W
        /\ r.state[r.run] \in {"READY", "RUNNING"}
        /\ \A x \in W : s.rlnk[x] = None /\ r.state[x] \notin ObjectWait
    BY <1>1, <1>2, <1>4 DEF Frame, SameDelay, ObjectWait
  <2> HIDE DEF B, W
  <2> QED BY ONLY KernelAssumption, A \in SUBSET Thread,
           <1>1, <1>2, <2>1, <2>2, MovedListed, ZenonT(30)
<1>6. Due(s) => Due(r)
  BY <1>2 DEF Due, SameDelay
<1> QED BY <1>2, <1>3, <1>5, <1>6 DEF Consistent, r

LEMMA DispatchJoins ==
    ASSUME KernelAssumption, NEW s, NEW A \in SUBSET Thread, NEW t \in A,
           Consistent(s, A \ {t}), s.rlnk[t] = None, Running(s)
    PROVE  /\ Consistent(Dispatch(s, t), A) /\ Running(Dispatch(s, t))
           /\ Frame(s, Dispatch(s, t)) /\ Dispatch(s, t).prio = s.prio
           /\ Due(s) => Due(Dispatch(s, t))
<1> DEFINE r == Dispatch(s, t)
<1>1. /\ Sound(s) /\ Listed(s, A \ {t}) /\ Homed(s, A \ {t}) /\ t \in Thread
      /\ t \notin ToSet(s.rdy) /\ t \notin ToSet(s.dly) /\ s.run # t
      /\ s.state[s.run] = "RUNNING" /\ Idle \in ToSet(s.rdy) \cup {s.run, t}
      /\ \A x \in ToSet(s.rdy) : s.prio[s.run] >= s.prio[x]
  BY DEF Consistent, Listed, Running
<1>2. Sound(r) /\ Running(r) /\ Frame(s, r) /\ SameDelay(s, r)
  BY <1>1, DispatchSound
<1>3. /\ Homed(r, A) /\ Moves(s, r, {t}) /\ r.prio = s.prio
      /\ r.state[t] \notin WaitState
  BY <1>1, DispatchMoves
<1> HIDE DEF r
<1>4. Listed(r, A)
  <2> DEFINE B == A \ {t}
             W == {t}
  <2>1. /\ B \in SUBSET A /\ W \in SUBSET A /\ A \subseteq B \cup W
        /\ Listed(s, B) /\ Moves(s, r, W)
    BY <1>1, <1>3
  <2>2. /\ r.wait = s.wait /\ r.rlnk = s.rlnk /\ r.prio = s.prio
        /\ ToSet(r.dly) \subseteq ToSet(s.dly) \cup W
        /\ r.state[r.run] \in {"READY", "RUNNING"}
        /\ \A x \in W : s.rlnk[x] = None /\ r.state[x] \notin ObjectWait
    BY <1>1, <1>2, <1>3 DEF Frame, SameDelay, ObjectWait, WaitState, Running
  <2> HIDE DEF B, W
  <2> QED BY ONLY KernelAssumption, A \in SUBSET Thread, <1>1, <1>2, <2>1, <2>2, MovedListed
<1>5. Due(s) => Due(r)
  BY <1>2 DEF Due, SameDelay
<1> QED BY <1>2, <1>3, <1>4, <1>5 DEF Consistent, r

(***************************************************************************)
(* The running thread waits: for the time alone, or in the list of o.      *)
(***************************************************************************)
LEMMA DelayListed ==
    ASSUME KernelAssumption, NEW s, NEW A \in SUBSET Thread, Consistent(s, A),
           Running(s), Due(s), s.run # Idle, NEW n \in 0 .. Forever
    PROVE  /\ Consistent(Block(s, n, "WAIT_DLY"), A) /\ Running(Block(s, n, "WAIT_DLY"))
           /\ Due(Block(s, n, "WAIT_DLY")) /\ Frame(s, Block(s, n, "WAIT_DLY"))
           /\ Block(s, n, "WAIT_DLY").prio = s.prio
<1> DEFINE b == "WAIT_DLY"
           r == Block(s, n, b)
<1>1. /\ Sound(s) /\ Listed(s, A) /\ Homed(s, A) /\ b \in WaitState
      /\ s.run \in A /\ s.run \in Thread /\ s.state[s.run] = "RUNNING"
  BY DEF Consistent, Listed, Running, WaitState
<1>2. b \notin ObjectWait
  BY DEF ObjectWait
<1> HIDE DEF b
<1>3. Sound(r) /\ Running(r) /\ Frame(s, r) /\ Due(r)
  BY <1>1, BlockSound
<1>4. Homed(r, A) /\ Moves(s, r, {s.run}) /\ Blocked(s, r, n, b)
  BY <1>1, BlockMoves
<1> HIDE DEF r
<1>5. s.rlnk[s.run] = None
  <2>1. s.rlnk[s.run] # None => s.run \in ToSet(s.wait[s.rlnk[s.run]]) /\ s.rlnk[s.run] \in Obj
    BY <1>1, SoundFields DEF Listed
  <2> QED BY <1>1, <2>1 DEF Listed, ObjectWait
<1>6. r.state[s.run] \notin ObjectWait
  BY <1>1, <1>2, <1>4 DEF Blocked, ObjectWait
<1>7. Listed(r, A)
  <2> DEFINE W == {s.run}
  <2>1. /\ W \in SUBSET A /\ A \subseteq A \cup W /\ Moves(s, r, W)
        /\ ToSet(r.dly) \subseteq ToSet(s.dly) \cup W
        /\ \A x \in W : s.rlnk[x] = None /\ r.state[x] \notin ObjectWait
    BY <1>1, <1>4, <1>5, <1>6 DEF Blocked
  <2>2. /\ r.wait = s.wait /\ r.rlnk = s.rlnk /\ r.prio = s.prio
        /\ r.state[r.run] \in {"READY", "RUNNING"}
    BY <1>3, <1>4 DEF Frame, Blocked, Running
  <2> HIDE DEF W
  <2> QED BY ONLY KernelAssumption, A \in SUBSET Thread, <1>1, <1>3, <2>1, <2>2, MovedListed
<1> QED BY <1>3, <1>4, <1>7 DEF Consistent, Blocked, r, b

\* From s to r the thread t joins the list of o, and nobody joins another.
Joins(s, r, o, t) ==
    /\ ToSet(r.wait[o]) = ToSet(s.wait[o]) \cup {t}
    /\ \A x \in Obj \ {o} : r.wait[x] = s.wait[x]

LEMMA WaitForListed ==
    ASSUME KernelAssumption, NEW s, NEW A \in SUBSET Thread, Consistent(s, A),
           Running(s), Due(s), s.run # Idle, NEW o \in Obj,
           NEW n \in 1 .. Forever, NEW b \in ObjectWait
    PROVE  /\ Consistent(WaitFor(s, o, n, b), A) /\ Running(WaitFor(s, o, n, b))
           /\ Due(WaitFor(s, o, n, b)) /\ SameTable(s, WaitFor(s, o, n, b))
           /\ WaitFor(s, o, n, b).prio = s.prio
           /\ Joins(s, WaitFor(s, o, n, b), o, s.run)
<1> DEFINE t == s.run
           q == PutPrio(s.wait[o], t, s.prio)
           w == [s.wait EXCEPT ![o] = q]
           l == [s.rlnk EXCEPT ![t] = o]
           u == [s EXCEPT !.wait = w, !.rlnk = l]
           r == Block(u, n, b)
<1>1. /\ Sound(s) /\ Listed(s, A) /\ Homed(s, A) /\ b \in WaitState
      /\ t \in A /\ t \in Thread /\ s.state[t] = "RUNNING" /\ n \in 0 .. Forever /\ n # 0
  BY KernelAssumption DEF Consistent, Listed, Running, WaitState, ObjectWait, KernelAssumption
<1>2. /\ s \in KernelRecord /\ s.wait \in [Obj -> Seq(Thread)] /\ s.wait[o] \in Seq(Thread)
      /\ s.rlnk \in [Thread -> Obj \cup {None}] /\ s.prio \in [Thread -> Nat]
  BY <1>1, SoundFields, WaitFields
<1>3. t \notin ToSet(s.wait[o]) /\ Distinct(s.wait[o]) /\ Ordered(s.wait[o], s.prio)
  BY <1>1 DEF Listed, ObjectWait
<1>4. /\ q \in Seq(Thread) /\ ToSet(q) = ToSet(s.wait[o]) \cup {t}
      /\ Ordered(q, s.prio) /\ Distinct(q)
  <2> HIDE DEF t
  <2> QED BY ONLY <1>1, <1>2, <1>3, PutPrioCorrect
<1>5. PutWait(s, o, t) = u
  BY <1>2 DEF PutWait, KernelRecord
<1> HIDE DEF q
<1>6. /\ w \in [Obj -> Seq(Thread)] /\ l \in [Thread -> Obj \cup {None}]
      /\ w[o] = q /\ \A x \in Obj : x # o => w[x] = s.wait[x]
      /\ l[t] = o /\ \A x \in Thread : x # t => l[x] = s.rlnk[x]
  BY <1>1, <1>2, <1>4
<1> HIDE DEF t
<1>7. /\ u \in KernelRecord /\ u.wait = w /\ u.rlnk = l /\ SameTable(s, u)
      /\ u.run = s.run /\ u.rdy = s.rdy /\ u.prio = s.prio /\ u.state = s.state
      /\ u.dly = s.dly /\ u.rem = s.rem
  <2> HIDE DEF w, l
  <2> QED BY <1>2, <1>6 DEF KernelRecord, SameTable
<1> HIDE DEF u, w, l
<1>8. Sound(u) /\ Running(u) /\ Due(u) /\ Homed(u, A) /\ u.run # Idle
  BY <1>1, <1>7 DEF Sound, Running, Due, Homed
<1>9. Sound(r) /\ Running(r) /\ Frame(u, r) /\ Due(r)
  BY <1>1, <1>8, BlockSound
<1>10. Homed(r, A) /\ Moves(u, r, {u.run}) /\ Blocked(u, r, n, b)
  BY <1>1, <1>8, BlockMoves
<1> HIDE DEF r
<1>11. /\ r.wait = w /\ r.rlnk = l /\ r.prio = s.prio /\ SameTable(s, r)
       /\ r.state[t] = b /\ Moves(s, r, {t})
       /\ ToSet(r.dly) \subseteq ToSet(s.dly) \cup {t}
  BY <1>1, <1>7, <1>9, <1>10 DEF Frame, Blocked, SameTable, Moves, t
<1>12. Listed(r, A)
  <2>1. ASSUME NEW x \in Obj
        PROVE  /\ Distinct(r.wait[x]) /\ Ordered(r.wait[x], r.prio)
               /\ \A y \in ToSet(r.wait[x]) :
                     y \in A /\ r.rlnk[y] = x /\ r.state[y] \in ObjectWait
    <3>1. /\ Distinct(s.wait[x]) /\ Ordered(s.wait[x], s.prio)
          /\ \A y \in ToSet(s.wait[x]) :
                y \in A /\ s.rlnk[y] = x /\ s.state[y] \in ObjectWait
      BY <1>1 DEF Listed
    <3>2. \A y \in ToSet(s.wait[x]) : y # t /\ r.state[y] = s.state[y]
      BY <1>1, <1>11, <3>1 DEF Moves, ObjectWait, WaitState
    <3>3. \A y \in ToSet(s.wait[x]) :
             y \in A /\ r.rlnk[y] = x /\ r.state[y] \in ObjectWait
      BY <1>6, <1>11, <3>1, <3>2
    <3>4. CASE x = o
      BY <1>1, <1>4, <1>6, <1>11, <3>3, <3>4
    <3>5. CASE x # o
      BY <1>6, <1>11, <3>1, <3>3, <3>5
    <3> QED BY <3>4, <3>5
  <2>2. ASSUME NEW y \in A
        PROVE  /\ r.rlnk[y] # None => y \in ToSet(r.wait[r.rlnk[y]])
               /\ r.state[y] \in ObjectWait => r.rlnk[y] # None
    <3>1. CASE y = t
      BY <1>4, <1>6, <1>11, <3>1, KernelAssumption DEF KernelAssumption
    <3>2. CASE y # t
      <4>1. r.rlnk[y] = s.rlnk[y]
        BY <1>6, <1>11, <3>2
      <4>2. r.state[y] \in ObjectWait => s.state[y] \in ObjectWait
        BY <1>11, <3>2 DEF Moves, ObjectWait, WaitState
      <4>3. s.rlnk[y] # None => s.rlnk[y] \in Obj /\ y \in ToSet(s.wait[s.rlnk[y]])
        BY <1>1, <1>2 DEF Listed
      <4>4. \A x \in Obj : ToSet(s.wait[x]) \subseteq ToSet(w[x])
        BY <1>4, <1>6
      <4> QED BY <1>1, <1>11, <4>1, <4>2, <4>3, <4>4 DEF Listed
    <3> QED BY <3>1, <3>2
  <2>3. ToSet(r.rdy) \cup ToSet(r.dly) \cup {r.run} \subseteq A
    BY <1>1, <1>11 DEF Moves, Listed, t
  <2>4. r.state[r.run] \in {"READY", "RUNNING"}
    BY <1>9 DEF Running
  <2> QED BY <2>1, <2>2, <2>3, <2>4 DEF Listed
<1>13. Joins(s, r, o, t)
  BY <1>4, <1>6, <1>11 DEF Joins
<1>14. WaitFor(s, o, n, b) = r
  BY <1>5 DEF WaitFor, r, t
<1> HIDE DEF Block
<1> QED BY <1>9, <1>10, <1>11, <1>12, <1>13, <1>14 DEF Consistent, t

-----------------------------------------------------------------------------
(***************************************************************************)
(* The priority of t changes, and its place in the list it is in.          *)
(***************************************************************************)
\* From s to r only the priority of t and the order of its list change.
Reordered(s, r, t, p) ==
    /\ r.run = s.run /\ r.state = s.state /\ r.rlnk = s.rlnk /\ SameTable(s, r)
    /\ r.dly = s.dly /\ r.rem = s.rem
    /\ r.prio = [s.prio EXCEPT ![t] = p]
    /\ ToSet(r.rdy) = ToSet(s.rdy)
    /\ \A o \in Obj : ToSet(r.wait[o]) = ToSet(s.wait[o])

LEMMA ReprioWaiting ==
    ASSUME KernelAssumption, NEW s, NEW A \in SUBSET Thread, Consistent(s, A),
           NEW t \in A, s.rlnk[t] # None, NEW p \in 0 .. MaxPrio
    PROVE  /\ Consistent(Reprio(s, t, p), A) /\ Reordered(s, Reprio(s, t, p), t, p)
           /\ t # s.run /\ t \notin ToSet(s.rdy) /\ s.state[t] \in ObjectWait
<1> DEFINE o == s.rlnk[t]
           f == [s.prio EXCEPT ![t] = p]
           q == Unlink(s.wait[o], t)
           v == PutPrio(q, t, f)
           w == [s.wait EXCEPT ![o] = v]
           r == [s EXCEPT !.prio = f, !.wait = w]
<1>1. /\ Sound(s) /\ Listed(s, A) /\ Homed(s, A)
      /\ s \in KernelRecord /\ s.wait \in [Obj -> Seq(Thread)]
      /\ s.prio \in [Thread -> 0 .. MaxPrio] /\ s.prio \in [Thread -> Nat]
      /\ s.rlnk \in [Thread -> Obj \cup {None}]
      /\ s.rdy \in Seq(Thread) /\ s.dly \in Seq(Thread) /\ t \in Thread
      /\ MaxPrio \in Nat
  BY SoundFields, WaitFields, KernelAssumption DEF Consistent, KernelAssumption
<1>2. o \in Obj /\ t \in ToSet(s.wait[o]) /\ s.wait[o] \in Seq(Thread)
  BY <1>1 DEF Listed
<1>3. t # s.run /\ t \notin ToSet(s.rdy) /\ s.state[t] \in ObjectWait
  BY <1>2, QueueApart
<1> HIDE DEF o
<1>4. /\ f \in [Thread -> 0 .. MaxPrio] /\ f \in [Thread -> Nat]
      /\ f[t] = p /\ \A x \in Thread : x # t => f[x] = s.prio[x]
  BY <1>1
<1> HIDE DEF f
<1>5. Distinct(s.wait[o]) /\ Ordered(s.wait[o], s.prio)
  BY <1>1, <1>2 DEF Listed
<1>6. /\ q \in Seq(Thread) /\ ToSet(q) = ToSet(s.wait[o]) \ {t} /\ Distinct(q)
      /\ Ordered(q, s.prio)
  BY ONLY <1>1, <1>2, <1>5, UnlinkCorrect
<1> HIDE DEF q
<1>7. Ordered(q, f)
  <2>1. \A x \in ToSet(q) : x \in Thread /\ f[x] = s.prio[x]
    BY <1>4, <1>6, MembersOf
  <2> QED BY <1>1, <1>4, <1>6, <2>1, OrderedSame
<1>8. /\ v \in Seq(Thread) /\ ToSet(v) = ToSet(s.wait[o])
      /\ Ordered(v, f) /\ Distinct(v)
  <2>1. t \notin ToSet(q) /\ ToSet(q) \cup {t} = ToSet(s.wait[o])
    BY <1>2, <1>6
  <2>2. /\ v \in Seq(Thread) /\ ToSet(v) = ToSet(q) \cup {t}
        /\ Ordered(v, f) /\ Distinct(v)
    BY ONLY <1>1, <1>4, <1>6, <1>7, <2>1, PutPrioCorrect
  <2> QED BY <2>1, <2>2
<1>9. Reprio(s, t, p) = r
  BY <1>1, <1>2 DEF Reprio, ResortPrio, KernelRecord, o, f, q
<1> HIDE DEF v
<1>10. w \in [Obj -> Seq(Thread)] /\ w[o] = v /\ \A x \in Obj : x # o => w[x] = s.wait[x]
  BY <1>1, <1>2, <1>8
<1> HIDE DEF w
<1>11. /\ r \in KernelRecord /\ r.run = s.run /\ r.rdy = s.rdy /\ r.dly = s.dly
       /\ r.rem = s.rem /\ r.state = s.state /\ r.rlnk = s.rlnk /\ SameTable(s, r)
       /\ r.prio = f /\ r.wait = w
  BY <1>1, <1>4, <1>10 DEF KernelRecord, SameTable
<1> HIDE DEF r
<1>12. Sound(r)
  <2>1. Ordered(s.rdy, f)
    <3>1. \A x \in ToSet(s.rdy) : s.prio[x] = f[x]
      BY <1>1, <1>3, <1>4, MembersOf
    <3>2. Ordered(s.rdy, s.prio)
      BY <1>1 DEF Sound
    <3> QED BY ONLY <1>1, <1>4, <3>1, <3>2, OrderedSame
  <2> QED BY <1>1, <1>11, <2>1 DEF Sound
<1>13. Homed(r, A)
  BY <1>1, <1>11 DEF Homed
<1>14. \A x \in Obj : ToSet(r.wait[x]) = ToSet(s.wait[x])
  BY <1>8, <1>10, <1>11
<1>15. Listed(r, A)
  <2>1. ASSUME NEW x \in Obj
        PROVE  Distinct(r.wait[x]) /\ Ordered(r.wait[x], r.prio)
    <3>1. CASE x = o
      BY <1>8, <1>10, <1>11, <3>1
    <3>2. CASE x # o
      <4>1. /\ Distinct(s.wait[x]) /\ Ordered(s.wait[x], s.prio)
            /\ \A y \in ToSet(s.wait[x]) : s.rlnk[y] = x /\ y \in A
        BY <1>1 DEF Listed
      <4>2. \A y \in ToSet(s.wait[x]) : s.prio[y] = f[y]
        BY <1>4, <3>2, <4>1 DEF o
      <4>3. s.wait[x] \in Seq(Thread)
        BY <1>1
      <4>4. Ordered(s.wait[x], f)
        BY ONLY <1>1, <1>4, <4>1, <4>2, <4>3, OrderedSame, ZenonT(30)
      <4> QED BY <1>10, <1>11, <3>2, <4>1, <4>4
    <3> QED BY <3>1, <3>2
  <2>2. \A x \in Obj : \A y \in ToSet(r.wait[x]) :
           y \in A /\ r.rlnk[y] = x /\ r.state[y] \in ObjectWait
    BY <1>1, <1>11, <1>14 DEF Listed
  <2>3. ASSUME NEW y \in A
        PROVE  /\ r.rlnk[y] # None => y \in ToSet(r.wait[r.rlnk[y]])
               /\ r.state[y] \in ObjectWait => r.rlnk[y] # None
    BY <1>1, <1>11, <1>14 DEF Listed
  <2>4. /\ ToSet(r.rdy) \cup ToSet(r.dly) \cup {r.run} \subseteq A
        /\ r.state[r.run] \in {"READY", "RUNNING"}
    BY <1>1, <1>11 DEF Listed
  <2> QED BY <2>1, <2>2, <2>3, <2>4 DEF Listed
<1>16. Reordered(s, r, t, p)
  BY <1>11, <1>14 DEF Reordered, f
<1> QED BY <1>3, <1>9, <1>12, <1>13, <1>15, <1>16 DEF Consistent

LEMMA ReprioListed ==
    ASSUME KernelAssumption, NEW s, NEW A \in SUBSET Thread, Consistent(s, A),
           NEW t \in A, NEW p \in 0 .. MaxPrio
    PROVE  Consistent(Reprio(s, t, p), A) /\ Reordered(s, Reprio(s, t, p), t, p)
<1>1. CASE s.rlnk[t] # None
  BY <1>1, ReprioWaiting
<1>2. CASE s.rlnk[t] = None
  <2> DEFINE r == Reprio(s, t, p)
  <2>1. Sound(s) /\ Listed(s, A) /\ Homed(s, A) /\ t \in Thread
    BY DEF Consistent
  <2>2. /\ Sound(r) /\ Frame(s, r) /\ SameDelay(s, r)
        /\ r.run = s.run /\ r.state = s.state
        /\ r.prio = [s.prio EXCEPT ![t] = p]
        /\ ToSet(r.rdy) = IF s.state[t] = "READY" THEN ToSet(s.rdy) \cup {t}
                          ELSE ToSet(s.rdy)
    BY <1>2, <2>1, ReprioSound
  <2> HIDE DEF r
  <2>3. s.state[t] = "READY" => t \in ToSet(s.rdy)
    BY <2>1 DEF Homed
  <2>4. ToSet(r.rdy) = ToSet(s.rdy)
    BY <2>2, <2>3
  <2>5. Reordered(s, r, t, p)
    BY <2>2, <2>4 DEF Reordered, Frame, SameDelay, SameTable
  <2>6. Homed(r, A)
    BY <2>1, <2>2, <2>4 DEF Homed
  <2>7. Listed(r, A)
    <3>1. \A o \in Obj : \A x \in ToSet(s.wait[o]) : r.prio[x] = s.prio[x]
      <4>1. \A x \in Thread : x # t => r.prio[x] = s.prio[x]
        BY <2>1, <2>2, SoundFields
      <4>2. \A o \in Obj : \A x \in ToSet(s.wait[o]) : x # t /\ x \in Thread
        BY <1>2, <2>1, KernelAssumption DEF Listed, KernelAssumption
      <4> QED BY <4>1, <4>2
    <3> DEFINE W == {}
    <3>2. /\ W \in SUBSET A /\ A \subseteq A \cup W /\ Moves(s, r, W)
          /\ ToSet(r.dly) \subseteq ToSet(s.dly) \cup W
          /\ \A x \in W : s.rlnk[x] = None /\ r.state[x] \notin ObjectWait
          /\ r.wait = s.wait /\ r.rlnk = s.rlnk
          /\ r.state[r.run] \in {"READY", "RUNNING"}
      BY <2>1, <2>2, <2>4 DEF Moves, Frame, SameDelay, Listed
    <3> HIDE DEF W
    <3> QED BY ONLY KernelAssumption, A \in SUBSET Thread,
             <2>1, <2>2, <3>1, <3>2, MovedListed, ZenonT(30)
  <2> QED BY <2>2, <2>5, <2>6, <2>7 DEF Consistent, r
<1> QED BY <1>1, <1>2

-----------------------------------------------------------------------------
(***************************************************************************)
(* What moves threads between the processor, the ready list and the delay  *)
(* list leaves the lists of the objects alone.                             *)
(***************************************************************************)
LEMMA FramedListed ==
    ASSUME KernelAssumption, NEW s, NEW A \in SUBSET Thread, Consistent(s, A),
           NEW r, Sound(r), Homed(r, A), Moves(s, r, {}), Frame(s, r), r.prio = s.prio,
           ToSet(r.dly) \subseteq ToSet(s.dly), r.state[r.run] \in {"READY", "RUNNING"}
    PROVE  Consistent(r, A) /\ SameTable(s, r) /\ SameWaiters(s, r)
<1> DEFINE W == {}
<1>1. /\ Sound(s) /\ Listed(s, A) /\ W \in SUBSET A /\ A \subseteq A \cup W /\ Moves(s, r, W)
      /\ ToSet(r.dly) \subseteq ToSet(s.dly) \cup W
      /\ \A x \in W : s.rlnk[x] = None /\ r.state[x] \notin ObjectWait
      /\ r.wait = s.wait /\ r.rlnk = s.rlnk
      /\ \A o \in Obj : \A x \in ToSet(s.wait[o]) : r.prio[x] = s.prio[x]
  BY DEF Frame, Consistent
<1> HIDE DEF W
<1>2. Listed(r, A)
  BY ONLY KernelAssumption, A \in SUBSET Thread, Sound(r), <1>1,
          r.state[r.run] \in {"READY", "RUNNING"}, MovedListed
<1> QED BY <1>2 DEF Consistent, SameTable, SameWaiters, Frame

LEMMA PassListed ==
    ASSUME KernelAssumption, NEW s, NEW A \in SUBSET Thread, Consistent(s, A),
           Running(s), s.run # Idle
    PROVE  /\ Consistent(TskPass(s), A) /\ Running(TskPass(s)) /\ SameTable(s, TskPass(s))
           /\ SameWaiters(s, TskPass(s)) /\ TskPass(s).prio = s.prio
           /\ Due(s) => Due(TskPass(s))
<1> DEFINE r == TskPass(s)
<1>1. Sound(s) /\ Homed(s, A)
  BY DEF Consistent
<1>2. /\ Sound(r) /\ Running(r) /\ Frame(s, r) /\ SameDelay(s, r)
      /\ Homed(r, A) /\ Moves(s, r, {}) /\ r.prio = s.prio
  BY <1>1, TskPassSound, TskPassMoves
<1> HIDE DEF r
<1>3. ToSet(r.dly) \subseteq ToSet(s.dly) /\ r.state[r.run] \in {"READY", "RUNNING"}
  BY <1>2 DEF SameDelay, Running
<1>4. Consistent(r, A) /\ SameTable(s, r) /\ SameWaiters(s, r)
  BY <1>2, <1>3, FramedListed
<1>5. Due(s) => Due(r)
  BY <1>2 DEF Due, SameDelay
<1> QED BY <1>2, <1>4, <1>5 DEF r

\* A thread has the processor, but may have lost its right to it.
Preemptible(s) == s.state[s.run] = "RUNNING" /\ Idle \in ToSet(s.rdy) \cup {s.run}

LEMMA PreemptedListed ==
    ASSUME KernelAssumption, NEW s, NEW A \in SUBSET Thread, Consistent(s, A),
           Preemptible(s)
    PROVE  /\ Consistent(Preempted(s), A) /\ Running(Preempted(s))
           /\ SameTable(s, Preempted(s)) /\ SameWaiters(s, Preempted(s))
           /\ Preempted(s).prio = s.prio
           /\ Due(s) => Due(Preempted(s))
<1>1. Sound(s) /\ Homed(s, A) /\ s.rdy \in Seq(Thread) /\ s.prio \in [Thread -> Nat]
  BY SoundFields DEF Consistent
<1>2. CASE RdyPrio(s) > s.prio[s.run]
  <2> DEFINE r == StepBack(s)
  <2>1. /\ Sound(r) /\ Running(r) /\ Frame(s, r) /\ SameDelay(s, r)
        /\ Homed(r, A) /\ Moves(s, r, {}) /\ r.prio = s.prio
    BY <1>1, StepBackSound, StepBackMoves DEF Preemptible
  <2> HIDE DEF r
  <2>2. ToSet(r.dly) \subseteq ToSet(s.dly) /\ r.state[r.run] \in {"READY", "RUNNING"}
    BY <2>1 DEF SameDelay, Running
  <2>3. Consistent(r, A) /\ SameTable(s, r) /\ SameWaiters(s, r)
    BY <2>1, <2>2, FramedListed
  <2>4. Due(s) => Due(r)
    BY <2>1 DEF Due, SameDelay
  <2> QED BY <1>2, <2>1, <2>3, <2>4 DEF r, Preempted
<1>3. CASE ~(RdyPrio(s) > s.prio[s.run])
  <2>1. Preempted(s) = s
    BY <1>3 DEF Preempted
  <2>2. \A x \in ToSet(s.rdy) : s.prio[s.run] >= s.prio[x]
    <3>1. CASE s.rdy = <<>>
      BY <3>1 DEF ToSet
    <3>2. CASE s.rdy # <<>>
      <4>1. Ordered(s.rdy, s.prio)
        BY <1>1 DEF Sound
      <4>2. /\ Head(s.rdy) \in Thread
            /\ \A x \in ToSet(s.rdy) : s.prio[Head(s.rdy)] >= s.prio[x]
        BY <1>1, <3>2, <4>1, TakeFirstCorrect
      <4>3. s.run \in Thread /\ ToSet(s.rdy) \subseteq Thread
        BY <1>1, SoundFields
      <4> QED BY <1>1, <1>3, <4>2, <4>3 DEF RdyPrio
    <3> QED BY <3>1, <3>2
  <2>3. Running(s)
    BY <2>2 DEF Running, Preemptible
  <2> QED BY <2>1, <2>3 DEF SameTable, SameWaiters
<1> QED BY <1>2, <1>3

(***************************************************************************)
(* rt_tsk_prio, whatever the thread is doing.                              *)
(***************************************************************************)
LEMMA PrioListed ==
    ASSUME KernelAssumption, NEW s, NEW A \in SUBSET Thread, Consistent(s, A),
           Running(s), s.run # Idle, NEW id \in 1 .. MaxTaskRun,
           s.active[id] \in A, NEW p \in 0 .. MaxPrio
    PROVE  /\ Consistent(TskPrio(s, id, p), A) /\ Running(TskPrio(s, id, p))
           /\ SameTable(s, TskPrio(s, id, p)) /\ SameWaiters(s, TskPrio(s, id, p))
           /\ Due(s) => Due(TskPrio(s, id, p))
<1> DEFINE t == s.active[id]
           r == TskPrio(s, id, p)
<1>1. Sound(s) /\ Homed(s, A) /\ Listed(s, A) /\ t \in A /\ t \in Thread /\ t # None
  BY KernelAssumption DEF Consistent, KernelAssumption
<1>2. CASE s.rlnk[t] # None
  <2> DEFINE u == Reprio(s, t, p)
  <2>1. /\ Consistent(u, A) /\ Reordered(s, u, t, p)
        /\ t # s.run /\ t \notin ToSet(s.rdy) /\ s.state[t] \in ObjectWait
    BY <1>1, <1>2, ReprioWaiting
  <2>2. r = u
    <3>1. u.state[t] # "READY"
      BY <2>1 DEF Reordered, ObjectWait
    <3> QED BY <1>1, <2>1, <3>1 DEF TskPrio, Reprio
  <2> HIDE DEF u, r, t
  <2>3. Running(u)
    <3>1. \A x \in Thread : x # t => u.prio[x] = s.prio[x]
      BY <1>1, <2>1, SoundFields DEF Reordered
    <3>2. s.run \in Thread /\ ToSet(s.rdy) \subseteq Thread
      BY <1>1, SoundFields
    <3> QED BY <2>1, <3>1, <3>2 DEF Running, Reordered
  <2> QED BY <2>1, <2>2, <2>3 DEF Reordered, SameTable, SameWaiters, Due, r
<1>3. CASE s.rlnk[t] = None
  <2>1. Sound(r) /\ Running(r) /\ Frame(s, r) /\ SameDelay(s, r)
    BY <1>1, <1>3, TskPrioSound
  <2>2. /\ Homed(r, A) /\ Moves(s, r, {})
        /\ r.prio = IF t \in Thread THEN [s.prio EXCEPT ![t] = p] ELSE s.prio
    <3>1. /\ s.active[id] \in Thread => s.rlnk[s.active[id]] = None
          /\ s.active[id] \in Thread => s.active[id] \in A
      BY <1>1, <1>3
    <3> QED BY ONLY KernelAssumption, <1>1, <3>1, Running(s), s.run # Idle,
                    id \in 1 .. MaxTaskRun, p \in 0 .. MaxPrio,
                    A \in SUBSET Thread, TskPrioMoves
  <2> HIDE DEF r, t
  <2>3. \A o \in Obj : \A x \in ToSet(s.wait[o]) : r.prio[x] = s.prio[x]
    <3>1. \A x \in Thread : x # t => r.prio[x] = s.prio[x]
      BY <1>1, <2>2, SoundFields
    <3>2. \A o \in Obj : \A x \in ToSet(s.wait[o]) : x # t /\ x \in Thread
      BY <1>1, <1>3, KernelAssumption DEF Listed, KernelAssumption
    <3> QED BY <3>1, <3>2
  <2> DEFINE W == {}
  <2>4. /\ W \in SUBSET A /\ A \subseteq A \cup W /\ Moves(s, r, W)
        /\ ToSet(r.dly) \subseteq ToSet(s.dly) \cup W
        /\ \A x \in W : s.rlnk[x] = None /\ r.state[x] \notin ObjectWait
        /\ r.wait = s.wait /\ r.rlnk = s.rlnk
        /\ r.state[r.run] \in {"READY", "RUNNING"}
    BY <2>1, <2>2 DEF Frame, SameDelay, Running
  <2> HIDE DEF W
  <2>5. Listed(r, A)
    BY ONLY KernelAssumption, A \in SUBSET Thread, <1>1, <2>1, <2>3, <2>4, MovedListed
  <2> QED BY <2>1, <2>2, <2>5 DEF Consistent, Frame, SameDelay, SameTable, SameWaiters, Due, r
<1> QED BY <1>2, <1>3

-----------------------------------------------------------------------------
(***************************************************************************)
(* rt_tsk_delete: the thread that ends is in no list.                      *)
(***************************************************************************)
LEMMA LeavesListed ==
    ASSUME NEW s, NEW A, Listed(s, A), NEW t,
           t \notin ToSet(s.rdy) \cup ToSet(s.dly) \cup {s.run},
           \A o \in Obj : t \notin ToSet(s.wait[o])
    PROVE  Listed(s, A \ {t})
  BY DEF Listed

\* rt_rmv_list on the list of an object, with what follows it.
LEMMA DeleteWaiting ==
    ASSUME KernelAssumption, NEW s, NEW A \in SUBSET Thread, Consistent(s, A),
           Running(s), NEW id \in 1 .. MaxTaskRun, id # s.tid[s.run],
           NEW t \in A, t = s.active[id], s.rlnk[t] # None
    PROVE  /\ Consistent(TskDelete(s, id), A \ {t}) /\ Running(TskDelete(s, id))
           /\ Due(s) => Due(TskDelete(s, id))
           /\ TskDelete(s, id).active = [s.active EXCEPT ![id] = None]
           /\ TskDelete(s, id).tid = s.tid /\ TskDelete(s, id).prio = s.prio
           /\ Leaves(s, TskDelete(s, id), t)
<1> DEFINE o == s.rlnk[t]
           q == Unlink(s.wait[o], t)
           w == [s.wait EXCEPT ![o] = q]
           v == [s EXCEPT !.wait = w]
           u == RmvDly(v, t)
           a == [s.active EXCEPT ![id] = None]
           r == [u EXCEPT !.active = a]
<1>1. /\ Sound(s) /\ Listed(s, A) /\ Homed(s, A) /\ t \in Thread /\ t # None
      /\ s \in KernelRecord /\ s.wait \in [Obj -> Seq(Thread)]
      /\ s.rlnk \in [Thread -> Obj \cup {None}] /\ s.prio \in [Thread -> Nat]
      /\ s.active \in [1 .. MaxTaskRun -> Thread \cup {None}]
  BY SoundFields, WaitFields, KernelAssumption DEF Consistent, KernelAssumption
<1>2. o \in Obj /\ t \in ToSet(s.wait[o]) /\ s.wait[o] \in Seq(Thread)
  BY <1>1 DEF Listed
<1>3. t # s.run /\ t \notin ToSet(s.rdy)
  BY <1>2, QueueApart
<1>4. Distinct(s.wait[o]) /\ Ordered(s.wait[o], s.prio)
  BY <1>1, <1>2 DEF Listed
<1> HIDE DEF o
<1>5. /\ q \in Seq(Thread) /\ ToSet(q) = ToSet(s.wait[o]) \ {t} /\ Distinct(q)
      /\ Ordered(q, s.prio)
  BY ONLY <1>1, <1>2, <1>4, UnlinkCorrect
<1> HIDE DEF q
<1>6. w \in [Obj -> Seq(Thread)] /\ w[o] = q /\ \A x \in Obj : x # o => w[x] = s.wait[x]
  BY <1>1, <1>2, <1>5
<1>7. RmvList(s, t) = v
  BY <1>1 DEF RmvList, o, q
<1> HIDE DEF w
<1>8. /\ v \in KernelRecord /\ v.wait = w /\ v.rlnk = s.rlnk /\ SameTable(s, v)
      /\ v.run = s.run /\ v.rdy = s.rdy /\ v.prio = s.prio /\ v.state = s.state
      /\ v.dly = s.dly /\ v.rem = s.rem
  BY <1>1, <1>6 DEF KernelRecord, SameTable
<1> HIDE DEF v
<1>9. Sound(v) /\ (Due(s) => Due(v))
  BY <1>1, <1>8 DEF Sound, Due
<1>10. /\ Sound(u) /\ Frame(v, u) /\ u.run = v.run /\ u.prio = v.prio
       /\ u.state = v.state /\ u.rdy = v.rdy
       /\ ToSet(u.dly) = ToSet(v.dly) \ {t} /\ (Due(v) => Due(u))
  BY <1>1, <1>9, RmvDlySound
<1> HIDE DEF u
<1>11. a \in [1 .. MaxTaskRun -> Thread \cup {None}]
  BY <1>1
<1>12. u \in KernelRecord
  BY <1>10 DEF Sound
<1>13. TskDelete(s, id) = r
  <2>1. u.active = s.active
    BY <1>8, <1>10 DEF Frame, SameTable
  <2>2. RmvDly(RmvList(s, t), t) = u
    BY <1>7 DEF u
  <2> HIDE DEF RmvDly, RmvList
  <2>3. TskDelete(s, id) = [u EXCEPT !.active[id] = None]
    BY <1>1, <2>2 DEF TskDelete, TskDeleteOther
  <2>4. [u EXCEPT !.active[id] = None] = r
    BY <1>12, <2>1 DEF KernelRecord
  <2> QED BY <2>3, <2>4
<1> HIDE DEF a
<1>14. /\ r \in KernelRecord /\ r.active = a /\ r.tid = u.tid /\ r.wait = u.wait
       /\ r.rlnk = u.rlnk /\ r.run = u.run /\ r.rdy = u.rdy /\ r.prio = u.prio
       /\ r.state = u.state /\ r.dly = u.dly /\ r.rem = u.rem
  BY <1>11, <1>12 DEF KernelRecord
<1> HIDE DEF r
<1>15. /\ r.wait = w /\ r.rlnk = s.rlnk /\ r.run = s.run /\ r.rdy = s.rdy
       /\ r.prio = s.prio /\ r.state = s.state /\ r.tid = s.tid
       /\ ToSet(r.dly) = ToSet(s.dly) \ {t}
  BY <1>8, <1>10, <1>14 DEF Frame, SameTable
<1>16. Sound(r) /\ (Due(s) => Due(r))
  BY <1>9, <1>10, <1>14 DEF Sound, Due
<1>17. Running(r)
  BY <1>15 DEF Running
<1>18. Consistent(r, A \ {t}) /\ Leaves(s, r, t)
  <2>1. Without(s, r, o, t)
    BY <1>5, <1>6, <1>15 DEF Without
  <2> QED BY ONLY KernelAssumption, A \in SUBSET Thread, Consistent(s, A), <1>2,
             <1>16, <2>1, TakenOut
<1> QED BY <1>13, <1>14, <1>15, <1>16, <1>17, <1>18 DEF a

LEMMA DeleteListed ==
    ASSUME KernelAssumption, NEW s, NEW A \in SUBSET Thread, Consistent(s, A),
           Running(s), Due(s), s.run # Idle, NEW id \in 1 .. MaxTaskRun,
           NEW t \in A, t = s.active[id], t # Idle, id = s.tid[s.run] => t = s.run,
           t = s.run => id = s.tid[s.run]
    PROVE  /\ Consistent(TskDelete(s, id), A \ {t})
           /\ Running(TskDelete(s, id)) /\ Due(TskDelete(s, id))
           /\ TskDelete(s, id).active = [s.active EXCEPT ![id] = None]
           /\ TskDelete(s, id).tid = s.tid /\ TskDelete(s, id).prio = s.prio
           /\ Leaves(s, TskDelete(s, id), t)
<1> DEFINE r == TskDelete(s, id)
           B == A \ {t}
<1>1. Sound(s) /\ Homed(s, A) /\ Listed(s, A) /\ t \in Thread /\ s.state[s.run] = "RUNNING"
  BY DEF Consistent, Running
<1>2. s.rlnk[s.run] = None
  <2>1. s.run \in A /\ s.run \in Thread /\ s.rlnk \in [Thread -> Obj \cup {None}]
    BY <1>1, SoundFields DEF Listed
  <2>2. s.rlnk[s.run] # None => s.run \in ToSet(s.wait[s.rlnk[s.run]]) /\ s.rlnk[s.run] \in Obj
    BY <1>1, <2>1 DEF Listed
  <2> QED BY <1>1, <2>2 DEF Listed, ObjectWait
<1>3. CASE s.rlnk[t] # None
  BY <1>2, <1>3, DeleteWaiting
<1>4. CASE s.rlnk[t] = None
  <2>1. /\ B \in SUBSET Thread /\ Homed(s, B) /\ s.active[id] \notin B
        /\ id = s.tid[s.run] => s.run \notin B
        /\ s.active[id] # Idle /\ (s.active[id] \in Thread => s.rlnk[s.active[id]] = None)
    BY <1>1, <1>4 DEF Homed
  <2>2. /\ Sound(r) /\ Running(r) /\ Due(r) /\ r.rlnk = s.rlnk
    BY <1>1, <2>1, TskDeleteSound
  <2> HIDE DEF B
  <2>3. /\ Homed(r, B) /\ Moves(s, r, {})
        /\ r.active = [s.active EXCEPT ![id] = None]
        /\ r.tid = s.tid /\ r.prio = s.prio /\ r.wait = s.wait
        /\ ToSet(r.dly) \subseteq ToSet(s.dly)
        /\ id = s.tid[s.run] => s.run \notin ToSet(r.rdy) \cup {r.run}
        /\ id # s.tid[s.run] => /\ s.active[id] \notin ToSet(r.rdy)
                                /\ s.active[id] \notin ToSet(r.dly)
                                /\ r.run = s.run
    BY ONLY KernelAssumption, <1>1, <2>1, Running(s), s.run # Idle,
            id \in 1 .. MaxTaskRun, TskDeleteMoves
  <2> HIDE DEF r
  <2> DEFINE W == {}
  <2>4. /\ W \in SUBSET A /\ A \subseteq A \cup W /\ Moves(s, r, W)
        /\ ToSet(r.dly) \subseteq ToSet(s.dly) \cup W
        /\ \A x \in W : s.rlnk[x] = None /\ r.state[x] \notin ObjectWait
        /\ r.wait = s.wait /\ r.rlnk = s.rlnk
        /\ \A o \in Obj : \A x \in ToSet(s.wait[o]) : r.prio[x] = s.prio[x]
        /\ r.state[r.run] \in {"READY", "RUNNING"}
    BY <2>2, <2>3 DEF Running
  <2> HIDE DEF W
  <2>5. Listed(r, A)
    BY ONLY KernelAssumption, A \in SUBSET Thread, <1>1, <2>2, <2>4, MovedListed
  <2>6. t \notin ToSet(r.rdy) \cup ToSet(r.dly) \cup {r.run}
    <3>1. CASE id = s.tid[s.run]
      <4>1. t \notin ToSet(s.dly)
        BY <1>1, <3>1, RunningApart
      <4> QED BY <2>3, <3>1, <4>1
    <3>2. CASE id # s.tid[s.run]
      BY <2>3, <3>2
    <3> QED BY <3>1, <3>2
  <2>7. \A o \in Obj : t \notin ToSet(r.wait[o])
    BY <1>1, <1>4, <2>3, KernelAssumption DEF Listed, KernelAssumption
  <2>8. Listed(r, B)
    BY <2>5, <2>6, <2>7, LeavesListed DEF B
  <2>9. Leaves(s, r, t)
    BY ONLY <2>3, <2>7 DEF Leaves
  <2> QED BY <2>2, <2>3, <2>8, <2>9 DEF Consistent, r, B
<1> QED BY <1>3, <1>4

-----------------------------------------------------------------------------
(***************************************************************************)
(* The sequence of records that a loop passes through.                     *)
(***************************************************************************)
HasLoop(U, step, s, n) ==
    \E f \in [0 .. n -> U] : f[0] = s /\ \A i \in 1 .. n : f[i] = step[f[i - 1]]

LEMMA LoopExists ==
    ASSUME NEW U, NEW step \in [U -> U], NEW s \in U, NEW n \in Nat
    PROVE  HasLoop(U, step, s, n)
<1> DEFINE S == {m \in Nat : \E f \in [0 .. m -> U] :
                               f[0] = s /\ \A i \in 1 .. m : f[i] = step[f[i - 1]]}
<1>1. 0 \in S
  <2> DEFINE f == [i \in 0 .. 0 |-> s]
  <2>1. f \in [0 .. 0 -> U] /\ f[0] = s /\ \A i \in 1 .. 0 : f[i] = step[f[i - 1]]
    OBVIOUS
  <2> QED BY <2>1
<1>2. ASSUME NEW m \in S PROVE m + 1 \in S
  <2>1. PICK f \in [0 .. m -> U] :
            f[0] = s /\ \A i \in 1 .. m : f[i] = step[f[i - 1]]
    OBVIOUS
  <2> DEFINE g == [i \in 0 .. m + 1 |-> IF i = m + 1 THEN step[f[m]] ELSE f[i]]
  <2>2. m \in Nat /\ f[m] \in U
    BY <2>1
  <2>3. g \in [0 .. m + 1 -> U] /\ g[0] = s
    BY <2>1, <2>2
  <2>4. ASSUME NEW i \in 1 .. m + 1 PROVE g[i] = step[g[i - 1]]
    BY <2>1, <2>2
  <2> HIDE DEF g
  <2> QED BY <2>2, <2>3, <2>4
<1> HIDE DEF S
<1>3. S = Nat
  BY <1>1, <1>2, AllNumbers DEF S
<1> QED BY <1>3 DEF S, HasLoop

(***************************************************************************)
(* The loops of rt_sem_delete and rt_mut_delete.                           *)
(***************************************************************************)
\* What holds after each turn: u has still to wake the threads of u.wait[o].
Flushing(s, u, o, A) ==
    /\ Consistent(u, A) /\ SameTable(s, u) /\ (Due(s) => Due(u))
    /\ u.run = s.run /\ u.prio = s.prio /\ u.state[s.run] = s.state[s.run]
    /\ ToSet(s.rdy) \subseteq ToSet(u.rdy)
    /\ ToSet(u.wait[o]) \subseteq ToSet(s.wait[o])
    /\ \A x \in Obj \ {o} : u.wait[x] = s.wait[x]

LEMMA FlushTurn ==
    ASSUME KernelAssumption, NEW s, NEW A \in SUBSET Thread, NEW o \in Obj,
           NEW u, Flushing(s, u, o, A), u.wait[o] # <<>>,
           NEW r, r = PutRdy(Woken(u, o), Head(u.wait[o]))
    PROVE  Flushing(s, r, o, A) /\ r.wait[o] = Tail(u.wait[o])
<1> DEFINE h == Head(u.wait[o])
           v == Woken(u, o)
<1>1. Consistent(u, A) /\ Sound(u)
  BY DEF Flushing, Consistent
<1>2. FirstTaken(u, v, o, h, A)
  BY <1>1, WokenListed
<1> HIDE DEF h, v
<1>3. /\ Consistent(r, A) /\ Frame(v, r) /\ r.prio = v.prio /\ r.run = v.run
      /\ ToSet(r.rdy) = ToSet(v.rdy) \cup {h}
      /\ r.state = [v.state EXCEPT ![h] = "READY"] /\ (Due(v) => Due(r))
  <2>1. r = PutRdy(v, h)
    BY DEF h, v
  <2>2. h \in A /\ Consistent(v, A \ {h}) /\ v.rlnk[h] = None
    BY <1>2 DEF FirstTaken
  <2> QED BY ONLY KernelAssumption, A \in SUBSET Thread, <2>1, <2>2, PutRdyJoins
<1>4. r.wait[o] = Tail(u.wait[o]) /\ \A x \in Obj \ {o} : r.wait[x] = u.wait[x]
  <2>1. u.wait \in [Obj -> Seq(Thread)]
    BY <1>1, WaitFields
  <2>2. r.wait = [u.wait EXCEPT ![o] = Tail(@)]
    BY <1>2, <1>3 DEF FirstTaken, Freed, Frame, h
  <2> QED BY ONLY <2>1, <2>2, o \in Obj
<1>5. r.state[s.run] = s.state[s.run]
  <2>1. v.state = u.state /\ u.run = s.run /\ u.state[s.run] = s.state[s.run]
    BY <1>2 DEF FirstTaken, Freed, Flushing
  <2>2. u.state \in [Thread -> State] /\ u.run \in Thread
    BY <1>1, SoundFields
  <2> QED BY <1>2, <1>3, <2>1, <2>2 DEF FirstTaken
<1>6. SameTable(s, r) /\ (Due(s) => Due(r)) /\ r.run = s.run /\ r.prio = s.prio
  BY <1>2, <1>3 DEF Flushing, FirstTaken, Freed, Frame, SameTable
<1>7. ToSet(s.rdy) \subseteq ToSet(r.rdy)
  <2>1. ToSet(v.rdy) = ToSet(u.rdy)
    BY <1>2 DEF FirstTaken, Freed
  <2> QED BY <1>3, <2>1 DEF Flushing
<1>8. ToSet(r.wait[o]) \subseteq ToSet(s.wait[o])
  <2>1. u.wait[o] \in Seq(Thread)
    BY <1>1, WaitFields
  <2>2. \A x \in ToSet(Tail(u.wait[o])) : x \in ToSet(u.wait[o])
    BY <2>1 DEF ToSet
  <2> QED BY <1>4, <2>2 DEF Flushing
<1>9. \A x \in Obj \ {o} : r.wait[x] = s.wait[x]
  BY <1>4 DEF Flushing
<1> QED BY <1>3, <1>4, <1>5, <1>6, <1>7, <1>8, <1>9 DEF Flushing

LEMMA FlushListed ==
    ASSUME KernelAssumption, NEW s, NEW A \in SUBSET Thread, Consistent(s, A),
           NEW o \in Obj
    PROVE  Flushing(s, Flush(s, o), o, A) /\ Flush(s, o).wait[o] = <<>>
<1> DEFINE n == Len(s.wait[o])
           Turn(u) == PutRdy(Woken(u, o), Head(u.wait[o]))
           Loop(f) == [i \in 0 .. n |-> IF i = 0 THEN s ELSE Turn(f[i - 1])]
           U == {u \in KernelRecord : Flushing(s, u, o, A)}
           step == [u \in U |-> IF u.wait[o] = <<>> THEN u ELSE Turn(u)]
<1>1. /\ Sound(s) /\ s.wait[o] \in Seq(Thread) /\ n \in Nat
      /\ \A u \in U : u.wait[o] \in Seq(Thread)
  BY WaitFields DEF Consistent, Flushing
<1>2. s \in U
  BY <1>1 DEF Flushing, SameTable, Sound
<1>3. ASSUME NEW u \in U, u.wait[o] # <<>>
      PROVE  Turn(u) \in U /\ Len(Turn(u).wait[o]) = Len(u.wait[o]) - 1
  <2> DEFINE r == Turn(u)
  <2>1. Flushing(s, r, o, A) /\ r.wait[o] = Tail(u.wait[o])
    BY <1>3, FlushTurn
  <2> HIDE DEF r
  <2>2. r \in KernelRecord
    BY <2>1 DEF Flushing, Consistent, Sound
  <2>3. Len(Tail(u.wait[o])) = Len(u.wait[o]) - 1
    BY <1>1, <1>3
  <2>4. r \in U /\ Len(r.wait[o]) = Len(u.wait[o]) - 1
    BY <2>1, <2>2, <2>3
  <2> QED BY <2>4 DEF r
<1> HIDE DEF U
<1>4. \A u \in U : u.wait[o] # <<>> <=> Len(u.wait[o]) > 0
  BY <1>1
<1> HIDE DEF Turn
<1>5. ASSUME NEW f, f = Loop(f)
      PROVE  \A i \in 0 .. n : f[i] \in U /\ Len(f[i].wait[o]) = n - i
  <2> DEFINE S == {i \in Nat : i <= n => f[i] \in U /\ Len(f[i].wait[o]) = n - i}
  <2>1. 0 \in S
    BY <1>1, <1>2, <1>5
  <2>2. ASSUME NEW i \in S PROVE i + 1 \in S
    <3>1. SUFFICES ASSUME i + 1 <= n
                   PROVE  f[i + 1] \in U /\ Len(f[i + 1].wait[o]) = n - (i + 1)
      OBVIOUS
    <3>2. i \in Nat /\ i <= n /\ f[i] \in U /\ Len(f[i].wait[o]) = n - i
      BY <1>1, <3>1
    <3>3. f[i + 1] = Turn(f[i])
      BY <1>1, <1>5, <3>1, <3>2
    <3>4. f[i].wait[o] # <<>>
      BY <1>1, <1>4, <3>1, <3>2
    <3>5. Turn(f[i]) \in U /\ Len(Turn(f[i]).wait[o]) = Len(f[i].wait[o]) - 1
      BY <1>3, <3>2, <3>4
    <3>6. Len(Turn(f[i]).wait[o]) = n - (i + 1)
      BY <1>1, <3>2, <3>5
    <3> QED BY <3>3, <3>5, <3>6
  <2> HIDE DEF S
  <2>3. S = Nat
    BY <2>1, <2>2, AllNumbers DEF S
  <2> QED BY <1>1, <2>3 DEF S
<1>6. \E f : f = Loop(f)
  <2>1. step \in [U -> U]
    BY <1>3
  <2> HIDE DEF step
  <2>2. PICK f \in [0 .. n -> U] : f[0] = s /\ \A i \in 1 .. n : f[i] = step[f[i - 1]]
    <3>1. HasLoop(U, step, s, n)
      BY <1>1, <1>2, <2>1, LoopExists
    <3> QED BY <3>1 DEF HasLoop
  <2> DEFINE S == {i \in Nat : i <= n => Len(f[i].wait[o]) = n - i}
  <2>3. ASSUME NEW i \in 0 .. n, Len(f[i].wait[o]) = n - i, i # n
        PROVE  f[i + 1] = Turn(f[i]) /\ Len(f[i + 1].wait[o]) = n - (i + 1)
    <3>1. f[i] \in U /\ i + 1 \in 1 .. n /\ (i + 1) - 1 = i /\ n - i > 0
      BY <1>1, <2>2, <2>3
    <3>2. f[i].wait[o] # <<>>
      BY <1>4, <2>3, <3>1
    <3>3. f[i + 1] = Turn(f[i])
      BY <2>2, <3>1, <3>2 DEF step
    <3>4. Len(Turn(f[i]).wait[o]) = Len(f[i].wait[o]) - 1
      BY <1>3, <3>1, <3>2
    <3>5. Len(Turn(f[i]).wait[o]) = n - (i + 1)
      BY <1>1, <2>3, <3>4
    <3> QED BY <3>3, <3>5
  <2>4. 0 \in S
    BY <1>1, <2>2
  <2>5. ASSUME NEW i \in S PROVE i + 1 \in S
    BY <1>1, <2>3
  <2> HIDE DEF S
  <2>6. S = Nat
    BY <2>4, <2>5, AllNumbers DEF S
  <2>7. \A i \in 1 .. n : f[i] = Turn(f[i - 1])
    <3>1. ASSUME NEW i \in 1 .. n PROVE f[i] = Turn(f[i - 1])
      <4>1. i - 1 \in 0 .. n /\ i - 1 # n /\ (i - 1) + 1 = i /\ i - 1 \in Nat /\ i - 1 <= n
        BY <1>1
      <4>2. Len(f[i - 1].wait[o]) = n - (i - 1)
        BY <2>6, <4>1 DEF S
      <4> QED BY <2>3, <4>1, <4>2
    <3> QED BY <3>1
  <2>8. f = Loop(f)
    BY <1>1, <2>2, <2>7
  <2> QED BY <2>8
<1> DEFINE w == CHOOSE f : f = Loop(f)
<1>7. w = Loop(w)
  BY <1>6
<1>8. Flush(s, o) = w[n]
  BY DEF Flush, Turn
<1> HIDE DEF w
<1>9. w[n] \in U /\ Len(w[n].wait[o]) = 0
  <2>1. \A i \in 0 .. n : w[i] \in U /\ Len(w[i].wait[o]) = n - i
    BY <1>5, <1>7
  <2> QED BY <1>1, <2>1
<1>10. w[n].wait[o] = <<>>
  BY <1>1, <1>9
<1> QED BY <1>8, <1>9, <1>10 DEF U

-----------------------------------------------------------------------------
(***************************************************************************)
(* The steps of the handlers.                                              *)
(***************************************************************************)
\* What a step of a handler leaves as it is.
Steady(s, r) == SameTable(s, r) /\ SameWaiters(s, r) /\ r.prio = s.prio

LEMMA SteadyFrame ==
    ASSUME NEW s, NEW r, Frame(s, r), r.prio = s.prio
    PROVE  Steady(s, r)
  BY DEF Steady, Frame, SameTable, SameWaiters

\* The thread that is interrupted goes to the front of the ready list.
LEMMA EnterListed ==
    ASSUME KernelAssumption, NEW s, NEW A \in SUBSET Thread, Consistent(s, A),
           Running(s), Due(s)
    PROVE  LET r == PutRdyFirst(s, s.run) IN
           /\ Consistent(r, A) /\ Due(r) /\ Steady(s, r)
           /\ {Idle, r.run} \subseteq ToSet(r.rdy)
           /\ r.rdy # <<>> /\ Head(r.rdy) \in Thread
<1> DEFINE r == PutRdyFirst(s, s.run)
<1>1. Sound(s) /\ Homed(s, A) /\ s.state[s.run] = "RUNNING"
  BY DEF Consistent, Running
<1>2. /\ s.run \in Thread /\ s.run \notin ToSet(s.rdy) /\ s.run \notin ToSet(s.dly)
      /\ s.state \in [Thread -> State]
      /\ \A x \in ToSet(s.rdy) : s.prio[s.run] >= s.prio[x]
  BY <1>1, RunningApart, SoundFields DEF Running
<1>3. /\ Sound(r) /\ Frame(s, r) /\ SameDelay(s, r) /\ r.run = s.run /\ r.prio = s.prio
      /\ ToSet(r.rdy) = ToSet(s.rdy) \cup {s.run} /\ r.rdy # <<>> /\ Head(r.rdy) = s.run
      /\ r.state = [s.state EXCEPT ![s.run] = "READY"]
  BY <1>1, <1>2, PutRdyFirstSound
<1> HIDE DEF r
<1>4. r.state[s.run] = "READY" /\ \A x \in Thread : x # s.run => r.state[x] = s.state[x]
  BY <1>2, <1>3
<1>5. Homed(r, A) /\ Moves(s, r, {})
  BY <1>1, <1>2, <1>3, <1>4 DEF Homed, Moves, WaitState
<1>6. ToSet(r.dly) \subseteq ToSet(s.dly) /\ r.state[r.run] \in {"READY", "RUNNING"}
  BY <1>3, <1>4 DEF SameDelay
<1>7. Consistent(r, A)
  BY <1>3, <1>5, <1>6, FramedListed
<1>8. {Idle, r.run} \subseteq ToSet(r.rdy) /\ Due(r)
  BY <1>3 DEF Running, Due, SameDelay
<1> QED BY <1>2, <1>3, <1>7, <1>8, SteadyFrame DEF r

\* The one that has used up its slice goes behind its equals.
LEMMA RobinListed ==
    ASSUME KernelAssumption, NEW s, NEW A \in SUBSET Thread, Consistent(s, A),
           s.rdy # <<>>
    PROVE  /\ Consistent(RobinSwap(s), A) /\ Steady(s, RobinSwap(s))
           /\ Due(s) => Due(RobinSwap(s))
           /\ RobinSwap(s).run = s.run /\ ToSet(RobinSwap(s).rdy) = ToSet(s.rdy)
<1> DEFINE r == RobinSwap(s)
<1>1. Sound(s) /\ Homed(s, A) /\ Listed(s, A) /\ s \in KernelRecord
  BY DEF Consistent, Sound
<1>2. /\ Sound(r) /\ Frame(s, r) /\ SameDelay(s, r)
      /\ ToSet(r.rdy) = ToSet(s.rdy) /\ r.run = s.run
  BY <1>1, RobinSwapSound
<1>3. r.state = s.state /\ r.prio = s.prio
  BY <1>1 DEF RobinSwap, KernelRecord
<1> HIDE DEF r
<1>4. /\ Homed(r, A) /\ Moves(s, r, {}) /\ ToSet(r.dly) \subseteq ToSet(s.dly)
      /\ r.state[r.run] \in {"READY", "RUNNING"}
  BY <1>1, <1>2, <1>3 DEF Homed, Moves, SameDelay, Listed
<1>5. Consistent(r, A)
  BY <1>2, <1>3, <1>4, FramedListed
<1> QED BY <1>2, <1>3, <1>5, SteadyFrame DEF Due, SameDelay, r

LEMMA CountListed ==
    ASSUME KernelAssumption, NEW s, NEW A \in SUBSET Thread, Consistent(s, A), Due(s)
    PROVE  /\ Consistent(DecDly(s), A) /\ Steady(s, DecDly(s))
           /\ DecDly(s).run = s.run /\ DecDly(s).rdy = s.rdy
<1> DEFINE r == DecDly(s)
<1>1. Sound(s) /\ Homed(s, A) /\ Listed(s, A) /\ s \in KernelRecord
  BY DEF Consistent, Sound
<1>2. Sound(r) /\ Frame(s, r) /\ r.run = s.run /\ r.rdy = s.rdy
  BY <1>1, DecDlySound
<1>3. r.state = s.state /\ r.prio = s.prio /\ r.dly = s.dly
  BY <1>1 DEF DecDly, KernelRecord
<1> HIDE DEF r
<1>4. /\ Homed(r, A) /\ Moves(s, r, {}) /\ ToSet(r.dly) \subseteq ToSet(s.dly)
      /\ r.state[r.run] \in {"READY", "RUNNING"}
  BY <1>1, <1>2, <1>3 DEF Homed, Moves, Listed
<1>5. Consistent(r, A)
  BY <1>2, <1>3, <1>4, FramedListed
<1> QED BY <1>2, <1>3, <1>5, SteadyFrame DEF r

\* The handler is over, and the first ready thread gets the processor.
LEMMA SwitchListed ==
    ASSUME KernelAssumption, NEW s, NEW A \in SUBSET Thread, Consistent(s, A),
           {Idle, s.run} \subseteq ToSet(s.rdy)
    PROVE  /\ Consistent(SwitchToFirst(s), A) /\ Running(SwitchToFirst(s))
           /\ Steady(s, SwitchToFirst(s)) /\ (Due(s) => Due(SwitchToFirst(s)))
<1> DEFINE r == SwitchToFirst(s)
<1>1. Sound(s) /\ Homed(s, A) /\ s.state[s.run] # "RUNNING" /\ Idle \in ToSet(s.rdy)
  BY DEF Consistent, Sound
<1>2. /\ Sound(r) /\ Running(r) /\ Frame(s, r) /\ SameDelay(s, r)
      /\ Homed(r, A) /\ Moves(s, r, {}) /\ r.prio = s.prio
  BY <1>1, SwitchSound, SwitchMoves
<1> HIDE DEF r
<1>3. ToSet(r.dly) \subseteq ToSet(s.dly) /\ r.state[r.run] \in {"READY", "RUNNING"}
  BY <1>2 DEF SameDelay, Running
<1>4. Consistent(r, A)
  BY <1>2, <1>3, FramedListed
<1> QED BY <1>2, <1>4, SteadyFrame DEF Due, SameDelay, r

\* One turn of the loop of rt_dec_dly.
TimedOut(s) ==
    LET t == Head(s.dly)
        u == IF s.rlnk[t] = None THEN s
             ELSE [s EXCEPT !.wait[s.rlnk[t]] = Unlink(@, t), !.rlnk[t] = None]
    IN [PutRdy(u, t) EXCEPT !.dly = Tail(@)]

LEMMA TimeoutListed ==
    ASSUME KernelAssumption, NEW s, NEW A \in SUBSET Thread, Consistent(s, A),
           s.dly # <<>>
    PROVE  /\ Consistent(TimedOut(s), A) /\ SameTable(s, TimedOut(s))
           /\ Leaves(s, TimedOut(s), Head(s.dly)) /\ TimedOut(s).prio = s.prio
           /\ TimedOut(s).run = s.run /\ ToSet(s.rdy) \subseteq ToSet(TimedOut(s).rdy)
<1> DEFINE t == Head(s.dly)
           u == IF s.rlnk[t] = None THEN s
                ELSE [s EXCEPT !.wait[s.rlnk[t]] = Unlink(@, t), !.rlnk[t] = None]
           v == [u EXCEPT !.dly = Tail(@)]
           r == [PutRdy(u, t) EXCEPT !.dly = Tail(@)]
           z == [s EXCEPT !.dly = Tail(@)]
<1>0. TimedOut(s) = r
  BY DEF TimedOut
<1> HIDE DEF r, u
<1>1. /\ Sound(s) /\ Listed(s, A) /\ Homed(s, A)
      /\ s \in KernelRecord /\ s.wait \in [Obj -> Seq(Thread)]
      /\ s.rlnk \in [Thread -> Obj \cup {None}] /\ s.prio \in [Thread -> Nat]
  BY SoundFields, WaitFields DEF Consistent
<1>2. /\ Sound(z) /\ z.rdy = s.rdy /\ t \in ToSet(s.dly) /\ t \in Thread
      /\ ToSet(z.dly) = ToSet(s.dly) \ {t}
  BY <1>1, TakeDelaySound
<1> HIDE DEF t
<1>3. /\ z \in KernelRecord /\ z.run = s.run /\ z.prio = s.prio /\ z.state = s.state
      /\ z.rlnk = s.rlnk /\ z.wait = s.wait /\ SameTable(s, z)
  BY <1>1, <1>2 DEF KernelRecord, SameTable, Sound
<1> HIDE DEF z
<1>4. /\ t \in A /\ t \notin ToSet(s.rdy) /\ t # s.run
  <2>1. t \in A /\ s.state[t] \in WaitState /\ s.state[s.run] \notin WaitState
    BY <1>1, <1>2 DEF Listed, Sound, WaitState
  <2> QED BY <1>1, <1>2, <2>1 DEF Sound, WaitState
<1>5. /\ Consistent(v, A \ {t}) /\ Leaves(s, v, t) /\ SameTable(s, v) /\ v.rlnk[t] = None
      /\ v.run = s.run /\ v.rdy = s.rdy /\ v.prio = s.prio /\ u \in KernelRecord
  <2>1. CASE s.rlnk[t] = None
    <3>1. v = z /\ u = s
      BY <2>1 DEF z, u
    <3>2. Homed(z, A)
      BY <1>1, <1>2, <1>3 DEF Homed
    <3>3. Listed(z, A)
      BY ONLY <1>1, <1>2, <1>3 DEF Listed
    <3>4. \A o \in Obj : t \notin ToSet(z.wait[o])
      BY <1>1, <1>3, <2>1, KernelAssumption DEF Listed, KernelAssumption
    <3>5. Listed(z, A \ {t}) /\ Homed(z, A \ {t})
      BY <1>2, <1>3, <1>4, <3>2, <3>3, <3>4, LeavesListed DEF Homed
    <3>6. Leaves(s, z, t)
      BY ONLY <1>3, <3>4 DEF Leaves
    <3> QED BY <1>1, <1>2, <1>3, <2>1, <3>1, <3>5, <3>6 DEF Consistent
  <2>2. CASE s.rlnk[t] # None
    <3> DEFINE o == s.rlnk[t]
               q == Unlink(s.wait[o], t)
               w == [s.wait EXCEPT ![o] = q]
               l == [s.rlnk EXCEPT ![t] = None]
               y == [z EXCEPT !.wait = w, !.rlnk = l]
    <3>1. o \in Obj /\ t \in ToSet(s.wait[o]) /\ s.wait[o] \in Seq(Thread)
      <4>1. t \in Thread
        BY ONLY <1>2
      <4> QED BY ONLY <1>1, <1>4, <4>1, <2>2 DEF Listed, o
    <3>2. Distinct(s.wait[o]) /\ Ordered(s.wait[o], s.prio)
      BY <1>1, <3>1 DEF Listed
    <3> HIDE DEF o
    <3>3. /\ q \in Seq(Thread) /\ ToSet(q) = ToSet(s.wait[o]) \ {t} /\ Distinct(q)
          /\ Ordered(q, s.prio)
      BY ONLY <1>1, <1>2, <3>1, <3>2, UnlinkCorrect
    <3> HIDE DEF q
    <3>4. /\ w \in [Obj -> Seq(Thread)] /\ w[o] = q
          /\ \A x \in Obj : x # o => w[x] = s.wait[x]
          /\ l \in [Thread -> Obj \cup {None}] /\ l[t] = None
          /\ \A x \in Thread : x # t => l[x] = s.rlnk[x]
      BY <1>1, <1>2, <3>1, <3>3
    <3>5. u = [s EXCEPT !.wait = w, !.rlnk = l]
      BY <1>1, <2>2 DEF KernelRecord, o, q, u
    <3> HIDE DEF w, l
    <3>6. v = y /\ u \in KernelRecord
      BY <1>1, <3>4, <3>5 DEF KernelRecord, z
    <3>7. /\ y \in KernelRecord /\ y.wait = w /\ y.rlnk = l /\ SameTable(z, y)
          /\ y.run = z.run /\ y.rdy = z.rdy /\ y.prio = z.prio /\ y.state = z.state
          /\ y.dly = z.dly /\ y.rem = z.rem
      BY <1>3, <3>4 DEF KernelRecord, SameTable
    <3> HIDE DEF y
    <3>8. Sound(y)
      BY <1>2, <3>7 DEF Sound
    <3>9. /\ y.run = s.run /\ y.rdy = s.rdy /\ y.prio = s.prio /\ y.state = s.state
          /\ ToSet(y.dly) \subseteq ToSet(s.dly) \ {t}
      BY <1>2, <1>3, <3>7
    <3>10. Without(s, y, o, t)
      <4>1. /\ \A x \in Thread \ {t} : y.rlnk[x] = s.rlnk[x]
            /\ \A x \in Obj \ {o} : y.wait[x] = s.wait[x]
            /\ y.wait[o] = q
        BY ONLY <3>4, <3>7
      <4> QED BY ONLY <3>3, <3>9, <4>1 DEF Without
    <3>11. Consistent(y, A \ {t}) /\ Leaves(s, y, t)
      BY ONLY KernelAssumption, A \in SUBSET Thread, Consistent(s, A), <3>1,
         <3>8, <3>10, TakenOut
    <3> QED BY <1>3, <3>4, <3>6, <3>7, <3>9, <3>11 DEF SameTable
  <2> QED BY <2>1, <2>2
<1>6. r = PutRdy(v, t)
  BY <1>5 DEF PutRdy, KernelRecord, r, v
<1> HIDE DEF v
<1>7. /\ Consistent(PutRdy(v, t), A) /\ Frame(v, PutRdy(v, t))
      /\ PutRdy(v, t).prio = v.prio /\ PutRdy(v, t).run = v.run
      /\ ToSet(PutRdy(v, t).rdy) = ToSet(v.rdy) \cup {t}
  <2>1. t \in A /\ Consistent(v, A \ {t}) /\ v.rlnk[t] = None
    BY ONLY <1>4, <1>5
  <2> QED BY ONLY KernelAssumption, A \in SUBSET Thread, <2>1, PutRdyJoins
<1> QED BY <1>0, <1>5, <1>6, <1>7 DEF Frame, SameTable, Leaves, t

-----------------------------------------------------------------------------
(***************************************************************************)
(* The actions of the kernel keep OInv.                                    *)
(***************************************************************************)
\* What a service finds, and leaves behind for the threads of A.
Fit(s, A) == Consistent(s, A) /\ Running(s) /\ Due(s)

LEMMA SameLiving ==
    ASSUME NEW s, NEW r, SameTable(s, r)
    PROVE  Living(r) = Living(s) /\ (Table(s) => Table(r))
  BY DEF SameTable, Living, Table

LEMMA ServiceFinds ==
    ASSUME OInv, mode = "svc"
    PROVE  /\ Fit(k, Living(k)) /\ Living(k) \in SUBSET Thread /\ Table(k)
           /\ k.run # Idle /\ k.run \in Living(k) /\ Sound(k)
<1>1. Listed(k, Living(k)) /\ Sound(k) /\ Homed(k, Living(k))
  BY DEF OInv
<1>2. k.run \in Living(k)
  BY <1>1 DEF Listed
<1> QED BY <1>1, <1>2 DEF OInv, Fit, Consistent, InThread, Living

LEMMA ServiceKeeps ==
    ASSUME OInv, NEW s, SvcReturn(s), Fit(s, Living(s)), Table(s)
    PROVE  OInv'
<1>1. /\ mode = "svc" /\ mode' = "thread" /\ k' = s
      /\ pend' = pend /\ robin' = robin /\ time' = time
  BY DEF SvcReturn
<1>2. s \in KernelRecord /\ Sound(s) /\ Homed(s, Living(s)) /\ Listed(s, Living(s))
  BY DEF Fit, Consistent, Sound
<1>3. KernelTypeOK'
  BY <1>1, <1>2 DEF OInv, KernelTypeOK, Mode
<1>4. /\ (Sound(k) /\ Homed(k, Living(k)) /\ Listed(k, Living(k)) /\ Table(k))'
      /\ Running(k)' /\ Due(k)'
  BY <1>1, <1>2 DEF Fit
<1> QED BY <1>1, <1>3, <1>4 DEF OInv

LEMMA SvcEnterKeeps ==
    ASSUME OInv, SvcEnter
    PROVE  OInv' /\ Steady(k, k') /\ psq' = psq
<1>1. mode = "thread" /\ mode' = "svc" /\ k.run # Idle /\ k' = k /\ psq' = psq
  BY DEF SvcEnter
<1>2. KernelTypeOK'
  BY <1>1 DEF SvcEnter, OInv, KernelTypeOK, Mode
<1>3. Steady(k, k')
  BY <1>1 DEF Steady, SameTable, SameWaiters
<1> QED BY <1>1, <1>2, <1>3 DEF OInv, InThread

LEMMA YieldKeeps ==
    ASSUME OInv, ThreadYield
    PROVE  OInv' /\ Steady(k, k') /\ psq' = psq
<1> DEFINE r == TskPass(k)
<1>1. mode = "svc" /\ SvcReturn(r) /\ k' = r /\ psq' = psq
  BY DEF ThreadYield, SvcReturn
<1>2. Fit(k, Living(k)) /\ Living(k) \in SUBSET Thread /\ Table(k) /\ k.run # Idle
  BY <1>1, ServiceFinds
<1>3. Fit(r, Living(k)) /\ Steady(k, r)
  BY <1>2, KernelAssumption, PassListed DEF Fit, Steady
<1> HIDE DEF r
<1>4. Fit(r, Living(r)) /\ Table(r)
  BY <1>2, <1>3, SameLiving DEF Steady
<1> QED BY <1>1, <1>3, <1>4, ServiceKeeps

LEMMA DelayKeeps ==
    ASSUME OInv, NEW n \in Delays, Delay(n)
    PROVE  OInv' /\ Steady(k, k') /\ psq' = psq
<1> DEFINE r == Block(k, n, "WAIT_DLY")
<1>1. mode = "svc" /\ SvcReturn(r) /\ k' = r /\ psq' = psq
  BY DEF Delay, SvcReturn
<1>2. Fit(k, Living(k)) /\ Living(k) \in SUBSET Thread /\ Table(k) /\ k.run # Idle
  BY <1>1, ServiceFinds
<1>3. n \in 0 .. Forever
  BY ObjectsAssumption DEF ObjectsAssumption
<1>4. Fit(r, Living(k)) /\ Frame(k, r) /\ r.prio = k.prio
  BY <1>2, <1>3, KernelAssumption, DelayListed DEF Fit
<1> HIDE DEF r
<1>5. Steady(k, r)
  BY <1>4, SteadyFrame
<1>6. Fit(r, Living(r)) /\ Table(r)
  BY <1>2, <1>4, <1>5, SameLiving DEF Steady
<1> QED BY <1>1, <1>5, <1>6, ServiceKeeps

\* A thread that ends, or is terminated by another, is in no list any more.
LEMMA TerminateKeeps ==
    ASSUME OInv, NEW t \in Thread, ThreadTerminate(t)
    PROVE  /\ OInv' /\ Leaves(k, k', t) /\ psq' = psq /\ k'.prio = k.prio
           /\ Living(k)' = Living(k) \ {t}
<1> DEFINE id == k.tid[t]
           r == TskDelete(k, id)
<1>1. /\ mode = "svc" /\ SvcReturn(r) /\ k' = r /\ psq' = psq
      /\ t # Idle /\ id # 0 /\ k.active[id] = t
  BY ObjectsAssumption DEF ThreadTerminate, SvcReturn, Active, ObjectsAssumption
<1>2. /\ Fit(k, Living(k)) /\ Living(k) \in SUBSET Thread /\ Table(k) /\ k.run # Idle
      /\ k.run \in Living(k) /\ Sound(k)
  BY <1>1, ServiceFinds
<1>3. /\ k.tid \in [Thread -> 0 .. MaxTaskRun] /\ MaxTaskRun \in Nat
      /\ k.active \in [1 .. MaxTaskRun -> Thread \cup {None}]
  BY <1>2, SoundFields, KernelAssumption DEF KernelAssumption
<1>4. id \in 1 .. MaxTaskRun /\ t \in Living(k)
  BY <1>1, <1>3 DEF Living
<1>5. k.active[k.tid[k.run]] = k.run
  BY <1>2 DEF Living
<1> HIDE DEF r, id
<1>6. /\ Consistent(r, Living(k) \ {t}) /\ Running(r) /\ Due(r)
      /\ r.active = [k.active EXCEPT ![id] = None] /\ r.tid = k.tid /\ r.prio = k.prio
      /\ Leaves(k, r, t)
  <2>1. (id = k.tid[k.run] => t = k.run) /\ (t = k.run => id = k.tid[k.run])
    BY <1>1, <1>5 DEF id
  <2>2. t = k.active[id] /\ t # Idle
    BY <1>1
  <2> QED BY ONLY KernelAssumption, <1>2, <1>4, <2>1, <2>2, DeleteListed DEF Fit, r
<1>7. Living(r) = Living(k) \ {t} /\ Table(r)
  <2>1. /\ t \in Thread /\ t # None /\ k.tid[t] = id
        /\ r.active[id] = None /\ \A i \in 1 .. MaxTaskRun : i # id => r.active[i] = k.active[i]
    BY <1>3, <1>4, <1>6, KernelAssumption DEF KernelAssumption, id
  <2>2. ASSUME NEW x \in Thread
        PROVE  x \in Living(r) <=> x \in Living(k) /\ x # t
    <3>1. r.tid[x] = k.tid[x] /\ x # None /\ k.tid[x] \in 0 .. MaxTaskRun
      BY <1>3, <1>6, KernelAssumption DEF KernelAssumption
    <3> QED BY <1>1, <1>3, <1>4, <2>1, <3>1 DEF Living
  <2>3. Living(r) \subseteq Thread
    BY DEF Living
  <2>4. Table(r)
    BY <1>2, <1>6, <2>1 DEF Table
  <2> QED BY <1>2, <2>2, <2>3, <2>4
<1>8. OInv'
  BY <1>1, <1>6, <1>7, ServiceKeeps DEF Fit
<1> QED BY <1>1, <1>6, <1>7, <1>8

LEMMA SetPriorityKeeps ==
    ASSUME OInv, NEW t \in Thread, NEW p \in Prios, ThreadSetPriority(t, p)
    PROVE  OInv' /\ SameWaiters(k, k') /\ psq' = psq
<1> DEFINE id == k.tid[t]
           r == TskPrio(k, id, p)
<1>1. mode = "svc" /\ SvcReturn(r) /\ k' = r /\ psq' = psq /\ id # 0 /\ k.active[id] = t
  BY DEF ThreadSetPriority, SvcReturn, Active
<1>2. /\ Fit(k, Living(k)) /\ Living(k) \in SUBSET Thread /\ Table(k) /\ k.run # Idle
      /\ Sound(k)
  BY <1>1, ServiceFinds
<1>3. id \in 1 .. MaxTaskRun /\ p \in 0 .. MaxPrio /\ k.active[id] \in Living(k)
  <2>1. k.tid \in [Thread -> 0 .. MaxTaskRun] /\ MaxTaskRun \in Nat /\ MaxPrio \in Nat
    BY <1>2, SoundFields, KernelAssumption DEF KernelAssumption
  <2>2. t \in Living(k)
    BY <1>1 DEF Living
  <2>3. p \in 0 .. MaxPrio
    BY <2>1, ObjectsAssumption DEF ObjectsAssumption
  <2> QED BY <1>1, <2>1, <2>2, <2>3
<1> HIDE DEF id, r
<1>4. Fit(r, Living(k)) /\ SameTable(k, r) /\ SameWaiters(k, r)
  BY ONLY KernelAssumption, <1>2, <1>3, PrioListed DEF Fit, r
<1>5. Fit(r, Living(r)) /\ Table(r)
  BY <1>2, <1>4, SameLiving
<1> QED BY <1>1, <1>4, <1>5, ServiceKeeps

\* Nobody joins the list of an object, and one thread at most leaves them.
OneLeaves(s, r) == SameWaiters(s, r) \/ \E t \in Thread : Leaves(s, r, t)

LEMMA OneLeavesShrinks ==
    ASSUME NEW s, NEW r, OneLeaves(s, r)
    PROVE  Shrinks(s, r)
  BY DEF OneLeaves, Shrinks, SameWaiters, Leaves

LEMMA ControlKeeps ==
    ASSUME OInv, NEW t \in Thread, Control(t)
    PROVE  OInv' /\ OneLeaves(k, k') /\ psq' = psq
  BY TerminateKeeps, SetPriorityKeeps DEF Control, OneLeaves
\* What SysTick_Handler and PendSV_Handler keep true up to their end.
Handling(s, A) == Consistent(s, A) /\ {Idle, s.run} \subseteq ToSet(s.rdy)

LEMMA HandlerFinds ==
    ASSUME OInv, mode \in {"tick", "pop"}
    PROVE  /\ Handling(k, Living(k)) /\ Living(k) \in SUBSET Thread /\ Table(k)
           /\ (mode = "pop" => Due(k))
  BY DEF OInv, Handling, Consistent, Living

LEMMA EnterFinds ==
    ASSUME OInv, mode = "thread"
    PROVE  /\ Fit(k, Living(k)) /\ Living(k) \in SUBSET Thread /\ Table(k)
           /\ LET r == PutRdyFirst(k, k.run) IN
              /\ Handling(r, Living(k)) /\ Due(r) /\ Steady(k, r)
              /\ r.rdy # <<>> /\ Head(r.rdy) \in Thread
<1>1. Fit(k, Living(k)) /\ Living(k) \in SUBSET Thread /\ Table(k)
  BY DEF OInv, Fit, Consistent, InThread, Living
<1> QED BY <1>1, KernelAssumption, EnterListed DEF Fit, Handling

LEMMA TickEnterKeeps ==
    ASSUME OInv, TickEnter
    PROVE  OInv' /\ Steady(k, k') /\ psq' = psq
<1> DEFINE s == PutRdyFirst(k, k.run)
           v == IF RobinExpired(s) THEN RobinSwap(s) ELSE s
<1>1. /\ mode = "thread" /\ mode' = "tick" /\ k' = DecDly(v)
      /\ robin' = IF RobinExpired(s) THEN [RobinStart(s) EXCEPT !.task = None]
                                     ELSE RobinStart(s)
      /\ time' = (time + 1) % TimeMod
      /\ psq' = psq /\ pend' = pend
  BY DEF TickEnter
<1>2. /\ Living(k) \in SUBSET Thread /\ Table(k)
      /\ Handling(s, Living(k)) /\ Due(s) /\ Steady(k, s)
      /\ s.rdy # <<>> /\ Head(s.rdy) \in Thread
  BY <1>1, EnterFinds
<1> HIDE DEF s
<1>3. Handling(v, Living(k)) /\ Due(v) /\ Steady(k, v)
  <2>1. CASE RobinExpired(s)
    <3>1. /\ Consistent(RobinSwap(s), Living(k)) /\ Steady(s, RobinSwap(s))
          /\ Due(RobinSwap(s)) /\ RobinSwap(s).run = s.run
          /\ ToSet(RobinSwap(s).rdy) = ToSet(s.rdy)
      BY <1>2, KernelAssumption, RobinListed DEF Handling
    <3> HIDE DEF RobinSwap
    <3> QED BY <1>2, <2>1, <3>1 DEF Handling, Steady, SameTable, SameWaiters
  <2>2. CASE ~RobinExpired(s)
    BY <1>2, <2>2
  <2> QED BY <2>1, <2>2
<1> HIDE DEF v
<1>4. Handling(k', Living(k)) /\ Steady(k, k')
  <2>1. /\ Consistent(DecDly(v), Living(k)) /\ Steady(v, DecDly(v))
        /\ DecDly(v).run = v.run /\ DecDly(v).rdy = v.rdy
    BY <1>2, <1>3, KernelAssumption, CountListed DEF Handling
  <2> QED BY <1>1, <1>3, <2>1 DEF Handling, Steady, SameTable, SameWaiters
<1>5. /\ time' \in 0 .. TimeMod - 1
      /\ robin' \in [task : Thread \cup {None}, time : 0 .. TimeMod - 1]
  <2>1. /\ time \in 0 .. TimeMod - 1
        /\ robin \in [task : Thread \cup {None}, time : 0 .. TimeMod - 1]
    BY DEF OInv, KernelTypeOK
  <2>2. \A n \in Int : n % TimeMod \in 0 .. TimeMod - 1
    BY KernelAssumption DEF KernelAssumption
  <2>3. time + 1 \in Int /\ time + RobinTout - 1 \in Int
    BY <2>1, KernelAssumption DEF KernelAssumption
  <2>4. RobinStart(s) \in [task : Thread \cup {None}, time : 0 .. TimeMod - 1]
    BY <1>2, <2>1, <2>2, <2>3 DEF RobinStart
  <2> QED BY <1>1, <2>2, <2>3, <2>4
<1>6. Living(k') = Living(k) /\ Table(k')
  BY <1>2, <1>4, SameLiving DEF Steady
<1>7. KernelTypeOK'
  <2>1. k' \in KernelRecord
    BY <1>4 DEF Handling, Consistent, Sound
  <2> QED BY <1>1, <1>5, <2>1 DEF OInv, KernelTypeOK, Mode
<1> QED BY <1>1, <1>4, <1>6, <1>7 DEF OInv, Handling, Consistent, InThread

LEMMA TickTimeoutKeeps ==
    ASSUME OInv, TickTimeout
    PROVE  /\ OInv' /\ SameTable(k, k') /\ k'.prio = k.prio /\ psq' = psq
           /\ \E t \in Thread : Leaves(k, k', t)
<1> DEFINE r == TimedOut(k)
<1>1. /\ mode = "tick" /\ k.dly # <<>> /\ k' = r
      /\ UNCHANGED <<mode, psq, pend, robin, time>>
  BY DEF TickTimeout, TimeoutDue, TimedOut
<1>2. /\ Handling(k, Living(k)) /\ Living(k) \in SUBSET Thread /\ Table(k)
  BY <1>1, HandlerFinds
<1>3. /\ Consistent(r, Living(k)) /\ SameTable(k, r) /\ r.run = k.run
      /\ Leaves(k, r, Head(k.dly)) /\ r.prio = k.prio
      /\ ToSet(k.rdy) \subseteq ToSet(r.rdy)
  BY <1>1, <1>2, KernelAssumption, TimeoutListed DEF Handling
<1> HIDE DEF r
<1>4. Handling(k', Living(k)) /\ Living(k') = Living(k) /\ Table(k')
  BY <1>1, <1>2, <1>3, SameLiving DEF Handling
<1>5. KernelTypeOK'
  <2>1. k' \in KernelRecord
    BY <1>4 DEF Handling, Consistent, Sound
  <2> QED BY <1>1, <2>1 DEF OInv, KernelTypeOK
<1>6. Head(k.dly) \in Thread
  BY <1>1, <1>2, KernelAssumption, TakeDelaySound DEF Handling, Consistent
<1> QED BY <1>1, <1>3, <1>4, <1>5, <1>6 DEF OInv, Handling, Consistent, InThread

LEMMA ExitKeeps ==
    ASSUME OInv, TickExit \/ PopExit
    PROVE  OInv' /\ Steady(k, k') /\ psq' = psq
<1> DEFINE r == SwitchToFirst(k)
<1>1. /\ mode \in {"tick", "pop"} /\ mode' = "thread" /\ k' = r
      /\ UNCHANGED <<psq, pend, robin, time>>
  BY DEF TickExit, PopExit
<1>2. Handling(k, Living(k)) /\ Living(k) \in SUBSET Thread /\ Table(k)
  BY <1>1, HandlerFinds
<1>3. Due(k)
  <2>1. CASE TickExit
    <3>1. /\ Sound(k) /\ (k.dly = <<>> \/ k.rem[Head(k.dly)] # 0)
          /\ k.rem \in [Thread -> Nat] /\ ToSet(k.dly) \subseteq Thread
      BY <2>1, KernelAssumption, SoundFields DEF OInv, TickExit, TimeoutDue
    <3>2. CASE k.dly = <<>>
      BY <3>2 DEF Due, ToSet
    <3>3. CASE k.dly # <<>>
      <4> DEFINE x == Head(k.dly)
                 z == [k EXCEPT !.dly = Tail(@)]
      <4>1. x \in Thread /\ \A y \in ToSet(k.dly) : k.rem[x] <= k.rem[y]
        BY <3>1, <3>3, KernelAssumption, TakeDelaySound
      <4> QED BY <3>1, <3>3, <4>1 DEF Due
    <3> QED BY <3>2, <3>3
  <2>2. CASE PopExit
    BY <2>2 DEF OInv, PopExit
  <2> QED BY <2>1, <2>2
<1>4. Fit(r, Living(k)) /\ Steady(k, r)
  BY <1>2, <1>3, KernelAssumption, SwitchListed DEF Handling, Fit
<1> HIDE DEF r
<1>5. Living(r) = Living(k) /\ Table(r)
  BY <1>2, <1>4, SameLiving DEF Steady
<1>6. KernelTypeOK'
  <2>1. k' \in KernelRecord
    BY <1>1, <1>4 DEF Fit, Consistent, Sound
  <2> QED BY <1>1, <2>1 DEF OInv, KernelTypeOK, Mode
<1> QED BY <1>1, <1>4, <1>5, <1>6 DEF OInv, Fit, Consistent, InThread
LEMMA PopEnterKeeps ==
    ASSUME OInv, PopEnter
    PROVE  OInv' /\ Steady(k, k') /\ psq' = psq
<1> DEFINE r == PutRdyFirst(k, k.run)
<1>1. /\ mode = "thread" /\ mode' = "pop" /\ k' = r /\ pend' = FALSE
      /\ UNCHANGED <<psq, robin, time>>
  BY DEF PopEnter
<1>2. /\ Living(k) \in SUBSET Thread /\ Table(k)
      /\ Handling(r, Living(k)) /\ Due(r) /\ Steady(k, r)
  BY <1>1, EnterFinds
<1> HIDE DEF r
<1>3. Living(r) = Living(k) /\ Table(r)
  BY <1>2, SameLiving DEF Steady
<1>4. KernelTypeOK'
  <2>1. k' \in KernelRecord
    BY <1>1, <1>2 DEF Handling, Consistent, Sound
  <2> QED BY <1>1, <2>1 DEF OInv, KernelTypeOK, Mode
<1> QED BY <1>1, <1>2, <1>3, <1>4 DEF OInv, Handling, Consistent, InThread

LEMMA DieKeeps ==
    ASSUME OInv, Die
    PROVE  OInv' /\ Steady(k, k') /\ psq' = psq
<1>1. UNCHANGED kernelVars
  BY DEF Die
<1>2. k' = k /\ psq' = psq /\ mode' = mode
  BY <1>1 DEF kernelVars
<1>3. OInv'
  BY <1>1 DEF OInv, KernelTypeOK, InThread, kernelVars
<1> QED BY <1>2, <1>3 DEF Steady, SameTable, SameWaiters

LEMMA KernelStepKeeps ==
    ASSUME OInv, KernelStep
    PROVE  /\ OInv' /\ SameTable(k, k') /\ k'.prio = k.prio /\ psq' = psq
           /\ OneLeaves(k, k')
<1>1. CASE TickTimeout
  BY <1>1, TickTimeoutKeeps DEF OneLeaves
<1>2. CASE ~TickTimeout
  <2>1. OInv' /\ Steady(k, k') /\ psq' = psq
    BY <1>2, SvcEnterKeeps, TickEnterKeeps, ExitKeeps, PopEnterKeeps, DieKeeps,
       YieldKeeps DEF KernelStep
  <2> QED BY <2>1 DEF Steady, OneLeaves
<1> QED BY <1>1, <1>2

\* What the request of an interrupt has to leave behind.
LEMMA PopKeeps ==
    ASSUME OInv, NEW s, PopRequest(s), Handling(s, Living(s)), Due(s), Table(s)
    PROVE  OInv'
<1>1. mode = "pop" /\ k' = s /\ UNCHANGED <<mode, pend, robin, time>>
  BY DEF PopRequest
<1>2. KernelTypeOK'
  <2>1. k' \in KernelRecord
    BY <1>1 DEF Handling, Consistent, Sound
  <2> QED BY <1>1, <2>1 DEF OInv, KernelTypeOK, Mode
<1> QED BY <1>1, <1>2 DEF OInv, Handling, Consistent, InThread

LEMMA EnqKeeps ==
    ASSUME OInv, NEW x, PsqEnq(x)
    PROVE  OInv' /\ k' = k
<1>1. k' = k /\ robin' = robin /\ time' = time
  BY DEF PsqEnq
<1>2. pend' \in BOOLEAN /\ (mode' = mode \/ mode' = "os_error")
  BY DEF PsqEnq, OInv, KernelTypeOK
<1>3. KernelTypeOK'
  BY <1>1, <1>2 DEF OInv, KernelTypeOK, Mode
<1>4. (Sound(k) /\ Homed(k, Living(k)) /\ Listed(k, Living(k)) /\ Table(k))'
  BY <1>1 DEF OInv
<1>5. mode' = "os_error" => OInv'
  BY <1>3, <1>4 DEF OInv, InThread
<1>6. mode' = mode => OInv'
  BY <1>1, <1>3, <1>4 DEF OInv, InThread
<1> QED BY <1>1, <1>2, <1>5, <1>6

LEMMA StutterKeeps ==
    ASSUME OInv, UNCHANGED kernelVars
    PROVE  OInv'
  BY DEF OInv, KernelTypeOK, InThread, kernelVars

-----------------------------------------------------------------------------
(***************************************************************************)
(* The lists after a service: those it leaves alone, or the one it wakes   *)
(* the first thread of.                                                    *)
(***************************************************************************)
\* The first thread that waits for o goes, and nobody else.
FirstLeaves(s, r, o) ==
    /\ Shrinks(s, r) /\ SameTable(s, r)
    /\ s.wait[o] = <<>> => r = s
    /\ s.wait[o] # <<>> =>
       /\ Head(s.wait[o]) \in ToSet(s.wait[o])
       /\ r.wait[o] = Tail(s.wait[o]) /\ \A x \in Obj \ {o} : r.wait[x] = s.wait[x]
       /\ ToSet(r.wait[o]) = ToSet(s.wait[o]) \ {Head(s.wait[o])}
       /\ \A x \in ToSet(s.wait[o]) : s.prio[Head(s.wait[o])] >= s.prio[x]

\* A thread gives, or PendSV does: rt_sem_send and rt_sem_psh, and alike for mailboxes.
Sent(s, o) == IF s.wait[o] = <<>> THEN s ELSE Dispatch(Woken(s, o), Head(s.wait[o]))
Pushed(s, o) == IF s.wait[o] = <<>> THEN s ELSE PutRdy(Woken(s, o), Head(s.wait[o]))

LEMMA SentFits ==
    ASSUME KernelAssumption, NEW s, NEW A \in SUBSET Thread, Fit(s, A), NEW o \in Obj
    PROVE  Fit(Sent(s, o), A) /\ FirstLeaves(s, Sent(s, o), o)
<1> DEFINE h == Head(s.wait[o])
           v == Woken(s, o)
           r == Dispatch(v, h)
<1>1. CASE s.wait[o] = <<>>
  BY <1>1 DEF Sent, FirstLeaves, Shrinks, SameTable
<1>2. CASE s.wait[o] # <<>>
  <2>1. Consistent(s, A) /\ Running(s) /\ Due(s) /\ Sound(s)
    BY DEF Fit, Consistent
  <2>2. FirstTaken(s, v, o, h, A)
    BY <1>2, <2>1, WokenListed
  <2>3. Sent(s, o) = r /\ s.wait \in [Obj -> Seq(Thread)]
    BY <1>2, <2>1, WaitFields DEF Sent
  <2> HIDE DEF v, h
  <2>4. /\ h \in A /\ Consistent(v, A \ {h}) /\ v.rlnk[h] = None /\ Due(v)
        /\ v.run = s.run /\ v.rdy = s.rdy /\ v.state = s.state /\ v.prio = s.prio
    BY <2>1, <2>2 DEF FirstTaken, Freed
  <2>5. Running(v)
    BY <2>1, <2>4 DEF Running
  <2>6. /\ Consistent(r, A) /\ Running(r) /\ Frame(v, r) /\ r.prio = v.prio /\ Due(r)
    BY ONLY KernelAssumption, A \in SUBSET Thread, <2>4, <2>5, DispatchJoins
  <2> HIDE DEF r
  <2>7. /\ r.wait = v.wait /\ SameTable(s, r) /\ Shrinks(s, r)
    BY <2>2, <2>6 DEF Frame, FirstTaken, Freed, SameTable, Shrinks
  <2>8. /\ r.wait[o] = Tail(s.wait[o]) /\ \A x \in Obj \ {o} : r.wait[x] = s.wait[x]
    BY <2>2, <2>3, <2>7 DEF FirstTaken, Freed
  <2>9. FirstLeaves(s, r, o)
    BY <1>2, <2>2, <2>7, <2>8 DEF FirstLeaves, FirstTaken, h
  <2> QED BY <2>3, <2>6, <2>9 DEF Fit
<1> QED BY <1>1, <1>2

LEMMA PushedFits ==
    ASSUME KernelAssumption, NEW s, NEW A \in SUBSET Thread, Handling(s, A), Due(s),
           NEW o \in Obj
    PROVE  /\ Handling(Pushed(s, o), A) /\ Due(Pushed(s, o))
           /\ FirstLeaves(s, Pushed(s, o), o)
<1> DEFINE h == Head(s.wait[o])
           v == Woken(s, o)
           r == PutRdy(v, h)
<1>1. CASE s.wait[o] = <<>>
  BY <1>1 DEF Pushed, FirstLeaves, Shrinks, SameTable
<1>2. CASE s.wait[o] # <<>>
  <2>1. Consistent(s, A) /\ {Idle, s.run} \subseteq ToSet(s.rdy) /\ Sound(s)
    BY DEF Handling, Consistent
  <2>2. FirstTaken(s, v, o, h, A)
    BY <1>2, <2>1, WokenListed
  <2>3. Pushed(s, o) = r /\ s.wait \in [Obj -> Seq(Thread)]
    BY <1>2, <2>1, WaitFields DEF Pushed
  <2> HIDE DEF v, h
  <2>4. /\ h \in A /\ Consistent(v, A \ {h}) /\ v.rlnk[h] = None /\ Due(v)
        /\ v.run = s.run /\ v.rdy = s.rdy
    BY <2>2 DEF FirstTaken, Freed
  <2>5. /\ Consistent(r, A) /\ Frame(v, r) /\ r.prio = v.prio /\ r.run = v.run
        /\ ToSet(r.rdy) = ToSet(v.rdy) \cup {h} /\ Due(r)
    <3>1. h \in A /\ Consistent(v, A \ {h}) /\ v.rlnk[h] = None
      BY <2>4
    <3> QED BY ONLY KernelAssumption, A \in SUBSET Thread, <2>4, <3>1, PutRdyJoins, ZenonT(30)
  <2> HIDE DEF r
  <2>6. r.wait = v.wait /\ SameTable(s, r) /\ Shrinks(s, r)
    BY <2>2, <2>5 DEF Frame, FirstTaken, Freed, SameTable, Shrinks
  <2>7. /\ r.wait[o] = Tail(s.wait[o]) /\ \A x \in Obj \ {o} : r.wait[x] = s.wait[x]
    BY <2>2, <2>3, <2>6 DEF FirstTaken, Freed
  <2>8. FirstLeaves(s, r, o)
    BY <1>2, <2>2, <2>6, <2>7 DEF FirstLeaves, FirstTaken, h
  <2> QED BY <2>1, <2>3, <2>4, <2>5, <2>8 DEF Handling
<1> QED BY <1>1, <1>2

-----------------------------------------------------------------------------
(***************************************************************************)
(* OInv holds at the start.                                                *)
(***************************************************************************)
LEMMA AllInOrder ==
    ASSUME NEW S, IsFiniteSet(S), NEW q \in SetToSeqs(S)
    PROVE  /\ q \in Seq(S) /\ Len(q) = Cardinality(S) /\ Cardinality(S) \in Nat
           /\ Distinct(q) /\ ToSet(q) = S
<1> DEFINE n == Cardinality(S)
<1>1. n \in Nat
  BY FS_CardinalityType
<1>2. q \in [1 .. n -> S] /\ \A i, j \in 1 .. n : i # j => q[i] # q[j]
  BY DEF SetToSeqs
<1>3. q \in Injection(1 .. n, S)
  BY <1>2 DEF Injection, IsInjective
<1>4. IsFiniteSet(1 .. n) /\ Cardinality(1 .. n) = n
  BY <1>1, FS_Interval
<1>5. q \in Surjection(1 .. n, S)
  BY <1>3, <1>4, FS_Injection
<1> HIDE DEF n
<1>6. q \in Seq(S) /\ Len(q) = n /\ DOMAIN q = 1 .. n
  BY <1>1, <1>2
<1>7. ToSet(q) = S
  BY <1>2, <1>5, <1>6 DEF Surjection, ToSet
<1>8. Distinct(q)
  BY <1>2, <1>6 DEF Distinct
<1> QED BY <1>1, <1>6, <1>7, <1>8 DEF n

\* The only position of t in a list.
LEMMA OnlyPosition ==
    ASSUME NEW S, NEW q \in Seq(S), Distinct(q), NEW i \in DOMAIN q
    PROVE  Min(PositionsOf(q, q[i])) = i
<1>1. PositionsOf(q, q[i]) = {i} /\ i \in Nat
  BY DEF PositionsOf, Distinct
<1> QED BY <1>1 DEF Min

LEMMA CreatedInOrder ==
    ASSUME NEW q \in SetToSeqs(Thread \ {Main}), Ordered(q, InitPrio),
           NEW c, c = Cons(Main, q)
    PROVE  /\ q \in Seq(Thread) /\ Distinct(q) /\ ToSet(q) = Thread \ {Main}
           /\ c \in Seq(Thread) /\ Distinct(c) /\ ToSet(c) = Thread
           /\ Len(c) \in Nat /\ Len(c) - 1 <= MaxTaskRun
           /\ \A i \in 1 .. Len(c) : c[i] = Idle <=> i = Len(c)
<1> DEFINE S == Thread \ {Main}
           n == Len(q)
<1> USE ObjectsAssumption, KernelAssumption DEF ObjectsAssumption, KernelAssumption
<1>1. /\ IsFiniteSet(Thread) /\ Main \in Thread /\ Idle \in S
      /\ InitPrio \in [Thread -> Nat] /\ MaxTaskRun \in Nat
      /\ \A t \in Thread : InitPrio[t] = 0 <=> t = Idle
  OBVIOUS
<1>2. IsFiniteSet(S) /\ Cardinality(S) = Cardinality(Thread) - 1
  BY <1>1, FS_RemoveElement
<1>3. /\ q \in Seq(S) /\ n = Cardinality(S) /\ n \in Nat /\ Distinct(q)
      /\ ToSet(q) = S
  BY <1>2, AllInOrder
<1>4. n <= MaxTaskRun
  <2>1. MaxTaskRun >= Cardinality(Thread) - 1
    OBVIOUS
  <2> QED BY <1>2, <1>3, <2>1
<1> HIDE DEF S
<1>5. /\ c \in Seq(Thread) /\ Len(c) = n + 1 /\ c[1] = Main
      /\ \A i \in 1 .. n : c[i + 1] = q[i]
  <2>1. q \in Seq(Thread) /\ <<Main>> \in Seq(Thread)
    BY <1>1, <1>3 DEF S
  <2>2. c = <<Main>> \o q
    BY DEF Cons
  <2> QED BY ONLY <1>1, <1>3, <2>1, <2>2
<1>6. \A i \in 2 .. n + 1 : i - 1 \in 1 .. n /\ c[i] = q[i - 1]
  BY <1>3, <1>5
<1>7. \A i \in 1 .. n : q[i] \in Thread /\ q[i] # Main
  BY <1>3 DEF S
<1>8. Distinct(c)
  <2>1. ASSUME NEW i \in 1 .. n + 1, NEW j \in 1 .. n + 1, c[i] = c[j]
        PROVE  i = j
    <3>1. CASE i = 1 \/ j = 1
      BY <1>3, <1>5, <1>6, <1>7, <2>1, <3>1
    <3>2. CASE i # 1 /\ j # 1
      <4>1. i \in 2 .. n + 1 /\ j \in 2 .. n + 1
        BY <1>3, <3>2
      <4>2. q[i - 1] = q[j - 1] /\ i - 1 \in DOMAIN q /\ j - 1 \in DOMAIN q
        BY <1>3, <1>6, <2>1, <4>1
      <4>3. i - 1 = j - 1
        BY <1>3, <4>2 DEF Distinct
      <4> QED BY <1>3, <4>1, <4>3
    <3> QED BY <3>1, <3>2
  <2> QED BY <1>3, <1>5, <2>1 DEF Distinct
<1>9. ToSet(c) = Thread
  <2>1. ASSUME NEW t \in Thread PROVE t \in ToSet(c)
    <3>1. CASE t = Main
      <4>1. 1 \in DOMAIN c
        BY <1>3, <1>5
      <4> QED BY <1>5, <3>1, <4>1 DEF ToSet
    <3>2. CASE t # Main
      <4>1. PICK i \in DOMAIN q : q[i] = t
        BY <1>3, <3>2 DEF ToSet, S
      <4>2. i + 1 \in DOMAIN c /\ c[i + 1] = t
        BY <1>3, <1>5, <4>1
      <4> QED BY <4>2 DEF ToSet
    <3> QED BY <3>1, <3>2
  <2> QED BY <1>5, <2>1 DEF ToSet
<1>10. \A i \in 1 .. n : q[i] = Idle <=> i = n
  <2>1. PICK e \in DOMAIN q : q[e] = Idle
    BY <1>1, <1>3 DEF ToSet
  <2>2. e \in 1 .. n /\ n \in 1 .. n
    BY <1>3, <2>1
  <2>3. e = n
    <3>1. SUFFICES ASSUME e < n PROVE FALSE
      BY <1>3, <2>2
    <3>2. InitPrio[q[e]] >= InitPrio[q[n]]
      BY <1>3, <2>2, <3>1 DEF Ordered
    <3>3. q[n] # Idle /\ q[n] \in Thread
      BY <1>3, <1>7, <2>1, <2>2, <3>1 DEF Distinct
    <3> QED BY <1>1, <2>1, <3>2, <3>3
  <2>4. \A i \in 1 .. n : q[i] = Idle => i = n
    BY <1>3, <2>1, <2>2, <2>3 DEF Distinct
  <2> QED BY <2>1, <2>3, <2>4
<1>11. \A i \in 1 .. n + 1 : c[i] = Idle <=> i = n + 1
  <2>1. n \in Nat \ {0}
    BY <1>1, <1>3 DEF ToSet
  <2>2. ASSUME NEW i \in 1 .. n + 1 PROVE c[i] = Idle <=> i = n + 1
    <3>1. CASE i = 1
      BY <1>1, <1>5, <2>1, <3>1 DEF S
    <3>2. CASE i # 1
      <4>1. i - 1 \in 1 .. n /\ c[i] = q[i - 1]
        BY <1>3, <1>6, <3>2
      <4>2. q[i - 1] = Idle <=> i - 1 = n
        BY <1>10, <4>1
      <4> QED BY <1>3, <4>1, <4>2
    <3> QED BY <3>1, <3>2
  <2> QED BY <2>2
<1>12. q \in Seq(Thread) /\ ToSet(q) = Thread \ {Main}
  BY ONLY <1>3 DEF S
<1>13. Len(c) \in Nat /\ Len(c) - 1 <= MaxTaskRun /\ 1 .. Len(c) = 1 .. n + 1
  BY ONLY <1>1, <1>3, <1>4, <1>5
<1> QED BY ONLY <1>3, <1>5, <1>8, <1>9, <1>11, <1>12, <1>13

LEMMA StartedFit ==
    ASSUME NEW q \in SetToSeqs(Thread \ {Main}), Ordered(q, InitPrio)
    PROVE  /\ Fit(Started(q), Thread) /\ Living(Started(q)) = Thread
           /\ Table(Started(q)) /\ Started(q).run # Idle
           /\ \A o \in Obj : Started(q).wait[o] = <<>>
<1> DEFINE c == Cons(Main, q)
           s == Started(q)
<1> USE ObjectsAssumption, KernelAssumption DEF ObjectsAssumption, KernelAssumption
<1>1. /\ q \in Seq(Thread) /\ Distinct(q) /\ ToSet(q) = Thread \ {Main}
      /\ c \in Seq(Thread) /\ Distinct(c) /\ ToSet(c) = Thread
      /\ Len(c) \in Nat /\ Len(c) - 1 <= MaxTaskRun
      /\ \A i \in 1 .. Len(c) : c[i] = Idle <=> i = Len(c)
  BY CreatedInOrder
<1>2. /\ s.run = Main /\ s.rdy = q /\ s.dly = <<>>
      /\ s.wait = [o \in Obj |-> <<>>]
      /\ s.state = [t \in Thread |-> IF t = Main THEN "RUNNING" ELSE "READY"]
      /\ s.prio = InitPrio
      /\ s.tid = [t \in Thread |-> IF t = Idle THEN 0 ELSE Min(PositionsOf(c, t))]
      /\ s.rem = [t \in Thread |-> 0]
      /\ s.rlnk = [t \in Thread |-> None]
      /\ s.active = [i \in 1 .. MaxTaskRun |-> IF i < Len(c) THEN c[i] ELSE None]
      /\ DOMAIN s = {"run", "rdy", "dly", "wait", "state", "prio", "tid", "rem",
                     "rlnk", "active"}
  BY DEF Started
<1> HIDE DEF c
<1>3. ASSUME NEW t \in Thread, t # Idle
      PROVE  /\ s.tid[t] \in 1 .. MaxTaskRun /\ s.tid[t] < Len(c) /\ c[s.tid[t]] = t
  <2>1. PICK i \in DOMAIN c : c[i] = t
    BY <1>1 DEF ToSet
  <2>2. s.tid[t] = i
    BY <1>1, <1>2, <1>3, <2>1, OnlyPosition
  <2>3. i \in 1 .. Len(c) /\ i # Len(c)
    BY <1>1, <1>3, <2>1
  <2> QED BY <1>1, <2>1, <2>2, <2>3
<1>4. s.tid \in [Thread -> 0 .. MaxTaskRun]
  <2>1. \A t \in Thread : s.tid[t] \in 0 .. MaxTaskRun
    BY <1>2, <1>3
  <2> QED BY <1>2, <2>1
<1>5. s.active \in [1 .. MaxTaskRun -> Thread \cup {None}]
  BY <1>1, <1>2
<1>6. s \in KernelRecord
  <2>1. /\ s.run \in Thread /\ s.rdy \in Seq(Thread) /\ s.dly \in Seq(Thread)
        /\ s.wait \in [Obj -> Seq(Thread)] /\ s.state \in [Thread -> State]
        /\ s.prio \in [Thread -> 0 .. MaxPrio] /\ s.rem \in [Thread -> 0 .. Forever]
        /\ s.rlnk \in [Thread -> Obj \cup {None}]
    BY <1>1, <1>2 DEF State
  <2> QED BY <1>4, <1>5, <2>1 DEF KernelRecord, Started
<1> HIDE DEF s
<1>7. ToSet(s.dly) = {} /\ \A o \in Obj : ToSet(s.wait[o]) = {}
  BY <1>2 DEF ToSet
<1>8. Distinct(s.dly) /\ Rising(s.dly, s.rem)
  BY <1>2 DEF Distinct, Rising
<1>9. Sound(s) /\ Due(s)
  BY <1>1, <1>2, <1>6, <1>7, <1>8 DEF Sound, Due
<1>10. Running(s)
  BY <1>1, <1>2 DEF Running
<1>11. Homed(s, Thread)
  BY <1>1, <1>2 DEF Homed
<1>12. Listed(s, Thread)
  <2>1. \A o \in Obj : Distinct(s.wait[o]) /\ Ordered(s.wait[o], s.prio)
    BY <1>2 DEF Distinct, Ordered
  <2> QED BY <1>1, <1>2, <1>7, <2>1 DEF Listed, ObjectWait
<1>13. Living(s) = Thread
  BY <1>2, <1>3 DEF Living
<1>14. Table(s)
  <2>1. ASSUME NEW i \in 1 .. MaxTaskRun, s.active[i] # None
        PROVE  s.active[i] # Idle /\ s.tid[s.active[i]] = i
    <3>1. i < Len(c) /\ s.active[i] = c[i]
      BY <1>2, <2>1
    <3>2. i \in DOMAIN c /\ c[i] # Idle /\ c[i] \in Thread
      BY <1>1, <3>1
    <3>3. Min(PositionsOf(c, c[i])) = i
      BY <1>1, <3>2, OnlyPosition
    <3> QED BY <1>2, <3>1, <3>2, <3>3
  <2> QED BY <2>1 DEF Table
<1> QED BY <1>2, <1>9, <1>10, <1>11, <1>12, <1>13, <1>14 DEF Fit, Consistent, s

LEMMA StartFits ==
    ASSUME KernelInit
    PROVE  OInv /\ \A o \in Obj : k.wait[o] = <<>>
<1>1. PICK q \in SetToSeqs(Thread \ {Main}) : Ordered(q, InitPrio) /\ k = Started(q)
  BY DEF KernelInit
<1>2. /\ Fit(k, Thread) /\ Living(k) = Thread /\ Table(k) /\ k.run # Idle
      /\ \A o \in Obj : k.wait[o] = <<>>
  BY <1>1, StartedFit
<1>3. mode = "thread" /\ robin = [task |-> None, time |-> 0] /\ time = 0
  BY DEF KernelInit
<1>4. pend \in BOOLEAN
  BY Zenon DEF KernelInit
<1>5. KernelTypeOK
  <2>1. k \in KernelRecord
    BY <1>2 DEF Fit, Consistent, Sound
  <2> QED BY <1>3, <1>4, <2>1, KernelAssumption DEF KernelTypeOK, Mode, KernelAssumption
<1> QED BY <1>2, <1>3, <1>5 DEF OInv, Fit, Consistent, InThread

-----------------------------------------------------------------------------
(***************************************************************************)
(* What OInv says to a reader: the lists are what rt_List.c relies on, and *)
(* the processor is with none below a ready thread.                        *)
(***************************************************************************)
LEMMA ListsRight == OInv => WaitLists
<1> SUFFICES ASSUME OInv PROVE WaitLists
  OBVIOUS
<1> DEFINE A == Living(k)
<1>1. Sound(k) /\ Homed(k, A) /\ Listed(k, A) /\ k.run \in A
  BY DEF OInv, Listed
<1>2. \A o \in Obj : Ordered(k.wait[o], k.prio) /\ Distinct(k.wait[o])
  BY <1>1 DEF Listed
<1>3. \A t \in Thread : Lives(t) <=> t \in A
  BY DEF Lives, Active, Living
<1> HIDE DEF A
<1>4. ASSUME NEW t \in Thread, t \notin A
      PROVE  ~Runnable(t) /\ ~Waits(t)
  BY <1>1, <1>4 DEF Listed, Runnable, Waits
<1>5. ASSUME NEW t \in Thread, t \in A
      PROVE  /\ \A o \in Obj : t \in ToSet(k.wait[o]) <=> k.rlnk[t] = o
             /\ k.rlnk[t] # None <=> k.state[t] \in {"WAIT_SEM", "WAIT_MBX", "WAIT_MUT"}
             /\ k.state[t] \in {"READY", "RUNNING"} <=> Runnable(t)
             /\ t \in ToSet(k.dly) => k.state[t] \in WaitState
  <2>1. k.rlnk[t] \in Obj \cup {None} /\ None \notin Obj
    BY <1>1, SoundFields, KernelAssumption DEF KernelAssumption
  <2>2. \A o \in Obj : t \in ToSet(k.wait[o]) <=> k.rlnk[t] = o
    BY <1>1, <1>5, <2>1 DEF Listed
  <2>3. k.rlnk[t] # None <=> k.state[t] \in {"WAIT_SEM", "WAIT_MBX", "WAIT_MUT"}
    BY <1>1, <1>5, <2>1 DEF Listed, ObjectWait
  <2>4. k.state[t] \in {"READY", "RUNNING"} => Runnable(t)
    BY <1>1, <1>5 DEF Homed, Runnable
  <2>5. Runnable(t) => k.state[t] \in {"READY", "RUNNING"}
    BY <1>1 DEF Sound, Listed, Runnable
  <2>6. t \in ToSet(k.dly) => k.state[t] \in WaitState
    BY <1>1 DEF Sound
  <2> QED BY <2>2, <2>3, <2>4, <2>5, <2>6
<1> QED BY <1>2, <1>3, <1>4, <1>5 DEF WaitLists

LEMMA OrderRight == OInv => PriorityOrder
<1> SUFFICES ASSUME OInv PROVE PriorityOrder
  OBVIOUS
<1>1. Sound(k) /\ Ordered(k.rdy, k.prio)
  BY DEF OInv, Sound
<1>2. ASSUME InThread, k.rdy # <<>> PROVE k.prio[k.run] >= RdyPrio(k)
  <2> DEFINE r == [k EXCEPT !.rdy = Tail(@)]
  <2>1. Head(k.rdy) \in ToSet(k.rdy)
    BY <1>1, <1>2, KernelAssumption, TakeReadySound
  <2> QED BY <1>2, <2>1 DEF OInv, Running, RdyPrio
<1> QED BY <1>1, <1>2 DEF PriorityOrder
=============================================================================
