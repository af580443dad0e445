--------------------------- MODULE RtMutexProofs ----------------------------
(***************************************************************************)
(* The mutexes of RtMutex keep their invariants, for any number of threads *)
(* and mutexes: who owns one lives, nobody waits for one that is free, and *)
(* the lists stay in order while priorities are lent and given back.       *)
(***************************************************************************)
EXTENDS RtMutex, RtObjectsProofs

\* The variables of the mutexes, and who may wait and own.
MutTypeOK ==
    /\ psq = <<>>
    /\ owner \in [Obj -> Thread \cup {None}]
    /\ level \in [Obj -> 0 .. MaxLevel]
    /\ saved \in [Obj -> 0 .. MaxPrio]
    /\ live \in [Obj -> BOOLEAN]
    /\ use \in Uses

Guarded(s) == \A o \in Obj : \A t \in ToSet(s.wait[o]) :
                 live[o] /\ level[o] # 0 /\ owner[o] \notin {t, None}

Owned(A) == \A o \in Obj : live[o] /\ level[o] # 0 => owner[o] \in A

LEMMA GuardedMeans ==
    ASSUME Sound(k)
    PROVE  NoIdleMutex <=> Guarded(k)
<1>1. \A o \in Obj : k.wait[o] = <<>> <=> ToSet(k.wait[o]) = {}
  BY KernelAssumption, WaitFields, NoMembers
<1>2. ASSUME NEW o \in Obj
      PROVE  (k.wait[o] # <<>> => /\ live[o] /\ level[o] # 0
                                  /\ owner[o] \notin ToSet(k.wait[o]) \cup {None})
             <=> \A t \in ToSet(k.wait[o]) :
                    live[o] /\ level[o] # 0 /\ owner[o] \notin {t, None}
  BY <1>1
<1> QED BY <1>2 DEF NoIdleMutex, Guarded

LEMMA MInvParts ==
    ASSUME MInv
    PROVE  OInv /\ MutTypeOK /\ Guarded(k) /\ Owned(Living(k)) /\ Sound(k)
<1>1. OInv /\ Sound(k)
  BY DEF MInv, OInv
<1> QED BY <1>1, GuardedMeans DEF MInv, TypeOK, MutTypeOK, Owned

LEMMA MInvFits ==
    ASSUME OInv, MutTypeOK, Guarded(k), Owned(Living(k))
    PROVE  MInv
<1>1. Sound(k) /\ KernelTypeOK
  BY DEF OInv
<1> QED BY <1>1, GuardedMeans DEF MInv, TypeOK, MutTypeOK, Owned

LEMMA InitMInv == Init => MInv
<1> SUFFICES ASSUME Init PROVE MInv
  OBVIOUS
<1>1. OInv /\ \A o \in Obj : k.wait[o] = <<>>
  BY StartFits DEF Init
<1>2. MutTypeOK
  <2>1. MaxPrio \in Nat /\ MaxLevel \in Nat
    BY KernelAssumption, MutexAssumption DEF KernelAssumption, MutexAssumption
  <2> QED BY <2>1 DEF Init, KernelInit, MutTypeOK
<1>3. Guarded(k) /\ Owned(Living(k))
  BY <1>1 DEF Init, Guarded, Owned, ToSet
<1> QED BY <1>1, <1>2, <1>3, MInvFits

LEMMA MInvNext ==
    ASSUME (OInv /\ MutTypeOK /\ Guarded(k) /\ Owned(Living(k)))'
    PROVE  MInv'
<1>1. (Sound(k) /\ KernelTypeOK)'
  BY DEF OInv
<1>2. \A o \in Obj : k'.wait[o] = <<>> <=> ToSet(k'.wait[o]) = {}
  <2>1. Sound(k')
    BY <1>1
  <2> QED BY <2>1, KernelAssumption, WaitFields, NoMembers
<1>3. NoIdleMutex'
  BY <1>2 DEF NoIdleMutex, Guarded
<1> QED BY <1>1, <1>3 DEF MInv, TypeOK, MutTypeOK, Owned

-----------------------------------------------------------------------------
(***************************************************************************)
(* What a service leaves: the threads that live are the same.              *)
(***************************************************************************)
LEMMA ServiceFits ==
    ASSUME MInv, NEW s, SvcReturn(s), Fit(s, Living(k)), SameTable(k, s)
    PROVE  OInv' /\ k' = s /\ psq' = psq /\ Living(k)' = Living(k)
<1>1. mode = "svc" /\ OInv /\ k' = s /\ psq' = psq
  BY MInvParts DEF SvcReturn
<1>2. Table(k)
  BY <1>1, ServiceFinds
<1>3. Living(s) = Living(k) /\ Table(s)
  BY <1>2, SameLiving
<1>4. OInv'
  BY <1>1, <1>3, ServiceKeeps
<1> QED BY <1>1, <1>3, <1>4

LEMMA ServiceFinder ==
    ASSUME MInv, mode = "svc"
    PROVE  /\ Fit(k, Living(k)) /\ Living(k) \in SUBSET Thread /\ k.run \in Living(k)
           /\ k.run # Idle /\ k.run \in Thread /\ k.run # None /\ Sound(k)
           /\ k.prio \in [Thread -> 0 .. MaxPrio] /\ k.prio \in [Thread -> Nat]
           /\ SameTable(k, k) /\ SameWaiters(k, k)
           /\ \A o \in Obj : k.run \notin ToSet(k.wait[o]) /\ ToSet(k.wait[o]) \subseteq Living(k)
<1>1. /\ Fit(k, Living(k)) /\ Living(k) \in SUBSET Thread /\ k.run \in Living(k)
      /\ k.run # Idle /\ Sound(k)
  BY MInvParts, ServiceFinds
<1>2. k.run \in Thread /\ k.run # None
  BY <1>1, KernelAssumption DEF KernelAssumption
<1>3. k.prio \in [Thread -> 0 .. MaxPrio] /\ k.prio \in [Thread -> Nat]
  BY <1>1, SoundFields, KernelAssumption
<1>4. \A o \in Obj : k.run \notin ToSet(k.wait[o]) /\ ToSet(k.wait[o]) \subseteq Living(k)
  BY <1>1, KernelAssumption, QueueApart DEF Fit
<1> QED BY <1>1, <1>2, <1>3, <1>4 DEF SameTable, SameWaiters

LEMMA CreateKeeps ==
    ASSUME MInv, NEW o \in Obj, MutexCreate(o)
    PROVE  MInv'
<1>1. OInv /\ MutTypeOK /\ Guarded(k) /\ Owned(Living(k)) /\ mode = "svc"
  BY MInvParts DEF MutexCreate, SvcReturn
<1>2. /\ SvcReturn(k) /\ ~live[o] /\ owner' = [owner EXCEPT ![o] = None]
      /\ level' = [level EXCEPT ![o] = 0] /\ saved' = [saved EXCEPT ![o] = 0]
      /\ live' = [live EXCEPT ![o] = TRUE] /\ use' = use
  BY DEF MutexCreate
<1>3. OInv' /\ k' = k /\ psq' = psq /\ Living(k)' = Living(k)
  BY <1>1, <1>2, ServiceFinder, ServiceFits
<1>4. MutTypeOK'
  <2>1. MaxPrio \in Nat /\ MaxLevel \in Nat
    BY KernelAssumption, MutexAssumption DEF KernelAssumption, MutexAssumption
  <2> QED BY <1>1, <1>2, <1>3, <2>1 DEF MutTypeOK
<1>5. Guarded(k)' /\ Owned(Living(k))'
  BY <1>1, <1>2, <1>3 DEF MutTypeOK, Guarded, Owned
<1> QED BY <1>3, <1>4, <1>5, MInvNext

LEMMA TakeKeeps ==
    ASSUME MInv, NEW o \in Obj, MutexTake(o)
    PROVE  MInv'
<1>1. OInv /\ MutTypeOK /\ Guarded(k) /\ Owned(Living(k)) /\ mode = "svc"
  BY MInvParts DEF MutexTake, SvcReturn
<1>2. /\ SvcReturn(k) /\ live[o] /\ level[o] < MaxLevel /\ (level[o] = 0 \/ owner[o] = k.run)
      /\ owner' = [owner EXCEPT ![o] = k.run] /\ level' = [level EXCEPT ![o] = @ + 1]
      /\ saved' = IF level[o] = 0 THEN [saved EXCEPT ![o] = k.prio[k.run]] ELSE saved
      /\ live' = live /\ use' = use
  BY DEF MutexTake
<1>3. OInv' /\ k' = k /\ psq' = psq /\ Living(k)' = Living(k)
  BY <1>1, <1>2, ServiceFinder, ServiceFits
<1>4. level[o] \in 0 .. MaxLevel /\ level[o] + 1 \in 0 .. MaxLevel /\ level[o] + 1 # 0
  BY <1>1, <1>2, MutexAssumption DEF MutTypeOK, MutexAssumption
<1>5. MutTypeOK'
  BY <1>1, <1>2, <1>3, <1>4, ServiceFinder DEF MutTypeOK
<1>6. Guarded(k)'
  <2>1. \A t \in ToSet(k.wait[o]) : owner[o] = k.run
    BY <1>1, <1>2 DEF Guarded
  <2>2. k.run # None /\ \A t \in ToSet(k.wait[o]) : t # k.run
    BY <1>1, ServiceFinder
  <2>3. ASSUME NEW x \in Obj, NEW t \in ToSet(k.wait[x])
        PROVE  live'[x] /\ level'[x] # 0 /\ owner'[x] \notin {t, None}
    <3>1. CASE x = o
      BY <1>1, <1>2, <1>4, <2>2, <2>3, <3>1 DEF MutTypeOK
    <3>2. CASE x # o
      BY <1>1, <1>2, <2>3, <3>2 DEF MutTypeOK, Guarded
    <3> QED BY <3>1, <3>2
  <2> QED BY <1>3, <2>3 DEF Guarded
<1>7. Owned(Living(k))'
  <2>1. k.run \in Living(k)
    BY <1>1, ServiceFinder
  <2> QED BY <1>1, <1>2, <1>3, <2>1 DEF Owned, MutTypeOK
<1> QED BY <1>3, <1>5, <1>6, <1>7, MInvNext

-----------------------------------------------------------------------------
\* When only the list of o, and what o says of its owner, may change.
LEMMA GuardKept ==
    ASSUME MutTypeOK, Guarded(k), Shrinks(k, k'),
           \A o \in Obj : \A t \in ToSet(k'.wait[o]) :
              /\ live'[o] = live[o] /\ (level[o] # 0 => level'[o] # 0)
              /\ owner'[o] = owner[o] \/ owner'[o] \notin {t, None}
    PROVE  Guarded(k)'
<1>1. ASSUME NEW o \in Obj, NEW t \in ToSet(k'.wait[o])
      PROVE  live'[o] /\ level'[o] # 0 /\ owner'[o] \notin {t, None}
  <2>1. t \in ToSet(k.wait[o])
    BY <1>1 DEF Shrinks
  <2> QED BY <1>1, <2>1 DEF Guarded
<1> QED BY <1>1 DEF Guarded

-----------------------------------------------------------------------------
(***************************************************************************)
(* The owner inherits: only its priority changes, and its place in a list. *)
(***************************************************************************)
LEMMA InheritListed ==
    ASSUME KernelAssumption, NEW o \in Obj, NEW A \in SUBSET Thread, Fit(k, A),
           owner[o] \in A, owner[o] # k.run
    PROVE  /\ Fit(Inherit(k, o), A) /\ SameTable(k, Inherit(k, o))
           /\ Inherit(k, o).run = k.run /\ Inherit(k, o).state = k.state
           /\ SameWaiters(k, Inherit(k, o))
           /\ Inherit(k, o).prio = IF saved[o] < k.prio[k.run]
                                   THEN [k.prio EXCEPT ![owner[o]] = k.prio[k.run]]
                                   ELSE k.prio
<1> DEFINE t == owner[o]
           p == k.prio[k.run]
           r == Reprio(k, t, p)
<1>1. /\ Consistent(k, A) /\ Running(k) /\ Due(k) /\ Sound(k) /\ t \in Thread
      /\ k.prio \in [Thread -> 0 .. MaxPrio] /\ k.prio \in [Thread -> Nat]
      /\ k.run \in Thread /\ ToSet(k.rdy) \subseteq Thread
  BY SoundFields DEF Fit, Consistent
<1>2. Inherit(k, o) = IF saved[o] < p THEN r ELSE k
  BY DEF Inherit, Reprio
<1>3. Consistent(r, A) /\ Reordered(k, r, t, p)
  BY <1>1, ReprioListed
<1> HIDE DEF r
<1>4. Running(r)
  <2>1. \A x \in Thread : r.prio[x] = IF x = t THEN p ELSE k.prio[x]
    BY <1>1, <1>3 DEF Reordered
  <2>2. r.run = k.run /\ r.state = k.state /\ ToSet(r.rdy) = ToSet(k.rdy)
    BY <1>3 DEF Reordered
  <2> QED BY <1>1, <2>1, <2>2 DEF Running
<1>5. Fit(r, A)
  BY <1>1, <1>3, <1>4 DEF Fit, Due, Reordered
<1>6. SameWaiters(k, r) /\ SameWaiters(k, k) /\ SameTable(k, r) /\ SameTable(k, k)
  BY <1>3 DEF Reordered, SameWaiters, SameTable
<1> QED BY <1>2, <1>3, <1>5, <1>6 DEF Reordered

\* The running thread has found the mutex taken.
Queued(o, n) == WaitFor(Inherit(k, o), o, n, "WAIT_MUT")

LEMMA QueuedListed ==
    ASSUME MInv, mode = "svc", NEW o \in Obj, NEW n \in Timeouts, n # 0,
           live[o], level[o] # 0, owner[o] # k.run
    PROVE  /\ Fit(Queued(o, n), Living(k)) /\ SameTable(k, Queued(o, n))
           /\ ToSet(Queued(o, n).wait[o]) = ToSet(k.wait[o]) \cup {k.run}
           /\ \A x \in Obj \ {o} : ToSet(Queued(o, n).wait[x]) = ToSet(k.wait[x])
           /\ Queued(o, n).prio = Inherit(k, o).prio
<1> DEFINE A == Living(k)
           s == Inherit(k, o)
           r == WaitFor(s, o, n, "WAIT_MUT")
<1>1. /\ Fit(k, A) /\ A \in SUBSET Thread /\ owner[o] \in A /\ k.run # Idle
  BY MInvParts, ServiceFinder DEF Owned
<1>2. /\ Fit(s, A) /\ SameTable(k, s) /\ s.run = k.run /\ SameWaiters(k, s)
  BY <1>1, KernelAssumption, InheritListed
<1>3. n \in 1 .. Forever /\ "WAIT_MUT" \in ObjectWait
  BY KernelAssumption, ObjectsAssumption DEF KernelAssumption, ObjectsAssumption, ObjectWait
<1> HIDE DEF s, A
<1>4. /\ Consistent(r, A) /\ Running(r) /\ Due(r) /\ SameTable(s, r)
      /\ r.prio = s.prio /\ Joins(s, r, o, s.run)
  BY <1>1, <1>2, <1>3, KernelAssumption, WaitForListed DEF Fit
<1>5. Queued(o, n) = r
  BY DEF Queued, s
<1> HIDE DEF r
<1>6. /\ ToSet(r.wait[o]) = ToSet(k.wait[o]) \cup {k.run}
      /\ \A x \in Obj \ {o} : ToSet(r.wait[x]) = ToSet(k.wait[x])
  BY <1>2, <1>4 DEF Joins, SameWaiters
<1> QED BY <1>2, <1>4, <1>5, <1>6 DEF Fit, SameTable, s, A

LEMMA WaitKeeps ==
    ASSUME MInv, NEW o \in Obj, NEW n \in Timeouts, MutexWait(o, n)
    PROVE  MInv'
<1>1. OInv /\ MutTypeOK /\ Guarded(k) /\ Owned(Living(k)) /\ mode = "svc"
  BY MInvParts DEF MutexWait, SvcReturn
<1>2. /\ live[o] /\ level[o] # 0 /\ owner[o] # k.run
      /\ SvcReturn(IF n = 0 THEN k ELSE Queued(o, n))
      /\ owner' = owner /\ level' = level /\ saved' = saved /\ live' = live /\ use' = use
  BY DEF MutexWait, mutVars, Queued
<1> DEFINE r == IF n = 0 THEN k ELSE Queued(o, n)
<1>3. /\ Fit(r, Living(k)) /\ SameTable(k, r)
      /\ ToSet(r.wait[o]) \subseteq ToSet(k.wait[o]) \cup {k.run}
      /\ \A x \in Obj \ {o} : ToSet(r.wait[x]) = ToSet(k.wait[x])
  <2>1. CASE n = 0
    BY <1>1, <2>1, ServiceFinder
  <2>2. CASE n # 0
    BY <1>1, <1>2, <2>2, QueuedListed
  <2> QED BY <2>1, <2>2
<1>4. SvcReturn(r)
  BY <1>2
<1> HIDE DEF r
<1>5. OInv' /\ k' = r /\ psq' = psq /\ Living(k)' = Living(k)
  BY <1>3, <1>4, ServiceFits
<1>6. MutTypeOK' /\ Owned(Living(k))'
  BY <1>1, <1>2, <1>5 DEF MutTypeOK, Owned
<1>7. Guarded(k)'
  <2>1. owner[o] # None
    BY <1>1, <1>2, ServiceFinder, KernelAssumption DEF Owned, KernelAssumption
  <2>2. ASSUME NEW x \in Obj, NEW t \in ToSet(r.wait[x])
        PROVE  live[x] /\ level[x] # 0 /\ owner[x] \notin {t, None}
    <3>1. t \in ToSet(k.wait[x]) \/ (x = o /\ t = k.run)
      BY <1>3, <2>2
    <3> QED BY <1>1, <1>2, <2>1, <3>1 DEF Guarded
  <2> QED BY <1>2, <1>5, <2>2 DEF Guarded
<1> QED BY <1>5, <1>6, <1>7, MInvNext

-----------------------------------------------------------------------------
(***************************************************************************)
(* The running thread gets its priority back, and may have to step back.   *)
(***************************************************************************)
LEMMA RestoredListed ==
    ASSUME KernelAssumption, NEW o \in Obj, NEW A \in SUBSET Thread, Fit(k, A),
           saved[o] \in 0 .. MaxPrio
    PROVE  /\ Consistent(Restored(o), A) /\ Preemptible(Restored(o)) /\ Due(Restored(o))
           /\ SameTable(k, Restored(o)) /\ Restored(o).wait = k.wait
           /\ Restored(o).run = k.run /\ Restored(o).state = k.state
           /\ Restored(o).rdy = k.rdy
           /\ Restored(o).prio = [k.prio EXCEPT ![k.run] = saved[o]]
<1> DEFINE t == k.run
           p == saved[o]
           f == [k.prio EXCEPT ![t] = p]
           r == [k EXCEPT !.prio = f]
<1>1. /\ Consistent(k, A) /\ Running(k) /\ Due(k) /\ Sound(k) /\ Listed(k, A)
      /\ k \in KernelRecord /\ t \in A /\ k.rlnk \in [Thread -> Obj \cup {None}]
  BY SoundFields DEF Fit, Consistent, Listed
<1>2. Restored(o) = r
  BY DEF Restored
<1>3. /\ r.run = k.run /\ r.state = k.state /\ r.rdy = k.rdy /\ r.wait = k.wait
      /\ r.active = k.active /\ r.tid = k.tid /\ r.prio = f /\ r.dly = k.dly
      /\ r.rem = k.rem /\ r.rlnk = k.rlnk
  BY <1>1 DEF KernelRecord
<1>4. k.rlnk[t] = None /\ k.state[t] = "RUNNING"
  <2>1. k.state[t] = "RUNNING"
    BY <1>1 DEF Running
  <2>2. ASSUME k.rlnk[t] # None PROVE FALSE
    <3>1. k.rlnk[t] \in Obj /\ t \in ToSet(k.wait[k.rlnk[t]])
      BY <1>1, <2>2 DEF Listed
    <3> QED BY <1>1, <2>1, <3>1 DEF Listed, ObjectWait
  <2> QED BY <2>1, <2>2
<1>5. Reprio(k, t, p) = r
  <2>1. r.rlnk[t] = None /\ r.state[t] # "READY"
    BY <1>3, <1>4
  <2>2. Reprio(k, t, p) = ResortPrio(r, t)
    BY DEF Reprio
  <2> HIDE DEF r
  <2> QED BY <2>1, <2>2 DEF ResortPrio
<1>6. Consistent(r, A)
  <2>1. Consistent(Reprio(k, t, p), A)
    BY <1>1, ReprioListed
  <2> QED BY <1>5, <2>1
<1> HIDE DEF r
<1>7. Preemptible(r) /\ Due(r)
  BY <1>1, <1>3 DEF Preemptible, Running, Due
<1> QED BY <1>2, <1>3, <1>6, <1>7 DEF SameTable

\* The running thread goes into the ready list.
LEMMA AsideListed ==
    ASSUME KernelAssumption, NEW s, NEW A \in SUBSET Thread, Consistent(s, A),
           s.state[s.run] = "RUNNING"
    PROVE  LET r == PutRdy(s, s.run) IN
           /\ Consistent(r, A) /\ (Due(s) => Due(r)) /\ Frame(s, r)
           /\ r.run = s.run /\ r.prio = s.prio /\ ToSet(r.rdy) = ToSet(s.rdy) \cup {s.run}
<1> DEFINE r == PutRdy(s, s.run)
<1>1. Sound(s) /\ Homed(s, A)
  BY DEF Consistent
<1>2. /\ s.run \in Thread /\ s.run \notin ToSet(s.rdy) /\ s.run \notin ToSet(s.dly)
      /\ s.state \in [Thread -> State]
  BY <1>1, RunningApart, SoundFields
<1>3. /\ Sound(r) /\ Frame(s, r) /\ SameDelay(s, r) /\ r.run = s.run /\ r.prio = s.prio
      /\ ToSet(r.rdy) = ToSet(s.rdy) \cup {s.run}
      /\ r.state = [s.state EXCEPT ![s.run] = "READY"]
  BY <1>1, <1>2, PutRdySound
<1> HIDE DEF r
<1>4. r.state[s.run] = "READY" /\ \A x \in Thread : x # s.run => r.state[x] = s.state[x]
  BY <1>2, <1>3
<1>5. Homed(r, A) /\ Moves(s, r, {})
  BY <1>1, <1>2, <1>3, <1>4 DEF Homed, Moves, WaitState
<1>6. ToSet(r.dly) \subseteq ToSet(s.dly) /\ r.state[r.run] \in {"READY", "RUNNING"}
  BY <1>3, <1>4 DEF SameDelay
<1>7. Consistent(r, A)
  BY <1>3, <1>5, <1>6, FramedListed
<1> QED BY <1>3, <1>7 DEF Due, SameDelay, r

LEMMA HandOverListed ==
    ASSUME KernelAssumption, NEW s, NEW A \in SUBSET Thread, NEW t \in A,
           Consistent(s, A \ {t}), s.rlnk[t] = None, Preemptible(s)
    PROVE  /\ Consistent(HandOver(s, t), A) /\ Running(HandOver(s, t))
           /\ Frame(s, HandOver(s, t)) /\ HandOver(s, t).prio = s.prio
           /\ Due(s) => Due(HandOver(s, t))
<1>1. /\ Sound(s) /\ s.rdy \in Seq(Thread) /\ Ordered(s.rdy, s.prio)
      /\ s.prio \in [Thread -> Nat] /\ s.run \in Thread /\ ToSet(s.rdy) \subseteq Thread
  BY SoundFields DEF Consistent, Sound
<1>2. CASE s.prio[s.run] >= RdyPrio(s) /\ s.rdy # <<>>
  <2>1. \A x \in ToSet(s.rdy) : s.prio[Head(s.rdy)] >= s.prio[x]
    BY <1>1, <1>2, TakeFirstCorrect DEF Sound, Consistent
  <2>2. Head(s.rdy) \in Thread
    BY <1>1, <1>2
  <2>3. Running(s)
    BY <1>1, <1>2, <2>1, <2>2 DEF Running, Preemptible, RdyPrio
  <2> QED BY <1>2, <2>3, DispatchJoins DEF HandOver
<1>3. CASE s.rdy = <<>> /\ s.prio[s.run] >= RdyPrio(s)
  <2>1. Running(s)
    BY <1>3 DEF Running, Preemptible, ToSet
  <2> QED BY <1>3, <2>1, DispatchJoins DEF HandOver
<1>4. CASE ~(s.prio[s.run] >= RdyPrio(s))
  <2> DEFINE u == PutRdy(s, s.run)
             v == PutRdy(u, t)
  <2>1. HandOver(s, t) = SwitchToFirst(v)
    BY <1>4 DEF HandOver
  <2>2. /\ Consistent(u, A \ {t}) /\ (Due(s) => Due(u)) /\ Frame(s, u)
        /\ u.run = s.run /\ u.prio = s.prio /\ ToSet(u.rdy) = ToSet(s.rdy) \cup {s.run}
    BY AsideListed DEF Preemptible
  <2> HIDE DEF u
  <2>3. t \in A /\ Consistent(u, A \ {t}) /\ u.rlnk[t] = None
    BY <2>2 DEF Frame
  <2>4. /\ Consistent(v, A) /\ Frame(u, v) /\ v.prio = u.prio /\ v.run = u.run
        /\ ToSet(v.rdy) = ToSet(u.rdy) \cup {t} /\ (Due(u) => Due(v))
    BY ONLY KernelAssumption, A \in SUBSET Thread, <2>3, PutRdyJoins
  <2> HIDE DEF v
  <2>5. {Idle, v.run} \subseteq ToSet(v.rdy)
    BY <2>2, <2>4 DEF Preemptible
  <2> DEFINE w == SwitchToFirst(v)
  <2>6. Consistent(w, A) /\ Running(w) /\ Steady(v, w) /\ (Due(v) => Due(w))
    BY ONLY KernelAssumption, A \in SUBSET Thread, <2>4, <2>5, SwitchListed
  <2>7. Frame(v, w)
    <3>1. Sound(v) /\ Idle \in ToSet(v.rdy)
      BY <2>4, <2>5 DEF Consistent
    <3> QED BY <3>1, KernelAssumption, SwitchSound
  <2> HIDE DEF w
  <2> QED BY <2>1, <2>2, <2>4, <2>6, <2>7 DEF Frame, Steady, w
<1> QED BY <1>2, <1>3, <1>4

\* Who gets the mutex is able to run.
LEMMA HandOverAwake ==
    ASSUME NEW s \in KernelRecord, NEW t \in Thread
    PROVE  HandOver(s, t).state[t] \in {"READY", "RUNNING"}
<1>1. s.state \in [Thread -> State]
  BY DEF KernelRecord
<1>2. PutRdy(s, t).state[t] = "READY"
  BY <1>1 DEF PutRdy, KernelRecord
<1> DEFINE d == [PutRdyFirst(s, s.run) EXCEPT !.run = t, !.state[t] = "RUNNING"]
           u == PutRdy(s, s.run)
           v == PutRdy(u, t)
           w == SwitchToFirst(v)
<1>3. d.state[t] = "RUNNING"
  BY <1>1 DEF PutRdyFirst, KernelRecord
<1>4. w.state[t] \in {"READY", "RUNNING"}
  <2>1. DOMAIN u.state = Thread /\ DOMAIN u = DOMAIN s
    BY <1>1 DEF PutRdy, KernelRecord
  <2> HIDE DEF u
  <2>2. DOMAIN v.state = Thread /\ DOMAIN v = DOMAIN s /\ v.state[t] = "READY"
    BY <2>1 DEF PutRdy, KernelRecord
  <2> HIDE DEF v
  <2>3. w.state = [v.state EXCEPT ![Head(v.rdy)] = "RUNNING"]
    BY <2>2 DEF SwitchToFirst, KernelRecord
  <2> QED BY <2>2, <2>3
<1>5. HandOver(s, t) \in {d, PutRdy(s, t), w}
  BY DEF HandOver, Dispatch
<1> HIDE DEF d, w
<1> QED BY <1>2, <1>3, <1>4, <1>5

-----------------------------------------------------------------------------
\* The last release, with nobody waiting and with somebody.
LetGo(o) == Preempted(Restored(o))
Handed(o) == HandOver(Woken(Restored(o), o), Head(k.wait[o]))

LEMMA LetGoListed ==
    ASSUME MInv, mode = "svc", NEW o \in Obj
    PROVE  /\ Fit(LetGo(o), Living(k)) /\ SameTable(k, LetGo(o))
           /\ SameWaiters(k, LetGo(o))
           /\ LetGo(o).prio = [k.prio EXCEPT ![k.run] = saved[o]]
<1> DEFINE A == Living(k)
           s == Restored(o)
           r == Preempted(s)
<1>1. Fit(k, A) /\ A \in SUBSET Thread /\ saved[o] \in 0 .. MaxPrio
  BY ServiceFinder, MInvParts DEF MutTypeOK
<1>2. /\ Consistent(s, A) /\ Preemptible(s) /\ Due(s) /\ SameTable(k, s)
      /\ s.wait = k.wait /\ s.prio = [k.prio EXCEPT ![k.run] = saved[o]]
  BY <1>1, KernelAssumption, RestoredListed
<1> HIDE DEF s, A
<1>3. /\ Consistent(r, A) /\ Running(r) /\ SameTable(s, r) /\ SameWaiters(s, r)
      /\ r.prio = s.prio /\ Due(r)
  BY ONLY <1>1, <1>2, KernelAssumption, PreemptedListed
<1>4. LetGo(o) = r
  BY DEF LetGo, s
<1> HIDE DEF r
<1> QED BY <1>2, <1>3, <1>4 DEF Fit, SameTable, SameWaiters, A

LEMMA HandedListed ==
    ASSUME MInv, mode = "svc", NEW o \in Obj, k.wait[o] # <<>>
    PROVE  LET h == Head(k.wait[o]) IN
           /\ Fit(Handed(o), Living(k)) /\ SameTable(k, Handed(o))
           /\ h \in ToSet(k.wait[o]) /\ h \in Living(k)
           /\ ToSet(Handed(o).wait[o]) = ToSet(k.wait[o]) \ {h}
           /\ \A x \in Obj \ {o} : Handed(o).wait[x] = k.wait[x]
           /\ Handed(o).prio = [k.prio EXCEPT ![k.run] = saved[o]]
           /\ Handed(o).state[h] \in {"READY", "RUNNING"}
           /\ \A x \in ToSet(k.wait[o]) : k.prio[h] >= k.prio[x]
<1> DEFINE A == Living(k)
           h == Head(k.wait[o])
           s == Restored(o)
           v == Woken(s, o)
           r == HandOver(v, h)
<1>1. /\ Fit(k, A) /\ A \in SUBSET Thread /\ saved[o] \in 0 .. MaxPrio
      /\ k.run \in Thread /\ k.prio \in [Thread -> Nat] /\ Idle \in ToSet(k.rdy) \cup {k.run}
      /\ \A x \in ToSet(k.wait[o]) : x # k.run /\ x \in Thread
  BY ServiceFinder, MInvParts DEF MutTypeOK, Fit, Running
<1>2. /\ Consistent(s, A) /\ Preemptible(s) /\ Due(s) /\ SameTable(k, s)
      /\ s.wait = k.wait /\ s.run = k.run /\ s.rdy = k.rdy /\ s.state = k.state
      /\ s.prio = [k.prio EXCEPT ![k.run] = saved[o]]
  BY <1>1, KernelAssumption, RestoredListed
<1> HIDE DEF s, A
<1>3. FirstTaken(s, v, o, h, A)
  BY <1>1, <1>2, KernelAssumption, WokenListed
<1>4. s.wait \in [Obj -> Seq(Thread)]
  BY <1>2, KernelAssumption, WaitFields DEF Consistent
<1> HIDE DEF v, h
<1>5. /\ h \in A /\ Consistent(v, A \ {h}) /\ v.rlnk[h] = None /\ Due(v)
      /\ v.run = s.run /\ v.rdy = s.rdy /\ v.state = s.state /\ v.prio = s.prio
      /\ SameTable(s, v) /\ v.wait = [s.wait EXCEPT ![o] = Tail(@)]
      /\ h \in ToSet(s.wait[o]) /\ ToSet(Tail(s.wait[o])) = ToSet(s.wait[o]) \ {h}
      /\ \A x \in ToSet(s.wait[o]) : s.prio[h] >= s.prio[x]
  BY <1>2, <1>3 DEF FirstTaken, Freed
<1>6. Preemptible(v)
  BY <1>2, <1>5 DEF Preemptible
<1>7. /\ Consistent(r, A) /\ Running(r) /\ Frame(v, r) /\ r.prio = v.prio /\ Due(r)
  BY ONLY <1>1, <1>5, <1>6, KernelAssumption, HandOverListed
<1>8. Handed(o) = r /\ r.state[h] \in {"READY", "RUNNING"}
  <2>1. v \in KernelRecord /\ h \in Thread
    BY <1>1, <1>5 DEF Consistent, Sound
  <2> QED BY <2>1, HandOverAwake DEF Handed, v, h, s
<1> HIDE DEF r
<1>9. /\ r.wait[o] = Tail(s.wait[o]) /\ \A x \in Obj \ {o} : r.wait[x] = s.wait[x]
  BY <1>4, <1>5, <1>7 DEF Frame
<1>10. \A x \in ToSet(k.wait[o]) : k.prio[h] >= k.prio[x]
  BY <1>1, <1>2, <1>5
<1>11. Fit(r, A) /\ SameTable(k, r)
  BY <1>2, <1>5, <1>7 DEF Fit, SameTable, Frame
<1> QED BY <1>2, <1>5, <1>7, <1>8, <1>9, <1>10, <1>11 DEF A, h

LEMMA ReleaseKeeps ==
    ASSUME MInv, NEW o \in Obj, MutexRelease(o)
    PROVE  MInv'
<1> DEFINE h == Head(k.wait[o])
<1>1. /\ OInv /\ MutTypeOK /\ Guarded(k) /\ Owned(Living(k)) /\ mode = "svc" /\ Sound(k)
      /\ live[o] /\ level[o] # 0 /\ owner[o] = k.run /\ live' = live /\ use' = use
  BY MInvParts DEF MutexRelease, SvcReturn, MayRelease
<1>2. level[o] \in 0 .. MaxLevel /\ MaxLevel \in Nat
  BY <1>1, MutexAssumption DEF MutTypeOK, MutexAssumption
<1>3. CASE level[o] > 1
  <2>1. /\ level' = [level EXCEPT ![o] = @ - 1] /\ SvcReturn(k)
        /\ owner' = owner /\ saved' = saved
    BY <1>3 DEF MutexRelease
  <2>2. OInv' /\ k' = k /\ psq' = psq /\ Living(k)' = Living(k)
    BY <1>1, <2>1, ServiceFinder, ServiceFits
  <2>3. level[o] - 1 \in 0 .. MaxLevel /\ level[o] - 1 # 0
    BY <1>2, <1>3
  <2>4. MutTypeOK' /\ Owned(Living(k))'
    BY <1>1, <2>1, <2>2, <2>3 DEF MutTypeOK, Owned
  <2>5. Guarded(k)'
    BY <1>1, <2>1, <2>2, <2>3 DEF Guarded, MutTypeOK
  <2> QED BY <2>2, <2>4, <2>5, MInvNext
<1>4. CASE ~(level[o] > 1) /\ k.wait[o] = <<>>
  <2>1. /\ level' = [level EXCEPT ![o] = @ - 1] /\ SvcReturn(LetGo(o))
        /\ owner' = owner /\ saved' = saved
    BY <1>4 DEF MutexRelease, LetGo
  <2> DEFINE r == LetGo(o)
  <2>2. Fit(r, Living(k)) /\ SameTable(k, r) /\ SameWaiters(k, r)
    BY <1>1, LetGoListed
  <2> HIDE DEF r
  <2>3. OInv' /\ k' = r /\ psq' = psq /\ Living(k)' = Living(k)
    BY <2>1, <2>2, ServiceFits DEF r
  <2>4. level[o] - 1 \in 0 .. MaxLevel
    BY <1>1, <1>2
  <2>5. MutTypeOK' /\ Owned(Living(k))'
    <3>1. MutTypeOK'
      BY <1>1, <2>1, <2>3, <2>4 DEF MutTypeOK
    <3>2. ASSUME NEW x \in Obj, live[x], level'[x] # 0 PROVE owner[x] \in Living(k)
      BY <1>1, <2>1, <3>2 DEF Owned, MutTypeOK
    <3> QED BY <1>1, <2>1, <2>3, <3>1, <3>2 DEF Owned
  <2>6. Guarded(k)'
    <3>1. ToSet(k.wait[o]) = {}
      BY <1>4 DEF ToSet
    <3>2. ASSUME NEW x \in Obj, NEW t \in ToSet(r.wait[x])
          PROVE  live[x] /\ level'[x] # 0 /\ owner[x] \notin {t, None}
      <4>1. x # o /\ t \in ToSet(k.wait[x])
        BY <2>2, <3>1, <3>2 DEF SameWaiters
      <4> QED BY <1>1, <2>1, <4>1 DEF Guarded, MutTypeOK
    <3> QED BY <1>1, <2>1, <2>3, <3>2 DEF Guarded
  <2> QED BY <2>3, <2>5, <2>6, MInvNext
<1>5. CASE ~(level[o] > 1) /\ k.wait[o] # <<>>
  <2>1. /\ owner' = [owner EXCEPT ![o] = h] /\ level' = [level EXCEPT ![o] = 1]
        /\ saved' = [saved EXCEPT ![o] = k.prio[h]] /\ SvcReturn(Handed(o))
    BY <1>5 DEF MutexRelease, Handed
  <2> DEFINE r == Handed(o)
  <2>2. /\ Fit(r, Living(k)) /\ SameTable(k, r) /\ h \in Living(k)
        /\ ToSet(r.wait[o]) = ToSet(k.wait[o]) \ {h}
        /\ \A x \in Obj \ {o} : r.wait[x] = k.wait[x]
    BY <1>1, <1>5, HandedListed
  <2> HIDE DEF r, h
  <2>3. OInv' /\ k' = r /\ psq' = psq /\ Living(k)' = Living(k)
    BY <2>1, <2>2, ServiceFits DEF r
  <2>4. h \in Thread /\ h # None /\ k.prio[h] \in 0 .. MaxPrio /\ 1 \in 0 .. MaxLevel
    BY <1>1, <1>2, <2>2, ServiceFinder, KernelAssumption, MutexAssumption
       DEF KernelAssumption, MutexAssumption
  <2>5. MutTypeOK' /\ Owned(Living(k))'
    <3>1. MutTypeOK'
      BY <1>1, <2>1, <2>3, <2>4 DEF MutTypeOK
    <3>2. ASSUME NEW x \in Obj, live[x], level'[x] # 0 PROVE owner'[x] \in Living(k)
      BY <1>1, <2>1, <2>2, <3>2 DEF Owned, MutTypeOK
    <3> QED BY <1>1, <2>3, <3>1, <3>2 DEF Owned
  <2>6. Guarded(k)'
    <3>1. ASSUME NEW x \in Obj, NEW t \in ToSet(r.wait[x])
          PROVE  live[x] /\ level'[x] # 0 /\ owner'[x] \notin {t, None}
      <4>1. CASE x = o
        BY <1>1, <2>1, <2>2, <2>4, <3>1, <4>1 DEF MutTypeOK
      <4>2. CASE x # o
        BY <1>1, <2>1, <2>2, <3>1, <4>2 DEF Guarded, MutTypeOK
      <4> QED BY <4>1, <4>2
    <3> QED BY <1>1, <2>3, <3>1 DEF Guarded
  <2> QED BY <2>3, <2>5, <2>6, MInvNext
<1> QED BY <1>3, <1>4, <1>5

-----------------------------------------------------------------------------
(***************************************************************************)
(* The deletion: the owner gets its priority back, all who wait are woken. *)
(***************************************************************************)
LEMMA RestoreListed ==
    ASSUME MInv, mode = "svc", NEW o \in Obj, live[o]
    PROVE  LET s == Restore(k, o) IN
           /\ Consistent(s, Living(k)) /\ Preemptible(s) /\ Due(s) /\ SameTable(k, s)
           /\ SameWaiters(k, s)
           /\ s.prio = IF level[o] = 0 THEN k.prio
                       ELSE [k.prio EXCEPT ![owner[o]] = saved[o]]
<1> DEFINE A == Living(k)
           t == owner[o]
           s == Restore(k, o)
<1>1. /\ Fit(k, A) /\ A \in SUBSET Thread /\ saved[o] \in 0 .. MaxPrio
      /\ SameTable(k, k) /\ SameWaiters(k, k) /\ (level[o] # 0 => t \in A)
  BY ServiceFinder, MInvParts DEF MutTypeOK, Owned
<1> HIDE DEF A
<1>2. CASE level[o] = 0
  <2>1. s = k
    BY <1>2 DEF Restore
  <2>2. Preemptible(k)
    BY <1>1 DEF Fit, Running, Preemptible
  <2> QED BY <1>1, <1>2, <2>1, <2>2 DEF Fit, A
<1>3. CASE level[o] # 0 /\ t = k.run
  <2>1. s = Restored(o)
    BY <1>3 DEF Restore, Restored
  <2> DEFINE r == Restored(o)
  <2>2. /\ Consistent(r, A) /\ Preemptible(r) /\ Due(r) /\ SameTable(k, r)
        /\ r.wait = k.wait /\ r.prio = [k.prio EXCEPT ![k.run] = saved[o]]
    BY <1>1, KernelAssumption, RestoredListed
  <2> HIDE DEF r
  <2> QED BY <1>3, <2>1, <2>2 DEF SameWaiters, r, A
<1>4. CASE level[o] # 0 /\ t # k.run
  <2> DEFINE r == Reprio(k, t, saved[o])
  <2>1. s = r
    BY <1>4 DEF Restore, Reprio
  <2>2. Consistent(r, A) /\ Reordered(k, r, t, saved[o])
    BY <1>1, <1>4, KernelAssumption, ReprioListed DEF Fit
  <2> HIDE DEF r
  <2>3. Preemptible(r) /\ Due(r) /\ SameTable(k, r) /\ SameWaiters(k, r)
    BY <1>1, <2>2 DEF Fit, Running, Preemptible, Due, Reordered, SameWaiters
  <2> QED BY <1>4, <2>1, <2>2, <2>3 DEF Reordered, r, A
<1> QED BY <1>2, <1>3, <1>4

Deleted(o) == Preempted(Flush(Restore(k, o), o))

LEMMA DeletedListed ==
    ASSUME MInv, mode = "svc", NEW o \in Obj, live[o]
    PROVE  /\ Fit(Deleted(o), Living(k)) /\ SameTable(k, Deleted(o))
           /\ ToSet(Deleted(o).wait[o]) = {}
           /\ \A x \in Obj \ {o} : ToSet(Deleted(o).wait[x]) = ToSet(k.wait[x])
           /\ Deleted(o).prio = IF level[o] = 0 THEN k.prio
                                ELSE [k.prio EXCEPT ![owner[o]] = saved[o]]
<1> DEFINE A == Living(k)
           s == Restore(k, o)
           f == Flush(s, o)
           r == Preempted(f)
           p == IF level[o] = 0 THEN k.prio ELSE [k.prio EXCEPT ![owner[o]] = saved[o]]
<1>1. A \in SUBSET Thread
  BY ServiceFinder
<1>2. /\ Consistent(s, A) /\ Preemptible(s) /\ Due(s) /\ SameTable(k, s)
      /\ SameWaiters(k, s) /\ s.prio = p
  BY RestoreListed
<1>3. Deleted(o) = r
  BY DEF Deleted
<1> HIDE DEF s, A, p
<1>4. Flushing(s, f, o, A) /\ f.wait[o] = <<>>
  BY <1>1, <1>2, KernelAssumption, FlushListed
<1> HIDE DEF f
<1>5. Consistent(f, A) /\ SameTable(s, f) /\ Due(f) /\ Preemptible(f) /\ f.prio = s.prio
  BY <1>2, <1>4 DEF Flushing, Preemptible
<1>6. /\ Consistent(r, A) /\ Running(r) /\ Due(r) /\ SameTable(f, r) /\ SameWaiters(f, r)
      /\ r.prio = f.prio
  BY ONLY <1>1, <1>5, KernelAssumption, PreemptedListed
<1> HIDE DEF r
<1>7. ToSet(r.wait[o]) = {} /\ \A x \in Obj \ {o} : ToSet(r.wait[x]) = ToSet(k.wait[x])
  <2>1. ToSet(<<>>) = {}
    BY DEF ToSet
  <2>2. ToSet(f.wait[o]) = {} /\ \A x \in Obj \ {o} : f.wait[x] = s.wait[x]
    BY <1>4, <2>1 DEF Flushing
  <2> QED BY ONLY <1>2, <1>6, <2>2, o \in Obj DEF SameWaiters
<1> QED BY <1>2, <1>3, <1>5, <1>6, <1>7 DEF Fit, SameTable, A, p

LEMMA DeleteKeeps ==
    ASSUME MInv, NEW o \in Obj, MutexDelete(o)
    PROVE  MInv'
<1> DEFINE r == Deleted(o)
<1>1. /\ OInv /\ MutTypeOK /\ Guarded(k) /\ Owned(Living(k)) /\ mode = "svc"
      /\ live[o] /\ live' = [live EXCEPT ![o] = FALSE] /\ owner' = owner
      /\ level' = level /\ saved' = saved /\ use' = use
  BY MInvParts DEF MutexDelete, SvcReturn
<1>2. SvcReturn(r)
  BY DEF MutexDelete, Deleted
<1>3. /\ Fit(r, Living(k)) /\ SameTable(k, r) /\ ToSet(r.wait[o]) = {}
      /\ \A x \in Obj \ {o} : ToSet(r.wait[x]) = ToSet(k.wait[x])
  BY <1>1, DeletedListed
<1> HIDE DEF r
<1>4. OInv' /\ k' = r /\ psq' = psq /\ Living(k)' = Living(k)
  BY <1>2, <1>3, ServiceFits
<1>5. MutTypeOK' /\ Owned(Living(k))'
  BY <1>1, <1>4 DEF MutTypeOK, Owned
<1>6. Guarded(k)'
  <2>1. ASSUME NEW x \in Obj, NEW t \in ToSet(r.wait[x])
        PROVE  live'[x] /\ level[x] # 0 /\ owner[x] \notin {t, None}
    <3>1. x # o /\ t \in ToSet(k.wait[x])
      BY <1>3, <2>1
    <3> QED BY <1>1, <3>1 DEF Guarded, MutTypeOK
  <2> QED BY <1>1, <1>4, <2>1 DEF Guarded
<1> QED BY <1>4, <1>5, <1>6, MInvNext

-----------------------------------------------------------------------------
\* The steps that leave the mutexes alone.
LEMMA AloneKeeps ==
    ASSUME MInv, UNCHANGED mutVars, OInv', psq' = psq, Shrinks(k, k'),
           \A o \in Obj : live[o] /\ level[o] # 0 /\ owner[o] \in Living(k)
                         => owner[o] \in Living(k)'
    PROVE  MInv'
<1>1. /\ MutTypeOK /\ Guarded(k) /\ Owned(Living(k))
      /\ owner' = owner /\ level' = level /\ saved' = saved /\ live' = live /\ use' = use
  BY MInvParts DEF mutVars
<1>2. MutTypeOK'
  BY <1>1 DEF MutTypeOK
<1>3. Owned(Living(k))'
  BY <1>1 DEF Owned
<1>4. Guarded(k)'
  BY <1>1, GuardKept
<1> QED BY <1>2, <1>3, <1>4, MInvNext

LEMMA DelaysKeep ==
    ASSUME MInv, NEW n \in Delays, OwnerDelay(n)
    PROVE  MInv'
<1>1. OInv /\ Delay(n) /\ UNCHANGED mutVars
  BY MInvParts DEF OwnerDelay
<1>2. OInv' /\ Steady(k, k') /\ psq' = psq
  BY <1>1, DelayKeeps
<1>3. Shrinks(k, k') /\ Living(k)' = Living(k)
  BY <1>2, SameLiving DEF Steady, SameWaiters, Shrinks
<1> QED BY <1>1, <1>2, <1>3, AloneKeeps

LEMMA EndsKeep ==
    ASSUME MInv, NEW t \in Thread, NonOwnerEnds(t)
    PROVE  MInv'
<1>1. /\ OInv /\ ThreadTerminate(t) /\ UNCHANGED mutVars
      /\ \A o \in Obj : live[o] /\ level[o] # 0 => owner[o] # t
  BY MInvParts DEF NonOwnerEnds, Holds
<1>2. OInv' /\ Leaves(k, k', t) /\ psq' = psq /\ Living(k)' = Living(k) \ {t}
  BY <1>1, TerminateKeeps
<1>3. Shrinks(k, k')
  BY <1>2 DEF Leaves, Shrinks
<1> QED BY <1>1, <1>2, <1>3, AloneKeeps

LEMMA KernelKeeps ==
    ASSUME MInv, KernelStep, UNCHANGED mutVars
    PROVE  MInv'
<1>1. /\ OInv' /\ SameTable(k, k') /\ psq' = psq /\ OneLeaves(k, k')
  BY MInvParts, KernelStepKeeps
<1>2. Shrinks(k, k') /\ Living(k)' = Living(k)
  BY <1>1, OneLeavesShrinks, SameLiving
<1> QED BY <1>1, <1>2, AloneKeeps

LEMMA NextMInv == MInv /\ [Next]_vars => MInv'
<1> SUFFICES ASSUME MInv, [Next]_vars PROVE MInv'
  OBVIOUS
<1>1. CASE Svc
  BY <1>1, CreateKeeps, TakeKeeps, WaitKeeps, ReleaseKeeps, DeleteKeeps DEF Svc
<1>2. CASE \E n \in Delays : OwnerDelay(n)
  BY <1>2, DelaysKeep
<1>3. CASE \E t \in Thread : NonOwnerEnds(t)
  BY <1>3, EndsKeep
<1>4. CASE KernelStep /\ UNCHANGED mutVars
  BY <1>4, KernelKeeps
<1>5. CASE UNCHANGED vars
  <2>1. OInv /\ UNCHANGED kernelVars /\ UNCHANGED mutVars
    BY <1>5, MInvParts DEF vars
  <2>2. OInv' /\ k' = k /\ psq' = psq
    BY <2>1, StutterKeeps DEF kernelVars
  <2>3. Shrinks(k, k') /\ Living(k)' = Living(k)
    BY <2>2 DEF Shrinks
  <2> QED BY <2>1, <2>2, <2>3, AloneKeeps
<1> QED BY <1>1, <1>2, <1>3, <1>4, <1>5 DEF Next

(***************************************************************************)
(* The invariant holds in every state, whatever threads do with mutexes.   *)
(***************************************************************************)
THEOREM MutexInvariance == Spec => []MInv
  BY InitMInv, NextMInv, PTL DEF Spec

\* Types: the levels, the saved priorities, and an empty queue of requests.
THEOREM MutexTypes == Spec => []TypeOK
<1>1. MInv => TypeOK
  BY DEF MInv
<1> QED BY MutexInvariance, <1>1, PTL

(***************************************************************************)
(* The lists of the mutexes, of the timeouts and of the ready threads      *)
(* agree with each other and with the states of the threads, also when an  *)
(* owner inherits a priority while it is ready, delayed or waiting itself. *)
(***************************************************************************)
THEOREM MutexLists == Spec => []WaitLists
<1>1. MInv => WaitLists
  BY ListsRight DEF MInv
<1> QED BY MutexInvariance, <1>1, PTL

(***************************************************************************)
(* The ready list stays in the order of the priorities, and nobody runs    *)
(* below a ready thread, while priorities are lent and given back.         *)
(***************************************************************************)
THEOREM MutexOrder == Spec => []PriorityOrder
<1>1. MInv => PriorityOrder
  BY OrderRight DEF MInv
<1> QED BY MutexInvariance, <1>1, PTL

(***************************************************************************)
(* Nobody waits for a mutex that is free or deleted, and no owner waits    *)
(* for itself: the last release hands the mutex over, and a deletion, a    *)
(* timeout or an end leaves nobody behind in the list.                     *)
(***************************************************************************)
THEOREM MutexesHandedOver == Spec => []NoIdleMutex
<1>1. MInv => NoIdleMutex
  BY DEF MInv
<1> QED BY MutexInvariance, <1>1, PTL

-----------------------------------------------------------------------------
(***************************************************************************)
(* Priority inheritance, in a program of one mutex: what the owner may     *)
(* have borrowed, and that nobody else has borrowed anything.              *)
(***************************************************************************)
Single == \A o, x \in Obj : live[o] /\ live[x] => o = x

Lending(s) == \A o \in Obj : live[o] /\ level[o] # 0 =>
    /\ saved[o] = InitPrio[owner[o]] /\ s.prio[owner[o]] >= saved[o]
    /\ s.state[owner[o]] \in {"READY", "RUNNING"}
    /\ \A x \in ToSet(s.wait[o]) : s.prio[owner[o]] >= s.prio[x]

Unlent(s) == \A t \in Thread : (\A o \in Obj : ~Holds(t, o)) => s.prio[t] = InitPrio[t]

LEMMA PInvParts ==
    ASSUME MInv, PInv, use = "one"
    PROVE  Single /\ Lending(k) /\ Unlent(k)
<1>1. Owned(Living(k)) /\ Living(k) \subseteq Thread
  BY MInvParts DEF Living
<1>2. Single /\ Unlent(k)
  BY DEF PInv, Single, Unlent, PriorityRestored
<1>3. ASSUME NEW o \in Obj, live[o], level[o] # 0
      PROVE  /\ saved[o] = InitPrio[owner[o]] /\ k.prio[owner[o]] >= saved[o]
             /\ k.state[owner[o]] \in {"READY", "RUNNING"}
             /\ \A x \in ToSet(k.wait[o]) : k.prio[owner[o]] >= k.prio[x]
  <2>1. owner[o] \in Thread /\ Holds(owner[o], o)
    BY <1>1, <1>3 DEF Owned, Holds
  <2> QED BY <2>1 DEF PInv, Inherits
<1> QED BY <1>2, <1>3 DEF Lending

LEMMA PInvNext ==
    ASSUME MInv', use' = "one" => (Single /\ Lending(k) /\ Unlent(k))'
    PROVE  PInv'
<1>1. CASE use' # "one"
  BY <1>1 DEF PInv, Inherits, PriorityRestored
<1>2. CASE use' = "one"
  <2>1. (Single /\ Lending(k) /\ Unlent(k))' /\ Guarded(k)'
    <3>1. (OInv /\ NoIdleMutex)'
      BY DEF MInv
    <3>2. Guarded(k)'
      <4>1. Sound(k')
        BY <3>1 DEF OInv
      <4>2. \A o \in Obj : k'.wait[o] = <<>> <=> ToSet(k'.wait[o]) = {}
        BY <4>1, KernelAssumption, WaitFields, NoMembers
      <4> QED BY <3>1, <4>2 DEF NoIdleMutex, Guarded
    <3> QED BY <1>2, <3>2
  <2>2. Inherits'
    BY <2>1 DEF Inherits, Lending, Guarded
  <2>3. PriorityRestored'
    BY <2>1 DEF PriorityRestored, Unlent
  <2>4. ASSUME NEW o \in Obj, NEW t \in Thread, Holds(t, o)'
        PROVE  /\ saved'[o] = InitPrio[t] /\ k'.prio[t] >= saved'[o]
               /\ k'.state[t] \in {"READY", "RUNNING"}
    BY <2>1, <2>4 DEF Lending, Holds
  <2> QED BY <2>1, <2>2, <2>3, <2>4 DEF PInv, Single
<1> QED BY <1>1, <1>2

LEMMA InitPInv == Init => PInv
<1> SUFFICES ASSUME Init PROVE PInv
  OBVIOUS
<1>1. \A o \in Obj : k.wait[o] = <<>> /\ ~live[o]
  BY StartFits DEF Init
<1>2. k.prio = InitPrio
  BY DEF Init, KernelInit, Started
<1> QED BY <1>1, <1>2 DEF PInv, Inherits, PriorityRestored, Holds, ToSet

-----------------------------------------------------------------------------
(***************************************************************************)
(* Nobody falls asleep in a step but those whom it says.                   *)
(***************************************************************************)
Awake(s, r) == \A x \in Thread :
    r.state[x] = s.state[x] \/ r.state[x] \in {"READY", "RUNNING", "INACTIVE"}

LEMMA StatesOf ==
    ASSUME KernelAssumption, NEW s \in KernelRecord, NEW t \in Thread
    PROVE  /\ PutRdy(s, t).state = [s.state EXCEPT ![t] = "READY"]
           /\ PutRdyFirst(s, t).state = [s.state EXCEPT ![t] = "READY"]
           /\ SwitchToFirst(s).state = [s.state EXCEPT ![Head(s.rdy)] = "RUNNING"]
           /\ RobinSwap(s).state = s.state /\ DecDly(s).state = s.state
           /\ s.state \in [Thread -> State]
  BY DEF PutRdy, PutRdyFirst, SwitchToFirst, RobinSwap, DecDly, KernelRecord

LEMMA KernelAwake ==
    ASSUME OInv, KernelStep
    PROVE  Awake(k, k')
<1>1. /\ k \in KernelRecord /\ k.run \in Thread /\ k.state \in [Thread -> State]
      /\ k.rlnk \in [Thread -> Obj \cup {None}]
  BY SoundFields, KernelAssumption DEF OInv, Sound
<1>2. CASE SvcEnter \/ Die
  BY <1>2 DEF SvcEnter, Die, kernelVars, Awake
<1>3. CASE TickEnter \/ PopEnter
  <2> DEFINE s == PutRdyFirst(k, k.run)
             v == RobinSwap(s)
  <2>1. s.state = [k.state EXCEPT ![k.run] = "READY"]
    BY <1>1, KernelAssumption, StatesOf
  <2>2. mode = "thread"
    BY <1>3 DEF TickEnter, PopEnter
  <2>3. /\ Handling(s, Living(k)) /\ s.rdy # <<>> /\ Living(k) \in SUBSET Thread
    BY <2>2, EnterFinds
  <2>4. k' = DecDly(v) \/ k' = DecDly(s) \/ k' = s
    BY <1>3 DEF TickEnter, PopEnter
  <2> HIDE DEF s
  <2>5. s \in KernelRecord /\ v \in KernelRecord
    BY <2>3, KernelAssumption, RobinListed DEF Handling, Consistent, Sound
  <2>6. v.state = s.state
    BY <2>5, StatesOf, KernelAssumption, <1>1
  <2> HIDE DEF v
  <2>7. k'.state = s.state
    BY <2>4, <2>5, <2>6, StatesOf, KernelAssumption, <1>1
  <2> QED BY <1>1, <2>1, <2>7 DEF Awake
<1>4. CASE TickTimeout
  <2> DEFINE t == Head(k.dly)
             u == IF k.rlnk[t] = None THEN k
                  ELSE [k EXCEPT !.wait[k.rlnk[t]] = Unlink(@, t), !.rlnk[t] = None]
             v == PutRdy(u, t)
  <2>1. k' = [v EXCEPT !.dly = Tail(@)] /\ k.dly # <<>>
    BY <1>4 DEF TickTimeout, TimeoutDue
  <2>2. u.state = k.state /\ DOMAIN u = DOMAIN k
    BY <1>1 DEF KernelRecord
  <2>3. k'.state = [k.state EXCEPT ![t] = "READY"]
    BY <1>1, <2>1, <2>2 DEF PutRdy, KernelRecord
  <2> HIDE DEF t
  <2> QED BY <1>1, <2>3 DEF Awake
<1>5. CASE TickExit \/ PopExit
  <2>1. k' = SwitchToFirst(k)
    BY <1>5 DEF TickExit, PopExit
  <2>2. k'.state = [k.state EXCEPT ![Head(k.rdy)] = "RUNNING"]
    BY <1>1, <2>1, StatesOf, KernelAssumption
  <2> QED BY <1>1, <2>2 DEF Awake
<1>6. CASE ThreadYield
  <2>1. k' = TskPass(k)
    BY <1>6 DEF ThreadYield, SvcReturn
  <2>2. \/ k' = k
        \/ k'.state = [k.state EXCEPT ![k.run] = "READY", ![Head(k.rdy)] = "RUNNING"]
    BY <1>1, <2>1 DEF TskPass, PutRdy, KernelRecord
  <2> QED BY <1>1, <2>2 DEF Awake
<1> QED BY <1>2, <1>3, <1>4, <1>5, <1>6 DEF KernelStep

\* A delay, and the wait for a mutex: only who ran falls asleep.
LEMMA BlockAwake ==
    ASSUME NEW w \in KernelRecord, NEW s, DOMAIN s = DOMAIN w, s.state = w.state,
           NEW n, NEW b
    PROVE  \A x \in Thread \ {s.run} :
              Block(s, n, b).state[x] = s.state[x] \/ Block(s, n, b).state[x] = "RUNNING"
<1> DEFINE d == IF n < Forever THEN PutDelay(s, s.run, n) ELSE s
           v == [d EXCEPT !.state[s.run] = b]
           r == SwitchToFirst(v)
<1>1. Block(s, n, b) = IF n = 0 THEN s ELSE r
  BY DEF Block
<1>2. d.state = s.state /\ DOMAIN d = DOMAIN s /\ d.run = s.run /\ s.state \in [Thread -> State]
  BY DEF PutDelay, KernelRecord
<1> HIDE DEF d
<1>3. v.state = [s.state EXCEPT ![s.run] = b] /\ DOMAIN v = DOMAIN s
  BY <1>2 DEF KernelRecord
<1> HIDE DEF v
<1>4. r.state = [v.state EXCEPT ![Head(v.rdy)] = "RUNNING"]
  BY <1>3 DEF SwitchToFirst, KernelRecord
<1> HIDE DEF r
<1> QED BY <1>1, <1>2, <1>3, <1>4

LEMMA DelayAwake ==
    ASSUME OInv, NEW n \in Delays, Delay(n)
    PROVE  \A x \in Thread \ {k.run} : k'.state[x] = k.state[x] \/ k'.state[x] = "RUNNING"
<1>1. k' = Block(k, n, "WAIT_DLY") /\ k \in KernelRecord
  BY DEF Delay, SvcReturn, OInv, Sound
<1> QED BY <1>1, BlockAwake

LEMMA TerminateAwake ==
    ASSUME OInv, NEW t \in Thread, ThreadTerminate(t)
    PROVE  Awake(k, k')
<1>1. k' = TskDelete(k, k.tid[t]) /\ k \in KernelRecord /\ k.state \in [Thread -> State]
  BY SoundFields, KernelAssumption DEF ThreadTerminate, SvcReturn, OInv, Sound
<1>2. \/ k'.state = k.state
      \/ k'.state = [k.state EXCEPT ![k.run] = "INACTIVE", ![Head(k.rdy)] = "RUNNING"]
  BY <1>1 DEF TskDelete, TskDeleteSelf, TskDeleteOther, SwitchToFirst, RmvDly, RmvList,
              KernelRecord
<1> QED BY <1>1, <1>2 DEF Awake

\* The steps that leave the mutexes and the priorities alone.
LEMMA LentKept ==
    ASSUME MInv, PInv, MInv', UNCHANGED mutVars, k'.prio = k.prio, Shrinks(k, k'),
           \A o \in Obj : use = "one" /\ live[o] /\ level[o] # 0 =>
              \/ k'.state[owner[o]] = k.state[owner[o]]
              \/ k'.state[owner[o]] \in {"READY", "RUNNING", "INACTIVE"}
    PROVE  PInv'
<1>1. owner' = owner /\ level' = level /\ saved' = saved /\ live' = live /\ use' = use
  BY DEF mutVars
<1>2. ASSUME use = "one" PROVE (Single /\ Lending(k) /\ Unlent(k))'
  <2>1. Single /\ Lending(k) /\ Unlent(k)
    BY <1>2, PInvParts
  <2>2. \A o \in Obj : live[o] /\ level[o] # 0 => k'.state[owner[o]] # "INACTIVE"
    <3>1. (OInv /\ \A o \in Obj : live[o] /\ level[o] # 0 => owner[o] \in Living(k))'
      BY DEF MInv
    <3> QED BY <1>1, <3>1 DEF OInv, Homed
  <2>3. Lending(k)'
    BY <1>1, <1>2, <2>1, <2>2 DEF Lending, Shrinks
  <2>4. Unlent(k)' /\ Single'
    BY <1>1, <2>1 DEF Unlent, Single, Holds
  <2> QED BY <2>3, <2>4
<1> QED BY <1>1, <1>2, PInvNext

LEMMA KernelLends ==
    ASSUME MInv, PInv, KernelStep, UNCHANGED mutVars, MInv'
    PROVE  PInv'
<1>1. /\ OInv' /\ k'.prio = k.prio /\ OneLeaves(k, k') /\ Awake(k, k')
      /\ Owned(Living(k)) /\ Living(k) \subseteq Thread
  BY MInvParts, KernelStepKeeps, KernelAwake DEF Living
<1>2. Shrinks(k, k')
  BY <1>1, OneLeavesShrinks
<1> QED BY <1>1, <1>2, LentKept DEF Awake, Owned

LEMMA DelaysLend ==
    ASSUME MInv, PInv, NEW n \in Delays, OwnerDelay(n), MInv'
    PROVE  PInv'
<1>1. /\ Delay(n) /\ UNCHANGED mutVars /\ OInv
      /\ Owned(Living(k)) /\ Living(k) \subseteq Thread
      /\ use = "nested" \/ \A o \in Obj : ~Holds(k.run, o)
  BY MInvParts DEF OwnerDelay, Living
<1>2. Steady(k, k') /\ \A x \in Thread \ {k.run} :
                        k'.state[x] = k.state[x] \/ k'.state[x] = "RUNNING"
  BY <1>1, DelayKeeps, DelayAwake
<1>3. Shrinks(k, k') /\ k'.prio = k.prio
  BY <1>2 DEF Steady, SameWaiters, Shrinks
<1> QED BY <1>1, <1>2, <1>3, LentKept DEF Owned, Holds

LEMMA EndsLend ==
    ASSUME MInv, PInv, NEW t \in Thread, NonOwnerEnds(t), MInv'
    PROVE  PInv'
<1>1. /\ ThreadTerminate(t) /\ UNCHANGED mutVars /\ OInv
      /\ Owned(Living(k)) /\ Living(k) \subseteq Thread
  BY MInvParts DEF NonOwnerEnds, Living
<1>2. Leaves(k, k', t) /\ k'.prio = k.prio /\ Awake(k, k')
  BY <1>1, TerminateKeeps, TerminateAwake
<1>3. Shrinks(k, k')
  BY <1>2 DEF Leaves, Shrinks
<1> QED BY <1>1, <1>2, <1>3, LentKept DEF Awake, Owned

-----------------------------------------------------------------------------
(***************************************************************************)
(* The services, in a program of one mutex.                                *)
(***************************************************************************)
LEMMA CreateLends ==
    ASSUME MInv, PInv, NEW o \in Obj, MutexCreate(o), MInv'
    PROVE  PInv'
<1>1. /\ SvcReturn(k) /\ use' = use
      /\ level' = [level EXCEPT ![o] = 0] /\ live' = [live EXCEPT ![o] = TRUE]
      /\ use = "nested" \/ \A x \in Obj : ~live[x]
      /\ MutTypeOK
  BY MInvParts DEF MutexCreate
<1>2. k' = k
  BY <1>1 DEF SvcReturn
<1>3. ASSUME use = "one" PROVE (Single /\ Lending(k) /\ Unlent(k))'
  <2>1. Unlent(k) /\ \A x \in Obj : ~live[x]
    BY <1>1, <1>3, PInvParts
  <2>2. \A x \in Obj : live'[x] => x = o /\ level'[x] = 0
    BY <1>1, <2>1 DEF MutTypeOK
  <2>3. \A t \in Thread : k.prio[t] = InitPrio[t]
    BY <2>1 DEF Unlent, Holds
  <2> QED BY <1>2, <2>2, <2>3 DEF Single, Lending, Unlent
<1> QED BY <1>1, <1>3, PInvNext

LEMMA TakeLends ==
    ASSUME MInv, PInv, NEW o \in Obj, MutexTake(o), MInv'
    PROVE  PInv'
<1>1. /\ SvcReturn(k) /\ live[o] /\ (level[o] = 0 \/ owner[o] = k.run)
      /\ owner' = [owner EXCEPT ![o] = k.run] /\ level' = [level EXCEPT ![o] = @ + 1]
      /\ saved' = IF level[o] = 0 THEN [saved EXCEPT ![o] = k.prio[k.run]] ELSE saved
      /\ live' = live /\ use' = use
      /\ MutTypeOK /\ Guarded(k) /\ mode = "svc" /\ OInv
  BY MInvParts DEF MutexTake, SvcReturn
<1>2. k' = k /\ k.run \in Thread /\ k.prio \in [Thread -> Nat] /\ k.state[k.run] = "RUNNING"
  BY <1>1, ServiceFinder DEF SvcReturn, Fit, Running
<1>3. level[o] \in Nat /\ level[o] + 1 # 0
  BY <1>1, MutexAssumption DEF MutTypeOK, MutexAssumption
<1>4. ASSUME use = "one" PROVE (Single /\ Lending(k) /\ Unlent(k))'
  <2>1. Single /\ Lending(k) /\ Unlent(k)
    BY <1>4, PInvParts
  <2>2. \A x \in Obj : live[x] => x = o
    BY <1>1, <2>1 DEF Single
  <2>3. owner'[o] = k.run /\ level'[o] # 0
    BY <1>1, <1>3 DEF MutTypeOK
  <2>4. /\ saved'[o] = InitPrio[k.run] /\ k.prio[k.run] >= saved'[o]
        /\ \A x \in ToSet(k.wait[o]) : k.prio[k.run] >= k.prio[x]
    <3>1. CASE level[o] = 0
      <4>1. k.prio[k.run] = InitPrio[k.run]
        BY <1>2, <2>1, <2>2, <3>1 DEF Unlent, Holds
      <4>2. saved'[o] = k.prio[k.run] /\ ToSet(k.wait[o]) = {}
        BY <1>1, <3>1 DEF MutTypeOK, Guarded
      <4> QED BY <1>2, <4>1, <4>2
    <3>2. CASE level[o] # 0
      BY <1>1, <2>1, <3>2 DEF Lending
    <3> QED BY <3>1, <3>2
  <2>5. Lending(k)'
    BY <1>1, <1>2, <2>2, <2>3, <2>4 DEF Lending
  <2>6. Unlent(k)'
    <3>1. ASSUME NEW t \in Thread, \A x \in Obj : ~Holds(t, x)'
          PROVE  \A x \in Obj : ~Holds(t, x)
      <4>1. t # k.run
        BY <1>1, <2>3, <3>1 DEF Holds
      <4> QED BY <1>1, <2>2, <3>1, <4>1 DEF Holds
    <3> QED BY <1>2, <2>1, <3>1 DEF Unlent
  <2> QED BY <1>1, <2>1, <2>5, <2>6 DEF Single
<1> QED BY <1>1, <1>4, PInvNext

LEMMA DeleteLends ==
    ASSUME MInv, PInv, NEW o \in Obj, MutexDelete(o), MInv'
    PROVE  PInv'
<1>1. /\ live[o] /\ live' = [live EXCEPT ![o] = FALSE] /\ use' = use
      /\ SvcReturn(Deleted(o)) /\ MutTypeOK /\ Owned(Living(k)) /\ mode = "svc"
  BY MInvParts DEF MutexDelete, SvcReturn, Deleted
<1>2. /\ k'.prio = IF level[o] = 0 THEN k.prio ELSE [k.prio EXCEPT ![owner[o]] = saved[o]]
      /\ k.prio \in [Thread -> Nat]
  BY <1>1, DeletedListed, ServiceFinder DEF SvcReturn
<1>3. ASSUME use = "one" PROVE (Single /\ Lending(k) /\ Unlent(k))'
  <2>1. Single /\ Lending(k) /\ Unlent(k)
    BY <1>3, PInvParts
  <2>2. \A x \in Obj : ~live'[x]
    BY <1>1, <2>1 DEF Single, MutTypeOK
  <2>3. ASSUME NEW t \in Thread PROVE k'.prio[t] = InitPrio[t]
    <3>1. CASE Holds(t, o)
      BY <1>1, <1>2, <2>1, <3>1 DEF Holds, Lending
    <3>2. CASE ~Holds(t, o)
      <4>1. k.prio[t] = InitPrio[t]
        BY <1>1, <2>1, <3>2 DEF Single, Unlent, Holds
      <4> QED BY <1>1, <1>2, <3>2, <4>1 DEF Holds
    <3> QED BY <3>1, <3>2
  <2> QED BY <2>2, <2>3 DEF Single, Lending, Unlent
<1> QED BY <1>1, <1>3, PInvNext

\* Who waits for the mutex leaves its owner able to run.
LEMMA QueuedAwake ==
    ASSUME MInv, mode = "svc", NEW o \in Obj, NEW n,
           live[o], level[o] # 0, owner[o] # k.run
    PROVE  \/ Queued(o, n).state[owner[o]] = k.state[owner[o]]
           \/ Queued(o, n).state[owner[o]] = "RUNNING"
<1> DEFINE s == Inherit(k, o)
           u == PutWait(s, o, s.run)
<1>1. /\ Fit(k, Living(k)) /\ Living(k) \in SUBSET Thread /\ owner[o] \in Living(k)
  BY MInvParts, ServiceFinder DEF Owned
<1>2. /\ Fit(s, Living(k)) /\ s.run = k.run /\ s.state = k.state
  BY <1>1, KernelAssumption, InheritListed
<1>3. Queued(o, n) = Block(u, n, "WAIT_MUT")
  BY DEF Queued, WaitFor
<1> HIDE DEF s
<1>4. s \in KernelRecord
  BY <1>2 DEF Fit, Consistent, Sound
<1>5. DOMAIN u = DOMAIN s /\ u.state = s.state /\ u.run = s.run
  BY <1>4 DEF PutWait, KernelRecord
<1> HIDE DEF u
<1>6. \A x \in Thread \ {u.run} : \/ Block(u, n, "WAIT_MUT").state[x] = u.state[x]
                                  \/ Block(u, n, "WAIT_MUT").state[x] = "RUNNING"
  BY <1>4, <1>5, BlockAwake
<1> QED BY <1>1, <1>2, <1>3, <1>5, <1>6

LEMMA WaitLends ==
    ASSUME MInv, PInv, NEW o \in Obj, NEW n \in Timeouts, MutexWait(o, n), MInv'
    PROVE  PInv'
<1> DEFINE r == IF n = 0 THEN k ELSE Queued(o, n)
<1>1. /\ live[o] /\ level[o] # 0 /\ owner[o] # k.run /\ UNCHANGED mutVars
      /\ SvcReturn(r) /\ mode = "svc" /\ Owned(Living(k))
  BY MInvParts DEF MutexWait, Queued, SvcReturn
<1>2. k' = r /\ owner[o] \in Living(k)
  BY <1>1 DEF SvcReturn, Owned
<1>3. CASE n = 0
  <2>1. k' = k /\ Shrinks(k, k')
    BY <1>2, <1>3 DEF Shrinks
  <2> QED BY <1>1, <2>1, LentKept
<1>4. CASE n # 0
  <2> DEFINE t == owner[o]
  <2>1. /\ Fit(k, Living(k)) /\ Living(k) \in SUBSET Thread /\ k.run \in Thread
        /\ k.prio \in [Thread -> Nat] /\ ToSet(k.wait[o]) \subseteq Thread
    BY <1>1, ServiceFinder
  <2>2. k'.prio = IF saved[o] < k.prio[k.run] THEN [k.prio EXCEPT ![t] = k.prio[k.run]]
                  ELSE k.prio
    BY <1>1, <1>2, <1>4, <2>1, KernelAssumption, QueuedListed, InheritListed
  <2>3. ToSet(k'.wait[o]) = ToSet(k.wait[o]) \cup {k.run}
    BY <1>1, <1>2, <1>4, QueuedListed
  <2>4. k'.state[t] = k.state[t] \/ k'.state[t] = "RUNNING"
    BY <1>1, <1>2, <1>4, QueuedAwake
  <2>5. ASSUME use = "one" PROVE (Single /\ Lending(k) /\ Unlent(k))'
    <3>1. Single /\ Lending(k) /\ Unlent(k)
      BY <2>5, PInvParts
    <3>2. /\ saved[o] = InitPrio[t] /\ k.prio[t] >= saved[o]
          /\ k.state[t] \in {"READY", "RUNNING"}
          /\ \A x \in ToSet(k.wait[o]) : k.prio[t] >= k.prio[x]
      BY <1>1, <3>1 DEF Lending
    <3>3. k.prio[t] <= k.prio[k.run]
      BY <1>1, <1>2, <2>1, <3>2 DEF Fit, Consistent, Homed, Running
    <3>4. saved[o] \in Nat /\ t \in Thread
      BY <1>2, <2>1, MInvParts DEF MutTypeOK
    <3>5. /\ k'.prio[t] >= saved[o] /\ k'.state[t] \in {"READY", "RUNNING"}
          /\ \A x \in ToSet(k'.wait[o]) : k'.prio[t] >= k'.prio[x]
      BY <1>1, <2>1, <2>2, <2>3, <2>4, <3>2, <3>3, <3>4
    <3>6. Lending(k)'
      BY <1>1, <3>1, <3>2, <3>5 DEF Lending, Single, mutVars
    <3>7. Unlent(k)'
      <4>1. ASSUME NEW x \in Thread, \A y \in Obj : ~Holds(x, y) PROVE k'.prio[x] = InitPrio[x]
        <5>1. x # t
          BY <1>1, <4>1 DEF Holds
        <5> QED BY <2>1, <2>2, <3>1, <4>1, <5>1 DEF Unlent
      <4> QED BY <1>1, <4>1 DEF Unlent, Holds, mutVars
    <3> QED BY <1>1, <3>1, <3>6, <3>7 DEF Single, mutVars
  <2>6. use' = use
    BY <1>1 DEF mutVars
  <2> QED BY <2>5, <2>6, PInvNext
<1> QED BY <1>3, <1>4

LEMMA ReleaseLends ==
    ASSUME MInv, PInv, NEW o \in Obj, MutexRelease(o), MInv'
    PROVE  PInv'
<1> DEFINE h == Head(k.wait[o])
<1>1. /\ live[o] /\ level[o] # 0 /\ owner[o] = k.run /\ live' = live /\ use' = use
      /\ mode = "svc" /\ MutTypeOK
  BY MInvParts DEF MutexRelease, SvcReturn, MayRelease
<1>2. level[o] \in Nat /\ k.run \in Thread /\ k.prio \in [Thread -> Nat] /\ saved[o] \in Nat
  BY <1>1, ServiceFinder, KernelAssumption, MutexAssumption
     DEF MutTypeOK, MutexAssumption, KernelAssumption
<1>3. ASSUME use = "one"
      PROVE  /\ Single /\ Lending(k) /\ Unlent(k) /\ saved[o] = InitPrio[k.run]
             /\ \A t \in Thread \ {k.run} : k.prio[t] = InitPrio[t]
  <2>1. Single /\ Lending(k) /\ Unlent(k)
    BY <1>3, PInvParts
  <2>2. ASSUME NEW t \in Thread \ {k.run}, NEW x \in Obj PROVE ~Holds(t, x)
    BY <1>1, <2>1 DEF Single, Holds
  <2> QED BY <1>1, <2>1, <2>2 DEF Lending, Unlent
<1>4. CASE level[o] > 1
  <2>1. /\ level' = [level EXCEPT ![o] = @ - 1] /\ k' = k /\ owner' = owner /\ saved' = saved
    BY <1>4 DEF MutexRelease, SvcReturn
  <2>2. \A x \in Obj : level'[x] # 0 <=> level[x] # 0
    BY <1>1, <1>2, <1>4, <2>1 DEF MutTypeOK
  <2>3. ASSUME use = "one" PROVE (Single /\ Lending(k) /\ Unlent(k))'
    BY <1>1, <1>3, <2>1, <2>2, <2>3 DEF Single, Lending, Unlent, Holds
  <2> QED BY <1>1, <2>3, PInvNext
<1>5. CASE ~(level[o] > 1) /\ k.wait[o] = <<>>
  <2>1. /\ level' = [level EXCEPT ![o] = @ - 1] /\ k' = LetGo(o)
    BY <1>5 DEF MutexRelease, LetGo, SvcReturn
  <2>2. k'.prio = [k.prio EXCEPT ![k.run] = saved[o]]
    BY <1>1, <2>1, LetGoListed
  <2>3. level'[o] = 0
    BY <1>1, <1>2, <1>5, <2>1 DEF MutTypeOK
  <2>4. ASSUME use = "one" PROVE (Single /\ Lending(k) /\ Unlent(k))'
    <3>1. \A x \in Obj : live[x] => level'[x] = 0
      BY <1>1, <1>3, <2>3, <2>4 DEF Single
    <3>2. \A t \in Thread : k'.prio[t] = InitPrio[t]
      BY <1>2, <1>3, <2>2, <2>4
    <3> QED BY <1>1, <1>3, <2>4, <3>1, <3>2 DEF Single, Lending, Unlent
  <2> QED BY <1>1, <2>4, PInvNext
<1>6. CASE ~(level[o] > 1) /\ k.wait[o] # <<>>
  <2>1. /\ owner' = [owner EXCEPT ![o] = h] /\ level' = [level EXCEPT ![o] = 1]
        /\ saved' = [saved EXCEPT ![o] = k.prio[h]] /\ k' = Handed(o)
    BY <1>6 DEF MutexRelease, Handed, SvcReturn
  <2>2. /\ h \in ToSet(k.wait[o]) /\ ToSet(k'.wait[o]) = ToSet(k.wait[o]) \ {h}
        /\ k'.prio = [k.prio EXCEPT ![k.run] = saved[o]]
        /\ k'.state[h] \in {"READY", "RUNNING"}
        /\ \A x \in ToSet(k.wait[o]) : k.prio[h] >= k.prio[x]
    BY <1>1, <1>6, <2>1, HandedListed
  <2>3. \A x \in ToSet(k.wait[o]) : x \in Thread /\ x # k.run
    BY <1>1, ServiceFinder
  <2> HIDE DEF h
  <2>4. owner'[o] = h /\ level'[o] = 1 /\ saved'[o] = k.prio[h]
    BY <1>1, <2>1 DEF MutTypeOK
  <2>5. ASSUME use = "one" PROVE (Single /\ Lending(k) /\ Unlent(k))'
    <3>1. /\ saved'[o] = InitPrio[h] /\ k'.prio[h] = k.prio[h]
          /\ \A x \in ToSet(k'.wait[o]) : k'.prio[h] >= k'.prio[x]
      BY <1>2, <1>3, <2>2, <2>3, <2>4, <2>5
    <3>2. k.prio[h] \in Nat
      BY <1>2, <2>2, <2>3
    <3>3. Lending(k)'
      BY <1>1, <1>3, <2>2, <2>4, <2>5, <3>1, <3>2 DEF Single, Lending
    <3>4. \A t \in Thread : k'.prio[t] = InitPrio[t]
      BY <1>2, <1>3, <2>2, <2>5
    <3> QED BY <1>1, <1>3, <2>5, <3>3, <3>4 DEF Single, Unlent
  <2> QED BY <1>1, <2>5, PInvNext
<1> QED BY <1>4, <1>5, <1>6

LEMMA NextPInv == MInv /\ PInv /\ [Next]_vars /\ MInv' => PInv'
<1> SUFFICES ASSUME MInv, PInv, [Next]_vars, MInv' PROVE PInv'
  OBVIOUS
<1>1. CASE Svc
  BY <1>1, CreateLends, TakeLends, WaitLends, ReleaseLends, DeleteLends DEF Svc
<1>2. CASE \E n \in Delays : OwnerDelay(n)
  BY <1>2, DelaysLend
<1>3. CASE \E t \in Thread : NonOwnerEnds(t)
  BY <1>3, EndsLend
<1>4. CASE KernelStep /\ UNCHANGED mutVars
  BY <1>4, KernelLends
<1>5. CASE UNCHANGED vars
  <2>1. UNCHANGED mutVars /\ k' = k
    BY <1>5 DEF vars, kernelVars
  <2>2. Shrinks(k, k')
    BY <2>1 DEF Shrinks
  <2> QED BY <2>1, <2>2, LentKept
<1> QED BY <1>1, <1>2, <1>3, <1>4, <1>5 DEF Next

(***************************************************************************)
(* In a program of one mutex the owner is able to run whenever somebody    *)
(* waits, it holds what it had when it was created as the priority to go   *)
(* back to, and it never goes below that while it owns the mutex.          *)
(***************************************************************************)
THEOREM InheritanceInvariance == Spec => []PInv
  BY InitMInv, NextMInv, InitPInv, NextPInv, PTL DEF Spec

(***************************************************************************)
(* No owner is below a thread that waits for its mutex: what rt_mut_wait   *)
(* lends is enough, for the one who waits and for those before it.         *)
(***************************************************************************)
THEOREM OwnersInherit == Spec => []Inherits
<1>1. PInv => Inherits
  BY DEF PInv
<1> QED BY InheritanceInvariance, <1>1, PTL

(***************************************************************************)
(* Who does not hold the mutex has the priority it was created with: what  *)
(* was lent is given back, by the last release or by the deletion.         *)
(***************************************************************************)
THEOREM LoansReturned == Spec => []PriorityRestored
<1>1. PInv => PriorityRestored
  BY DEF PInv
<1> QED BY InheritanceInvariance, <1>1, PTL
=============================================================================
