------------------------- MODULE RtSemaphoreProofs --------------------------
(***************************************************************************)
(* The semaphores of RtSemaphore keep their invariant, for any number of   *)
(* threads, semaphores, tokens and timeouts.                               *)
(***************************************************************************)
EXTENDS RtSemaphore, RtObjectsProofs

\* What the invariant says of the lists, when a thread may have joined one.
Untold(s, told) == \A o \in Obj : \A t \in ToSet(s.wait[o]) : told[t] = "none"

\* The variables of the semaphores that nobody's waiting changes.
SemTypeOK ==
    /\ psq \in Seq(Obj) /\ Len(psq) <= FifoSize
    /\ tokens \in [Obj -> 0 .. TokenMod - 1]
    /\ live \in [Obj -> BOOLEAN]
    /\ ret \in [Thread -> {"none", "token"}]
    /\ given \in [Obj -> 0 .. Budget]

LEMMA SInvParts == SInv <=> OInv /\ SemTypeOK /\ NoIdleToken /\ Untold(k, ret)
  BY DEF SInv, OInv, TypeOK, SemTypeOK, Untold

LEMMA SInvNext ==
    ASSUME (OInv /\ SemTypeOK /\ NoIdleToken /\ Untold(k, ret))'
    PROVE  SInv'
  BY DEF SInv, OInv, TypeOK, SemTypeOK, Untold

LEMMA InitSInv == Init => SInv
<1> SUFFICES ASSUME Init PROVE SInv
  OBVIOUS
<1>1. OInv /\ \A o \in Obj : k.wait[o] = <<>>
  BY StartFits DEF Init
<1>2. psq = <<>> /\ FifoSize \in Nat
  BY KernelAssumption DEF Init, KernelInit, KernelAssumption
<1>3. SemTypeOK
  BY <1>2, SemaphoreAssumption DEF Init, SemTypeOK, SemaphoreAssumption
<1>4. NoIdleToken /\ Untold(k, ret)
  BY <1>1 DEF NoIdleToken, Untold, ToSet
<1> QED BY <1>1, <1>3, <1>4, SInvParts

-----------------------------------------------------------------------------
\* When nobody joins a list, and nothing is done to the semaphores.
LEMMA OthersKeep ==
    ASSUME SInv, OInv', Shrinks(k, k'), psq' = psq, UNCHANGED semVars
    PROVE  SInv'
<1>1. SemTypeOK /\ NoIdleToken /\ Untold(k, ret) /\ Sound(k) /\ Sound(k')
  BY SInvParts DEF OInv
<1>2. SemTypeOK' /\ Untold(k, ret)'
  BY <1>1 DEF SemTypeOK, Untold, Shrinks, semVars
<1>3. \A o \in Obj : k.wait[o] = <<>> => k'.wait[o] = <<>>
  BY <1>1, KernelAssumption, NobodyJoins
<1>4. NoIdleToken'
  BY <1>1, <1>3 DEF NoIdleToken, semVars
<1>5. (OInv /\ SemTypeOK /\ NoIdleToken /\ Untold(k, ret))'
  BY <1>2, <1>4
<1> QED BY <1>5, SInvNext

-----------------------------------------------------------------------------
\* The services.
LEMMA CreateKeeps ==
    ASSUME SInv, NEW o \in Obj, NEW n \in InitTokens, SemaphoreCreate(o, n)
    PROVE  SInv'
<1>1. /\ ~live[o] /\ SvcReturn(k) /\ mode = "svc" /\ k' = k /\ psq' = psq
      /\ tokens' = [tokens EXCEPT ![o] = n] /\ live' = [live EXCEPT ![o] = TRUE]
      /\ given' = [given EXCEPT ![o] = 0] /\ ret' = ret
  BY DEF SemaphoreCreate, SvcReturn
<1>2. OInv /\ SemTypeOK /\ NoIdleToken /\ Untold(k, ret)
  BY SInvParts
<1>3. OInv'
  BY <1>1, <1>2, ServiceFinds, ServiceKeeps
<1>4. SemTypeOK'
  <2>1. n \in 0 .. TokenMod - 1 /\ 0 \in 0 .. Budget
    BY SemaphoreAssumption DEF SemaphoreAssumption
  <2> QED BY <1>1, <1>2, <2>1 DEF SemTypeOK
<1>5. NoIdleToken' /\ Untold(k, ret)'
  <2>1. k.wait[o] = <<>>
    BY <1>1, <1>2 DEF NoIdleToken
  <2> QED BY <1>1, <1>2, <2>1 DEF NoIdleToken, SemTypeOK, Untold
<1> QED BY <1>3, <1>4, <1>5, SInvNext

LEMMA WaitKeeps ==
    ASSUME SInv, NEW o \in Obj, NEW n \in Timeouts, SemaphoreWait(o, n)
    PROVE  SInv'
<1>1. OInv /\ SemTypeOK /\ NoIdleToken /\ Untold(k, ret) /\ mode = "svc"
  BY SInvParts DEF SemaphoreWait, SvcReturn
<1>2. /\ Fit(k, Living(k)) /\ Living(k) \in SUBSET Thread /\ Table(k)
      /\ k.run # Idle /\ k.run \in Thread /\ Sound(k)
  BY <1>1, ServiceFinds
<1>3. live[o] /\ live' = live /\ given' = given /\ psq' = psq
  BY DEF SemaphoreWait, SvcReturn
<1>4. CASE tokens[o] > 0
  <2>1. /\ SvcReturn(k) /\ k' = k /\ tokens' = [tokens EXCEPT ![o] = @ - 1]
        /\ ret' = [ret EXCEPT ![k.run] = "token"]
    BY <1>4 DEF SemaphoreWait, SvcReturn
  <2>2. OInv'
    BY <1>1, <1>2, <2>1, ServiceKeeps
  <2>3. SemTypeOK'
    <3>1. tokens[o] \in 0 .. TokenMod - 1 /\ TokenMod \in Nat
      BY <1>1, SemaphoreAssumption DEF SemTypeOK, SemaphoreAssumption
    <3>2. tokens[o] - 1 \in 0 .. TokenMod - 1
      BY <1>4, <3>1
    <3> QED BY <1>1, <1>2, <1>3, <2>1, <3>2 DEF SemTypeOK
  <2>4. NoIdleToken'
    BY <1>1, <1>3, <1>4, <2>1 DEF NoIdleToken, SemTypeOK
  <2>5. Untold(k, ret)'
    <3>1. \A x \in Obj : \A t \in ToSet(k.wait[x]) : t # k.run /\ t \in Thread
      BY <1>2, KernelAssumption, QueueApart DEF Fit
    <3> QED BY <1>1, <2>1, <3>1 DEF Untold, SemTypeOK
  <2> QED BY <2>2, <2>3, <2>4, <2>5, SInvNext
<1>5. CASE ~(tokens[o] > 0)
  <2> DEFINE r == IF n = 0 THEN k ELSE WaitFor(k, o, n, "WAIT_SEM")
  <2>1. /\ SvcReturn(r) /\ k' = r /\ tokens' = tokens
        /\ ret' = [ret EXCEPT ![k.run] = "none"]
    BY <1>5 DEF SemaphoreWait, SvcReturn
  <2>2. /\ Fit(r, Living(k)) /\ SameTable(k, r)
        /\ ToSet(r.wait[o]) \subseteq ToSet(k.wait[o]) \cup {k.run}
        /\ \A x \in Obj \ {o} : r.wait[x] = k.wait[x]
    <3>1. CASE n = 0
      BY <1>2, <3>1 DEF SameTable
    <3>2. CASE n # 0
      <4>1. n \in 1 .. Forever /\ "WAIT_SEM" \in ObjectWait
        BY <3>2, KernelAssumption, ObjectsAssumption
           DEF KernelAssumption, ObjectsAssumption, ObjectWait
      <4> DEFINE w == WaitFor(k, o, n, "WAIT_SEM")
      <4>2. /\ Consistent(w, Living(k)) /\ Running(w) /\ Due(w) /\ SameTable(k, w)
            /\ Joins(k, w, o, k.run)
        BY <1>2, <4>1, KernelAssumption, WaitForListed DEF Fit
      <4> QED BY <3>2, <4>2 DEF Fit, Joins
    <3> QED BY <3>1, <3>2
  <2> HIDE DEF r
  <2>3. OInv'
    <3>1. Fit(r, Living(r)) /\ Table(r)
      BY <1>2, <2>2, SameLiving
    <3> QED BY <1>1, <2>1, <3>1, ServiceKeeps
  <2>4. SemTypeOK'
    BY <1>1, <1>2, <1>3, <2>1 DEF SemTypeOK
  <2>5. NoIdleToken'
    <3>1. ASSUME NEW x \in Obj, tokens[x] > 0 \/ ~live[x]
          PROVE  x # o /\ k.wait[x] = <<>>
      BY <1>1, <1>3, <1>5, <3>1 DEF NoIdleToken
    <3> QED BY <1>3, <2>1, <2>2, <3>1 DEF NoIdleToken
  <2>6. Untold(k, ret)'
    <3>1. ASSUME NEW x \in Obj, NEW t \in ToSet(r.wait[x]) PROVE ret'[t] = "none"
      <4>1. t \in ToSet(k.wait[x]) \/ t = k.run
        BY <2>2
      <4>2. t \in Thread /\ (t # k.run => ret[t] = "none")
        <5>1. ToSet(k.wait[x]) \subseteq Thread
          BY <1>2, KernelAssumption, WaitFields
        <5> QED BY <1>1, <1>2, <4>1, <5>1 DEF Untold
      <4> QED BY <1>1, <2>1, <4>2 DEF SemTypeOK
    <3> QED BY <2>1, <3>1 DEF Untold
  <2> QED BY <2>3, <2>4, <2>5, <2>6, SInvNext
<1> QED BY <1>4, <1>5

\* A token comes: it is stored, or the first thread that waits is told.
LEMMA StoreKeeps ==
    ASSUME SInv, OInv', NEW o \in Obj, FirstLeaves(k, k', o), Store(o),
           psq' \in Seq(Obj), Len(psq') <= FifoSize, live' = live,
           given' \in [Obj -> 0 .. Budget],
           live[o] \/ k.wait[o] = <<>>
    PROVE  SInv'
<1>1. OInv /\ SemTypeOK /\ NoIdleToken /\ Untold(k, ret) /\ Sound(k) /\ Sound(k')
  BY SInvParts DEF OInv
<1>2. \A x \in Obj : k.wait[x] = <<>> => k'.wait[x] = <<>>
  BY <1>1, KernelAssumption, NobodyJoins DEF FirstLeaves
<1>3. CASE k.wait[o] = <<>>
  <2>1. k' = k /\ ret' = ret /\ tokens' = [tokens EXCEPT ![o] = (@ + 1) % TokenMod]
    BY <1>3 DEF FirstLeaves, Store
  <2>2. (tokens[o] + 1) % TokenMod \in 0 .. TokenMod - 1
    BY <1>1, SemaphoreAssumption, SMTT(30) DEF SemTypeOK, SemaphoreAssumption
  <2>3. SemTypeOK'
    BY <1>1, <2>1, <2>2 DEF SemTypeOK
  <2>4. NoIdleToken'
    BY <1>1, <1>3, <2>1 DEF NoIdleToken, SemTypeOK
  <2>5. Untold(k, ret)'
    BY <1>1, <2>1 DEF Untold
  <2> QED BY <2>3, <2>4, <2>5, SInvNext
<1>4. CASE k.wait[o] # <<>>
  <2> DEFINE h == Head(k.wait[o])
  <2>1. /\ ret' = [ret EXCEPT ![h] = "token"] /\ tokens' = tokens
        /\ h \in ToSet(k.wait[o])
        /\ ToSet(k'.wait[o]) = ToSet(k.wait[o]) \ {h}
        /\ \A x \in Obj \ {o} : k'.wait[x] = k.wait[x]
    BY <1>4 DEF FirstLeaves, Store
  <2> HIDE DEF h
  <2>2. SemTypeOK'
    BY <1>1, <2>1 DEF SemTypeOK
  <2>3. NoIdleToken'
    BY <1>1, <1>2, <2>1 DEF NoIdleToken
  <2>4. ASSUME NEW x \in Obj, NEW t \in ToSet(k'.wait[x]) PROVE ret'[t] = "none"
    <3>1. t \in ToSet(k.wait[x]) /\ t # h
      <4>1. CASE x = o
        BY <2>1, <2>4, <4>1
      <4>2. CASE x # o
        <5>1. t \in ToSet(k.wait[x]) /\ Listed(k, Living(k))
          BY <1>1, <2>1, <2>4, <4>2 DEF OInv
        <5>2. k.rlnk[t] = x /\ k.rlnk[h] = o
          BY ONLY <2>1, <5>1, x \in Obj, o \in Obj DEF Listed
        <5> QED BY ONLY <4>2, <5>1, <5>2
      <4> QED BY <4>1, <4>2
    <3>2. t \in Thread /\ ret[t] = "none"
      BY <1>1, <3>1, KernelAssumption, WaitFields DEF Untold
    <3> QED BY <1>1, <2>1, <3>1, <3>2 DEF SemTypeOK
  <2>5. Untold(k, ret)'
    BY <2>4 DEF Untold
  <2> QED BY <2>2, <2>3, <2>5, SInvNext
<1> QED BY <1>3, <1>4

LEMMA AcceptedType ==
    ASSUME SemTypeOK, NEW o \in Obj, MayRelease(o), Accepted(o)
    PROVE  given' \in [Obj -> 0 .. Budget]
<1>1. given[o] \in 0 .. Budget /\ given[o] < Budget /\ Budget \in Nat
  BY SemaphoreAssumption DEF SemTypeOK, MayRelease, SemaphoreAssumption
<1> QED BY <1>1 DEF SemTypeOK, Accepted

LEMMA ReleaseKeeps ==
    ASSUME SInv, NEW o \in Obj, SemaphoreRelease(o)
    PROVE  SInv' /\ FirstLeaves(k, k', o)
<1> DEFINE r == Sent(k, o)
<1>1. OInv /\ SemTypeOK /\ mode = "svc"
  BY SInvParts DEF SemaphoreRelease, SvcReturn
<1>2. /\ SvcReturn(r) /\ k' = r /\ psq' = psq /\ live' = live /\ Store(o)
      /\ MayRelease(o) /\ Accepted(o)
  BY DEF SemaphoreRelease, SvcReturn, Sent
<1>3. Fit(k, Living(k)) /\ Living(k) \in SUBSET Thread /\ Table(k)
  BY <1>1, ServiceFinds
<1>4. Fit(r, Living(k)) /\ FirstLeaves(k, r, o)
  BY <1>3, KernelAssumption, SentFits
<1> HIDE DEF r
<1>5. OInv'
  <2>1. Fit(r, Living(r)) /\ Table(r)
    BY <1>3, <1>4, SameLiving DEF FirstLeaves
  <2> QED BY <1>1, <1>2, <2>1, ServiceKeeps
<1>6. given' \in [Obj -> 0 .. Budget]
  BY <1>1, <1>2, AcceptedType
<1>7. psq' \in Seq(Obj) /\ Len(psq') <= FifoSize /\ live[o]
  BY <1>1, <1>2 DEF SemTypeOK, MayRelease
<1>8. FirstLeaves(k, k', o)
  BY <1>2, <1>4
<1> QED BY <1>2, <1>5, <1>6, <1>7, <1>8, StoreKeeps

LEMMA PopSemaphoreKeeps ==
    ASSUME SInv, PopSemaphore
    PROVE  SInv' /\ Head(psq) \in Obj /\ FirstLeaves(k, k', Head(psq))
<1> DEFINE o == Head(psq)
           r == Pushed(k, o)
<1>1. OInv /\ SemTypeOK /\ NoIdleToken /\ mode = "pop" /\ psq # <<>> /\ psq \in Seq(Obj)
  BY SInvParts DEF PopSemaphore, PopRequest, SemTypeOK
<1>2. o \in Obj /\ Tail(psq) \in Seq(Obj) /\ Len(Tail(psq)) <= FifoSize
  <2>1. Len(psq) <= FifoSize /\ FifoSize \in Nat
    BY <1>1, KernelAssumption DEF SemTypeOK, KernelAssumption
  <2> QED BY <1>1, <2>1
<1>3. /\ PopRequest(r) /\ k' = r /\ psq' = Tail(psq) /\ live' = live /\ given' = given
      /\ Store(o)
  BY DEF PopSemaphore, PopRequest, Pushed
<1> HIDE DEF o
<1>4. Handling(k, Living(k)) /\ Living(k) \in SUBSET Thread /\ Table(k) /\ Due(k)
  BY <1>1, HandlerFinds
<1>5. Handling(r, Living(k)) /\ Due(r) /\ FirstLeaves(k, r, o)
  BY <1>2, <1>4, KernelAssumption, PushedFits
<1> HIDE DEF r
<1>6. OInv'
  <2>1. Handling(r, Living(r)) /\ Table(r)
    BY <1>4, <1>5, SameLiving DEF FirstLeaves
  <2> QED BY <1>1, <1>3, <1>5, <2>1, PopKeeps
<1>7. live[o] \/ k.wait[o] = <<>>
  BY <1>1, <1>2 DEF NoIdleToken
<1>8. given' \in [Obj -> 0 .. Budget]
  BY <1>1, <1>3 DEF SemTypeOK
<1>9. FirstLeaves(k, k', o) /\ psq' \in Seq(Obj) /\ Len(psq') <= FifoSize
  BY <1>2, <1>3, <1>5
<1> QED BY <1>2, <1>3, <1>6, <1>7, <1>8, <1>9, StoreKeeps DEF o

LEMMA DeleteKeeps ==
    ASSUME SInv, NEW o \in Obj, SemaphoreDelete(o)
    PROVE  /\ SInv' /\ k'.wait[o] = <<>>
           /\ \A x \in Obj \ {o} : ToSet(k'.wait[x]) = ToSet(k.wait[x])
<1> DEFINE f == Flush(k, o)
           r == Preempted(f)
<1>1. OInv /\ SemTypeOK /\ NoIdleToken /\ Untold(k, ret) /\ mode = "svc"
  BY SInvParts DEF SemaphoreDelete, SvcReturn
<1>2. /\ SvcReturn(r) /\ k' = r /\ psq' = psq /\ live' = [live EXCEPT ![o] = FALSE]
      /\ ret' = [t \in Thread |-> IF t \in ToSet(k.wait[o]) THEN "none" ELSE ret[t]]
      /\ tokens' = tokens /\ given' = given
  BY DEF SemaphoreDelete, SvcReturn
<1>3. Fit(k, Living(k)) /\ Living(k) \in SUBSET Thread /\ Table(k)
  BY <1>1, ServiceFinds
<1>4. Flushing(k, f, o, Living(k)) /\ f.wait[o] = <<>>
  BY <1>3, KernelAssumption, FlushListed DEF Fit
<1> HIDE DEF f
<1>5. Consistent(f, Living(k)) /\ SameTable(k, f) /\ Due(f) /\ Preemptible(f)
  BY <1>3, <1>4 DEF Flushing, Fit, Preemptible, Running
<1>6. /\ Fit(r, Living(k)) /\ SameTable(f, r) /\ SameWaiters(f, r)
  BY <1>3, <1>5, KernelAssumption, PreemptedListed DEF Fit
<1> HIDE DEF r
<1>7. OInv'
  <2>1. SameTable(k, r)
    BY <1>5, <1>6 DEF SameTable
  <2>2. Fit(r, Living(r)) /\ Table(r)
    BY <1>3, <1>6, <2>1, SameLiving
  <2> QED BY <1>1, <1>2, <2>2, ServiceKeeps
<1>8. ToSet(r.wait[o]) = {} /\ \A x \in Obj \ {o} : ToSet(r.wait[x]) = ToSet(k.wait[x])
  <2>1. ToSet(f.wait[o]) = {} /\ \A x \in Obj \ {o} : f.wait[x] = k.wait[x]
    BY <1>4 DEF Flushing, ToSet
  <2> QED BY ONLY <1>6, <2>1, o \in Obj DEF SameWaiters
<1>12. \A x \in Obj : ToSet(r.wait[x]) = {} <=> r.wait[x] = <<>>
  BY <1>6, KernelAssumption, WaitFields, NoMembers DEF Fit, Consistent
<1>13. \A x \in Obj : k.wait[x] = <<>> => r.wait[x] = <<>>
  <2>1. ASSUME NEW x \in Obj, k.wait[x] = <<>> PROVE ToSet(r.wait[x]) = {}
    <3>1. ToSet(k.wait[x]) = {}
      BY <2>1 DEF ToSet
    <3> QED BY ONLY <1>8, <3>1, x \in Obj
  <2> QED BY <1>12, <2>1
<1>9. SemTypeOK'
  BY <1>1, <1>2 DEF SemTypeOK
<1>10. NoIdleToken'
  BY <1>1, <1>2, <1>8, <1>12, <1>13 DEF NoIdleToken, SemTypeOK
<1>11. Untold(k, ret)'
  <2>1. ASSUME NEW x \in Obj, NEW t \in ToSet(r.wait[x]) PROVE ret'[t] = "none"
    <3>1. x # o /\ t \in ToSet(k.wait[x])
      BY <1>8, <2>1
    <3>2. t \in Thread /\ ret[t] = "none"
      BY <1>1, <1>3, <3>1, KernelAssumption, QueueApart DEF Untold, Fit
    <3> QED BY <1>2, <3>2
  <2> QED BY <1>2, <2>1 DEF Untold
<1> QED BY <1>2, <1>7, <1>8, <1>9, <1>10, <1>11, <1>12, SInvNext

LEMMA IsrKeeps ==
    ASSUME SInv, NEW o \in Obj, IsrSemaphoreRelease(o)
    PROVE  SInv' /\ k' = k /\ ret' = ret
<1>1. OInv /\ SemTypeOK /\ NoIdleToken /\ Untold(k, ret)
  BY SInvParts
<1>2. /\ MayRelease(o) /\ PsqEnq(o) /\ UNCHANGED <<tokens, live, ret>>
      /\ IF Len(psq) < FifoSize THEN Accepted(o) ELSE UNCHANGED given
  BY DEF IsrSemaphoreRelease
<1>3. OInv' /\ k' = k
  BY <1>1, <1>2, EnqKeeps
<1>4. psq' \in Seq(Obj) /\ Len(psq') <= FifoSize
  <2>1. psq \in Seq(Obj) /\ Len(psq) <= FifoSize /\ Len(psq) \in Nat /\ FifoSize \in Nat
    BY <1>1, KernelAssumption DEF SemTypeOK, KernelAssumption
  <2>2. psq' = psq \/ (Len(psq) < FifoSize /\ psq' = Append(psq, o))
    BY <1>2 DEF PsqEnq
  <2> QED BY <2>1, <2>2
<1>5. given' \in [Obj -> 0 .. Budget]
  BY <1>1, <1>2, AcceptedType DEF SemTypeOK
<1>6. (SemTypeOK /\ NoIdleToken /\ Untold(k, ret))'
  BY <1>1, <1>2, <1>3, <1>4, <1>5 DEF SemTypeOK, NoIdleToken, Untold
<1> QED BY <1>2, <1>3, <1>6, SInvNext

\* The steps that have nothing to do with a semaphore.
Elsewhere == KernelStep \/ (\E n \in Delays : Delay(n)) \/ \E t \in Thread : Control(t)

LEMMA ElsewhereKeeps ==
    ASSUME SInv, Elsewhere, UNCHANGED semVars
    PROVE  SInv' /\ OneLeaves(k, k') /\ psq' = psq
<1>1. OInv
  BY SInvParts
<1>2. OInv' /\ OneLeaves(k, k') /\ psq' = psq
  <2>1. CASE KernelStep
    BY <1>1, <2>1, KernelStepKeeps
  <2>2. CASE \E n \in Delays : Delay(n)
    BY <1>1, <2>2, DelayKeeps DEF Steady, OneLeaves
  <2>3. CASE \E t \in Thread : Control(t)
    BY <1>1, <2>3, ControlKeeps
  <2> QED BY <2>1, <2>2, <2>3 DEF Elsewhere
<1> QED BY <1>2, OneLeavesShrinks, OthersKeep

LEMMA NextSInv == SInv /\ [Next]_vars => SInv'
<1> SUFFICES ASSUME SInv, [Next]_vars PROVE SInv'
  OBVIOUS
<1>1. CASE Svc
  BY <1>1, CreateKeeps, WaitKeeps, ReleaseKeeps, DeleteKeeps DEF Svc
<1>2. CASE \E o \in Obj : IsrSemaphoreRelease(o)
  BY <1>2, IsrKeeps
<1>3. CASE PopSemaphore
  BY <1>3, PopSemaphoreKeeps
<1>4. CASE Elsewhere /\ UNCHANGED semVars
  BY <1>4, ElsewhereKeeps
<1>5. CASE UNCHANGED vars
  <2>1. OInv
    BY SInvParts
  <2>2. OInv' /\ k' = k /\ psq' = psq /\ UNCHANGED semVars
    BY <1>5, <2>1, StutterKeeps DEF vars, kernelVars
  <2> QED BY <2>2, OthersKeep DEF Shrinks
<1> QED BY <1>1, <1>2, <1>3, <1>4, <1>5 DEF Next, Elsewhere

(***************************************************************************)
(* The invariant holds in every state, whatever threads and interrupts do. *)
(***************************************************************************)
THEOREM SemaphoreInvariance == Spec => []SInv
  BY InitSInv, NextSInv, PTL DEF Spec

\* Types: a counter stays within 16 bits, the queue within os_fifo_size.
THEOREM SemaphoreTypes == Spec => []TypeOK
<1>1. SInv => TypeOK
  BY DEF SInv
<1> QED BY SemaphoreInvariance, <1>1, PTL

(***************************************************************************)
(* The lists of the semaphores, of the timeouts and of the ready threads   *)
(* agree with each other and with the states of the threads, whoever is    *)
(* woken, gives up, changes his priority or is terminated while he waits.  *)
(***************************************************************************)
THEOREM SemaphoreLists == Spec => []WaitLists
<1>1. SInv => WaitLists
  BY ListsRight DEF SInv
<1> QED BY SemaphoreInvariance, <1>1, PTL

(***************************************************************************)
(* Nobody waits for a semaphore that has a token, or for a deleted one:    *)
(* neither a release that PendSV serves after the deletion nor one that    *)
(* comes while threads give up leaves a token beside one who waits.        *)
(***************************************************************************)
THEOREM TokensUsed == Spec => []NoIdleToken
<1>1. SInv => NoIdleToken
  BY DEF SInv
<1> QED BY SemaphoreInvariance, <1>1, PTL

-----------------------------------------------------------------------------
\* Who is told is the first of the list the token was for.
LEMMA StoredHighest ==
    ASSUME SInv, NEW x \in Obj, Store(x), FirstLeaves(k, k', x),
           NEW o \in Obj, NEW t \in ToSet(k.wait[o]), ret'[t] = "token"
    PROVE  \A u \in ToSet(k'.wait[o]) : k.prio[u] <= k.prio[t]
<1> DEFINE h == Head(k.wait[x])
<1>1. OInv /\ SemTypeOK /\ Untold(k, ret) /\ Sound(k) /\ Listed(k, Living(k))
  BY SInvParts DEF OInv
<1>2. ret[t] = "none" /\ t \in Thread /\ k.rlnk[t] = o
  BY <1>1, KernelAssumption, WaitFields DEF Untold, Listed
<1>3. k.wait[x] # <<>> /\ t = h
  <2>1. k.wait[x] # <<>> /\ ret' = [ret EXCEPT ![h] = "token"]
    BY <1>2 DEF Store
  <2> QED BY ONLY <1>1, <1>2, <2>1, ret'[t] = "token" DEF SemTypeOK
<1>4. x = o
  <2>1. h \in ToSet(k.wait[x])
    BY <1>3 DEF FirstLeaves
  <2> QED BY <1>1, <1>2, <1>3, <2>1 DEF Listed
<1>5. \A u \in ToSet(k'.wait[o]) : u \in ToSet(k.wait[o]) /\ k.prio[t] >= k.prio[u]
  BY <1>3, <1>4 DEF FirstLeaves
<1>6. k.prio \in [Thread -> Nat] /\ ToSet(k.wait[o]) \subseteq Thread
  BY <1>1, KernelAssumption, SoundFields, WaitFields
<1> QED BY <1>2, <1>5, <1>6

\* A step that tells nobody who waits.
LEMMA OthersTellNone ==
    ASSUME SInv, [Next]_vars, NEW o \in Obj, NEW t \in ToSet(k.wait[o]),
           ret'[t] = "token"
    PROVE  \E x \in Obj : Store(x) /\ FirstLeaves(k, k', x)
<1>1. OInv /\ SemTypeOK /\ Untold(k, ret) /\ Sound(k)
  BY SInvParts DEF OInv
<1>2. ret[t] = "none" /\ t \in Thread
  BY <1>1, KernelAssumption, WaitFields DEF Untold
<1>3. t # k.run
  <2>1. Consistent(k, Living(k)) /\ Living(k) \in SUBSET Thread
    BY <1>1 DEF OInv, Consistent, Living
  <2> QED BY ONLY <2>1, KernelAssumption, o \in Obj, t \in ToSet(k.wait[o]), QueueApart
<1>4. CASE Svc
  <2>1. ASSUME NEW x \in Obj, NEW n \in InitTokens, SemaphoreCreate(x, n) PROVE FALSE
    BY <1>2, <2>1 DEF SemaphoreCreate
  <2>2. ASSUME NEW x \in Obj, NEW n \in Timeouts, SemaphoreWait(x, n) PROVE FALSE
    <3>1. ret' = [ret EXCEPT ![k.run] = "token"] \/ ret' = [ret EXCEPT ![k.run] = "none"]
      BY <2>2 DEF SemaphoreWait
    <3> QED BY ONLY <1>1, <1>2, <1>3, <3>1, ret'[t] = "token" DEF SemTypeOK
  <2>3. ASSUME NEW x \in Obj, SemaphoreRelease(x) PROVE Store(x) /\ FirstLeaves(k, k', x)
    BY <2>3, ReleaseKeeps DEF SemaphoreRelease
  <2>4. ASSUME NEW x \in Obj, SemaphoreDelete(x) PROVE FALSE
    BY <1>2, <2>4 DEF SemaphoreDelete
  <2> QED BY <1>4, <2>1, <2>2, <2>3, <2>4 DEF Svc
<1>5. CASE \E x \in Obj : IsrSemaphoreRelease(x)
  BY <1>2, <1>5 DEF IsrSemaphoreRelease
<1>6. CASE PopSemaphore
  BY <1>6, PopSemaphoreKeeps DEF PopSemaphore
<1>7. CASE UNCHANGED semVars
  BY <1>2, <1>7 DEF semVars
<1> QED BY <1>4, <1>5, <1>6, <1>7 DEF Next, vars

(***************************************************************************)
(* A thread that returns with a token leaves none of a higher priority     *)
(* waiting for the same semaphore, whether a thread or PendSV gave it.     *)
(***************************************************************************)
THEOREM HighestServed == Spec => HighestFirst
<1> DEFINE First == \A o \in Obj, t \in Thread :
                       /\ t \in ToSet(k.wait[o]) /\ t \notin ToSet(k.wait'[o])
                       /\ ret'[t] = "token"
                       => \A u \in ToSet(k.wait'[o]) : k.prio[u] <= k.prio[t]
<1>1. SInv /\ [Next]_vars => First
  BY OthersTellNone, StoredHighest
<1>2. SInv /\ [Next]_vars => [First]_vars
  BY <1>1
<1> QED BY SemaphoreInvariance, <1>2, PTL DEF Spec, HighestFirst

-----------------------------------------------------------------------------
(***************************************************************************)
(* How many of the requests in a queue are for o.                          *)
(***************************************************************************)
Places(q, o) == {i \in DOMAIN q : q[i] = o}

LEMMA PlacesFinite ==
    ASSUME NEW S, NEW q \in Seq(S), NEW o
    PROVE  IsFiniteSet(Places(q, o)) /\ Cardinality(Places(q, o)) \in Nat
<1>1. DOMAIN q = 1 .. Len(q) /\ Len(q) \in Nat
  OBVIOUS
<1>2. IsFiniteSet(1 .. Len(q))
  BY <1>1, FS_Interval
<1>3. IsFiniteSet(Places(q, o))
  BY <1>1, <1>2, FS_Subset DEF Places
<1> QED BY <1>3, FS_CardinalityType

LEMMA PlacesAppend ==
    ASSUME NEW S, NEW q \in Seq(S), NEW x \in S, NEW o
    PROVE  Cardinality(Places(Append(q, x), o))
             = Cardinality(Places(q, o)) + (IF x = o THEN 1 ELSE 0)
<1> DEFINE n == Len(q)
           r == Append(q, x)
<1>1. /\ n \in Nat /\ DOMAIN q = 1 .. n /\ DOMAIN r = 1 .. n + 1
      /\ r[n + 1] = x /\ \A i \in 1 .. n : r[i] = q[i]
  OBVIOUS
<1>2. IsFiniteSet(Places(q, o)) /\ Cardinality(Places(q, o)) \in Nat
  BY PlacesFinite
<1> HIDE DEF r
<1>3. CASE x = o
  <2>1. Places(r, o) = Places(q, o) \cup {n + 1} /\ n + 1 \notin Places(q, o)
    BY <1>1, <1>3 DEF Places
  <2> QED BY <1>2, <1>3, <2>1, FS_AddElement DEF r
<1>4. CASE x # o
  <2>1. Places(r, o) = Places(q, o)
    BY <1>1, <1>4 DEF Places
  <2> QED BY <1>2, <1>4, <2>1 DEF r
<1> QED BY <1>3, <1>4

LEMMA PlacesTail ==
    ASSUME NEW S, NEW q \in Seq(S), q # <<>>, NEW o
    PROVE  Cardinality(Places(q, o))
             = Cardinality(Places(Tail(q), o)) + (IF Head(q) = o THEN 1 ELSE 0)
<1> DEFINE n == Len(q)
           r == Tail(q)
           P == Places(q, o)
           T == Places(r, o)
           R == P \ {1}
           f == [i \in T |-> i + 1]
<1>1. /\ n \in Nat /\ n >= 1 /\ DOMAIN q = 1 .. n /\ DOMAIN r = 1 .. n - 1 /\ r \in Seq(S)
      /\ q[1] = Head(q) /\ \A i \in 1 .. n - 1 : r[i] = q[i + 1]
  OBVIOUS
<1>2. IsFiniteSet(T) /\ Cardinality(T) \in Nat /\ IsFiniteSet(P)
  BY <1>1, PlacesFinite
<1> HIDE DEF r
<1>3. f \in Bijection(T, R)
  <2>1. \A i \in T : i \in Nat /\ i + 1 \in R
    BY <1>1 DEF Places
  <2>2. \A j \in R : j - 1 \in T /\ j - 1 + 1 = j
    BY <1>1 DEF Places
  <2>3. f \in [T -> R] /\ \A i \in T : f[i] = i + 1
    BY <2>1
  <2>4. \A i, j \in T : f[i] = f[j] => i = j
    BY <2>1, <2>3
  <2>5. \A j \in R : \E i \in T : f[i] = j
    BY <2>2, <2>3
  <2> QED BY <2>3, <2>4, <2>5 DEF Bijection, Injection, Surjection, IsInjective
<1>4. ExistsBijection(T, R)
  BY <1>3 DEF ExistsBijection
<1>5. IsFiniteSet(R) /\ Cardinality(R) = Cardinality(T)
  BY <1>2, <1>4, FS_Bijection
<1>6. CASE Head(q) = o
  <2>1. P = R \cup {1} /\ 1 \notin R
    BY <1>1, <1>6 DEF Places
  <2> HIDE DEF P, R, T
  <2>2. Cardinality(P) = Cardinality(R) + 1
    BY <1>5, <2>1, FS_AddElement
  <2> QED BY <1>5, <1>6, <2>2 DEF P, R, T, r
<1>7. CASE Head(q) # o
  <2>1. P = R
    BY <1>1, <1>7 DEF Places
  <2> HIDE DEF P, R, T
  <2>2. Cardinality(P) = Cardinality(T)
    BY <1>5, <2>1
  <2> QED BY <1>2, <1>7, <2>2 DEF P, T, r
<1> QED BY <1>6, <1>7

\* What PsqEnq and PopRequest do to it.
LEMMA PendingEnq ==
    ASSUME SemTypeOK, NEW x \in Obj, psq' = Append(psq, x), NEW o \in Obj
    PROVE  Pending(o)' = Pending(o) + (IF x = o THEN 1 ELSE 0)
<1>1. Pending(o) = Cardinality(Places(psq, o)) /\ Pending(o)' = Cardinality(Places(psq', o))
  BY DEF Pending, Places
<1> QED BY <1>1, PlacesAppend DEF SemTypeOK

LEMMA PendingPop ==
    ASSUME SemTypeOK, psq # <<>>, psq' = Tail(psq), NEW o \in Obj
    PROVE  Pending(o) = Pending(o)' + (IF Head(psq) = o THEN 1 ELSE 0)
<1>1. Pending(o) = Cardinality(Places(psq, o)) /\ Pending(o)' = Cardinality(Places(psq', o))
  BY DEF Pending, Places
<1> QED BY <1>1, PlacesTail DEF SemTypeOK

LEMMA PendingType ==
    ASSUME SemTypeOK, NEW o \in Obj
    PROVE  /\ Pending(o) \in Nat
           /\ (\A i \in DOMAIN psq : psq[i] # o) => Pending(o) = 0
<1>1. Pending(o) = Cardinality(Places(psq, o))
  BY DEF Pending, Places
<1>2. (\A i \in DOMAIN psq : psq[i] # o) => Places(psq, o) = {}
  BY DEF Places
<1> QED BY <1>1, <1>2, PlacesFinite, FS_EmptySet DEF SemTypeOK

-----------------------------------------------------------------------------
(***************************************************************************)
(* CInv holds in every state.                                              *)
(***************************************************************************)
LEMMA InitCInv == Init => CInv
  BY DEF Init, KernelInit, CInv

\* The parts of CInv: who comes first, and how much there is.
ServedFirst == psq # <<>> => pend \/ mode \in {"pop", "os_error", "undefined"}
ForTheLiving == mode = "svc" => \A i \in DOMAIN psq : live[psq[i]]
Bounded == \A o \in Obj : live[o] =>
               \E n \in InitTokens : tokens[o] + Pending(o) <= n + given[o]

LEMMA CInvParts == CInv <=> ServedFirst /\ ForTheLiving /\ Bounded
  BY DEF CInv, ServedFirst, ForTheLiving, Bounded

LEMMA CInvNext ==
    ASSUME ServedFirst', ForTheLiving', Bounded'
    PROVE  CInv'
  BY DEF CInv, ServedFirst, ForTheLiving, Bounded

\* A service leaves the queue alone.
LEMMA ServiceFirst ==
    ASSUME ServedFirst, NEW s, SvcReturn(s)
    PROVE  ServedFirst' /\ ForTheLiving' /\ psq' = psq
  BY DEF ServedFirst, ForTheLiving, SvcReturn

LEMMA PendingSame ==
    ASSUME psq' = psq, NEW o \in Obj
    PROVE  Pending(o)' = Pending(o)
  BY DEF Pending

LEMMA CreateCounts ==
    ASSUME SInv, CInv, NEW o \in Obj, NEW n \in InitTokens, SemaphoreCreate(o, n)
    PROVE  CInv' /\ Pending(o) = 0
<1>1. SemTypeOK /\ ServedFirst /\ ForTheLiving /\ Bounded
  BY SInvParts, CInvParts
<1>2. /\ SvcReturn(k) /\ mode = "svc" /\ ~live[o] /\ live' = [live EXCEPT ![o] = TRUE]
      /\ tokens' = [tokens EXCEPT ![o] = n] /\ given' = [given EXCEPT ![o] = 0]
  BY DEF SemaphoreCreate, SvcReturn
<1>3. Pending(o) = 0
  BY <1>1, <1>2, PendingType DEF ForTheLiving
<1>4. ServedFirst' /\ ForTheLiving' /\ psq' = psq
  BY <1>1, <1>2, ServiceFirst
<1>5. Bounded'
  <2>1. \A x \in Obj : Pending(x)' = Pending(x)
    BY <1>4, PendingSame
  <2>2. n \in Nat /\ tokens'[o] = n /\ given'[o] = 0
    BY <1>1, <1>2, SemaphoreAssumption DEF SemTypeOK, SemaphoreAssumption
  <2>3. \A x \in Obj \ {o} : tokens'[x] = tokens[x] /\ given'[x] = given[x] /\ live'[x] = live[x]
    BY <1>1, <1>2 DEF SemTypeOK
  <2>4. ASSUME NEW x \in Obj, live'[x]
        PROVE  \E m \in InitTokens : tokens'[x] + Pending(x)' <= m + given'[x]
    <3>1. CASE x = o
      BY <1>3, <2>1, <2>2, <3>1
    <3>2. CASE x # o
      BY <1>1, <2>1, <2>3, <2>4, <3>2 DEF Bounded
    <3> QED BY <3>1, <3>2
  <2> QED BY <2>4 DEF Bounded
<1> QED BY <1>3, <1>4, <1>5, CInvNext

\* What keeps the bound of one semaphore, when the others are left alone.
LEMMA BoundKept ==
    ASSUME SemTypeOK, Bounded, NEW o \in Obj, tokens'[o] \in Nat,
           Pending(o)' \in Nat, given'[o] \in Nat,
           live'[o] => live[o],
           live'[o] => tokens'[o] + Pending(o)' - given'[o] <= tokens[o] + Pending(o) - given[o],
           \A x \in Obj \ {o} : /\ tokens'[x] = tokens[x] /\ given'[x] = given[x]
                                /\ live'[x] = live[x] /\ Pending(x)' = Pending(x)
    PROVE  Bounded'
<1>1. ASSUME NEW x \in Obj, live'[x]
      PROVE  \E m \in InitTokens : tokens'[x] + Pending(x)' <= m + given'[x]
  <2>1. CASE x = o
    <3>1. PICK m \in InitTokens : tokens[o] + Pending(o) <= m + given[o]
      BY <1>1, <2>1 DEF Bounded
    <3>2. m \in Nat /\ tokens[o] \in Nat /\ given[o] \in Nat /\ Pending(o) \in Nat
      BY SemaphoreAssumption, PendingType DEF SemTypeOK, SemaphoreAssumption
    <3>3. tokens'[o] + Pending(o)' <= m + given'[o]
      BY <1>1, <2>1, <3>1, <3>2
    <3> QED BY <2>1, <3>3
  <2>2. CASE x # o
    BY <1>1, <2>2 DEF Bounded
  <2> QED BY <2>1, <2>2
<1> QED BY <1>1 DEF Bounded

LEMMA SmallModulus ==
    ASSUME NEW m \in Nat \ {0}, NEW x \in 0 .. m - 1
    PROVE  x % m = x
<1>1. x = m * (x \div m) + (x % m)
  OBVIOUS
<1>2. x \div m = 0
  BY SMTT(30)
<1> QED BY <1>1, <1>2

LEMMA CountWraps ==
    ASSUME NEW a \in 0 .. TokenMod - 1
    PROVE  (a + 1) % TokenMod = IF a = MaxTokens THEN 0 ELSE a + 1
<1>1. TokenMod \in Nat \ {0} /\ TokenMod = MaxTokens + 1 /\ MaxTokens \in Nat
  BY SemaphoreAssumption DEF SemaphoreAssumption
<1>2. CASE a = MaxTokens
  BY <1>1, <1>2
<1>3. CASE a # MaxTokens
  <2>1. a + 1 \in 0 .. TokenMod - 1
    BY <1>1, <1>3
  <2>2. (a + 1) % TokenMod = a + 1
    BY <1>1, <2>1, SmallModulus
  <2> QED BY <1>3, <2>2
<1> QED BY <1>2, <1>3

LEMMA WaitCounts ==
    ASSUME SInv, CInv, NEW o \in Obj, NEW n \in Timeouts, SemaphoreWait(o, n)
    PROVE  CInv'
<1>1. SemTypeOK /\ ServedFirst /\ ForTheLiving /\ Bounded
  BY SInvParts, CInvParts
<1>2. /\ \E s : SvcReturn(s)
      /\ live' = live /\ given' = given
      /\ tokens' = tokens \/ (tokens[o] > 0 /\ tokens' = [tokens EXCEPT ![o] = @ - 1])
  BY DEF SemaphoreWait
<1>3. ServedFirst' /\ ForTheLiving' /\ psq' = psq
  BY <1>1, <1>2, ServiceFirst
<1>4. \A x \in Obj : Pending(x)' = Pending(x) /\ Pending(x) \in Nat
  BY <1>1, <1>3, PendingSame, PendingType
<1>5. tokens[o] \in Nat /\ given[o] \in Nat
  BY <1>1, SemaphoreAssumption DEF SemTypeOK, SemaphoreAssumption
<1>6. /\ tokens'[o] \in Nat /\ tokens'[o] <= tokens[o]
      /\ \A x \in Obj \ {o} : tokens'[x] = tokens[x]
  BY <1>1, <1>2, <1>5 DEF SemTypeOK
<1>7. Bounded'
  BY <1>1, <1>2, <1>4, <1>5, <1>6, BoundKept
<1> QED BY <1>3, <1>7, CInvNext

LEMMA ReleaseCounts ==
    ASSUME SInv, CInv, NEW o \in Obj, SemaphoreRelease(o)
    PROVE  CInv'
<1>1. SemTypeOK /\ ServedFirst /\ ForTheLiving /\ Bounded
  BY SInvParts, CInvParts
<1>2. /\ \E s : SvcReturn(s)
      /\ live' = live /\ given' = [given EXCEPT ![o] = @ + 1]
      /\ tokens' = tokens \/ tokens' = [tokens EXCEPT ![o] = (@ + 1) % TokenMod]
  BY DEF SemaphoreRelease, Accepted, Store
<1>3. ServedFirst' /\ ForTheLiving' /\ psq' = psq
  BY <1>1, <1>2, ServiceFirst
<1>4. \A x \in Obj : Pending(x)' = Pending(x) /\ Pending(x) \in Nat
  BY <1>1, <1>3, PendingSame, PendingType
<1>5. tokens[o] \in Nat /\ given[o] \in Nat /\ tokens[o] \in 0 .. TokenMod - 1
  BY <1>1, SemaphoreAssumption DEF SemTypeOK, SemaphoreAssumption
<1>6. /\ tokens'[o] \in Nat /\ tokens'[o] <= tokens[o] + 1
      /\ \A x \in Obj \ {o} : tokens'[x] = tokens[x]
  <2>1. (tokens[o] + 1) % TokenMod \in Nat /\ (tokens[o] + 1) % TokenMod <= tokens[o] + 1
    BY <1>5, CountWraps
  <2> QED BY <1>1, <1>2, <1>5, <2>1 DEF SemTypeOK
<1>7. given'[o] = given[o] + 1 /\ \A x \in Obj \ {o} : given'[x] = given[x]
  BY <1>1, <1>2 DEF SemTypeOK
<1>8. Bounded'
  BY <1>1, <1>2, <1>4, <1>5, <1>6, <1>7, BoundKept
<1> QED BY <1>3, <1>8, CInvNext

LEMMA DeleteCounts ==
    ASSUME SInv, CInv, NEW o \in Obj, SemaphoreDelete(o)
    PROVE  CInv'
<1>1. SemTypeOK /\ ServedFirst /\ ForTheLiving /\ Bounded
  BY SInvParts, CInvParts
<1>2. /\ \E s : SvcReturn(s)
      /\ live' = [live EXCEPT ![o] = FALSE] /\ given' = given /\ tokens' = tokens
  BY DEF SemaphoreDelete
<1>3. ServedFirst' /\ ForTheLiving' /\ psq' = psq
  BY <1>1, <1>2, ServiceFirst
<1>4. \A x \in Obj : Pending(x)' = Pending(x) /\ (live'[x] => live[x])
  BY <1>1, <1>2, <1>3, PendingSame DEF SemTypeOK
<1>5. Bounded'
  BY <1>1, <1>2, <1>4 DEF Bounded
<1> QED BY <1>3, <1>5, CInvNext

LEMMA IsrCounts ==
    ASSUME SInv, CInv, NEW o \in Obj, IsrSemaphoreRelease(o)
    PROVE  CInv'
<1>1. SemTypeOK /\ ServedFirst /\ ForTheLiving /\ Bounded
  BY SInvParts, CInvParts
<1>2. live[o] /\ PsqEnq(o) /\ tokens' = tokens /\ live' = live
  BY DEF IsrSemaphoreRelease, MayRelease
<1>3. CASE Len(psq) < FifoSize
  <2>1. /\ psq' = Append(psq, o) /\ pend' = TRUE /\ mode' = mode
        /\ given' = [given EXCEPT ![o] = @ + 1]
    BY <1>3 DEF IsrSemaphoreRelease, PsqEnq, Accepted
  <2>2. ForTheLiving'
    <3>1. ASSUME mode = "svc", NEW i \in DOMAIN psq' PROVE live[psq'[i]]
      <4>1. psq \in Seq(Obj)
        BY <1>1 DEF SemTypeOK
      <4>2. (i \in DOMAIN psq /\ psq'[i] = psq[i]) \/ psq'[i] = o
        BY <2>1, <3>1, <4>1
      <4> QED BY <1>1, <1>2, <3>1, <4>2 DEF ForTheLiving
    <3> QED BY <1>2, <2>1, <3>1 DEF ForTheLiving
  <2>3. /\ Pending(o)' = Pending(o) + 1 /\ Pending(o) \in Nat
        /\ \A x \in Obj \ {o} : Pending(x)' = Pending(x)
    BY <1>1, <2>1, PendingEnq, PendingType
  <2>4. /\ given[o] \in Nat /\ given'[o] = given[o] + 1 /\ tokens[o] \in Nat
        /\ \A x \in Obj \ {o} : given'[x] = given[x]
    BY <1>1, <2>1, SemaphoreAssumption DEF SemTypeOK, SemaphoreAssumption
  <2>5. Bounded'
    BY <1>1, <1>2, <2>3, <2>4, BoundKept
  <2>6. ServedFirst'
    BY <2>1 DEF ServedFirst
  <2> QED BY <2>2, <2>5, <2>6, CInvNext
<1>4. CASE ~(Len(psq) < FifoSize)
  <2>1. psq' = psq /\ mode' = "os_error" /\ given' = given
    BY <1>4 DEF IsrSemaphoreRelease, PsqEnq
  <2>2. \A x \in Obj : Pending(x)' = Pending(x)
    BY <2>1, PendingSame
  <2>3. ServedFirst' /\ ForTheLiving' /\ Bounded'
    BY <1>1, <1>2, <2>1, <2>2 DEF ServedFirst, ForTheLiving, Bounded
  <2> QED BY <2>3, CInvNext
<1> QED BY <1>3, <1>4

LEMMA PopCounts ==
    ASSUME SInv, CInv, PopSemaphore
    PROVE  CInv'
<1>1. SemTypeOK /\ ServedFirst /\ ForTheLiving /\ Bounded /\ psq \in Seq(Obj) /\ psq # <<>>
  BY SInvParts, CInvParts DEF SemTypeOK, PopSemaphore, PopRequest
<1>2. PICK o \in Obj : o = Head(psq)
  BY <1>1
<1>3. /\ mode = "pop" /\ mode' = mode /\ psq' = Tail(psq)
      /\ live' = live /\ given' = given
      /\ tokens' = tokens \/ tokens' = [tokens EXCEPT ![o] = (@ + 1) % TokenMod]
      /\ ServedFirst' /\ ForTheLiving'
  BY <1>1, <1>2 DEF PopSemaphore, PopRequest, Store, ServedFirst, ForTheLiving
<1>4. \A x \in Obj : Pending(x) = Pending(x)' + (IF o = x THEN 1 ELSE 0)
  BY <1>1, <1>2, <1>3, PendingPop
<1>5. SemTypeOK'
  BY PopSemaphoreKeeps DEF SInv, TypeOK, SemTypeOK
<1>6. \A x \in Obj : Pending(x) \in Nat /\ Pending(x)' \in Nat
  <2>1. ASSUME NEW x \in Obj PROVE Pending(x)' \in Nat
    <3>1. psq' \in Seq(Obj) /\ Pending(x)' = Cardinality(Places(psq', x))
      BY <1>5 DEF SemTypeOK, Pending, Places
    <3> QED BY <3>1, PlacesFinite
  <2> QED BY <1>1, <2>1, PendingType
<1>7. /\ tokens[o] \in 0 .. TokenMod - 1 /\ tokens[o] \in Nat /\ given[o] \in Nat
  BY <1>1, <1>3, SemaphoreAssumption DEF SemTypeOK, SemaphoreAssumption
<1>8. /\ tokens'[o] \in Nat /\ tokens'[o] <= tokens[o] + 1
      /\ \A x \in Obj \ {o} : tokens'[x] = tokens[x]
  <2>1. (tokens[o] + 1) % TokenMod \in Nat /\ (tokens[o] + 1) % TokenMod <= tokens[o] + 1
    BY <1>7, CountWraps
  <2> QED BY <1>1, <1>2, <1>3, <1>7, <2>1 DEF SemTypeOK
<1>9. /\ Pending(o)' = Pending(o) - 1
      /\ \A x \in Obj \ {o} : Pending(x)' = Pending(x)
  BY ONLY <1>2, <1>4, <1>6
<1>10. Bounded'
  <2>1. tokens'[o] + Pending(o)' - given'[o] <= tokens[o] + Pending(o) - given[o]
    <3>1. Pending(o)' \in Nat /\ Pending(o) \in Nat /\ Pending(o)' = Pending(o) - 1
      BY ONLY o \in Obj, <1>6, <1>9
    <3>2. given'[o] = given[o]
      BY ONLY <1>3
    <3> QED BY ONLY <1>7, <1>8, <3>1, <3>2
  <2>2. /\ SemTypeOK /\ Bounded /\ o \in Obj /\ tokens'[o] \in Nat
        /\ Pending(o)' \in Nat /\ given'[o] \in Nat /\ (live'[o] => live[o])
    BY ONLY o \in Obj, <1>1, <1>3, <1>6, <1>7, <1>8
  <2>3. \A x \in Obj \ {o} : /\ tokens'[x] = tokens[x] /\ given'[x] = given[x]
                             /\ live'[x] = live[x] /\ Pending(x)' = Pending(x)
    BY ONLY <1>3, <1>8, <1>9
  <2> QED BY ONLY <2>1, <2>2, <2>3, BoundKept
<1> QED BY <1>3, <1>10, CInvNext

\* The handlers: SVC_Handler is entered with an empty queue only.
LEMMA ElsewhereCounts ==
    ASSUME SInv, CInv, Elsewhere, UNCHANGED semVars
    PROVE  CInv'
<1>1. SemTypeOK /\ ServedFirst /\ ForTheLiving /\ Bounded
  BY SInvParts, CInvParts
<1>2. psq' = psq /\ live' = live /\ tokens' = tokens /\ given' = given
  BY ElsewhereKeeps DEF semVars
<1>3. Bounded'
  BY <1>1, <1>2, PendingSame DEF Bounded
<1>4. ServedFirst' /\ ForTheLiving'
  <2>1. CASE SvcEnter
    BY <1>1, <1>2, <2>1 DEF SvcEnter, ServedFirst, ForTheLiving
  <2>2. CASE TickEnter \/ TickTimeout \/ TickExit
    BY <1>1, <1>2, <2>2 DEF TickEnter, TickTimeout, TickExit, ServedFirst, ForTheLiving
  <2>3. CASE PopEnter \/ PopExit
    BY <1>1, <1>2, <2>3 DEF PopEnter, PopExit, ServedFirst, ForTheLiving
  <2>4. CASE Die
    BY <1>1, <1>2, <2>4 DEF Die, kernelVars, Halted, ServedFirst, ForTheLiving
  <2>5. CASE ThreadYield
    BY <1>1, <2>5, ServiceFirst DEF ThreadYield
  <2>6. ASSUME NEW n \in Delays, Delay(n) PROVE ServedFirst' /\ ForTheLiving'
    BY <1>1, <2>6, ServiceFirst DEF Delay
  <2>7. ASSUME NEW t \in Thread, Control(t) PROVE ServedFirst' /\ ForTheLiving'
    BY <1>1, <2>7, ServiceFirst DEF Control, ThreadTerminate, ThreadSetPriority
  <2> QED BY <2>1, <2>2, <2>3, <2>4, <2>5, <2>6, <2>7 DEF Elsewhere, KernelStep
<1> QED BY <1>3, <1>4, CInvNext

LEMMA NextCInv == SInv /\ CInv /\ [Next]_vars => CInv'
<1> SUFFICES ASSUME SInv, CInv, [Next]_vars PROVE CInv'
  OBVIOUS
<1>1. CASE Svc
  BY <1>1, CreateCounts, WaitCounts, ReleaseCounts, DeleteCounts DEF Svc
<1>2. CASE \E o \in Obj : IsrSemaphoreRelease(o)
  BY <1>2, IsrCounts
<1>3. CASE PopSemaphore
  BY <1>3, PopCounts
<1>4. CASE Elsewhere /\ UNCHANGED semVars
  BY <1>4, ElsewhereCounts
<1>5. CASE UNCHANGED vars
  BY <1>5 DEF vars, kernelVars, semVars, CInv, Pending
<1> QED BY <1>1, <1>2, <1>3, <1>4, <1>5 DEF Next, Elsewhere

(***************************************************************************)
(* Whatever is left in the queue when a service begins is for a semaphore  *)
(* that still exists, and no count is above what was put in.               *)
(***************************************************************************)
THEOREM CountsBounded == Spec => []CInv
<1>1. Init => CInv
  BY InitCInv
<1>2. SInv /\ CInv /\ [Next]_vars => CInv'
  BY NextCInv
<1> QED BY <1>1, <1>2, SemaphoreInvariance, PTL DEF Spec

-----------------------------------------------------------------------------
(***************************************************************************)
(* The semaphores implement CountingSemaphore: every step is one of its    *)
(* steps, or changes nothing there.                                        *)
(***************************************************************************)
ValueAt(o) == IF live[o] THEN tokens[o] + Pending(o) ELSE 0

LEMMA ValueBecomes ==
    ASSUME NEW o \in Obj, \A x \in Obj \ {o} : ValueAt(x)' = ValueAt(x)
    PROVE  /\ Value' = [Value EXCEPT ![o] = ValueAt(o)'] /\ Value[o] = ValueAt(o)
           /\ ValueAt(o)' = ValueAt(o) => Value' = Value
  BY DEF Value, ValueAt

LEMMA WaitersBecome ==
    ASSUME NEW o \in Obj, NEW W, ToSet(k'.wait[o]) = W,
           \A x \in Obj \ {o} : ToSet(k'.wait[x]) = ToSet(k.wait[x])
    PROVE  /\ Waiters' = [Waiters EXCEPT ![o] = W] /\ Waiters[o] = ToSet(k.wait[o])
           /\ W = ToSet(k.wait[o]) => Waiters' = Waiters
  BY DEF Waiters

LEMMA ToldBecomes ==
    ASSUME SemTypeOK, NEW t \in Thread, NEW r, ret' = [ret EXCEPT ![t] = r]
    PROVE  /\ r = "token" => Told' = Told \cup {t}
           /\ r = "none" => Told' = Told \ {t}
  BY DEF Told, SemTypeOK

\* What the count of a semaphore is, and when it has room for a release.
LEMMA CountedType ==
    ASSUME SInv, NEW o \in Obj
    PROVE  tokens[o] \in 0 .. TokenMod - 1 /\ tokens[o] \in Nat /\ Pending(o) \in Nat
  BY SInvParts, PendingType, SemaphoreAssumption DEF SemTypeOK, SemaphoreAssumption

LEMMA CreateSteps ==
    ASSUME SInv, CInv, NEW o \in Obj, NEW n \in InitTokens, SemaphoreCreate(o, n)
    PROVE  Counting!Create(o, n)
<1>1. /\ SemTypeOK /\ ~live[o] /\ k' = k /\ psq' = psq /\ ret' = ret
      /\ tokens' = [tokens EXCEPT ![o] = n] /\ live' = [live EXCEPT ![o] = TRUE]
      /\ given' = [given EXCEPT ![o] = 0]
  BY SInvParts DEF SemaphoreCreate, SvcReturn
<1>2. Pending(o) = 0 /\ n \in Nat
  BY CreateCounts, SemaphoreAssumption DEF SemaphoreAssumption
<1>3. \A x \in Obj : Pending(x)' = Pending(x)
  BY <1>1, PendingSame
<1>4. ValueAt(o)' = n
  BY <1>1, <1>2, <1>3 DEF ValueAt, SemTypeOK
<1>5. \A x \in Obj \ {o} : ValueAt(x)' = ValueAt(x)
  BY <1>1, <1>3 DEF ValueAt, SemTypeOK
<1>6. Value' = [Value EXCEPT ![o] = n]
  BY <1>4, <1>5, ValueBecomes
<1>7. Waiters' = Waiters /\ Told' = Told
  BY <1>1 DEF Waiters, Told
<1> QED BY <1>1, <1>6, <1>7 DEF Counting!Create

LEMMA WaitSteps ==
    ASSUME SInv, NEW o \in Obj, NEW n \in Timeouts, SemaphoreWait(o, n)
    PROVE  \E t \in Thread : Counting!Take(o, t) \/ Counting!Wait(o, t)
<1> DEFINE t == k.run
<1>1. OInv /\ SemTypeOK /\ mode = "svc" /\ live[o] /\ live' = live /\ given' = given /\ psq' = psq
  BY SInvParts DEF SemaphoreWait, SvcReturn
<1>2. /\ Fit(k, Living(k)) /\ Living(k) \in SUBSET Thread /\ t \in Thread /\ Sound(k)
  BY <1>1, ServiceFinds
<1>3. \A x \in Obj : Pending(x)' = Pending(x)
  BY <1>1, PendingSame
<1>4. \A x \in Obj : t \notin Waiters[x]
  BY <1>2, KernelAssumption, QueueApart DEF Fit, Waiters
<1>5. CASE tokens[o] > 0
  <2>1. /\ k' = k /\ tokens' = [tokens EXCEPT ![o] = @ - 1]
        /\ ret' = [ret EXCEPT ![t] = "token"]
    BY <1>5 DEF SemaphoreWait, SvcReturn
  <2>2. tokens[o] \in Nat /\ Pending(o) \in Nat
    BY CountedType
  <2>3. ValueAt(o)' = ValueAt(o) - 1 /\ ValueAt(o) > 0
    BY <1>1, <1>3, <1>5, <2>1, <2>2 DEF ValueAt, SemTypeOK
  <2>4. \A x \in Obj \ {o} : ValueAt(x)' = ValueAt(x)
    BY <1>1, <1>3, <2>1 DEF ValueAt, SemTypeOK
  <2>5. Value' = [Value EXCEPT ![o] = @ - 1] /\ Value[o] > 0
    BY <2>3, <2>4, ValueBecomes
  <2>6. Told' = Told \cup {t} /\ Waiters' = Waiters
    BY <1>1, <1>2, <2>1, ToldBecomes DEF Waiters
  <2>7. Counting!Take(o, t)
    BY <1>1, <1>4, <2>5, <2>6 DEF Counting!Take
  <2> QED BY <1>2, <2>7
<1>6. CASE ~(tokens[o] > 0)
  <2> DEFINE r == IF n = 0 THEN k ELSE WaitFor(k, o, n, "WAIT_SEM")
  <2>1. k' = r /\ tokens' = tokens /\ ret' = [ret EXCEPT ![t] = "none"]
    BY <1>6 DEF SemaphoreWait, SvcReturn
  <2>2. Waiters' \in {Waiters, [Waiters EXCEPT ![o] = @ \cup {t}]}
    <3>1. CASE n = 0
      BY <2>1, <3>1 DEF Waiters
    <3>2. CASE n # 0
      <4>1. n \in 1 .. Forever /\ "WAIT_SEM" \in ObjectWait
        BY <3>2, KernelAssumption, ObjectsAssumption
           DEF KernelAssumption, ObjectsAssumption, ObjectWait
      <4> DEFINE w == WaitFor(k, o, n, "WAIT_SEM")
      <4>2. t # Idle
        BY <1>1, ServiceFinds
      <4>3. Joins(k, w, o, t)
        BY <1>2, <4>1, <4>2, KernelAssumption, WaitForListed DEF Fit
      <4>4. k' = w
        BY <2>1, <3>2
      <4> HIDE DEF w
      <4>5. /\ ToSet(k'.wait[o]) = ToSet(k.wait[o]) \cup {t}
            /\ \A x \in Obj \ {o} : ToSet(k'.wait[x]) = ToSet(k.wait[x])
        BY <4>3, <4>4 DEF Joins
      <4>6. Waiters' = [Waiters EXCEPT ![o] = @ \cup {t}]
        BY <4>5, WaitersBecome
      <4> QED BY <4>6
    <3> QED BY <3>1, <3>2
  <2>3. Told' = Told \ {t}
    BY <1>1, <1>2, <2>1, ToldBecomes
  <2>4. Value' = Value
    BY <1>1, <1>3, <2>1 DEF Value
  <2>5. Counting!Wait(o, t)
    BY <1>1, <1>4, <2>2, <2>3, <2>4 DEF Counting!Wait
  <2> QED BY <1>2, <2>5
<1> QED BY <1>5, <1>6

\* A token for one who waits: he leaves the list with it.
LEMMA ServedSteps ==
    ASSUME SInv, NEW o \in Obj, FirstLeaves(k, k', o), Store(o), live' = live, k.wait[o] # <<>>
    PROVE  /\ Head(k.wait[o]) \in Thread /\ Counting!Served(o, Head(k.wait[o]))
           /\ live[o] /\ tokens' = tokens
<1> DEFINE h == Head(k.wait[o])
<1>1. OInv /\ SemTypeOK /\ NoIdleToken /\ Sound(k)
  BY SInvParts DEF OInv
<1>2. /\ h \in ToSet(k.wait[o]) /\ ret' = [ret EXCEPT ![h] = "token"] /\ tokens' = tokens
      /\ ToSet(k'.wait[o]) = ToSet(k.wait[o]) \ {h}
      /\ \A x \in Obj \ {o} : k'.wait[x] = k.wait[x]
  BY DEF FirstLeaves, Store
<1>3. h \in Thread /\ live[o]
  BY <1>1, <1>2, KernelAssumption, WaitFields DEF NoIdleToken
<1> HIDE DEF h
<1>4. Told' = Told \cup {h}
  BY <1>1, <1>2, <1>3, ToldBecomes
<1>5. Waiters' = [Waiters EXCEPT ![o] = @ \ {h}] /\ h \in Waiters[o]
  BY <1>2, WaitersBecome
<1> QED BY <1>2, <1>3, <1>4, <1>5 DEF Counting!Served, h

\* The counter does not wrap while what it may reach is below its limit.
LEMMA StoredCounts ==
    ASSUME SInv, NEW o \in Obj, Store(o), k.wait[o] = <<>>, tokens[o] # MaxTokens
    PROVE  tokens'[o] = tokens[o] + 1 /\ (\A x \in Obj \ {o} : tokens'[x] = tokens[x])
           /\ ret' = ret
<1>1. SemTypeOK /\ tokens[o] \in 0 .. TokenMod - 1
  BY SInvParts, CountedType
<1>2. (tokens[o] + 1) % TokenMod = tokens[o] + 1
  BY <1>1, CountWraps
<1>3. tokens' = [tokens EXCEPT ![o] = tokens[o] + 1] /\ ret' = ret
  BY <1>2 DEF Store
<1> QED BY <1>1, <1>3 DEF SemTypeOK

LEMMA ReleaseSteps ==
    ASSUME SInv, NEW o \in Obj, SemaphoreRelease(o)
    PROVE  Counting!Release(o) \/ \E t \in Thread : Counting!HandOver(o, t)
<1>1. /\ SemTypeOK /\ live[o] /\ tokens[o] # MaxTokens /\ live' = live /\ psq' = psq
      /\ given' = [given EXCEPT ![o] = @ + 1] /\ Store(o) /\ FirstLeaves(k, k', o)
  BY SInvParts, ReleaseKeeps DEF SemaphoreRelease, SvcReturn, MayRelease, Accepted
<1>2. \A x \in Obj : Pending(x)' = Pending(x)
  BY <1>1, PendingSame
<1>3. CASE k.wait[o] = <<>>
  <2>1. /\ tokens'[o] = tokens[o] + 1 /\ ret' = ret /\ k' = k
        /\ \A x \in Obj \ {o} : tokens'[x] = tokens[x]
    BY <1>1, <1>3, StoredCounts DEF FirstLeaves
  <2>2. tokens[o] \in Nat /\ Pending(o) \in Nat
    BY CountedType
  <2>3. ValueAt(o)' = ValueAt(o) + 1 /\ \A x \in Obj \ {o} : ValueAt(x)' = ValueAt(x)
    BY <1>1, <1>2, <2>1, <2>2 DEF ValueAt
  <2>4. Value' = [Value EXCEPT ![o] = @ + 1]
    BY <2>3, ValueBecomes
  <2>5. Waiters' = Waiters /\ Told' = Told
    BY <2>1 DEF Waiters, Told
  <2> QED BY <1>1, <2>4, <2>5 DEF Counting!Release
<1>4. CASE k.wait[o] # <<>>
  <2> DEFINE h == Head(k.wait[o])
  <2>1. h \in Thread /\ Counting!Served(o, h) /\ tokens' = tokens
    BY <1>1, <1>4, ServedSteps
  <2>2. Value' = Value
    BY <1>1, <1>2, <2>1 DEF Value
  <2>3. Counting!HandOver(o, h)
    BY <1>1, <2>1, <2>2 DEF Counting!HandOver
  <2> QED BY <2>1, <2>3
<1> QED BY <1>3, <1>4

LEMMA DeleteSteps ==
    ASSUME SInv, NEW o \in Obj, SemaphoreDelete(o)
    PROVE  Counting!Close(o)
<1>1. /\ SemTypeOK /\ Untold(k, ret) /\ live[o] /\ live' = [live EXCEPT ![o] = FALSE]
      /\ ret' = [t \in Thread |-> IF t \in ToSet(k.wait[o]) THEN "none" ELSE ret[t]]
      /\ psq' = psq /\ tokens' = tokens /\ given' = given
  BY SInvParts DEF SemaphoreDelete, SvcReturn
<1>2. /\ ToSet(k'.wait[o]) = {}
      /\ \A x \in Obj \ {o} : ToSet(k'.wait[x]) = ToSet(k.wait[x])
  <2>1. ToSet(<<>>) = {}
    BY DEF ToSet
  <2> QED BY <2>1, DeleteKeeps
<1>3. Waiters' = [Waiters EXCEPT ![o] = {}]
  BY <1>2, WaitersBecome
<1>4. \A x \in Obj : Pending(x)' = Pending(x)
  BY <1>1, PendingSame
<1>5. ValueAt(o)' = 0 /\ \A x \in Obj \ {o} : ValueAt(x)' = ValueAt(x)
  BY <1>1, <1>4 DEF ValueAt, SemTypeOK
<1>6. Value' = [Value EXCEPT ![o] = 0]
  BY <1>5, ValueBecomes
<1>7. Told' = Told
  BY <1>1 DEF Told, Untold
<1> QED BY <1>1, <1>3, <1>6, <1>7 DEF Counting!Close

LEMMA IsrSteps ==
    ASSUME SInv, NEW o \in Obj, IsrSemaphoreRelease(o)
    PROVE  Counting!Release(o) \/ UNCHANGED Counting!vars
<1>1. /\ SemTypeOK /\ live[o] /\ live' = live /\ tokens' = tokens /\ PsqEnq(o)
      /\ k' = k /\ ret' = ret /\ psq \in Seq(Obj)
  BY SInvParts, IsrKeeps DEF IsrSemaphoreRelease, MayRelease, SemTypeOK
<1>2. Waiters' = Waiters /\ Told' = Told
  BY <1>1 DEF Waiters, Told
<1>3. CASE Len(psq) < FifoSize
  <2>1. psq' = Append(psq, o) /\ given' = [given EXCEPT ![o] = @ + 1]
    BY <1>1, <1>3 DEF IsrSemaphoreRelease, PsqEnq, Accepted
  <2>2. \A x \in Obj : Pending(x)' = Pending(x) + (IF o = x THEN 1 ELSE 0)
    BY <1>1, <2>1, PendingEnq
  <2>3. \A x \in Obj : tokens[x] \in Nat /\ Pending(x) \in Nat
    BY CountedType
  <2>4. ValueAt(o)' = ValueAt(o) + 1 /\ \A x \in Obj \ {o} : ValueAt(x)' = ValueAt(x)
    <3>1. /\ live'[o] /\ live[o]
          /\ tokens'[o] + Pending(o)' = tokens[o] + Pending(o) + 1
      BY ONLY o \in Obj, <1>1, <2>2, <2>3
    <3>2. \A x \in Obj \ {o} : Pending(x)' = Pending(x)
      BY ONLY <2>2, <2>3
    <3>3. \A x \in Obj \ {o} : ValueAt(x)' = ValueAt(x)
      BY ONLY <1>1, <3>2 DEF ValueAt
    <3> QED BY ONLY <3>1, <3>3 DEF ValueAt
  <2>5. Value' = [Value EXCEPT ![o] = @ + 1]
    BY <2>4, ValueBecomes
  <2> QED BY <1>1, <1>2, <2>1, <2>5 DEF Counting!Release
<1>4. CASE ~(Len(psq) < FifoSize)
  <2>1. psq' = psq /\ given' = given
    BY <1>1, <1>4 DEF IsrSemaphoreRelease, PsqEnq
  <2>2. Value' = Value
    BY <1>1, <2>1, PendingSame DEF Value
  <2> QED BY <1>1, <1>2, <2>1, <2>2 DEF Counting!vars
<1> QED BY <1>3, <1>4

\* The assumption: what is created and released in a life fits the counter.
Fits == \A n \in InitTokens : n + Budget <= MaxTokens

LEMMA PopSteps ==
    ASSUME SInv, CInv, Fits, PopSemaphore
    PROVE  UNCHANGED Counting!vars \/ \E o \in Obj, t \in Thread : Counting!Hand(o, t)
<1>1. PICK o \in Obj : o = Head(psq)
  BY PopSemaphoreKeeps
<1>2. /\ SemTypeOK /\ NoIdleToken /\ Bounded /\ Store(o) /\ FirstLeaves(k, k', o)
      /\ live' = live /\ given' = given /\ psq # <<>> /\ psq' = Tail(psq)
  BY <1>1, SInvParts, CInvParts, PopSemaphoreKeeps DEF PopSemaphore, PopRequest
<1>3. \A x \in Obj : Pending(x) = Pending(x)' + (IF o = x THEN 1 ELSE 0)
  BY <1>1, <1>2, PendingPop
<1>4. SemTypeOK'
  BY PopSemaphoreKeeps DEF SInv, TypeOK, SemTypeOK
<1>5. \A x \in Obj : tokens[x] \in Nat /\ Pending(x) \in Nat /\ Pending(x)' \in Nat
  <2>1. ASSUME NEW x \in Obj PROVE Pending(x)' \in Nat
    <3>1. psq' \in Seq(Obj) /\ Pending(x)' = Cardinality(Places(psq', x))
      BY <1>4 DEF SemTypeOK, Pending, Places
    <3> QED BY <3>1, PlacesFinite
  <2> QED BY <2>1, CountedType
<1>6. Pending(o)' = Pending(o) - 1 /\ \A x \in Obj \ {o} : Pending(x)' = Pending(x)
  BY ONLY o \in Obj, <1>3, <1>5
<1>7. CASE k.wait[o] = <<>>
  <2>1. ValueAt(o)' = ValueAt(o) /\ ret' = ret
        /\ \A x \in Obj \ {o} : ValueAt(x)' = ValueAt(x)
    <3>1. CASE live[o]
      <4>1. PICK n \in InitTokens : tokens[o] + Pending(o) <= n + given[o]
        BY <1>2, <3>1 DEF Bounded
      <4>2. /\ given[o] \in Nat /\ given[o] <= Budget /\ Budget \in Nat /\ n \in Nat
            /\ MaxTokens \in Nat /\ n + Budget <= MaxTokens
        BY <1>2, SemaphoreAssumption DEF SemTypeOK, SemaphoreAssumption, Fits
      <4>3. tokens[o] # MaxTokens
        BY ONLY o \in Obj, <1>5, <1>6, <4>1, <4>2
      <4>4. /\ tokens'[o] = tokens[o] + 1 /\ ret' = ret
            /\ \A x \in Obj \ {o} : tokens'[x] = tokens[x]
        BY <1>2, <1>7, <4>3, StoredCounts
      <4>5. live'[o] /\ tokens'[o] + Pending(o)' = tokens[o] + Pending(o)
        BY ONLY o \in Obj, <1>2, <1>5, <1>6, <3>1, <4>4
      <4>6. \A x \in Obj \ {o} : ValueAt(x)' = ValueAt(x)
        BY ONLY <1>2, <1>6, <4>4 DEF ValueAt
      <4> QED BY ONLY <3>1, <4>4, <4>5, <4>6 DEF ValueAt
    <3>2. CASE ~live[o]
      <4>1. ret' = ret /\ \A x \in Obj \ {o} : tokens'[x] = tokens[x]
        BY <1>2, <1>7 DEF Store, SemTypeOK
      <4> QED BY ONLY o \in Obj, <1>2, <1>6, <3>2, <4>1 DEF ValueAt
    <3> QED BY <3>1, <3>2
  <2>2. Value' = Value
    BY <2>1, ValueBecomes
  <2>3. k' = k
    BY <1>2, <1>7 DEF FirstLeaves
  <2>4. Waiters' = Waiters /\ Told' = Told
    BY <2>1, <2>3 DEF Waiters, Told
  <2> QED BY <1>2, <2>2, <2>4 DEF Counting!vars
<1>8. CASE k.wait[o] # <<>>
  <2> DEFINE h == Head(k.wait[o])
  <2>1. h \in Thread /\ Counting!Served(o, h) /\ live[o] /\ tokens' = tokens
    BY <1>2, <1>8, ServedSteps
  <2>2. /\ ValueAt(o)' = ValueAt(o) - 1 /\ ValueAt(o) > 0
        /\ \A x \in Obj \ {o} : ValueAt(x)' = ValueAt(x)
    BY ONLY o \in Obj, <1>2, <1>5, <1>6, <2>1 DEF ValueAt
  <2>3. Value' = [Value EXCEPT ![o] = @ - 1] /\ Value[o] > 0
    BY <2>2, ValueBecomes
  <2>4. Counting!Hand(o, h)
    BY <1>2, <2>1, <2>3 DEF Counting!Hand
  <2> QED BY <2>1, <2>4
<1> QED BY <1>7, <1>8

LEMMA ElsewhereSteps ==
    ASSUME SInv, Elsewhere, UNCHANGED semVars
    PROVE  UNCHANGED Counting!vars \/ \E o \in Obj, t \in Thread : Counting!GiveUp(o, t)
<1>1. OneLeaves(k, k') /\ psq' = psq /\ live' = live /\ tokens' = tokens
      /\ ret' = ret /\ given' = given /\ Listed(k, Living(k))
  BY ElsewhereKeeps, SInvParts DEF semVars, OInv
<1>2. Value' = Value /\ Told' = Told
  BY <1>1, PendingSame DEF Value, Told
<1>3. CASE SameWaiters(k, k')
  BY <1>1, <1>2, <1>3 DEF SameWaiters, Waiters, Counting!vars
<1>4. ASSUME NEW t \in Thread, Leaves(k, k', t)
      PROVE  UNCHANGED Counting!vars \/ \E o \in Obj : Counting!GiveUp(o, t)
  <2>1. CASE \E o \in Obj : t \in ToSet(k.wait[o])
    <3>1. PICK o \in Obj : t \in ToSet(k.wait[o])
      BY <2>1
    <3>2. \A x \in Obj \ {o} : t \notin ToSet(k.wait[x])
      BY <1>1, <3>1 DEF Listed
    <3>3. /\ ToSet(k'.wait[o]) = ToSet(k.wait[o]) \ {t}
          /\ \A x \in Obj \ {o} : ToSet(k'.wait[x]) = ToSet(k.wait[x])
      BY <1>4, <3>2 DEF Leaves
    <3>4. Waiters' = [Waiters EXCEPT ![o] = @ \ {t}] /\ t \in Waiters[o]
      BY <3>1, <3>3, WaitersBecome
    <3>5. Counting!GiveUp(o, t)
      BY <1>1, <1>2, <3>4 DEF Counting!GiveUp
    <3> QED BY <3>5
  <2>2. CASE \A o \in Obj : t \notin ToSet(k.wait[o])
    <3>1. Waiters' = Waiters
      BY <1>4, <2>2 DEF Leaves, Waiters
    <3> QED BY <1>1, <1>2, <3>1 DEF Counting!vars
  <2> QED BY <2>1, <2>2
<1> QED BY <1>1, <1>3, <1>4 DEF OneLeaves

LEMMA CountingInit == Init => Counting!Init
<1> SUFFICES ASSUME Init PROVE Counting!Init
  OBVIOUS
<1>1. \A o \in Obj : k.wait[o] = <<>>
  BY StartFits DEF Init
<1>2. /\ Value = [o \in Obj |-> 0] /\ Waiters = [o \in Obj |-> {}] /\ Told = {}
  BY <1>1 DEF Init, Value, Waiters, Told, ToSet
<1> QED BY <1>2 DEF Init, Counting!Init

LEMMA CountingNext ==
    ASSUME SInv, CInv, Fits, [Next]_vars
    PROVE  [Counting!Next]_(Counting!vars)
<1>1. CASE Svc
  <2>1. ASSUME NEW o \in Obj, NEW n \in InitTokens, SemaphoreCreate(o, n) PROVE Counting!Next
    BY <2>1, CreateSteps DEF Counting!Next
  <2>2. ASSUME NEW o \in Obj, NEW n \in Timeouts, SemaphoreWait(o, n) PROVE Counting!Next
    BY <2>2, WaitSteps DEF Counting!Next
  <2>3. ASSUME NEW o \in Obj, SemaphoreRelease(o) PROVE Counting!Next
    BY <2>3, ReleaseSteps DEF Counting!Next
  <2>4. ASSUME NEW o \in Obj, SemaphoreDelete(o) PROVE Counting!Next
    BY <2>4, DeleteSteps DEF Counting!Next
  <2> QED BY <1>1, <2>1, <2>2, <2>3, <2>4 DEF Svc
<1>2. ASSUME NEW o \in Obj, IsrSemaphoreRelease(o) PROVE [Counting!Next]_(Counting!vars)
  BY <1>2, IsrSteps DEF Counting!Next
<1>3. CASE PopSemaphore
  BY <1>3, PopSteps DEF Counting!Next
<1>4. CASE Elsewhere /\ UNCHANGED semVars
  BY <1>4, ElsewhereSteps DEF Counting!Next
<1>5. CASE UNCHANGED vars
  BY <1>5, PendingSame
     DEF vars, kernelVars, semVars, Counting!vars, Value, Waiters, Told
<1> QED BY <1>1, <1>2, <1>3, <1>4, <1>5 DEF Next, Elsewhere

(***************************************************************************)
(* The semaphores count right: every token a thread returns with was       *)
(* released, or was there at the creation, and goes to one thread only,    *)
(* whether a thread, an interrupt or a timeout comes first, if no          *)
(* semaphore is released more often than its counter can count.            *)
(***************************************************************************)
THEOREM CountsRight ==
    ASSUME \A n \in InitTokens : n + Budget <= MaxTokens
    PROVE  Spec => CountingSpec
<1>1. Fits
  BY DEF Fits
<1>2. Init => Counting!Init
  BY CountingInit
<1>3. SInv /\ CInv /\ [Next]_vars => [Counting!Next]_(Counting!vars)
  BY <1>1, CountingNext
<1> QED BY <1>2, <1>3, SemaphoreInvariance, CountsBounded, PTL
        DEF Spec, CountingSpec, Counting!Spec
=============================================================================
