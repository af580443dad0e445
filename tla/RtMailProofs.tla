---------------------------- MODULE RtMailProofs ------------------------------
(***************************************************************************)
(* Message queues and mail queues, of RtMailbox and RtMail, keep their     *)
(* invariants: for any number of threads, message queues, messages and     *)
(* timeouts, and for any size of the ring.                                 *)
(***************************************************************************)
EXTENDS RtMail, RtObjectsProofs

\* What holds in any program.
Base == OInv /\ ServedFirst /\ Requests

LEMMA PsqFields ==
    ASSUME Requests
    PROVE  /\ FifoSize \in Nat /\ Len(psq) \in Nat
           /\ \A i \in DOMAIN psq : psq[i].id \in Obj /\ psq[i].arg \in Word \cup {PoolPtr}
           /\ psq # <<>> => /\ 1 \in DOMAIN psq /\ Head(psq) = psq[1]
                            /\ Tail(psq) \in Seq([id : Obj, arg : Word \cup {PoolPtr}])
                            /\ Len(Tail(psq)) <= FifoSize
                            /\ \A i \in DOMAIN Tail(psq) :
                                  i + 1 \in DOMAIN psq /\ Tail(psq)[i] = psq[i + 1]
<1> DEFINE S == [id : Obj, arg : Word \cup {PoolPtr}]
<1>1. psq \in Seq(S) /\ Len(psq) <= FifoSize /\ FifoSize \in Nat
  BY KernelAssumption DEF Requests, KernelAssumption
<1>2. \A i \in DOMAIN psq : psq[i] \in S
  <2> HIDE DEF S
  <2> QED BY <1>1
<1>3. \A i \in DOMAIN psq : psq[i].id \in Obj /\ psq[i].arg \in Word \cup {PoolPtr}
  BY <1>2
<1> HIDE DEF S
<1>4. /\ Len(psq) \in Nat
      /\ psq # <<>> => /\ 1 \in DOMAIN psq /\ Head(psq) = psq[1]
                       /\ Tail(psq) \in Seq(S) /\ Len(Tail(psq)) = Len(psq) - 1
                       /\ \A i \in DOMAIN Tail(psq) :
                             i + 1 \in DOMAIN psq /\ Tail(psq)[i] = psq[i + 1]
  BY <1>1
<1> QED BY <1>1, <1>3, <1>4 DEF S

-----------------------------------------------------------------------------
(***************************************************************************)
(* What a service or the request of an interrupt does to the lists: it     *)
(* leaves them alone, wakes the first thread of one, or waits in one.      *)
(***************************************************************************)
LEMMA ServiceRests ==
    ASSUME OInv, SvcReturn(k)
    PROVE  OInv' /\ k' = k
<1>1. mode = "svc" /\ k' = k
  BY DEF SvcReturn
<1> QED BY <1>1, ServiceFinds, ServiceKeeps

LEMMA ServiceWakes ==
    ASSUME OInv, NEW o \in Obj, k.wait[o] # <<>>,
           SvcReturn(Dispatch(Served(o), First(o)))
    PROVE  OInv' /\ FirstLeaves(k, k', o) /\ ToSet(k'.dly) \subseteq ToSet(k.dly)
<1> DEFINE r == Sent(k, o)
<1>1. mode = "svc" /\ k' = r /\ SvcReturn(r)
  BY DEF SvcReturn, Sent, Served, First
<1>2. Fit(k, Living(k)) /\ Living(k) \in SUBSET Thread /\ Table(k) /\ Sound(k)
  BY <1>1, ServiceFinds
<1>3. Fit(r, Living(k)) /\ FirstLeaves(k, r, o)
  BY <1>2, KernelAssumption, SentFits
<1>4. ToSet(r.dly) \subseteq ToSet(k.dly)
  <2> DEFINE v == Woken(k, o)
             h == Head(k.wait[o])
  <2>1. Freed(k, v, o) /\ r = Dispatch(v, h)
    BY <1>2, KernelAssumption, WokenFreed DEF Sent
  <2>2. v \in KernelRecord /\ ToSet(v.dly) \subseteq ToSet(k.dly)
    BY <2>1 DEF Freed, Sound
  <2> HIDE DEF v, h
  <2>3. Dispatch(v, h).dly = v.dly
    BY <2>2 DEF Dispatch, PutRdy, PutRdyFirst, KernelRecord
  <2> QED BY <2>1, <2>2, <2>3
<1> HIDE DEF r
<1>5. Fit(r, Living(r)) /\ Table(r)
  BY <1>2, <1>3, SameLiving DEF FirstLeaves
<1> QED BY <1>1, <1>3, <1>4, <1>5, ServiceKeeps

LEMMA ServiceWaits ==
    ASSUME OInv, NEW o \in Obj, NEW n \in 1 .. Forever,
           SvcReturn(WaitFor(k, o, n, "WAIT_MBX"))
    PROVE  /\ OInv' /\ Joins(k, k', o, k.run)
           /\ n = Forever => k'.dly = k.dly
<1> DEFINE r == WaitFor(k, o, n, "WAIT_MBX")
<1>1. mode = "svc" /\ k' = r /\ SvcReturn(r)
  BY DEF SvcReturn
<1>2. /\ Fit(k, Living(k)) /\ Living(k) \in SUBSET Thread /\ Table(k) /\ Sound(k)
      /\ k.run # Idle
  BY <1>1, ServiceFinds
<1>3. /\ Fit(r, Living(k)) /\ Joins(k, r, o, k.run) /\ SameTable(k, r)
  <2>1. "WAIT_MBX" \in ObjectWait
    BY DEF ObjectWait
  <2> QED BY <1>2, <2>1, KernelAssumption, WaitForListed DEF Fit
<1>4. n = Forever => r.dly = k.dly
  <2> DEFINE v == PutWait(k, o, k.run)
  <2>1. v.dly = k.dly /\ DOMAIN v = DOMAIN k
    BY <1>2 DEF PutWait, Sound, KernelRecord
  <2>2. "run" \in DOMAIN k /\ "rdy" \in DOMAIN k /\ "state" \in DOMAIN k /\ "dly" \in DOMAIN k
    BY <1>2 DEF Sound, KernelRecord
  <2>3. n = Forever => r = SwitchToFirst([v EXCEPT !.state[v.run] = "WAIT_MBX"])
    BY KernelAssumption DEF WaitFor, Block, KernelAssumption
  <2> HIDE DEF v
  <2>4. SwitchToFirst([v EXCEPT !.state[v.run] = "WAIT_MBX"]).dly = v.dly
    BY <2>1, <2>2 DEF SwitchToFirst
  <2> QED BY <2>1, <2>3, <2>4
<1> HIDE DEF r
<1>5. Fit(r, Living(r)) /\ Table(r)
  BY <1>2, <1>3, SameLiving
<1> QED BY <1>1, <1>3, <1>4, <1>5, ServiceKeeps

LEMMA RequestRests ==
    ASSUME OInv, PopRequest(k)
    PROVE  OInv' /\ k' = k
<1>1. mode = "pop" /\ k' = k
  BY DEF PopRequest
<1> QED BY <1>1, HandlerFinds, PopKeeps

LEMMA RequestWakes ==
    ASSUME OInv, NEW o \in Obj, k.wait[o] # <<>>,
           PopRequest(PutRdy(Served(o), First(o)))
    PROVE  OInv' /\ FirstLeaves(k, k', o)
<1> DEFINE r == Pushed(k, o)
<1>1. mode = "pop" /\ k' = r /\ PopRequest(r)
  BY DEF PopRequest, Pushed, Served, First
<1>2. Handling(k, Living(k)) /\ Living(k) \in SUBSET Thread /\ Table(k) /\ Due(k)
  BY <1>1, HandlerFinds
<1>3. Handling(r, Living(k)) /\ Due(r) /\ FirstLeaves(k, r, o)
  BY <1>2, KernelAssumption, PushedFits
<1> HIDE DEF r
<1>4. Handling(r, Living(r)) /\ Table(r)
  BY <1>2, <1>3, SameLiving DEF FirstLeaves
<1> QED BY <1>1, <1>3, <1>4, PopKeeps

\* os_error, or what the source does not say.
LEMMA HaltKeeps ==
    ASSUME OInv, mode' \in {"os_error", "undefined"},
           UNCHANGED <<k, pend, robin, time>>
    PROVE  OInv'
<1>1. KernelTypeOK'
  BY DEF OInv, KernelTypeOK, Mode
<1>2. (Sound(k) /\ Homed(k, Living(k)) /\ Listed(k, Living(k)) /\ Table(k))'
  BY DEF OInv
<1> QED BY <1>1, <1>2 DEF OInv, InThread

-----------------------------------------------------------------------------
(***************************************************************************)
(* What each action does, in any program.                                  *)
(***************************************************************************)
LEMMA AfterService ==
    ASSUME Base, OInv', mode = "svc", mode' \in {"thread", "undefined"},
           psq' = psq, pend' = pend
    PROVE  Base'
  BY DEF Base, ServedFirst, Requests

LEMMA AfterRequest ==
    ASSUME Base, OInv', mode = "pop", psq # <<>>,
           psq' \in {psq, Tail(psq)}, mode' \in {"pop", "os_error", "undefined"}
    PROVE  Base'
<1>1. Requests'
  BY PsqFields DEF Base, Requests
<1> QED BY <1>1 DEF Base, ServedFirst

\* An interrupt leaves a request, or finds no room for it.
Enqueued(request) ==
    /\ k' = k
    /\ \/ psq' = Append(psq, request) /\ mode' = mode
       \/ psq' = psq /\ mode' = "os_error"

LEMMA EnqSteps ==
    ASSUME Base, NEW o \in Obj, NEW x \in Word \cup {PoolPtr},
           PsqEnq([id |-> o, arg |-> x])
    PROVE  Base' /\ Enqueued([id |-> o, arg |-> x])
<1> DEFINE e == [id |-> o, arg |-> x]
           S == [id : Obj, arg : Word \cup {PoolPtr}]
<1>1. OInv' /\ k' = k
  BY EnqKeeps DEF Base
<1>2. e \in S /\ psq \in Seq(S) /\ Len(psq) <= FifoSize /\ FifoSize \in Nat
  BY KernelAssumption DEF Base, Requests, KernelAssumption
<1>3. PsqEnq(e) /\ ServedFirst
  BY DEF Base
<1> HIDE DEF e, S
<1>4. \/ Len(psq) < FifoSize /\ psq' = Append(psq, e) /\ mode' = mode /\ pend'
      \/ psq' = psq /\ mode' = "os_error"
  BY <1>3 DEF PsqEnq
<1>5. psq' \in Seq(S) /\ Len(psq') <= FifoSize
  BY <1>2, <1>4
<1>6. Requests' /\ ServedFirst'
  BY <1>4, <1>5 DEF Requests, ServedFirst, S
<1> QED BY <1>1, <1>4, <1>6 DEF Base, Enqueued, e

\* A message is handed over, stored, refused, or waits.
PutEnds(o, x, n) ==
    \/ /\ Receiving(o) /\ FirstLeaves(k, k', o) /\ mbx' = mbx /\ msg' = msg
       /\ got' = [to |-> First(o), msg |-> x]
    \/ /\ ~Receiving(o) /\ ~Full(mbx[o]) /\ k' = k /\ msg' = msg
       /\ mbx' = [mbx EXCEPT ![o] = Stored(@, x)]
       /\ got' = None
    \/ /\ ~Receiving(o) /\ Full(mbx[o]) /\ k' = k /\ mbx' = mbx /\ msg' = msg
       /\ got' = None
    \/ /\ ~Receiving(o) /\ Full(mbx[o]) /\ n # 0 /\ Joins(k, k', o, k.run)
       /\ mbx' = [mbx EXCEPT ![o].state = Now(o, 2)]
       /\ msg' = [msg EXCEPT ![k.run] = x]
       /\ got' = None

LEMMA PutSteps ==
    ASSUME Base, NEW o \in Obj, NEW x, NEW n \in 0 .. Forever, MessagePut(o, x, n)
    PROVE  /\ Base' /\ PutEnds(o, x, n)
           /\ mode = "svc" /\ mode' = "thread" /\ psq' = psq
           /\ ToSet(k'.dly) \subseteq ToSet(k.dly) \/ n # 0
<1>1. OInv
  BY DEF Base
<1>2. mode = "svc" /\ mode' = "thread" /\ psq' = psq /\ pend' = pend
  BY DEF MessagePut, SvcReturn
<1>3. CASE Receiving(o)
  <2>1. /\ SvcReturn(Dispatch(Served(o), First(o))) /\ k.wait[o] # <<>>
        /\ got' = [to |-> First(o), msg |-> x] /\ mbx' = mbx /\ msg' = msg
    BY <1>3 DEF MessagePut, Receiving
  <2>2. OInv' /\ FirstLeaves(k, k', o) /\ ToSet(k'.dly) \subseteq ToSet(k.dly)
    BY <1>1, <2>1, ServiceWakes
  <2> QED BY <1>2, <1>3, <2>1, <2>2, AfterService DEF PutEnds
<1>4. CASE ~Receiving(o) /\ (~Full(mbx[o]) \/ n = 0)
  <2>1. SvcReturn(k) /\ got' = None /\ msg' = msg
    BY <1>4 DEF MessagePut
  <2>2. OInv' /\ k' = k
    BY <1>1, <2>1, ServiceRests
  <2>3. mbx' = IF Full(mbx[o]) THEN mbx ELSE [mbx EXCEPT ![o] = Stored(@, x)]
    BY <1>4 DEF MessagePut
  <2> QED BY <1>2, <1>4, <2>1, <2>2, <2>3, AfterService DEF PutEnds
<1>5. CASE ~Receiving(o) /\ Full(mbx[o]) /\ n # 0
  <2>1. /\ SvcReturn(WaitFor(k, o, n, "WAIT_MBX")) /\ got' = None
        /\ mbx' = [mbx EXCEPT ![o].state = Now(o, 2)]
        /\ msg' = [msg EXCEPT ![k.run] = x]
    BY <1>5 DEF MessagePut
  <2>2. n \in 1 .. Forever
    BY <1>5, KernelAssumption DEF KernelAssumption
  <2>3. OInv' /\ Joins(k, k', o, k.run)
    BY <1>1, <2>1, <2>2, ServiceWaits
  <2> QED BY <1>2, <1>5, <2>1, <2>3, AfterService DEF PutEnds
<1> QED BY <1>3, <1>4, <1>5

\* A message is got, and perhaps one stored that waits; or there is none.
GetEnds(o, n) ==
    \/ /\ mbx[o].count > 0 /\ ~Sending(o) /\ k' = k
       /\ mbx' = [mbx EXCEPT ![o] = Taken(@)]
       /\ got' = [to |-> k.run, msg |-> Oldest(mbx[o])]
    \/ /\ mbx[o].count > 0 /\ Sending(o) /\ FirstLeaves(k, k', o)
       /\ mbx' = [mbx EXCEPT ![o] = FromSender(o, Taken(@))]
       /\ got' = [to |-> k.run, msg |-> Oldest(mbx[o])]
    \/ /\ ~(mbx[o].count > 0) /\ k' = k /\ mbx' = mbx
       /\ got' = None
    \/ /\ ~(mbx[o].count > 0) /\ n # 0 /\ Joins(k, k', o, k.run)
       /\ mbx' = [mbx EXCEPT ![o].state = Now(o, 1)]
       /\ got' = None

LEMMA GetSteps ==
    ASSUME Base, NEW o \in Obj, NEW n \in 0 .. Forever, MessageGet(o, n)
    PROVE  /\ Base' /\ GetEnds(o, n) /\ msg' = msg
           /\ mode = "svc" /\ mode' = "thread" /\ psq' = psq
           /\ ToSet(k'.dly) \subseteq ToSet(k.dly) \/ n # 0
<1>1. OInv
  BY DEF Base
<1>2. mode = "svc" /\ mode' = "thread" /\ psq' = psq /\ pend' = pend /\ msg' = msg
  BY DEF MessageGet, SvcReturn
<1>3. CASE mbx[o].count > 0
  <2>1. /\ SvcReturn(IF Sending(o) THEN Dispatch(Served(o), First(o)) ELSE k)
        /\ mbx' = [mbx EXCEPT ![o] = Refill(o)]
        /\ got' = [to |-> k.run, msg |-> Oldest(mbx[o])]
    BY <1>3 DEF MessageGet
  <2>2. CASE Sending(o)
    <3>1. OInv' /\ FirstLeaves(k, k', o) /\ ToSet(k'.dly) \subseteq ToSet(k.dly)
      BY <1>1, <2>1, <2>2, ServiceWakes DEF Sending
    <3> QED BY <1>2, <1>3, <2>1, <2>2, <3>1, AfterService DEF GetEnds, Refill
  <2>3. CASE ~Sending(o)
    <3>1. OInv' /\ k' = k
      BY <1>1, <2>1, <2>3, ServiceRests
    <3> QED BY <1>2, <1>3, <2>1, <2>3, <3>1, AfterService DEF GetEnds, Refill
  <2> QED BY <2>2, <2>3
<1>4. CASE ~(mbx[o].count > 0) /\ n = 0
  <2>1. SvcReturn(k) /\ got' = None /\ mbx' = mbx
    BY <1>4 DEF MessageGet
  <2>2. OInv' /\ k' = k
    BY <1>1, <2>1, ServiceRests
  <2> QED BY <1>2, <1>4, <2>1, <2>2, AfterService DEF GetEnds
<1>5. CASE ~(mbx[o].count > 0) /\ n # 0
  <2>1. /\ SvcReturn(WaitFor(k, o, n, "WAIT_MBX")) /\ got' = None
        /\ mbx' = [mbx EXCEPT ![o].state = Now(o, 1)]
    BY <1>5 DEF MessageGet
  <2>2. n \in 1 .. Forever
    BY <1>5, KernelAssumption DEF KernelAssumption
  <2>3. OInv' /\ Joins(k, k', o, k.run)
    BY <1>1, <2>1, <2>2, ServiceWaits
  <2> QED BY <1>2, <1>5, <2>1, <2>3, AfterService DEF GetEnds
<1> QED BY <1>3, <1>4, <1>5

\* The request at the head of the queue hands its message over or stores it,
\* and lets in the thread that has waited to put.
PopEnds(o, x) ==
    \/ /\ k.wait[o] = <<>> /\ ~Full(mbx[o]) /\ k' = k
       /\ mbx' = [mbx EXCEPT ![o] = Stored(@, x)]
       /\ got' = None
    \/ /\ Receiving(o) /\ FirstLeaves(k, k', o) /\ mbx' = mbx
       /\ got' = [to |-> First(o), msg |-> x]
    \/ /\ Sending(o) /\ FirstLeaves(k, k', o)
       /\ mbx' = [mbx EXCEPT ![o] = FromSender(o, @)]
       /\ got' = None
    \/ /\ k.wait[o] # <<>> /\ ~Receiving(o) /\ ~Sending(o) /\ mbx[o].state # 3
       /\ FirstLeaves(k, k', o) /\ mbx' = mbx
       /\ got' = None

LEMMA PopSteps ==
    ASSUME Base, PopMessage, NEW o, o = Head(psq).id, NEW x, x = Head(psq).arg
    PROVE  /\ Base' /\ psq # <<>> /\ mode = "pop" /\ o \in Obj /\ msg' = msg
           /\ \/ psq' = Tail(psq) /\ mode' = mode /\ PopEnds(o, x)
              \/ /\ psq' = psq /\ mode' = "os_error" /\ k' = k /\ mbx' = mbx
                 /\ Full(mbx[o]) /\ k.wait[o] = <<>> /\ got' = None
<1>1. OInv /\ psq # <<>> /\ Head(psq).id \in Obj /\ msg' = msg
  BY PsqFields DEF Base, PopMessage
<1>2. CASE k.wait[o] = <<>> /\ ~Full(mbx[o])
  <2>1. /\ PopRequest(k) /\ mbx' = [mbx EXCEPT ![o] = Stored(@, x)] /\ got' = None
    BY <1>2 DEF PopMessage, StoreLate
  <2>2. OInv' /\ k' = k
    BY <1>1, <2>1, RequestRests
  <2>3. mode = "pop" /\ mode' = mode /\ psq' = Tail(psq)
    BY <2>1 DEF PopRequest
  <2> QED BY <1>1, <1>2, <2>1, <2>2, <2>3, AfterRequest DEF PopEnds
<1>3. CASE k.wait[o] = <<>> /\ Full(mbx[o])
  <2>1. /\ mode = "pop" /\ mode' = "os_error" /\ got' = None
        /\ UNCHANGED <<k, psq, pend, robin, time, mbx>>
    BY <1>3 DEF PopMessage, StoreLate
  <2>2. OInv'
    BY <1>1, <2>1, HaltKeeps
  <2> QED BY <1>1, <1>3, <2>1, <2>2, AfterRequest
<1>4. CASE k.wait[o] # <<>>
  <2>1. /\ PopRequest(PutRdy(Served(o), First(o))) /\ mbx[o].state # 3
        /\ mbx' = IF Sending(o) THEN [mbx EXCEPT ![o] = FromSender(o, @)] ELSE mbx
        /\ got' = IF Receiving(o) THEN [to |-> First(o), msg |-> x] ELSE None
    BY <1>4 DEF PopMessage
  <2>2. OInv' /\ FirstLeaves(k, k', o)
    BY <1>1, <1>4, <2>1, RequestWakes
  <2>3. mode = "pop" /\ mode' = mode /\ psq' = Tail(psq)
    BY <2>1 DEF PopRequest
  <2>4. PopEnds(o, x)
    BY <1>4, <2>1, <2>2 DEF PopEnds, Receiving, Sending
  <2> QED BY <1>1, <2>2, <2>3, <2>4, AfterRequest
<1> QED BY <1>2, <1>3, <1>4

\* The steps that have nothing to do with a mailbox.
LEMMA ElsewhereSteps ==
    ASSUME Base, Elsewhere
    PROVE  /\ Base' /\ OneLeaves(k, k') /\ psq' = psq
           /\ mbx' = mbx /\ msg' = msg /\ got' = None
           /\ mode' = "svc" => psq = <<>>
<1>1. OInv /\ ServedFirst /\ Requests
  BY DEF Base
<1>2. OInv' /\ OneLeaves(k, k') /\ psq' = psq
  <2>1. CASE KernelStep
    BY <1>1, <2>1, KernelStepKeeps
  <2>2. CASE \E n \in Delays : Delay(n)
    BY <1>1, <2>2, DelayKeeps DEF Steady, OneLeaves
  <2>3. CASE \E t \in Thread : Control(t)
    BY <1>1, <2>3, ControlKeeps
  <2> QED BY <2>1, <2>2, <2>3 DEF Elsewhere
<1>3. ServedFirst' /\ (mode' = "svc" => psq = <<>>)
  <2>1. CASE SvcEnter \/ TickEnter \/ TickTimeout \/ TickExit \/ PopEnter \/ PopExit
    BY <1>1, <2>1
       DEF ServedFirst, SvcEnter, TickEnter, TickTimeout, TickExit, PopEnter, PopExit
  <2>2. CASE Die
    BY <1>1, <2>2 DEF ServedFirst, Die, Halted, kernelVars
  <2>3. CASE \/ ThreadYield \/ (\E n \in Delays : Delay(n)) \/ (\E t \in Thread : Control(t))
    <3>1. mode = "svc" /\ mode' = "thread" /\ psq' = psq /\ pend' = pend
      BY <2>3 DEF ThreadYield, Delay, Control, ThreadTerminate, ThreadSetPriority, SvcReturn
    <3> QED BY <1>1, <3>1 DEF ServedFirst
  <2> QED BY <2>1, <2>2, <2>3 DEF Elsewhere, KernelStep
<1>4. Requests'
  BY <1>1, <1>2 DEF Requests
<1>5. mbx' = mbx /\ msg' = msg /\ got' = None
  BY DEF Elsewhere
<1> QED BY <1>2, <1>3, <1>4, <1>5 DEF Base

\* osMailAlloc: a block, none, or the thread waits for one.
AllocEnds(o, n) ==
    \/ /\ k' = k /\ mbx' = mbx /\ \E b \in free : AllocBox(b, k.run)
    \/ /\ k' = k /\ mbx' = mbx /\ UNCHANGED blockVars /\ free = {}
    \/ /\ n # 0 /\ free = {} /\ Joins(k, k', o, k.run)
       /\ n = Forever => k'.dly = k.dly
       /\ mbx' = [mbx EXCEPT ![o].state = Now(o, 3)]
       /\ UNCHANGED blockVars

LEMMA AllocSteps ==
    ASSUME Base, NEW o \in Obj, NEW n \in 0 .. Forever, MailAlloc(o, n)
    PROVE  /\ Base' /\ AllocEnds(o, n) /\ psq' = psq /\ msg' = msg
           /\ mode = "svc" /\ mode' = "thread"
<1>1. OInv
  BY DEF Base
<1>2. mode = "svc" /\ mode' = "thread" /\ psq' = psq /\ pend' = pend /\ msg' = msg
  BY DEF MailAlloc, SvcReturn
<1>3. CASE SvcReturn(k) /\ mbx' = mbx /\ \E b \in free : AllocBox(b, k.run)
  <2>1. OInv' /\ k' = k
    BY <1>1, <1>3, ServiceRests
  <2> QED BY <1>2, <1>3, <2>1, AfterService DEF AllocEnds
<1>4. CASE SvcReturn(k) /\ mbx' = mbx /\ UNCHANGED blockVars /\ free = {}
  <2>1. OInv' /\ k' = k
    BY <1>1, <1>4, ServiceRests
  <2> QED BY <1>2, <1>4, <2>1, AfterService DEF AllocEnds
<1>5. CASE /\ n # 0 /\ SvcReturn(WaitFor(k, o, n, "WAIT_MBX")) /\ free = {}
           /\ mbx' = [mbx EXCEPT ![o].state = Now(o, 3)] /\ UNCHANGED blockVars
  <2>1. n \in 1 .. Forever
    BY <1>5, KernelAssumption DEF KernelAssumption
  <2>2. OInv' /\ Joins(k, k', o, k.run) /\ (n = Forever => k'.dly = k.dly)
    BY <1>1, <1>5, <2>1, ServiceWaits
  <2> QED BY <1>2, <1>5, <2>2, AfterService DEF AllocEnds
<1> QED BY <1>3, <1>4, <1>5 DEF MailAlloc

\* osMailFree: the block is free, or the first thread of the list has it.
FreeEnds(o, b) ==
    \/ /\ mbx[o].state # 3 /\ k' = k /\ mbx' = mbx /\ FreeBox(b)
       /\ mode' = "thread"
    \/ /\ mbx[o].state = 3 /\ k.wait[o] # <<>> /\ FirstLeaves(k, k', o)
       /\ ToSet(k'.dly) \subseteq ToSet(k.dly)
       /\ mbx' = HandMemory(o) /\ free' = free
       /\ holder' = [holder EXCEPT ![b] = First(o)]
       /\ mode' = "thread"
    \/ /\ mbx[o].state = 3 /\ k.wait[o] = <<>> /\ k' = k /\ mbx' = mbx
       /\ UNCHANGED blockVars
       /\ mode' = "undefined"

LEMMA FreeSteps ==
    ASSUME Base, NEW o \in Obj, NEW b \in Message, MailFree(o, b)
    PROVE  /\ Base' /\ FreeEnds(o, b) /\ psq' = psq /\ msg' = msg
           /\ holder[b] = k.run /\ mode = "svc"
<1>1. OInv /\ holder[b] = k.run /\ msg' = msg
  BY DEF Base, MailFree
<1>2. mode = "svc" /\ mode' \in {"thread", "undefined"} /\ psq' = psq /\ pend' = pend
  BY DEF MailFree, SvcReturn
<1>3. CASE mbx[o].state # 3
  <2>1. SvcReturn(k) /\ FreeBox(b) /\ mbx' = mbx /\ mode' = "thread"
    BY <1>3 DEF MailFree, SvcReturn
  <2>2. OInv' /\ k' = k
    BY <1>1, <2>1, ServiceRests
  <2> QED BY <1>1, <1>2, <1>3, <2>1, <2>2, AfterService DEF FreeEnds
<1>4. CASE mbx[o].state = 3 /\ k.wait[o] # <<>>
  <2>1. /\ SvcReturn(Dispatch(Served(o), First(o))) /\ mbx' = HandMemory(o)
        /\ holder' = [holder EXCEPT ![b] = First(o)] /\ free' = free
        /\ mode' = "thread"
    BY <1>4 DEF MailFree, SvcReturn
  <2>2. OInv' /\ FirstLeaves(k, k', o) /\ ToSet(k'.dly) \subseteq ToSet(k.dly)
    BY <1>1, <1>4, <2>1, ServiceWakes
  <2> QED BY <1>1, <1>2, <1>4, <2>1, <2>2, AfterService DEF FreeEnds
<1>5. CASE mbx[o].state = 3 /\ k.wait[o] = <<>>
  <2>1. /\ mode' = "undefined"
        /\ UNCHANGED <<k, psq, pend, robin, time, mbx, blockVars>>
    BY <1>5 DEF MailFree
  <2>2. OInv'
    BY <1>1, <2>1, HaltKeeps
  <2> QED BY <1>1, <1>2, <1>5, <2>1, <2>2, AfterService DEF FreeEnds
<1> QED BY <1>3, <1>4, <1>5

LEMMA IsrFreeSteps ==
    ASSUME Base, NEW o \in Obj, NEW b \in Message, IsrMailFree(o, b)
    PROVE  /\ Base' /\ k' = k /\ mbx' = mbx /\ msg' = msg
           /\ FreeBox(b) /\ holder[b] = Isr
           /\ mbx[o].state # 3 => psq' = psq /\ mode' = mode
<1>1. /\ FreeBox(b) /\ holder[b] = Isr /\ mbx' = mbx /\ msg' = msg
  BY DEF IsrMailFree
<1>2. CASE mbx[o].state = 3
  <2>1. PsqEnq([id |-> o, arg |-> PoolPtr])
    BY <1>2 DEF IsrMailFree
  <2>2. Base' /\ k' = k
    BY <2>1, EnqSteps DEF Enqueued
  <2> QED BY <1>1, <1>2, <2>2
<1>3. CASE mbx[o].state # 3
  <2>1. UNCHANGED kernelVars
    BY <1>3 DEF IsrMailFree
  <2>2. Base' /\ k' = k /\ psq' = psq /\ mode' = mode
    BY <2>1, StutterKeeps DEF Base, ServedFirst, Requests, kernelVars
  <2> QED BY <1>1, <2>2
<1> QED BY <1>2, <1>3

LEMMA PopMemorySteps ==
    ASSUME Base, PopMemory
    PROVE  /\ Base' /\ psq # <<>> /\ mode = "pop" /\ Head(psq).id \in Obj
           /\ mbx[Head(psq).id].state = 3
<1> DEFINE o == Head(psq).id
<1>1. /\ OInv /\ psq # <<>> /\ o \in Obj /\ k.wait[o] # <<>> /\ mbx[o].state = 3
  BY PsqFields DEF Base, PopMemory
<1>2. CASE Head(psq).arg # PoolPtr
  <2>1. mode = "pop" /\ mode' = "undefined" /\ UNCHANGED <<k, psq, pend, robin, time>>
    BY <1>2 DEF PopMemory
  <2> QED BY <1>1, <2>1, HaltKeeps, AfterRequest
<1>3. CASE PopRequest(k)
  <2>1. OInv' /\ mode = "pop" /\ mode' = mode /\ psq' = Tail(psq)
    BY <1>1, <1>3, RequestRests DEF PopRequest
  <2> QED BY <1>1, <2>1, AfterRequest
<1>4. CASE PopRequest(PutRdy(Served(o), First(o)))
  <2>1. mode = "pop" /\ mode' = mode /\ psq' = Tail(psq)
    BY <1>4 DEF PopRequest
  <2> HIDE DEF o
  <2>2. OInv'
    BY <1>1, <1>4, RequestWakes
  <2> QED BY <1>1, <2>1, <2>2, AfterRequest DEF o
<1> QED BY <1>2, <1>3, <1>4 DEF PopMemory

-----------------------------------------------------------------------------
(***************************************************************************)
(* In any program the lists of the kernel agree.                           *)
(***************************************************************************)
\* The timeouts callers give are timeouts the kernel takes.
LEMMA CallTimeouts ==
    /\ Timeouts \subseteq 0 .. Forever
    /\ AllocTimeouts \cup GetTimeouts \cup {0} \subseteq 0 .. Forever
  BY KernelAssumption, ObjectsAssumption
     DEF KernelAssumption, ObjectsAssumption, AllocTimeouts, GetTimeouts

LEMMA BaseStutters ==
    ASSUME Base, UNCHANGED mailVars
    PROVE  Base'
  BY StutterKeeps DEF Base, ServedFirst, Requests, mailVars, vars, kernelVars

LEMMA BaseInit == MailInit => Base
<1> SUFFICES ASSUME MailInit PROVE Base
  OBVIOUS
<1>1. OInv
  BY StartFits DEF MailInit, Init
<1>2. psq = <<>> /\ FifoSize \in Nat
  BY KernelAssumption DEF MailInit, Init, KernelInit, KernelAssumption
<1>3. Requests /\ ServedFirst
  BY <1>2 DEF Requests, ServedFirst
<1> QED BY <1>1, <1>3 DEF Base

LEMMA BaseNext == Base /\ [MailNext]_mailVars => Base'
<1> SUFFICES ASSUME Base, [MailNext]_mailVars PROVE Base'
  OBVIOUS
<1>1. IsrPuts \subseteq Word \cup {PoolPtr} /\ Message \subseteq Word \cup {PoolPtr}
  BY MailboxAssumption DEF MailboxAssumption, Word
<1>2. CASE Svc
  BY <1>2, CallTimeouts, GetSteps, PutSteps DEF Svc
<1>3. CASE \E o \in Obj, x \in IsrPuts : IsrMessagePut(o, x)
  BY <1>1, <1>3, EnqSteps DEF IsrMessagePut
<1>4. CASE PopMessage
  BY <1>4, PopSteps
<1>5. CASE Elsewhere
  BY <1>5, ElsewhereSteps
<1>6. CASE MailSvc
  <2>1. PICK o \in Obj :
           \/ \E n \in AllocTimeouts : MailAlloc(o, n) /\ got' = None
           \/ \E n \in GetTimeouts : MailGet(o, n)
           \/ \E b \in Message : MailPut(o, b) \/ (MailFree(o, b) /\ got' = None)
    BY <1>6 DEF MailSvc
  <2>2. CASE \E n \in AllocTimeouts : MailAlloc(o, n)
    BY <2>2, CallTimeouts, AllocSteps
  <2>3. CASE \E n \in GetTimeouts : MailGet(o, n)
    BY <2>3, CallTimeouts, GetSteps DEF MailGet
  <2>4. CASE \E b \in Message : MailPut(o, b)
    BY <2>4, CallTimeouts, PutSteps DEF MailPut
  <2>5. CASE \E b \in Message : MailFree(o, b)
    BY <2>5, FreeSteps
  <2> QED BY <2>1, <2>2, <2>3, <2>4, <2>5
<1>7. CASE MailIsr
  <2>1. CASE IsrMailAlloc
    BY <2>1, StutterKeeps DEF IsrMailAlloc, Base, ServedFirst, Requests, kernelVars
  <2>2. CASE \E o \in Obj, b \in Message : IsrMailPut(o, b)
    BY <1>1, <2>2, EnqSteps DEF IsrMailPut, IsrMessagePut
  <2>3. CASE \E o \in Obj, b \in Message : IsrMailFree(o, b)
    BY <2>3, IsrFreeSteps
  <2> QED BY <1>7, <2>1, <2>2, <2>3 DEF MailIsr
<1>8. CASE MailPop
  BY <1>8, PopSteps, PopMemorySteps DEF MailPop, PopMail
<1>9. CASE UNCHANGED mailVars
  BY <1>9, BaseStutters
<1> QED BY <1>2, <1>3, <1>4, <1>5, <1>6, <1>7, <1>8, <1>9 DEF MailNext, Next

(***************************************************************************)
(* In any program the lists of the kernel agree, PendSV serves what        *)
(* interrupts asked for before the next service, and the requests are for  *)
(* queues.                                                                 *)
(***************************************************************************)
THEOREM MailBase == MailSpec => []Base
  BY BaseInit, BaseNext, PTL DEF MailSpec

(***************************************************************************)
(* The list of a mailbox, of the timeouts and of the ready threads agree   *)
(* with each other and with the states of the threads, for any program:    *)
(* also where one list holds threads that wait for messages and threads    *)
(* that wait for memory, and whoever is woken or terminated meanwhile.     *)
(***************************************************************************)
THEOREM MailLists == MailSpec => []WaitLists
<1>1. Base => WaitLists
  BY ListsRight DEF Base
<1> QED BY MailBase, <1>1, PTL

-----------------------------------------------------------------------------
(***************************************************************************)
(* The ring of a mailbox, and what its state says of its list, in the      *)
(* programs that rely on it: u is the program, e says that the list is     *)
(* empty, f is the free list of the pool.                                  *)
(***************************************************************************)
Mailbox == [state : 0 .. 3, first : 0 .. Size - 1, last : 0 .. Size - 1,
            count : 0 .. Size, msg : [0 .. Size - 1 -> Word]]

Well(u, e, m, f) ==
    /\ m.first = (m.last + m.count) % Size
    /\ ~e /\ m.state # 3 => \/ m.state = 1 /\ m.count = 0
                            \/ m.state = 2 /\ m.count = Size
    /\ u = "wait" => m.state \in {0, 3}
    /\ u # "wait" => m.state # 3
    /\ u = "poll" => m.state # 2
    /\ u \in MailUses /\ m.state = 3 => ~e /\ f = {}

LEMMA MailboxFields ==
    ASSUME NEW m \in Mailbox
    PROVE  /\ Size \in Nat \ {0}
           /\ m.state \in 0 .. 3 /\ m.first \in 0 .. Size - 1 /\ m.last \in 0 .. Size - 1
           /\ m.count \in 0 .. Size /\ m.count \in Nat
           /\ m.msg \in [0 .. Size - 1 -> Word]
  BY MailboxAssumption DEF Mailbox, MailboxAssumption

LEMMA StoredFields ==
    ASSUME NEW m \in Mailbox, m.count # Size, NEW x \in Word
    PROVE  /\ Stored(m, x) \in Mailbox
           /\ Stored(m, x).state = m.state /\ Stored(m, x).last = m.last
           /\ Stored(m, x).count = m.count + 1
           /\ Stored(m, x).msg = [m.msg EXCEPT ![m.first] = x]
           /\ m.first = (m.last + m.count) % Size =>
                 Stored(m, x).first = (m.last + (m.count + 1)) % Size
<1> DEFINE r == Stored(m, x)
           a == m.last
           c == m.count
           n == Size
<1>1. /\ n \in Nat \ {0} /\ a \in 0 .. n - 1 /\ c \in 0 .. n - 1 /\ c \in Nat
      /\ m.first \in 0 .. n - 1 /\ m.state \in 0 .. 3 /\ m.msg \in [0 .. n - 1 -> Word]
  BY MailboxFields
<1>2. /\ r = [m EXCEPT !.msg = [m.msg EXCEPT ![m.first] = x],
                       !.first = (m.first + 1) % n, !.count = c + 1]
  BY DEF Stored, Mailbox
<1>3. (m.first + 1) % n \in 0 .. n - 1
  <2>1. 1 \in 0 .. n
    BY <1>1
  <2> QED BY <1>1, <2>1, WholeTurn
<1>4. /\ r.state = m.state /\ r.last = a /\ r.count = c + 1
      /\ r.msg = [m.msg EXCEPT ![m.first] = x] /\ r.first = (m.first + 1) % n
      /\ r \in Mailbox
  <2> DEFINE p == (m.first + 1) % n
             y == [m.msg EXCEPT ![m.first] = x]
             d == c + 1
  <2>1. p \in 0 .. n - 1 /\ d \in 0 .. n /\ y \in [0 .. n - 1 -> Word]
    BY <1>1, <1>3
  <2>2. r = [m EXCEPT !.msg = y, !.first = p, !.count = d]
    BY <1>2
  <2> HIDE DEF p, y, d, r
  <2>3. /\ r.state = m.state /\ r.last = a /\ r.count = d /\ r.msg = y /\ r.first = p
        /\ r \in Mailbox
    BY <2>1, <2>2 DEF Mailbox
  <2> QED BY <2>3 DEF p, y, d
<1>5. m.first = (a + c) % n => (m.first + 1) % n = (a + (c + 1)) % n
  <2> HIDE DEF a, c, n, r
  <2>1. (a + c) % n = IF a + c < n THEN a + c ELSE a + c - n
    <3>1. c \in 0 .. n
      BY <1>1
    <3> QED BY <1>1, <3>1, WholeTurn
  <2> DEFINE d == c + 1
             b == (a + c) % n
  <2>2. d \in 0 .. n /\ b \in 0 .. n - 1 /\ 1 \in 0 .. n
    BY <1>1, <2>1
  <2>3. (a + d) % n = IF a + d < n THEN a + d ELSE a + d - n
    <3> HIDE DEF d, b
    <3> QED BY <1>1, <2>2, WholeTurn
  <2>4. (b + 1) % n = IF b + 1 < n THEN b + 1 ELSE b + 1 - n
    <3> HIDE DEF d, b
    <3> QED BY <1>1, <2>2, WholeTurn
  <2>5. d = c + 1 /\ b = IF a + c < n THEN a + c ELSE a + c - n
    BY <2>1
  <2> HIDE DEF d, b
  <2>6. (b + 1) % n = (a + d) % n
    BY <1>1, <2>2, <2>3, <2>4, <2>5
  <2> QED BY <2>6 DEF b, d
<1> QED BY <1>4, <1>5

LEMMA TakenFields ==
    ASSUME NEW m \in Mailbox, m.count > 0
    PROVE  /\ Taken(m) \in Mailbox
           /\ Taken(m).state = m.state /\ Taken(m).last = (m.last + 1) % Size
           /\ Taken(m).count = m.count - 1 /\ Taken(m).count # Size
           /\ Taken(m).msg = m.msg /\ Taken(m).first = m.first
           /\ m.first = (m.last + m.count) % Size =>
                 Taken(m).first = (Taken(m).last + Taken(m).count) % Size
           /\ Oldest(m) \in Word
<1> DEFINE r == Taken(m)
           n == Size
<1>1. /\ n \in Nat \ {0} /\ m.last \in 0 .. n - 1 /\ m.count \in 1 .. n
      /\ m.first \in 0 .. n - 1 /\ m.state \in 0 .. 3 /\ m.msg \in [0 .. n - 1 -> Word]
  BY MailboxFields
<1>2. r = [m EXCEPT !.last = (m.last + 1) % n, !.count = m.count - 1]
  BY DEF Taken, Mailbox
<1>3. (m.last + 1) % n \in 0 .. n - 1
  <2>1. 1 \in 0 .. n
    BY <1>1
  <2> QED BY <1>1, <2>1, WholeTurn
<1>4. /\ r.state = m.state /\ r.last = (m.last + 1) % n /\ r.count = m.count - 1
      /\ r.msg = m.msg /\ r.first = m.first /\ r \in Mailbox /\ r.count # n
  <2> DEFINE p == (m.last + 1) % n
             d == m.count - 1
  <2>1. p \in 0 .. n - 1 /\ d \in 0 .. n /\ d # n
    BY <1>1, <1>3
  <2>2. r = [m EXCEPT !.last = p, !.count = d]
    BY <1>2
  <2> HIDE DEF p, d, r
  <2>3. /\ r.state = m.state /\ r.last = p /\ r.count = d /\ r.msg = m.msg
        /\ r.first = m.first /\ r \in Mailbox
    BY <2>1, <2>2 DEF Mailbox
  <2> QED BY <2>1, <2>3 DEF p, d
<1>5. (((m.last + 1) % n) + (m.count - 1)) % n = (m.last + m.count) % n
  BY <1>1, OneNearer
<1> QED BY <1>1, <1>4, <1>5 DEF Oldest

-----------------------------------------------------------------------------
LEMMA WellShrinks ==
    ASSUME NEW u, NEW e \in BOOLEAN, NEW d \in BOOLEAN, NEW m, NEW f, NEW g,
           Well(u, e, m, f), e => d, u # "wait"
    PROVE  Well(u, d, m, g)
  BY DEF Well

LEMMA WellStored ==
    ASSUME NEW u, NEW e \in BOOLEAN, NEW m \in Mailbox, NEW f, Well(u, e, m, f),
           m.count # Size, NEW x \in Word, e \/ m.state # 1
    PROVE  Well(u, e, Stored(m, x), f)
<1> DEFINE r == Stored(m, x)
<1>1. /\ r.state = m.state /\ r.first = (r.last + r.count) % Size
  BY StoredFields DEF Well
<1> HIDE DEF r
<1>2. Well(u, e, r, f)
  BY <1>1 DEF Well
<1> QED BY <1>2 DEF r

LEMMA WellTaken ==
    ASSUME NEW u, NEW e \in BOOLEAN, NEW m \in Mailbox, NEW f, Well(u, e, m, f),
           m.count > 0, e \/ m.state # 2
    PROVE  Well(u, e, Taken(m), f)
<1> DEFINE r == Taken(m)
<1>1. /\ r.state = m.state /\ r.first = (r.last + r.count) % Size
  BY TakenFields DEF Well
<1>2. ~e => m.state = 3
  BY DEF Well
<1> HIDE DEF r
<1>3. Well(u, e, r, f)
  BY <1>1, <1>2 DEF Well
<1> QED BY <1>3 DEF r

LEMMA WellRefilled ==
    ASSUME NEW u, NEW m \in Mailbox, NEW f, Well(u, FALSE, m, f),
           m.count > 0, m.state = 2, NEW x \in Word, NEW d \in BOOLEAN
    PROVE  /\ Well(u, d, Stored(Taken(m), x), f)
           /\ Stored(Taken(m), x) \in Mailbox /\ Stored(Taken(m), x).state = 2
<1> DEFINE v == Taken(m)
           r == Stored(v, x)
<1>1. /\ v \in Mailbox /\ v.state = 2 /\ v.count = m.count - 1 /\ v.count # Size
      /\ v.first = (v.last + v.count) % Size
  BY TakenFields DEF Well
<1> HIDE DEF v
<1>2. /\ r \in Mailbox /\ r.state = 2 /\ r.count = v.count + 1
      /\ r.first = (r.last + r.count) % Size
  BY <1>1, StoredFields
<1>3. m.count = Size /\ Size \in Nat /\ u # "wait" /\ u # "poll"
  BY MailboxFields DEF Well
<1> HIDE DEF r
<1>4. Well(u, d, r, f)
  BY <1>1, <1>2, <1>3 DEF Well
<1> QED BY <1>2, <1>4 DEF v, r

\* The running thread waits: it is the first, or those who wait say what for.
WaitsWith(m, e, s) == [m EXCEPT !.state = IF e THEN s ELSE m.state]

LEMMA WaitsFields ==
    ASSUME NEW m \in Mailbox, NEW e \in BOOLEAN, NEW s \in 0 .. 3
    PROVE  /\ WaitsWith(m, e, s) \in Mailbox
           /\ WaitsWith(m, e, s).count = m.count
           /\ WaitsWith(m, e, s).first = m.first
           /\ WaitsWith(m, e, s).last = m.last
           /\ WaitsWith(m, e, s).state = IF e THEN s ELSE m.state
  BY DEF Mailbox, WaitsWith

LEMMA WellGetter ==
    ASSUME NEW u, NEW e \in BOOLEAN, NEW m \in Mailbox, NEW f, Well(u, e, m, f),
           m.count = 0, u # "wait"
    PROVE  /\ Well(u, FALSE, WaitsWith(m, e, 1), f)
           /\ WaitsWith(m, e, 1) \in Mailbox /\ WaitsWith(m, e, 1).state = 1
<1> DEFINE s == 1
           r == WaitsWith(m, e, s)
<1>0. s \in 0 .. 3
  OBVIOUS
<1> HIDE DEF s
<1>1. /\ r.count = m.count /\ r.first = m.first /\ r.last = m.last /\ r \in Mailbox
      /\ r.state = IF e THEN s ELSE m.state
  BY <1>0, WaitsFields
<1> HIDE DEF r
<1>2. Size # 0
  BY MailboxFields
<1>3. ~e => m.state = 1
  BY <1>2 DEF Well
<1>4. r.state = 1
  BY <1>1, <1>3 DEF s
<1>5. Well(u, FALSE, r, f)
  BY <1>1, <1>4 DEF Well
<1> QED BY <1>1, <1>4, <1>5 DEF r, s

LEMMA WellPutter ==
    ASSUME NEW u, NEW e \in BOOLEAN, NEW m \in Mailbox, NEW f, Well(u, e, m, f),
           m.count = Size, u \notin MailUses
    PROVE  Well(u, FALSE, WaitsWith(m, e, 2), f) /\ WaitsWith(m, e, 2) \in Mailbox
<1> DEFINE s == 2
           r == WaitsWith(m, e, s)
<1>0. s \in 0 .. 3
  OBVIOUS
<1> HIDE DEF s
<1>1. /\ r.count = m.count /\ r.first = m.first /\ r.last = m.last /\ r \in Mailbox
      /\ r.state = IF e THEN s ELSE m.state
  BY <1>0, WaitsFields
<1> HIDE DEF r
<1>2. Size # 0
  BY MailboxFields
<1>3. ~e => m.state = 2
  BY <1>2 DEF Well, MailUses
<1>4. r.state = 2
  BY <1>1, <1>3 DEF s
<1>5. Well(u, FALSE, r, f)
  BY <1>1, <1>4 DEF Well, MailUses
<1> QED BY <1>1, <1>5 DEF r, s

LEMMA WellAllocator ==
    ASSUME NEW e \in BOOLEAN, NEW m \in Mailbox, NEW f, Well("wait", e, m, f), f = {}
    PROVE  Well("wait", FALSE, WaitsWith(m, e, 3), f) /\ WaitsWith(m, e, 3) \in Mailbox
<1> DEFINE r == WaitsWith(m, e, 3)
<1>1. /\ r.count = m.count /\ r.first = m.first /\ r.last = m.last /\ r \in Mailbox
      /\ r.state = IF e THEN 3 ELSE m.state
  BY WaitsFields
<1> HIDE DEF r
<1>2. ~e => m.state = 3
  BY DEF Well
<1>3. r.state = 3
  BY <1>1, <1>2
<1>4. Well("wait", FALSE, r, f)
  BY <1>1, <1>3 DEF Well
<1> QED BY <1>1, <1>4 DEF r

-----------------------------------------------------------------------------
(***************************************************************************)
(* MailInv in the form in which the steps keep it.                         *)
(***************************************************************************)
Typed ==
    /\ psq \in Seq([id : Obj, arg : Word])
    /\ mbx \in [Obj -> Mailbox]
    /\ msg \in [Thread -> Word]
    /\ got \in [to : Thread, msg : Word] \cup {None}
    /\ use \in Uses
    /\ free \subseteq Message
    /\ holder \in [Message -> Thread \cup {Isr, None}]

Under(q, w, b, d) == \A i \in DOMAIN q :
    /\ ~(w[q[i].id] # <<>> /\ b[q[i].id].state = 2)
    /\ d = "svc" => b[q[i].id].count # Size

Patient(s) == \A o \in Obj : \A t \in ToSet(s.wait[o]) : t \notin ToSet(s.dly)

Relied ==
    /\ Typed
    /\ \A o \in Obj : Well(use, k.wait[o] = <<>>, mbx[o], free)
    /\ Under(psq, k.wait, mbx, mode)
    /\ use = "wait" => psq = <<>> /\ Patient(k)

LEMMA ReliedIsMailInv == Base /\ (use # "any" => Relied) => MailInv
<1> SUFFICES ASSUME Base, use # "any" => Relied PROVE MailInv
  OBVIOUS
<1>1. OInv /\ ServedFirst /\ Requests /\ KernelTypeOK
  BY DEF Base, OInv
<1>2. ASSUME use # "any"
      PROVE  /\ MailTypeOK /\ OneSide /\ MemoryIsServed /\ UnderWay /\ Rings
             /\ IF use = "wait" THEN ForMemory ELSE \A o \in Obj : mbx[o].state # 3
             /\ use = "poll" => \A o \in Obj : mbx[o].state # 2
  <2>1. /\ Typed /\ Under(psq, k.wait, mbx, mode)
        /\ \A o \in Obj : Well(use, k.wait[o] = <<>>, mbx[o], free)
        /\ use = "wait" => psq = <<>> /\ Patient(k)
    BY <1>2 DEF Relied
  <2>2. MailTypeOK
    BY <1>1, <2>1 DEF MailTypeOK, TypeOK, Typed, Mailbox, Requests
  <2>3. OneSide /\ MemoryIsServed /\ Rings
    BY <2>1 DEF Well, OneSide, MemoryIsServed, Rings, Full
  <2>4. UnderWay
    BY <2>1 DEF Under, UnderWay, Sending, Full
  <2>5. IF use = "wait" THEN ForMemory ELSE \A o \in Obj : mbx[o].state # 3
    BY <2>1 DEF Well, ForMemory, Patient
  <2>6. use = "poll" => \A o \in Obj : mbx[o].state # 2
    BY <2>1 DEF Well
  <2> QED BY <2>2, <2>3, <2>4, <2>5, <2>6
<1> QED BY <1>1, <1>2 DEF MailInv

LEMMA OneMailbox ==
    ASSUME use \in Uses, use \in MailUses
    PROVE  /\ \A o, x \in Obj : o = x
           /\ \E o \in Obj : Obj = {o}
           /\ IsFiniteSet(Message) /\ Cardinality(Message) <= Size
  BY MailAssumption DEF MailAssumption, MailUses

LEMMA ListFields ==
    ASSUME OInv
    PROVE  /\ k.run \in Thread /\ None \notin Thread /\ Sound(k)
           /\ \A o \in Obj : /\ k.wait[o] \in Seq(Thread)
                             /\ k.wait[o] # <<>> => First(o) \in Thread
                             /\ k.run \notin ToSet(k.wait[o])
<1>1. Sound(k) /\ Consistent(k, Living(k)) /\ Living(k) \in SUBSET Thread
  BY DEF OInv, Consistent, Living
<1>2. k.run \in Thread /\ \A o \in Obj : k.wait[o] \in Seq(Thread)
  BY <1>1, KernelAssumption, SoundFields, WaitFields
<1>3. \A o \in Obj : k.run \notin ToSet(k.wait[o])
  BY <1>1, KernelAssumption, QueueApart
<1> QED BY <1>1, <1>2, <1>3, KernelAssumption DEF First, KernelAssumption

\* The lists other than o's get no longer.
Beside(s, r, o) == \A x \in Obj \ {o} : s.wait[x] = <<>> => r.wait[x] = <<>>

LEMMA StepWell ==
    ASSUME Relied, use # "any", NEW o \in Obj, NEW m \in Mailbox,
           mbx' = [mbx EXCEPT ![o] = m], use' = use, Beside(k, k', o),
           Well(use, k'.wait[o] = <<>>, m, free')
    PROVE  /\ \A x \in Obj : Well(use', k'.wait[x] = <<>>, mbx'[x], free')
           /\ mbx' \in [Obj -> Mailbox]
<1>1. mbx \in [Obj -> Mailbox] /\ use \in Uses
  BY DEF Relied, Typed
<1>2. mbx' \in [Obj -> Mailbox] /\ mbx'[o] = m /\ \A x \in Obj \ {o} : mbx'[x] = mbx[x]
  BY <1>1
<1>3. ASSUME NEW x \in Obj \ {o}
      PROVE  Well(use', k'.wait[x] = <<>>, mbx'[x], free')
  <2>1. use # "wait"
    BY <1>1, <1>3, OneMailbox DEF MailUses
  <2>2. Well(use, k.wait[x] = <<>>, mbx[x], free)
    BY DEF Relied
  <2>3. k.wait[x] = <<>> => k'.wait[x] = <<>>
    BY DEF Beside
  <2>4. Well(use, k'.wait[x] = <<>>, mbx[x], free')
    BY ONLY <2>1, <2>2, <2>3, WellShrinks, ZenonT(30)
  <2> QED BY <1>2, <2>4
<1> QED BY <1>2, <1>3

LEMMA StepUnder ==
    ASSUME Base, Relied, NEW o \in Obj, NEW m \in Mailbox,
           mbx' = [mbx EXCEPT ![o] = m], Beside(k, k', o),
           psq' = psq \/ (psq # <<>> /\ psq' = Tail(psq)), mode' # "svc",
           k'.wait[o] # <<>> /\ m.state = 2 => \A i \in DOMAIN psq : psq[i].id # o
    PROVE  Under(psq', k'.wait, mbx', mode')
<1>1. mbx \in [Obj -> Mailbox] /\ Under(psq, k.wait, mbx, mode) /\ Requests
  BY DEF Relied, Typed, Base
<1>2. mbx'[o] = m /\ \A x \in Obj \ {o} : mbx'[x] = mbx[x]
  BY <1>1
<1>3. ASSUME NEW i \in DOMAIN psq
      PROVE  ~(k'.wait[psq[i].id] # <<>> /\ mbx'[psq[i].id].state = 2)
  <2>1. psq[i].id \in Obj
    BY <1>1, <1>3, PsqFields
  <2>2. CASE psq[i].id = o
    BY <1>2, <2>2
  <2>3. CASE psq[i].id # o
    BY <1>1, <1>2, <2>1, <2>3 DEF Under, Beside
  <2> QED BY <2>2, <2>3
<1>4. ASSUME NEW j \in DOMAIN psq' PROVE \E i \in DOMAIN psq : psq'[j] = psq[i]
  BY <1>1, <1>4, PsqFields
<1> QED BY <1>3, <1>4 DEF Under

-----------------------------------------------------------------------------
(***************************************************************************)
(* The programs that rely on the lists keep Relied, action by action.      *)
(***************************************************************************)
LEMMA LeavesBeside ==
    ASSUME NEW o \in Obj, \/ k' = k
                          \/ OInv /\ OInv' /\ FirstLeaves(k, k', o)
                          \/ Joins(k, k', o, k.run)
    PROVE  Beside(k, k', o)
  BY DEF Beside, FirstLeaves, Joins, OInv

LEMMA JoinedList ==
    ASSUME OInv, OInv', NEW o \in Obj, Joins(k, k', o, k.run)
    PROVE  k'.wait[o] # <<>>
<1>1. k.run \in ToSet(k'.wait[o])
  BY DEF Joins
<1> QED BY <1>1 DEF ToSet

LEMMA RingRelied ==
    ASSUME Base, Base', Relied, use # "any", use' = use, NEW o \in Obj, NEW m \in Mailbox,
           mbx' = [mbx EXCEPT ![o] = m], Well(use, k'.wait[o] = <<>>, m, free'),
           Beside(k, k', o), psq' = psq \/ (psq # <<>> /\ psq' = Tail(psq)), mode' # "svc",
           k'.wait[o] # <<>> /\ m.state = 2 => \A i \in DOMAIN psq : psq[i].id # o,
           use = "wait" => Patient(k'), free' \subseteq Message,
           holder' \in [Message -> Thread \cup {Isr, None}],
           msg' \in [Thread -> Word], got' \in [to : Thread, msg : Word] \cup {None}
    PROVE  Relied'
<1>1. /\ \A y \in Obj : Well(use', k'.wait[y] = <<>>, mbx'[y], free')
      /\ mbx' \in [Obj -> Mailbox]
  BY StepWell
<1>2. Under(psq', k'.wait, mbx', mode')
  BY StepUnder
<1>3. psq' \in Seq([id : Obj, arg : Word]) /\ (psq = <<>> => psq' = <<>>)
  <2> DEFINE S == [id : Obj, arg : Word]
  <2>1. psq \in Seq(S)
    BY DEF Relied, Typed
  <2> HIDE DEF S
  <2>2. psq # <<>> => Tail(psq) \in Seq(S)
    BY ONLY <2>1
  <2> QED BY <2>1, <2>2 DEF S
<1>4. Typed'
  BY <1>1, <1>3 DEF Relied, Typed
<1>5. use' = "wait" => psq' = <<>> /\ Patient(k')
  BY <1>3 DEF Relied
<1> QED BY <1>1, <1>2, <1>4, <1>5 DEF Relied

\* The rings and the lists are as they were.
LEMMA PoolRelied ==
    ASSUME Relied, use' = use, k' = k, mbx' = mbx, psq' = psq,
           mode' = "svc" => mode = "svc", free' \subseteq Message,
           holder' \in [Message -> Thread \cup {Isr, None}],
           msg' \in [Thread -> Word], got' \in [to : Thread, msg : Word] \cup {None},
           \A o \in Obj : Well(use, k.wait[o] = <<>>, mbx[o], free')
    PROVE  Relied'
<1>1. Typed'
  BY DEF Relied, Typed
<1>2. Under(psq, k.wait, mbx, mode')
  BY DEF Relied, Under
<1> QED BY <1>1, <1>2 DEF Relied

LEMMA PutRelied ==
    ASSUME Base, Relied, use # "any", NEW o \in Obj, NEW x \in Word, NEW n \in 0 .. Forever,
           MessagePut(o, x, n), use \in MailUses => n = 0, use' = use, free' = free,
           holder' \in [Message -> Thread \cup {Isr, None}]
    PROVE  Relied'
<1>1. /\ Base' /\ PutEnds(o, x, n) /\ psq' = psq /\ mode = "svc" /\ mode' = "thread"
  BY PutSteps
<1>2. /\ Typed /\ OInv /\ OInv' /\ Requests
      /\ mbx[o] \in Mailbox /\ Well(use, k.wait[o] = <<>>, mbx[o], free)
      /\ Under(psq, k.wait, mbx, mode)
      /\ use = "wait" => psq = <<>> /\ Patient(k)
  BY <1>1 DEF Base, Relied, Typed
<1>3. /\ k.run \in Thread
      /\ k.wait[o] # <<>> => First(o) \in Thread
  BY <1>2, ListFields
<1>4. ASSUME NEW m \in Mailbox, mbx' = [mbx EXCEPT ![o] = m],
             Well(use, k'.wait[o] = <<>>, m, free),
             Beside(k, k', o),
             k'.wait[o] # <<>> /\ m.state = 2 => \A i \in DOMAIN psq : psq[i].id # o,
             use = "wait" => k' = k,
             msg' \in [Thread -> Word], got' \in [to : Thread, msg : Word] \cup {None}
      PROVE  Relied'
  <2>1. mode' # "svc" /\ (use = "wait" => Patient(k')) /\ free' \subseteq Message
    BY <1>1, <1>2, <1>4 DEF Typed
  <2> QED BY <1>1, <1>4, <2>1, RingRelied
<1>5. mbx = [mbx EXCEPT ![o] = mbx[o]]
  BY <1>2 DEF Typed
<1>6. CASE /\ Receiving(o) /\ FirstLeaves(k, k', o) /\ mbx' = mbx /\ msg' = msg
           /\ got' = [to |-> First(o), msg |-> x]
  <2>1. use # "wait" /\ mbx[o].state = 1
    BY <1>2, <1>6 DEF Receiving, Well
  <2>2. Well(use, k'.wait[o] = <<>>, mbx[o], free)
    <3>1. (k.wait[o] = <<>>) => (k'.wait[o] = <<>>)
      BY <1>6 DEF FirstLeaves
    <3> QED BY ONLY <1>2, <2>1, <3>1, WellShrinks, ZenonT(30)
  <2>3. Beside(k, k', o)
    BY <1>2, <1>6, LeavesBeside
  <2>4. msg' \in [Thread -> Word] /\ got' \in [to : Thread, msg : Word] \cup {None}
    BY <1>2, <1>3, <1>6 DEF Typed, Receiving
  <2> QED BY <1>2, <1>4, <1>5, <1>6, <2>1, <2>2, <2>3, <2>4
<1>7. CASE /\ ~Receiving(o) /\ ~Full(mbx[o]) /\ k' = k /\ msg' = msg
           /\ mbx' = [mbx EXCEPT ![o] = Stored(@, x)] /\ got' = None
  <2> DEFINE m == Stored(mbx[o], x)
  <2>1. mbx[o].count # Size /\ (k.wait[o] = <<>> \/ mbx[o].state # 1)
    BY <1>7 DEF Full, Receiving
  <2>2. m \in Mailbox /\ m.state = mbx[o].state
    BY <1>2, <2>1, StoredFields
  <2>3. Well(use, k.wait[o] = <<>>, m, free)
    BY ONLY <1>2, <2>1, x \in Word, WellStored, ZenonT(30)
  <2>4. mbx' = [mbx EXCEPT ![o] = m]
    BY <1>7
  <2> HIDE DEF m
  <2>5. k.wait[o] # <<>> => m.state # 2
    BY <1>2, <2>1, <2>2 DEF Well
  <2>6. msg' \in [Thread -> Word] /\ got' \in [to : Thread, msg : Word] \cup {None}
    BY <1>2, <1>7 DEF Typed
  <2> QED BY <1>4, <1>7, <2>2, <2>3, <2>4, <2>5, <2>6, LeavesBeside
<1>8. CASE /\ ~Receiving(o) /\ Full(mbx[o]) /\ k' = k /\ mbx' = mbx /\ msg' = msg
           /\ got' = None
  <2>1. k.wait[o] # <<>> /\ mbx[o].state = 2 => \A i \in DOMAIN psq : psq[i].id # o
    BY <1>2 DEF Under
  <2>2. msg' \in [Thread -> Word] /\ got' \in [to : Thread, msg : Word] \cup {None}
    BY <1>2, <1>8 DEF Typed
  <2> QED BY <1>2, <1>4, <1>5, <1>8, <2>1, <2>2, LeavesBeside
<1>9. CASE /\ ~Receiving(o) /\ Full(mbx[o]) /\ n # 0 /\ Joins(k, k', o, k.run)
           /\ mbx' = [mbx EXCEPT ![o].state = Now(o, 2)]
           /\ msg' = [msg EXCEPT ![k.run] = x] /\ got' = None
  <2> DEFINE m == WaitsWith(mbx[o], k.wait[o] = <<>>, 2)
  <2>1. mbx[o].count = Size /\ use \notin MailUses /\ use # "wait"
    BY <1>9 DEF Full, MailUses
  <2>2. mbx' = [mbx EXCEPT ![o] = m]
    BY <1>2, <1>9 DEF Now, Typed, WaitsWith
  <2>3. Well(use, FALSE, m, free) /\ m \in Mailbox
    BY ONLY <1>2, <2>1, WellPutter, ZenonT(30)
  <2> HIDE DEF m
  <2>4. \A i \in DOMAIN psq : psq[i].id # o
    BY <1>1, <1>2, <2>1 DEF Under
  <2>5. k'.wait[o] # <<>> /\ Beside(k, k', o)
    BY <1>2, <1>9, JoinedList, LeavesBeside
  <2>6. msg' \in [Thread -> Word] /\ got' \in [to : Thread, msg : Word] \cup {None}
    BY <1>2, <1>3, <1>9 DEF Typed
  <2> QED BY <1>4, <2>1, <2>2, <2>3, <2>4, <2>5, <2>6
<1> QED BY <1>1, <1>6, <1>7, <1>8, <1>9 DEF PutEnds

LEMMA GetRelied ==
    ASSUME Base, Relied, use # "any", NEW o \in Obj, NEW n \in 0 .. Forever,
           MessageGet(o, n), use = "wait" => n = 0, use' = use, free' = free,
           holder' \in [Message -> Thread \cup {Isr, None}]
    PROVE  Relied'
<1>1. /\ Base' /\ GetEnds(o, n) /\ psq' = psq /\ mode' = "thread" /\ msg' = msg
  BY GetSteps
<1>2. /\ Typed /\ OInv /\ OInv' /\ mbx[o] \in Mailbox
      /\ Well(use, k.wait[o] = <<>>, mbx[o], free)
      /\ Under(psq, k.wait, mbx, mode)
      /\ use = "wait" => Patient(k)
      /\ msg' \in [Thread -> Word] /\ free' \subseteq Message /\ Requests
  BY <1>1 DEF Base, Relied, Typed
<1>3. k.run \in Thread /\ (k.wait[o] # <<>> => First(o) \in Thread)
  BY <1>2, ListFields
<1>4. ASSUME NEW m \in Mailbox, mbx' = [mbx EXCEPT ![o] = m],
             Well(use, k'.wait[o] = <<>>, m, free), Beside(k, k', o),
             k'.wait[o] # <<>> /\ m.state = 2 => \A i \in DOMAIN psq : psq[i].id # o,
             use = "wait" => k' = k, got' \in [to : Thread, msg : Word] \cup {None}
      PROVE  Relied'
  <2>1. mode' # "svc" /\ (use = "wait" => Patient(k'))
    BY <1>1, <1>2, <1>4
  <2> QED BY <1>1, <1>2, <1>4, <2>1, RingRelied
<1>5. CASE /\ mbx[o].count > 0 /\ ~Sending(o) /\ k' = k
           /\ mbx' = [mbx EXCEPT ![o] = Taken(@)]
           /\ got' = [to |-> k.run, msg |-> Oldest(mbx[o])]
  <2> DEFINE m == Taken(mbx[o])
  <2>1. k.wait[o] = <<>> \/ mbx[o].state # 2
    BY <1>5 DEF Sending
  <2>2. m \in Mailbox /\ m.state = mbx[o].state /\ Oldest(mbx[o]) \in Word
    BY <1>2, <1>5, TakenFields
  <2>3. Well(use, k.wait[o] = <<>>, m, free)
    BY ONLY <1>2, <1>5, <2>1, WellTaken, ZenonT(30)
  <2>4. mbx' = [mbx EXCEPT ![o] = m]
    BY <1>5
  <2> HIDE DEF m
  <2> QED BY <1>3, <1>4, <1>5, <2>1, <2>2, <2>3, <2>4, LeavesBeside
<1>6. CASE /\ mbx[o].count > 0 /\ Sending(o) /\ FirstLeaves(k, k', o)
           /\ mbx' = [mbx EXCEPT ![o] = FromSender(o, Taken(@))]
           /\ got' = [to |-> k.run, msg |-> Oldest(mbx[o])]
  <2> DEFINE x == msg[First(o)]
             m == Stored(Taken(mbx[o]), x)
             d == k'.wait[o] = <<>>
  <2>1. k.wait[o] # <<>> /\ mbx[o].state = 2 /\ use # "wait"
    BY <1>2, <1>6 DEF Sending, Well
  <2>2. x \in Word /\ Oldest(mbx[o]) \in Word
    BY <1>2, <1>3, <1>6, <2>1, TakenFields DEF Typed
  <2>3. Well(use, FALSE, mbx[o], free) /\ d \in BOOLEAN
    BY <1>2, <2>1
  <2> HIDE DEF x, d
  <2>4. Well(use, d, m, free) /\ m \in Mailbox
    BY ONLY <1>2, <1>6, <2>1, <2>2, <2>3, WellRefilled, ZenonT(30)
  <2>5. mbx' = [mbx EXCEPT ![o] = m]
    BY <1>6 DEF FromSender, x
  <2>6. \A i \in DOMAIN psq : psq[i].id # o
    BY <1>2, <2>1 DEF Under
  <2> HIDE DEF m
  <2>7. Beside(k, k', o)
    BY <1>2, <1>6, LeavesBeside
  <2> QED BY <1>3, <1>4, <1>6, <2>1, <2>2, <2>4, <2>5, <2>6, <2>7 DEF d
<1>7. CASE ~(mbx[o].count > 0) /\ k' = k /\ mbx' = mbx /\ got' = None
  <2>1. k.wait[o] # <<>> /\ mbx[o].state = 2 => \A i \in DOMAIN psq : psq[i].id # o
    BY <1>2 DEF Under
  <2>2. mbx' = [mbx EXCEPT ![o] = mbx[o]]
    BY <1>2, <1>7 DEF Typed
  <2> QED BY <1>2, <1>4, <1>7, <2>1, <2>2, LeavesBeside
<1>8. CASE /\ ~(mbx[o].count > 0) /\ n # 0 /\ Joins(k, k', o, k.run)
           /\ mbx' = [mbx EXCEPT ![o].state = Now(o, 1)] /\ got' = None
  <2> DEFINE m == WaitsWith(mbx[o], k.wait[o] = <<>>, 1)
  <2>1. mbx[o].count = 0 /\ use # "wait"
    BY <1>2, <1>8, MailboxFields
  <2>2. mbx' = [mbx EXCEPT ![o] = m]
    BY <1>2, <1>8 DEF Now, Typed, WaitsWith
  <2>3. Well(use, FALSE, m, free) /\ m \in Mailbox /\ m.state = 1
    BY ONLY <1>2, <2>1, WellGetter, ZenonT(30)
  <2> HIDE DEF m
  <2>4. k'.wait[o] # <<>> /\ Beside(k, k', o)
    BY <1>2, <1>8, JoinedList, LeavesBeside
  <2>5. Well(use, k'.wait[o] = <<>>, m, free)
    BY <2>3, <2>4 DEF Well
  <2>6. m.state # 2
    BY <2>3
  <2> QED BY <1>4, <1>8, <2>1, <2>2, <2>3, <2>4, <2>5, <2>6
<1> QED BY <1>1, <1>5, <1>6, <1>7, <1>8 DEF GetEnds

\* An interrupt puts: its request finds the ring as it is, or fuller.
LEMMA IsrPutRelied ==
    ASSUME Base, Relied, use # "any", use # "wait", NEW o \in Obj, NEW x \in Word,
           IsrMessagePut(o, x), use' = use, free' = free,
           holder' \in [Message -> Thread \cup {Isr, None}]
    PROVE  Relied'
<1> DEFINE e == [id |-> o, arg |-> x]
<1>1. Enqueued(e) /\ ~Full(mbx[o]) /\ mbx' = mbx /\ msg' = msg /\ got' = None
  BY EnqSteps DEF IsrMessagePut
<1>2. /\ Typed /\ mbx[o] \in Mailbox /\ Well(use, k.wait[o] = <<>>, mbx[o], free)
      /\ Under(psq, k.wait, mbx, mode)
      /\ \A y \in Obj : Well(use, k.wait[y] = <<>>, mbx[y], free)
  BY DEF Relied, Typed
<1>3. CASE psq' = psq /\ mode' = "os_error"
  <2>1. k' = k /\ free' \subseteq Message /\ msg' \in [Thread -> Word] /\ got' = None
    BY <1>1, <1>2 DEF Enqueued, Typed
  <2> QED BY <1>1, <1>2, <1>3, <2>1, PoolRelied
<1>4. CASE psq' = Append(psq, e) /\ mode' = mode
  <2> DEFINE S == [id : Obj, arg : Word]
  <2>1. psq \in Seq(S) /\ e \in S /\ e.id = o
    BY <1>2 DEF Typed
  <2> HIDE DEF S, e
  <2>2. /\ psq' \in Seq(S)
        /\ \A i \in DOMAIN psq' : (i \in DOMAIN psq /\ psq'[i] = psq[i]) \/ psq'[i] = e
    BY ONLY <1>4, <2>1
  <2>3. ~(k.wait[o] # <<>> /\ mbx[o].state = 2) /\ mbx[o].count # Size
    BY <1>1, <1>2 DEF Full, Well
  <2>4. Under(psq', k.wait, mbx, mode)
    BY <1>2, <2>1, <2>2, <2>3 DEF Under
  <2>5. k' = k
    BY <1>1 DEF Enqueued
  <2>6. Typed'
    BY <1>1, <1>2, <2>2 DEF Typed, S
  <2> QED BY <1>1, <1>2, <1>4, <2>4, <2>5, <2>6 DEF Relied
<1> QED BY <1>1, <1>3, <1>4 DEF Enqueued

LEMMA PopRelied ==
    ASSUME Base, Relied, use # "any", PopMessage, use' = use, free' = free,
           holder' \in [Message -> Thread \cup {Isr, None}]
    PROVE  Relied'
<1> DEFINE o == Head(psq).id
           x == Head(psq).arg
<1>1. /\ Base' /\ psq # <<>> /\ mode = "pop" /\ o \in Obj /\ msg' = msg
      /\ \/ psq' = Tail(psq) /\ mode' = mode /\ PopEnds(o, x)
         \/ /\ psq' = psq /\ mode' = "os_error" /\ k' = k /\ mbx' = mbx
            /\ Full(mbx[o]) /\ k.wait[o] = <<>> /\ got' = None
  BY PopSteps
<1>2. /\ Typed /\ OInv /\ OInv' /\ mbx[o] \in Mailbox /\ Requests
      /\ Well(use, k.wait[o] = <<>>, mbx[o], free) /\ use # "wait"
      /\ Under(psq, k.wait, mbx, mode)
      /\ msg' \in [Thread -> Word] /\ free' \subseteq Message
      /\ \A y \in Obj : Well(use, k.wait[y] = <<>>, mbx[y], free)
  BY <1>1 DEF Base, Relied, Typed
<1>3. /\ 1 \in DOMAIN psq /\ Head(psq) = psq[1] /\ x \in Word
      /\ k.wait[o] # <<>> => First(o) \in Thread
  <2>1. 1 \in DOMAIN psq /\ Head(psq) = psq[1]
    BY <1>1, <1>2, PsqFields
  <2> DEFINE S == [id : Obj, arg : Word]
  <2>2. psq \in Seq(S)
    BY <1>2 DEF Typed
  <2> HIDE DEF S
  <2>3. psq[1] \in S
    BY ONLY <2>1, <2>2
  <2> QED BY <1>1, <1>2, <2>1, <2>3, ListFields DEF S
<1>4. ~(k.wait[o] # <<>> /\ mbx[o].state = 2)
  BY <1>2, <1>3 DEF Under
<1>5. CASE psq' = psq /\ mode' = "os_error" /\ k' = k /\ mbx' = mbx /\ got' = None
  BY <1>2, <1>5, PoolRelied
<1> HIDE DEF o, x
<1>6. ASSUME NEW m \in Mailbox, mbx' = [mbx EXCEPT ![o] = m], psq' = Tail(psq),
             Well(use, k'.wait[o] = <<>>, m, free), FirstLeaves(k, k', o), mode' = mode,
             m.state = mbx[o].state, got' \in [to : Thread, msg : Word] \cup {None}
      PROVE  Relied'
  <2>1. Beside(k, k', o) /\ (k'.wait[o] # <<>> => k.wait[o] # <<>>)
    BY <1>1, <1>2, <1>6, LeavesBeside DEF FirstLeaves
  <2>2. k'.wait[o] # <<>> /\ m.state = 2 => \A i \in DOMAIN psq : psq[i].id # o
    BY <1>4, <1>6, <2>1
  <2>3. mode' # "svc" /\ (psq' = psq \/ (psq # <<>> /\ psq' = Tail(psq)))
    BY <1>1, <1>6
  <2> QED BY <1>1, <1>2, <1>6, <2>1, <2>2, <2>3, RingRelied
<1>7. CASE /\ psq' = Tail(psq) /\ mode' = mode /\ k.wait[o] = <<>> /\ ~Full(mbx[o])
           /\ k' = k /\ mbx' = [mbx EXCEPT ![o] = Stored(@, x)] /\ got' = None
  <2> DEFINE m == Stored(mbx[o], x)
  <2>1. mbx[o].count # Size /\ (k.wait[o] = <<>> \/ mbx[o].state # 1)
    BY <1>7 DEF Full
  <2>2. m \in Mailbox /\ m.state = mbx[o].state
    BY <1>2, <1>3, <2>1, StoredFields
  <2>3. Well(use, k.wait[o] = <<>>, m, free)
    BY ONLY <1>2, <1>3, <2>1, WellStored, ZenonT(30)
  <2>4. mbx' = [mbx EXCEPT ![o] = m]
    BY <1>7
  <2> HIDE DEF m
  <2>5. FirstLeaves(k, k', o)
    BY <1>7 DEF FirstLeaves, Shrinks, SameTable
  <2> QED BY <1>6, <1>7, <2>2, <2>3, <2>4, <2>5
<1>8. CASE /\ psq' = Tail(psq) /\ mode' = mode /\ Receiving(o) /\ FirstLeaves(k, k', o)
           /\ mbx' = mbx /\ got' = [to |-> First(o), msg |-> x]
  <2>1. mbx' = [mbx EXCEPT ![o] = mbx[o]] /\ (k.wait[o] = <<>> => k'.wait[o] = <<>>)
    BY <1>2, <1>8 DEF Typed, FirstLeaves
  <2>2. Well(use, k'.wait[o] = <<>>, mbx[o], free)
    BY ONLY <1>2, <2>1, WellShrinks, ZenonT(30)
  <2>3. got' \in [to : Thread, msg : Word]
    BY <1>3, <1>8 DEF Receiving
  <2> QED BY <1>2, <1>6, <1>8, <2>1, <2>2, <2>3
<1>9. CASE /\ k.wait[o] # <<>> /\ ~Receiving(o)
           /\ Sending(o) \/ (~Sending(o) /\ mbx[o].state # 3)
  BY <1>2, <1>4, <1>9 DEF Well, Receiving, Sending
<1> QED BY <1>1, <1>5, <1>7, <1>8, <1>9 DEF PopEnds, Receiving, Sending

-----------------------------------------------------------------------------
\* A block that is given away leaves no list waiting for memory; one that
\* comes back finds none.
LEMMA WellShort ==
    ASSUME NEW u, NEW e, NEW m, NEW f, NEW b \in f, Well(u, e, m, f), u \in MailUses
    PROVE  Well(u, e, m, f \ {b})
  BY DEF Well

LEMMA WellPlenty ==
    ASSUME NEW u, NEW e, NEW m, NEW f, NEW g, Well(u, e, m, f), m.state # 3
    PROVE  Well(u, e, m, g)
  BY DEF Well

\* A block is given to h: from the free list, or from another holder.
LEMMA HolderTyped ==
    ASSUME Typed, NEW b, NEW h \in Thread \cup {Isr, None}, holder' = [holder EXCEPT ![b] = h]
    PROVE  holder' \in [Message -> Thread \cup {Isr, None}]
  BY DEF Typed

LEMMA AllocRelied ==
    ASSUME Base, Relied, NEW o \in Obj, NEW n \in AllocTimeouts, use \in MailUses,
           MailAlloc(o, n), got' = None, use' = use
    PROVE  Relied'
<1>0. n \in 0 .. Forever
  BY CallTimeouts
<1>1. /\ Base' /\ AllocEnds(o, n) /\ psq' = psq /\ msg' = msg
      /\ mode = "svc" /\ mode' = "thread"
  BY <1>0, AllocSteps
<1>2. /\ Typed /\ OInv /\ OInv' /\ mbx[o] \in Mailbox /\ use # "any"
      /\ \A y \in Obj : Well(use, k.wait[y] = <<>>, mbx[y], free)
      /\ Under(psq, k.wait, mbx, mode)
      /\ use = "wait" => psq = <<>> /\ Patient(k)
      /\ msg' \in [Thread -> Word] /\ free \subseteq Message
      /\ holder \in [Message -> Thread \cup {Isr, None}]
  BY <1>1 DEF Base, Relied, Typed, MailUses
<1>3. k.run \in Thread
  BY <1>2, ListFields
<1>4. CASE k' = k /\ mbx' = mbx /\ \E b \in free : AllocBox(b, k.run)
  <2>1. PICK b \in free : free' = free \ {b} /\ holder' = [holder EXCEPT ![b] = k.run]
    BY <1>4 DEF AllocBox
  <2>2. \A y \in Obj : Well(use, k.wait[y] = <<>>, mbx[y], free')
    BY <1>2, <2>1, WellShort
  <2>3. holder' \in [Message -> Thread \cup {Isr, None}] /\ free' \subseteq Message
    BY <1>2, <1>3, <2>1
  <2> QED BY <1>1, <1>2, <1>4, <2>2, <2>3, PoolRelied
<1>5. CASE k' = k /\ mbx' = mbx /\ UNCHANGED blockVars
  BY <1>1, <1>2, <1>5, PoolRelied DEF blockVars
<1>6. CASE /\ n # 0 /\ free = {} /\ Joins(k, k', o, k.run)
           /\ n = Forever => k'.dly = k.dly
           /\ mbx' = [mbx EXCEPT ![o].state = Now(o, 3)] /\ UNCHANGED blockVars
  <2> DEFINE e == k.wait[o] = <<>>
             m == WaitsWith(mbx[o], e, 3)
  <2>1. use = "wait" /\ n = Forever
    BY <1>6 DEF AllocTimeouts, MailUses
  <2>2. mbx' = [mbx EXCEPT ![o] = m]
    BY <1>2, <1>6 DEF Now, Typed, WaitsWith
  <2>3. Well("wait", e, mbx[o], free) /\ e \in BOOLEAN
    BY <1>2, <2>1
  <2> HIDE DEF e
  <2>4. Well("wait", FALSE, m, free) /\ m \in Mailbox
    BY ONLY <1>2, <1>6, <2>3, WellAllocator, ZenonT(30)
  <2> HIDE DEF m
  <2>5. k'.wait[o] # <<>> /\ Beside(k, k', o)
    BY <1>2, <1>6, JoinedList, LeavesBeside
  <2>6. Well(use, k'.wait[o] = <<>>, m, free') /\ m.state # 2
    BY <1>6, <2>1, <2>4, <2>5 DEF Well, blockVars
  <2>7. Patient(k')
    <3>1. k.run \notin ToSet(k.dly)
      <4>1. Sound(k) /\ Running(k)
        BY <1>1, <1>2 DEF OInv, InThread
      <4> QED BY <4>1, KernelAssumption, RunningApart DEF Running
    <3>2. k'.dly = k.dly /\ Patient(k)
      BY <1>2, <1>6, <2>1
    <3>3. \A y \in Obj : ToSet(k'.wait[y]) \subseteq ToSet(k.wait[y]) \cup {k.run}
      BY <1>6 DEF Joins
    <3> QED BY <3>1, <3>2, <3>3 DEF Patient
  <2>8. /\ mode' # "svc" /\ got' = None /\ free' \subseteq Message
        /\ holder' \in [Message -> Thread \cup {Isr, None}]
    BY <1>1, <1>2, <1>6 DEF blockVars
  <2> QED BY <1>1, <1>2, <2>2, <2>4, <2>5, <2>6, <2>7, <2>8, RingRelied
<1> QED BY <1>1, <1>4, <1>5, <1>6 DEF AllocEnds

LEMMA IsrAllocRelied ==
    ASSUME Relied, use \in MailUses, IsrMailAlloc, got' = None, use' = use
    PROVE  Relied'
<1>1. PICK b \in free : free' = free \ {b} /\ holder' = [holder EXCEPT ![b] = Isr]
  BY DEF IsrMailAlloc, AllocBox
<1>2. k' = k /\ psq' = psq /\ mode' = mode /\ mbx' = mbx /\ msg' = msg
  BY DEF IsrMailAlloc, kernelVars
<1>3. /\ \A y \in Obj : Well(use, k.wait[y] = <<>>, mbx[y], free)
      /\ free \subseteq Message /\ holder \in [Message -> Thread \cup {Isr, None}]
      /\ msg' \in [Thread -> Word]
  BY <1>2 DEF Relied, Typed
<1>4. \A y \in Obj : Well(use, k.wait[y] = <<>>, mbx[y], free')
  BY <1>1, <1>3, WellShort
<1>5. holder' \in [Message -> Thread \cup {Isr, None}] /\ free' \subseteq Message
  BY <1>1, <1>3
<1> QED BY <1>2, <1>3, <1>4, <1>5, PoolRelied

LEMMA FreeRelied ==
    ASSUME Base, Relied, NEW o \in Obj, NEW b \in Message, use \in MailUses,
           MailFree(o, b), got' = None, use' = use
    PROVE  Relied'
<1>1. /\ Base' /\ FreeEnds(o, b) /\ psq' = psq /\ msg' = msg /\ mode = "svc"
  BY FreeSteps
<1>2. /\ Typed /\ OInv /\ OInv' /\ mbx[o] \in Mailbox /\ use # "any" /\ use \in Uses
      /\ \A y \in Obj : Well(use, k.wait[y] = <<>>, mbx[y], free)
      /\ use = "wait" => psq = <<>> /\ Patient(k)
      /\ msg' \in [Thread -> Word] /\ free \subseteq Message
      /\ holder \in [Message -> Thread \cup {Isr, None}]
  BY <1>1 DEF Base, Relied, Typed, MailUses
<1>3. \A x, y \in Obj : x = y
  BY <1>2, OneMailbox
<1>4. CASE mbx[o].state # 3 /\ k' = k /\ mbx' = mbx /\ FreeBox(b) /\ mode' = "thread"
  <2>1. free' = free \cup {b} /\ holder' = [holder EXCEPT ![b] = None]
    BY <1>4 DEF FreeBox
  <2>2. \A y \in Obj : Well(use, k.wait[y] = <<>>, mbx[y], free')
    BY <1>2, <1>3, <1>4, WellPlenty
  <2>3. holder' \in [Message -> Thread \cup {Isr, None}] /\ free' \subseteq Message
    BY <1>2, <2>1
  <2> QED BY <1>1, <1>2, <1>4, <2>2, <2>3, PoolRelied
<1>5. CASE /\ mbx[o].state = 3 /\ k.wait[o] # <<>> /\ FirstLeaves(k, k', o)
           /\ ToSet(k'.dly) \subseteq ToSet(k.dly)
           /\ mbx' = HandMemory(o) /\ free' = free
           /\ holder' = [holder EXCEPT ![b] = First(o)] /\ mode' = "thread"
  <2> DEFINE s == IF Tail(k.wait[o]) = <<>> THEN 0 ELSE mbx[o].state
             m == [mbx[o] EXCEPT !.state = s]
  <2>1. use = "wait" /\ First(o) \in Thread
    BY <1>2, <1>5, ListFields DEF Well
  <2>2. mbx' = [mbx EXCEPT ![o] = m]
    BY <1>2, <1>5 DEF HandMemory, Typed
  <2>3. k'.wait[o] = Tail(k.wait[o])
    BY <1>5 DEF FirstLeaves
  <2>4. /\ s \in {0, 3} /\ (s = 3 => k'.wait[o] # <<>>)
        /\ k'.wait[o] # <<>> => s = 3
    BY <1>5, <2>3
  <2> HIDE DEF s
  <2>5. /\ m \in Mailbox /\ m.state = s /\ m.first = mbx[o].first
        /\ m.last = mbx[o].last /\ m.count = mbx[o].count
    BY <1>2, <2>4 DEF Mailbox
  <2> HIDE DEF m
  <2>6. Well(use, k'.wait[o] = <<>>, m, free')
    BY <1>2, <1>5, <2>1, <2>4, <2>5 DEF Well, MailUses
  <2>7. Patient(k')
    BY <1>2, <1>5, <2>1 DEF Patient, FirstLeaves, Shrinks
  <2>8. holder' \in [Message -> Thread \cup {Isr, None}] /\ free' \subseteq Message
    BY <1>2, <1>5, <2>1
  <2>9. m.state # 2 /\ mode' # "svc" /\ Beside(k, k', o)
    BY <1>2, <1>5, <2>4, <2>5, LeavesBeside
  <2> QED BY <1>1, <1>2, <2>2, <2>5, <2>6, <2>7, <2>8, <2>9, RingRelied
<1>6. CASE mbx[o].state = 3 /\ k.wait[o] = <<>>
  BY <1>2, <1>6 DEF Well
<1> QED BY <1>1, <1>4, <1>5, <1>6 DEF FreeEnds

LEMMA IsrFreeRelied ==
    ASSUME Base, Relied, NEW o \in Obj, NEW b \in Message, use \in MailUses, use # "wait",
           IsrMailFree(o, b), got' = None, use' = use
    PROVE  Relied'
<1>1. /\ \A y \in Obj : Well(use, k.wait[y] = <<>>, mbx[y], free)
      /\ free \subseteq Message /\ holder \in [Message -> Thread \cup {Isr, None}]
      /\ msg \in [Thread -> Word]
  BY DEF Relied, Typed
<1>2. \A y \in Obj : mbx[y].state # 3
  BY <1>1 DEF Well
<1>3. /\ k' = k /\ psq' = psq /\ mode' = mode /\ mbx' = mbx /\ msg' = msg
      /\ free' = free \cup {b} /\ holder' = [holder EXCEPT ![b] = None]
  BY <1>2, IsrFreeSteps DEF FreeBox
<1>4. \A y \in Obj : Well(use, k.wait[y] = <<>>, mbx[y], free')
  BY <1>1, <1>2, WellPlenty
<1>5. holder' \in [Message -> Thread \cup {Isr, None}] /\ free' \subseteq Message
  BY <1>1, <1>3
<1> QED BY <1>1, <1>3, <1>4, <1>5, PoolRelied

-----------------------------------------------------------------------------
(***************************************************************************)
(* While nobody ends, those who wait for ever in a list stay there.        *)
(***************************************************************************)
\* What moves threads to the processor and the ready list leaves os_dly alone.
LEMMA DelaysStay ==
    ASSUME NEW s, "dly" \in DOMAIN s, NEW t
    PROVE  /\ "dly" \in DOMAIN PutRdy(s, t) /\ PutRdy(s, t).dly = s.dly
           /\ "dly" \in DOMAIN PutRdyFirst(s, t) /\ PutRdyFirst(s, t).dly = s.dly
           /\ "dly" \in DOMAIN SwitchToFirst(s) /\ SwitchToFirst(s).dly = s.dly
           /\ "dly" \in DOMAIN ResortPrio(s, t) /\ ResortPrio(s, t).dly = s.dly
  BY DEF PutRdy, PutRdyFirst, SwitchToFirst, ResortPrio

LEMMA TurnsStay ==
    ASSUME NEW s, "dly" \in DOMAIN s, NEW t
    PROVE  /\ Dispatch(s, t).dly = s.dly /\ Preempted(s).dly = s.dly
           /\ RobinSwap(s).dly = s.dly /\ DecDly(s).dly = s.dly
           /\ "dly" \in DOMAIN RobinSwap(s)
<1>1. Dispatch(s, t).dly = s.dly
  <2> DEFINE v == PutRdyFirst(s, s.run)
  <2>1. "dly" \in DOMAIN v /\ v.dly = s.dly
    BY DelaysStay
  <2> HIDE DEF v
  <2>2. [v EXCEPT !.run = t, !.state[t] = "RUNNING"].dly = v.dly
    BY <2>1
  <2> QED BY <2>1, <2>2, DelaysStay DEF Dispatch, v
<1>2. Preempted(s).dly = s.dly
  <2> DEFINE v == PutRdy(s, s.run)
  <2>1. "dly" \in DOMAIN v /\ v.dly = s.dly
    BY DelaysStay
  <2> HIDE DEF v
  <2>2. SwitchToFirst(v).dly = v.dly
    BY <2>1, DelaysStay
  <2> QED BY <2>1, <2>2 DEF Preempted, StepBack, v
<1> QED BY <1>1, <1>2 DEF RobinSwap, DecDly

LEMMA PrioStays ==
    ASSUME NEW s, "dly" \in DOMAIN s, NEW id, NEW p
    PROVE  TskPrio(s, id, p).dly = s.dly
<1> DEFINE t == s.active[id]
           u == [s EXCEPT !.prio[t] = p]
           v == ResortPrio(u, t)
           w == [v EXCEPT !.rdy = Tail(@)]
<1>1. "dly" \in DOMAIN u /\ u.dly = s.dly
  OBVIOUS
<1> HIDE DEF t, u
<1>2. "dly" \in DOMAIN v /\ v.dly = s.dly
  BY <1>1, DelaysStay
<1> HIDE DEF v
<1>3. "dly" \in DOMAIN w /\ w.dly = s.dly
  BY <1>2
<1> HIDE DEF w
<1>4. Preempted(u).dly = s.dly /\ Dispatch(w, Head(v.rdy)).dly = s.dly
  BY <1>1, <1>3, TurnsStay
<1> QED BY <1>2, <1>4 DEF TskPrio, t, u, v, w

LEMMA ElsewherePatient ==
    ASSUME OInv, OInv', Elsewhere, OneLeaves(k, k'), Patient(k), k'.active = k.active
    PROVE  /\ ToSet(k'.dly) \subseteq ToSet(k.dly) \cup {k.run}
           /\ SameWaiters(k, k')
<1>1. /\ Sound(k) /\ k \in KernelRecord /\ "dly" \in DOMAIN k
      /\ k.tid \in [Thread -> 0 .. MaxTaskRun] /\ MaxTaskRun \in Nat
      /\ k.active \in [1 .. MaxTaskRun -> Thread \cup {None}]
  <2>1. Sound(k) /\ k \in KernelRecord /\ MaxTaskRun \in Nat
    BY KernelAssumption DEF OInv, Sound, KernelAssumption
  <2> QED BY <2>1 DEF KernelRecord
<1>2. CASE SvcEnter \/ Die
  BY <1>2 DEF SvcEnter, Die, kernelVars, SameWaiters
<1>3. CASE TickEnter
  <2> DEFINE s == PutRdyFirst(k, k.run)
  <2>1. k' = DecDly(IF RobinExpired(s) THEN RobinSwap(s) ELSE s)
    BY <1>3 DEF TickEnter
  <2>2. "dly" \in DOMAIN s /\ s.dly = k.dly
    BY <1>1, DelaysStay
  <2> HIDE DEF s
  <2>3. k'.dly = k.dly
    <3>1. "dly" \in DOMAIN RobinSwap(s) /\ RobinSwap(s).dly = s.dly
      BY <2>2, TurnsStay
    <3> QED BY <2>1, <2>2, <3>1, TurnsStay
  <2> QED BY <1>3, <2>3, TickEnterKeeps DEF Steady
<1>4. CASE TickTimeout
  <2> DEFINE t == Head(k.dly)
  <2>1. k.dly # <<>> /\ k' = TimedOut(k)
    BY <1>4 DEF TickTimeout, TimeoutDue, TimedOut
  <2>2. t \in ToSet(k.dly) /\ t \in Thread /\ t \in Living(k)
    <3> DEFINE r == [k EXCEPT !.dly = Tail(@)]
    <3>1. t \in ToSet(k.dly) /\ t \in Thread
      BY <1>1, <2>1, KernelAssumption, TakeDelaySound
    <3> QED BY <3>1 DEF OInv, Listed
  <2>3. Consistent(k, Living(k)) /\ Living(k) \in SUBSET Thread
    BY DEF OInv, Consistent, Living
  <2>4. Leaves(k, k', t)
    BY <2>1, <2>3, KernelAssumption, TimeoutListed
  <2>5. \A o \in Obj : t \notin ToSet(k.wait[o])
    BY <2>2 DEF Patient
  <2>6. SameWaiters(k, k')
    BY <2>4, <2>5 DEF Leaves, SameWaiters
  <2>7. k'.dly = Tail(k.dly)
    <3> DEFINE u == IF k.rlnk[t] = None THEN k
                    ELSE [k EXCEPT !.wait[k.rlnk[t]] = Unlink(@, t), !.rlnk[t] = None]
               v == PutRdy(u, t)
    <3>1. "dly" \in DOMAIN u /\ u.dly = k.dly
      BY <1>1
    <3> HIDE DEF u
    <3>2. "dly" \in DOMAIN v /\ v.dly = k.dly
      BY <3>1, DelaysStay
    <3>3. k' = [v EXCEPT !.dly = Tail(@)]
      BY <2>1 DEF TimedOut, u
    <3> HIDE DEF v
    <3> QED BY <3>2, <3>3
  <2>8. ToSet(Tail(k.dly)) \subseteq ToSet(k.dly)
    <3>1. k.dly \in Seq(Thread)
      BY <1>1, KernelAssumption, SoundFields
    <3> QED BY <2>1, <3>1 DEF ToSet
  <2> QED BY <2>6, <2>7, <2>8
<1>5. CASE TickExit \/ PopExit
  <2>1. k' = SwitchToFirst(k)
    BY <1>5 DEF TickExit, PopExit
  <2>2. k'.dly = k.dly /\ k'.wait = k.wait
    BY <1>1, <2>1, DelaysStay DEF SwitchToFirst, KernelRecord
  <2> QED BY <2>2 DEF SameWaiters
<1>6. CASE PopEnter
  <2>1. k' = PutRdyFirst(k, k.run)
    BY <1>6 DEF PopEnter
  <2>2. k'.dly = k.dly /\ k'.wait = k.wait
    BY <1>1, <2>1, DelaysStay DEF PutRdyFirst, KernelRecord
  <2> QED BY <2>2 DEF SameWaiters
<1>7. CASE ThreadYield
  <2>1. SameWaiters(k, k')
    BY <1>7, YieldKeeps DEF Steady
  <2>2. k' = TskPass(k) /\ mode = "svc"
    BY <1>7 DEF ThreadYield, SvcReturn
  <2>3. SameDelay(k, TskPass(k))
    <3>1. Sound(k) /\ Running(k) /\ k.run # Idle
      BY <2>2 DEF OInv, InThread
    <3> QED BY <3>1, KernelAssumption, TskPassSound
  <2> QED BY <2>1, <2>2, <2>3 DEF SameDelay
<1>8. CASE \E n \in Delays : Delay(n)
  <2>1. PICK n \in Delays : Delay(n)
    BY <1>8
  <2> DEFINE b == "WAIT_DLY"
  <2>2. SameWaiters(k, k') /\ mode = "svc" /\ k' = Block(k, n, b)
    BY <2>1, DelayKeeps DEF Steady, Delay, SvcReturn
  <2>3. /\ Sound(k) /\ Running(k) /\ Due(k) /\ k.run # Idle /\ n \in 0 .. Forever
        /\ b \in WaitState /\ Living(k) \in SUBSET Thread /\ Homed(k, Living(k))
    BY <2>2, ObjectsAssumption DEF OInv, InThread, ObjectsAssumption, WaitState, Living
  <2> HIDE DEF b
  <2>4. Blocked(k, k', n, b)
    BY <2>2, <2>3, KernelAssumption, BlockMoves
  <2> QED BY <2>2, <2>4 DEF Blocked
<1>9. CASE \E t \in Thread, p \in Prios : ThreadSetPriority(t, p)
  <2>1. PICK t \in Thread, p \in Prios : ThreadSetPriority(t, p)
    BY <1>9
  <2>2. SameWaiters(k, k') /\ k' = TskPrio(k, k.tid[t], p)
    BY <2>1, SetPriorityKeeps DEF ThreadSetPriority, SvcReturn
  <2>3. k'.dly = k.dly
    BY <1>1, <2>2, PrioStays
  <2> QED BY <2>2, <2>3
<1>10. CASE \E t \in Thread : ThreadTerminate(t)
  <2>1. PICK t \in Thread : ThreadTerminate(t)
    BY <1>10
  <2>2. /\ Living(k)' = Living(k) \ {t} /\ k'.active = k.active
        /\ Active(t) /\ t # None /\ t # Idle
    BY <2>1, TerminateKeeps, KernelAssumption, ObjectsAssumption
       DEF ThreadTerminate, KernelAssumption, ObjectsAssumption
  <2>3. k'.tid = k.tid
    BY <1>1, <2>1 DEF ThreadTerminate, SvcReturn, TskDelete, TskDeleteSelf,
                      TskDeleteOther, SwitchToFirst, RmvDly, RmvList, KernelRecord
  <2> QED BY <2>2, <2>3 DEF Living, Active
<1> QED BY <1>2, <1>3, <1>4, <1>5, <1>6, <1>7, <1>8, <1>9, <1>10
        DEF Elsewhere, KernelStep, Control

LEMMA ElsewhereRelied ==
    ASSUME Base, Relied, use # "any", Elsewhere, use' = use, UNCHANGED blockVars,
           use = "wait" => k'.active = k.active
    PROVE  Relied'
<1>1. /\ Base' /\ OneLeaves(k, k') /\ psq' = psq /\ mbx' = mbx /\ msg' = msg
      /\ got' = None /\ free' = free /\ holder' = holder /\ (mode' = "svc" => psq = <<>>)
  BY ElsewhereSteps DEF blockVars
<1>2. /\ Typed /\ OInv /\ OInv'
      /\ \A o \in Obj : Well(use, k.wait[o] = <<>>, mbx[o], free)
      /\ Under(psq, k.wait, mbx, mode)
      /\ use = "wait" => psq = <<>> /\ Patient(k)
  BY <1>1 DEF Base, Relied
<1>3. \A o \in Obj : /\ k.wait[o] \in Seq(Thread) /\ k'.wait[o] \in Seq(Thread)
                     /\ k.run \notin ToSet(k.wait[o])
  <2>1. Sound(k') /\ Sound(k)
    BY <1>2 DEF OInv
  <2>2. \A o \in Obj : k'.wait[o] \in Seq(Thread)
    BY <2>1, KernelAssumption, WaitFields
  <2> QED BY <1>2, <2>2, ListFields
<1>4. ASSUME NEW o \in Obj, k.wait[o] = <<>> PROVE k'.wait[o] = <<>>
  <2>1. ToSet(k'.wait[o]) \subseteq ToSet(k.wait[o])
    BY <1>1, OneLeavesShrinks DEF Shrinks
  <2> QED BY <1>3, <1>4, <2>1, NoMembers
<1>5. CASE use # "wait"
  <2>1. ASSUME NEW o \in Obj PROVE Well(use, k'.wait[o] = <<>>, mbx[o], free)
    <3>1. /\ Well(use, k.wait[o] = <<>>, mbx[o], free)
          /\ (k.wait[o] = <<>>) => (k'.wait[o] = <<>>)
      BY <1>2, <1>4
    <3> QED BY ONLY <1>5, <3>1, WellShrinks, ZenonT(30)
  <2>2. Under(psq, k'.wait, mbx, mode')
    <3>1. \A i \in DOMAIN psq : psq[i].id \in Obj
      BY PsqFields DEF Base
    <3> QED BY <1>1, <1>2, <1>4, <3>1 DEF Under
  <2> QED BY <1>1, <1>2, <1>5, <2>1, <2>2 DEF Relied, Typed
<1>6. CASE use = "wait"
  <2>1. /\ ToSet(k'.dly) \subseteq ToSet(k.dly) \cup {k.run} /\ SameWaiters(k, k')
    BY <1>1, <1>2, <1>6, ElsewherePatient
  <2>2. Patient(k')
    BY <1>2, <1>3, <1>6, <2>1 DEF Patient, SameWaiters
  <2>3. \A o \in Obj : k.wait[o] = <<>> <=> k'.wait[o] = <<>>
    BY <1>3, <1>4, <2>1, NoMembers DEF SameWaiters
  <2>4. \A o \in Obj : Well(use, k'.wait[o] = <<>>, mbx[o], free)
    BY <1>2, <2>3 DEF Well
  <2>5. Under(psq, k'.wait, mbx, mode')
    BY <1>2, <1>6 DEF Under
  <2> QED BY <1>1, <1>2, <1>6, <2>2, <2>4, <2>5 DEF Relied, Typed
<1> QED BY <1>5, <1>6

-----------------------------------------------------------------------------
(***************************************************************************)
(* A program that relies on the lists may.                                 *)
(***************************************************************************)
LEMMA ReliedInit == MailInit /\ use # "any" => Relied
<1> SUFFICES ASSUME MailInit, use # "any" PROVE Relied
  OBVIOUS
<1>1. \A o \in Obj : k.wait[o] = <<>>
  BY StartFits DEF MailInit, Init
<1>2. psq = <<>> /\ got = None /\ use \in Uses
  BY DEF MailInit, Init, KernelInit
<1>3. /\ mbx = [o \in Obj |-> [state |-> 0, first |-> 0, last |-> 0, count |-> 0,
                               msg |-> [i \in 0 .. Size - 1 |-> NullMsg]]]
      /\ msg = [t \in Thread |-> NullMsg] /\ NullMsg \in Word
      /\ Size \in Nat \ {0} /\ 0 % Size = 0
  BY MailboxAssumption DEF MailInit, Init, Word, MailboxAssumption
<1>4. \A o \in Obj : /\ mbx[o] \in Mailbox /\ mbx[o].state = 0
                     /\ mbx[o].first = 0 /\ mbx[o].last = 0 /\ mbx[o].count = 0
  BY <1>3 DEF Mailbox
<1>5. mbx \in [Obj -> Mailbox]
  BY <1>3, <1>4
<1>6. free \subseteq Message /\ holder \in [Message -> Thread \cup {Isr, None}]
  BY DEF MailInit
<1>7. Typed
  BY <1>2, <1>3, <1>5, <1>6 DEF Typed
<1>8. \A o \in Obj : Well(use, k.wait[o] = <<>>, mbx[o], free)
  BY <1>1, <1>3, <1>4 DEF Well
<1>9. Under(psq, k.wait, mbx, mode) /\ Patient(k)
  BY <1>1, <1>2 DEF Under, Patient, ToSet
<1> QED BY <1>2, <1>7, <1>8, <1>9 DEF Relied

\* What is delivered, is delivered to a thread.
Delivered == got' = None \/ got'.to \in Thread

LEMMA ReceivedTyped ==
    ASSUME NEW h \in [Message -> Thread \cup {Isr, None}], Delivered
    PROVE  Received(h) \in [Message -> Thread \cup {Isr, None}]
  BY DEF Delivered, Received

LEMMA SvcDelivers ==
    ASSUME Base, NEW o \in Obj, NEW n \in 0 .. Forever, NEW x,
           MessagePut(o, x, n) \/ MessageGet(o, n)
    PROVE  Delivered
<1>1. k.run \in Thread /\ (k.wait[o] # <<>> => First(o) \in Thread)
  BY ListFields DEF Base
<1>2. CASE MessagePut(o, x, n)
  <2>1. got' = None \/ (Receiving(o) /\ got' = [to |-> First(o), msg |-> x])
    BY <1>2, PutSteps DEF PutEnds
  <2> QED BY <1>1, <2>1 DEF Delivered, Receiving
<1>3. CASE MessageGet(o, n)
  <2>1. got' = None \/ got' = [to |-> k.run, msg |-> Oldest(mbx[o])]
    BY <1>3, GetSteps DEF GetEnds
  <2> QED BY <1>1, <2>1 DEF Delivered
<1> QED BY <1>2, <1>3

LEMMA PopDelivers ==
    ASSUME Base, PopMessage
    PROVE  Delivered
<1> DEFINE o == Head(psq).id
           x == Head(psq).arg
<1>1. /\ o \in Obj
      /\ \/ PopEnds(o, x)
         \/ got' = None
  BY PopSteps
<1> HIDE DEF o, x
<1>2. k.wait[o] # <<>> => First(o) \in Thread
  BY <1>1, ListFields DEF Base
<1> QED BY <1>1, <1>2 DEF Delivered, PopEnds, Receiving

LEMMA ReliedNext == Base /\ Relied /\ use # "any" /\ [MailNext]_mailVars => Relied'
<1> SUFFICES ASSUME Base, Relied, use # "any", [MailNext]_mailVars PROVE Relied'
  OBVIOUS
<1>1. /\ holder \in [Message -> Thread \cup {Isr, None}] /\ use \in Uses
      /\ free \subseteq Message
  BY DEF Relied, Typed
<1>2. /\ use # "message" => use \in MailUses
      /\ use = "message" => use \notin MailUses
  BY <1>1, MailAssumption DEF MailAssumption, MailUses
<1>3. SvcPuts \cup IsrPuts \subseteq Word /\ Message \subseteq Word
  BY MailboxAssumption DEF MailboxAssumption, Word
<1>4. CASE use' = use /\ use = "message" /\ Next /\ UNCHANGED blockVars
  <2>1. /\ use' = use /\ free' = free /\ use # "wait" /\ use \notin MailUses
        /\ holder' \in [Message -> Thread \cup {Isr, None}]
    BY <1>1, <1>2, <1>4 DEF blockVars
  <2>2. CASE Svc
    <3>1. PICK o \in Obj, n \in 0 .. Forever :
             MessageGet(o, n) \/ \E x \in SvcPuts : MessagePut(o, x, n)
      BY <2>2, CallTimeouts DEF Svc
    <3>2. CASE MessageGet(o, n)
      BY <2>1, <3>2, GetRelied
    <3>3. CASE \E x \in SvcPuts : MessagePut(o, x, n)
      BY <1>3, <2>1, <3>3, PutRelied
    <3> QED BY <3>1, <3>2, <3>3
  <2>3. CASE \E o \in Obj, x \in IsrPuts : IsrMessagePut(o, x)
    BY <1>3, <2>1, <2>3, IsrPutRelied
  <2>4. CASE PopMessage
    BY <2>1, <2>4, PopRelied
  <2>5. CASE Elsewhere
    BY <1>4, <2>1, <2>5, ElsewhereRelied
  <2> QED BY <1>4, <2>2, <2>3, <2>4, <2>5 DEF Next
<1>5. CASE use' = use /\ use # "message" /\ MailSvc
  <2>1. use \in MailUses /\ use' = use
    BY <1>2, <1>5
  <2>2. PICK o \in Obj :
           \/ \E n \in AllocTimeouts : MailAlloc(o, n) /\ got' = None
           \/ \E n \in GetTimeouts : MailGet(o, n)
           \/ \E b \in Message : MailPut(o, b) \/ (MailFree(o, b) /\ got' = None)
    BY <1>5 DEF MailSvc
  <2>3. CASE \E n \in AllocTimeouts : MailAlloc(o, n) /\ got' = None
    BY <2>1, <2>3, AllocRelied
  <2>4. CASE \E n \in GetTimeouts : MailGet(o, n)
    <3>1. PICK n \in GetTimeouts : MailGet(o, n)
      BY <2>4
    <3>2. /\ MessageGet(o, n) /\ holder' = Received(holder) /\ free' = free
          /\ n \in 0 .. Forever /\ (use = "wait" => n = 0)
      BY <3>1, CallTimeouts DEF MailGet, GetTimeouts
    <3>3. holder' \in [Message -> Thread \cup {Isr, None}]
      BY <1>1, <3>2, SvcDelivers, ReceivedTyped
    <3> QED BY <2>1, <3>2, <3>3, GetRelied
  <2>5. CASE \E b \in Message : MailPut(o, b)
    <3>1. PICK b \in Message : MailPut(o, b)
      BY <2>5
    <3> DEFINE h == [holder EXCEPT ![b] = None]
               n == 0
    <3>2. /\ MessagePut(o, b, n) /\ free' = free /\ n \in 0 .. Forever /\ n = 0
          /\ holder' = holder \/ holder' = Received(h)
      BY <3>1, CallTimeouts DEF MailPut
    <3>3. h \in [Message -> Thread \cup {Isr, None}] /\ b \in Word
      BY <1>1, <1>3
    <3> HIDE DEF h, n
    <3>4. holder' \in [Message -> Thread \cup {Isr, None}]
      BY <1>1, <3>2, <3>3, SvcDelivers, ReceivedTyped
    <3> QED BY <1>5, <2>1, <3>2, <3>3, <3>4, PutRelied
  <2>6. CASE \E b \in Message : MailFree(o, b) /\ got' = None
    BY <2>1, <2>6, FreeRelied
  <2> QED BY <2>2, <2>3, <2>4, <2>5, <2>6
<1>6. CASE use' = use /\ use # "message" /\ MailIsr
  <2>1. use \in MailUses /\ use' = use
    BY <1>2, <1>6
  <2>2. CASE IsrMailAlloc /\ got' = None
    BY <2>1, <2>2, IsrAllocRelied
  <2>3. CASE use # "wait" /\ \E o \in Obj, b \in Message : IsrMailPut(o, b)
    <3>1. PICK o \in Obj, b \in Message : IsrMailPut(o, b)
      BY <2>3
    <3>2. /\ IsrMessagePut(o, b) /\ free' = free /\ b \in Word
          /\ holder' \in [Message -> Thread \cup {Isr, None}]
      BY <1>1, <1>3, <3>1 DEF IsrMailPut
    <3> QED BY <2>1, <2>3, <3>2, IsrPutRelied
  <2>4. CASE /\ use # "wait"
             /\ \E o \in Obj, b \in Message : IsrMailFree(o, b) /\ got' = None
    BY <2>1, <2>4, IsrFreeRelied
  <2> QED BY <1>6, <2>2, <2>3, <2>4 DEF MailIsr
<1>7. CASE use' = use /\ use # "message" /\ MailPop
  <2>1. CASE PopMail
    <3>1. PopMessage /\ holder' = Received(holder) /\ free' = free
      BY <2>1 DEF PopMail
    <3>2. holder' \in [Message -> Thread \cup {Isr, None}]
      BY <1>1, <3>1, PopDelivers, ReceivedTyped
    <3> QED BY <1>7, <3>1, <3>2, PopRelied
  <2>2. CASE PopMemory
    <3>1. psq # <<>> /\ Head(psq).id \in Obj /\ mbx[Head(psq).id].state = 3
      BY <2>2, PopMemorySteps
    <3>2. use # "wait"
      BY <3>1 DEF Relied
    <3> QED BY <3>1, <3>2 DEF Relied, Well
  <2> QED BY <1>7, <2>1, <2>2 DEF MailPop
<1>8. CASE /\ use' = use /\ Elsewhere /\ UNCHANGED blockVars
           /\ use = "wait" => k'.active = k.active
  BY <1>8, ElsewhereRelied
<1>9. CASE UNCHANGED mailVars
  <2>1. /\ use' = use /\ k' = k /\ mbx' = mbx /\ psq' = psq /\ mode' = mode
        /\ free' = free /\ holder' = holder /\ msg' = msg /\ got' = got
    BY <1>9 DEF mailVars, vars, kernelVars, mbxVars, blockVars
  <2> QED BY <2>1 DEF Relied, Typed, Under
<1> QED BY <1>4, <1>5, <1>6, <1>7, <1>8, <1>9 DEF MailNext

LEMMA UseStays == [MailNext]_mailVars => use' = use
  BY DEF MailNext, mailVars

(***************************************************************************)
(* The invariant: in every program the lists of the kernel agree; in those *)
(* that rely on the list of a mailbox, it holds the one kind of thread the *)
(* state says, and the ring is as the requests under way need it.          *)
(***************************************************************************)
THEOREM MailInvariance == MailSpec => []MailInv
<1> DEFINE I == Base /\ (use # "any" => Relied)
<1>1. MailInit => I
  BY BaseInit, ReliedInit
<1>2. I /\ [MailNext]_mailVars => I'
  BY BaseNext, ReliedNext, UseStays
<1>3. I => MailInv
  BY ReliedIsMailInv
<1> QED BY <1>1, <1>2, <1>3, PTL DEF MailSpec

\* A program stays the one it is.
LEMMA UsesStay == MailSpec => [](use \in Uses)
<1>1. MailInit => use \in Uses
  BY DEF MailInit
<1>2. use \in Uses /\ [MailNext]_mailVars => (use \in Uses)'
  BY UseStays
<1> QED BY <1>1, <1>2, PTL DEF MailSpec

(***************************************************************************)
(* The fields of the mailboxes stay in their types, in the programs that   *)
(* rely on the lists.                                                      *)
(***************************************************************************)
THEOREM MailTypes == ASSUME "any" \notin Uses PROVE MailSpec => []MailTypeOK
<1>1. MailInv /\ use \in Uses => MailTypeOK
  BY DEF MailInv
<1> QED BY MailInvariance, UsesStay, <1>1, PTL

(***************************************************************************)
(* One list is enough for those who wait to put and for those who wait to  *)
(* get: there is no message in the ring for a thread that waits to get,    *)
(* and no room in it for one that waits to put.                            *)
(***************************************************************************)
THEOREM MailOneSide == ASSUME "any" \notin Uses PROVE MailSpec => []OneSide
<1>1. MailInv /\ use \in Uses => OneSide
  BY DEF MailInv
<1> QED BY MailInvariance, UsesStay, <1>1, PTL

(***************************************************************************)
(* Where the state is 3 a thread waits for memory, and nobody waits for    *)
(* memory that is free: what osMailFree gives back goes to those who wait. *)
(***************************************************************************)
THEOREM MailMemoryIsServed == MailSpec => []MemoryIsServed
<1>1. MailInv => MemoryIsServed
  BY DEF MailInv, MailUses, MemoryIsServed
<1> QED BY MailInvariance, <1>1, PTL

(***************************************************************************)
(* In the programs that rely on the lists it is as the comment of          *)
(* sysMailFree says, where the state is 3: a thread waits.                 *)
(***************************************************************************)
THEOREM MailTaskIsWaiting == ASSUME "any" \notin Uses PROVE MailSpec => TaskIsWaiting
<1>1. MailInv /\ use \in Uses => \A o \in Obj : mbx[o].state = 3 => k.wait[o] # <<>>
  BY DEF MailInv, MailUses, MemoryIsServed
<1>2. MailInv /\ use \in Uses =>
        [\A o \in Obj, b \in Message :
            MailFree(o, b) /\ mbx[o].state = 3 => k.wait[o] # <<>>]_mailVars
  BY <1>1
<1> QED BY MailInvariance, UsesStay, <1>2, PTL DEF TaskIsWaiting

-----------------------------------------------------------------------------
(***************************************************************************)
(* The messages of a ring, from the oldest on.                             *)
(***************************************************************************)
LEMMA ContentsFields ==
    ASSUME NEW m \in Mailbox
    PROVE  /\ Contents(m) \in Seq(Word) /\ Len(Contents(m)) = m.count
           /\ DOMAIN Contents(m) = 1 .. m.count
           /\ \A i \in 1 .. m.count : /\ (m.last + (i - 1)) % Size \in 0 .. Size - 1
                                      /\ Contents(m)[i] = m.msg[(m.last + (i - 1)) % Size]
<1>1. /\ Size \in Nat \ {0} /\ m.last \in 0 .. Size - 1 /\ m.count \in 0 .. Size
      /\ m.count \in Nat /\ m.msg \in [0 .. Size - 1 -> Word]
  BY MailboxFields
<1>2. ASSUME NEW i \in 1 .. m.count
      PROVE  /\ (m.last + (i - 1)) % Size \in 0 .. Size - 1
             /\ m.last + i - 1 = m.last + (i - 1)
  <2>1. i - 1 \in 0 .. Size /\ m.last + i - 1 = m.last + (i - 1)
    BY <1>1
  <2> QED BY <1>1, <2>1, WholeTurn
<1> DEFINE c == m.count
           q == [i \in 1 .. c |-> m.msg[(m.last + i - 1) % Size]]
<1>3. \A i \in 1 .. c : /\ q[i] = m.msg[(m.last + (i - 1)) % Size]
                        /\ q[i] \in Word
  BY <1>1, <1>2
<1>4. q \in Seq(Word) /\ Len(q) = c /\ DOMAIN q = 1 .. c
  <2>1. q \in [1 .. c -> Word] /\ c \in Nat
    BY <1>1, <1>3
  <2> HIDE DEF q, c
  <2> QED BY <2>1
<1>5. Contents(m) = q
  BY DEF Contents
<1> HIDE DEF q
<1> QED BY <1>2, <1>3, <1>4, <1>5

LEMMA ContentsStored ==
    ASSUME NEW m \in Mailbox, m.count # Size, NEW x \in Word,
           m.first = (m.last + m.count) % Size
    PROVE  Contents(Stored(m, x)) = Append(Contents(m), x)
<1> DEFINE r == Stored(m, x)
           n == Size
           a == m.last
           c == m.count
<1>1. /\ n \in Nat \ {0} /\ a \in 0 .. n - 1 /\ c \in 0 .. n - 1 /\ c \in Nat
      /\ m.first \in 0 .. n - 1 /\ m.msg \in [0 .. n - 1 -> Word]
      /\ m.first = (a + c) % n
  BY MailboxFields
<1>2. /\ r \in Mailbox /\ r.last = a /\ r.count = c + 1
      /\ r.msg = [m.msg EXCEPT ![m.first] = x]
  BY StoredFields
<1> HIDE DEF r
<1>3. /\ Contents(r) \in Seq(Word) /\ Len(Contents(r)) = c + 1
      /\ \A i \in 1 .. c + 1 : /\ (a + (i - 1)) % n \in 0 .. n - 1
                               /\ Contents(r)[i] = r.msg[(a + (i - 1)) % n]
  BY <1>2, ContentsFields
<1>4. /\ Contents(m) \in Seq(Word) /\ Len(Contents(m)) = c
      /\ \A i \in 1 .. c : Contents(m)[i] = m.msg[(a + (i - 1)) % n]
  BY ContentsFields
<1>5. Contents(r)[c + 1] = x
  <2>1. c + 1 \in 1 .. c + 1 /\ (a + ((c + 1) - 1)) % n = m.first
    BY <1>1
  <2>2. Contents(r)[c + 1] = r.msg[m.first]
    BY <1>3, <2>1
  <2> QED BY <1>1, <1>2, <2>2
<1>6. ASSUME NEW i \in 1 .. c PROVE Contents(r)[i] = Contents(m)[i]
  <2> DEFINE d == i - 1
  <2>1. d \in 0 .. n /\ c \in 0 .. n /\ d < c /\ c < n /\ d \in Nat /\ i \in 1 .. c + 1
    BY <1>1
  <2>2. /\ (a + d) % n = IF a + d < n THEN a + d ELSE a + d - n
        /\ (a + c) % n = IF a + c < n THEN a + c ELSE a + c - n
        /\ (a + d) % n \in 0 .. n - 1
    <3> HIDE DEF a, c, n, d
    <3> QED BY <1>1, <2>1, WholeTurn
  <2>3. (a + d) % n # m.first
    <3> HIDE DEF a, c, n, d
    <3> QED BY <1>1, <2>1, <2>2
  <2>4. Contents(r)[i] = r.msg[(a + d) % n] /\ Contents(m)[i] = m.msg[(a + d) % n]
    BY <1>3, <1>4, <2>1
  <2> HIDE DEF d
  <2> QED BY <1>1, <1>2, <2>2, <2>3, <2>4
<1> HIDE DEF c
<1>7. Contents(r) = Append(Contents(m), x)
  <2> DEFINE p == Contents(r)
             q == Contents(m)
  <2>1. /\ p \in Seq(Word) /\ q \in Seq(Word) /\ Len(p) = Len(q) + 1
        /\ p[Len(q) + 1] = x /\ \A i \in 1 .. Len(q) : p[i] = q[i]
    BY <1>3, <1>4, <1>5, <1>6
  <2> HIDE DEF p, q
  <2>2. p = Append(q, x)
    BY ONLY <2>1, x \in Word
  <2> QED BY <2>2 DEF p, q
<1> QED BY <1>7 DEF r

LEMMA ContentsTaken ==
    ASSUME NEW m \in Mailbox, m.count > 0
    PROVE  /\ Contents(m) # <<>> /\ Oldest(m) = Head(Contents(m))
           /\ Contents(Taken(m)) = Tail(Contents(m))
<1> DEFINE r == Taken(m)
           n == Size
           a == m.last
           c == m.count
<1>1. /\ n \in Nat \ {0} /\ a \in 0 .. n - 1 /\ c \in 1 .. n /\ c \in Nat
  BY MailboxFields
<1>2. /\ r \in Mailbox /\ r.last = (a + 1) % n /\ r.count = c - 1 /\ r.msg = m.msg
  BY TakenFields
<1> HIDE DEF r
<1>3. /\ Contents(r) \in Seq(Word) /\ Len(Contents(r)) = c - 1
      /\ \A i \in 1 .. c - 1 : Contents(r)[i] = m.msg[(((a + 1) % n) + (i - 1)) % n]
  BY <1>2, ContentsFields
<1>4. /\ Contents(m) \in Seq(Word) /\ Len(Contents(m)) = c
      /\ \A i \in 1 .. c : Contents(m)[i] = m.msg[(a + (i - 1)) % n]
  BY ContentsFields
<1>5. Contents(m)[1] = Oldest(m)
  <2> DEFINE d == 0
  <2>1. d \in 0 .. n /\ 1 \in 1 .. c /\ d = 1 - 1
    BY <1>1
  <2>2. (a + d) % n = a
    <3> HIDE DEF d
    <3>1. (a + d) % n = IF a + d < n THEN a + d ELSE a + d - n
      BY <1>1, <2>1, WholeTurn
    <3> QED BY <1>1, <2>1, <3>1
  <2>3. Contents(m)[1] = m.msg[(a + d) % n]
    BY <1>4, <2>1
  <2> QED BY <2>2, <2>3 DEF Oldest
<1>6. ASSUME NEW i \in 1 .. c - 1 PROVE Contents(r)[i] = Contents(m)[i + 1]
  <2>1. i \in 1 .. n /\ i + 1 \in 1 .. c /\ (i + 1) - 1 = i
    BY <1>1
  <2>2. (((a + 1) % n) + (i - 1)) % n = (a + i) % n
    BY <1>1, <2>1, OneNearer
  <2>3. Contents(m)[i + 1] = m.msg[(a + i) % n]
    BY <1>4, <2>1
  <2> QED BY <1>3, <2>2, <2>3
<1> HIDE DEF c, a, n
<1>7. /\ Contents(m) # <<>> /\ Contents(m)[1] = Head(Contents(m))
      /\ Contents(r) = Tail(Contents(m))
  <2> DEFINE p == Contents(r)
             q == Contents(m)
  <2>1. /\ p \in Seq(Word) /\ q \in Seq(Word) /\ Len(q) > 0 /\ Len(p) = Len(q) - 1
        /\ \A i \in 1 .. Len(q) - 1 : p[i] = q[i + 1]
    BY <1>1, <1>3, <1>4, <1>6
  <2> HIDE DEF p, q
  <2>2. q # <<>> /\ q[1] = Head(q) /\ p = Tail(q)
    BY ONLY <2>1
  <2> QED BY <2>2 DEF p, q
<1> QED BY <1>5, <1>7 DEF r

\* Who waits makes no difference to the messages.
LEMMA ContentsSame ==
    ASSUME NEW m \in Mailbox, NEW s
    PROVE  Contents([m EXCEPT !.state = s]) = Contents(m)
  BY DEF Contents, Mailbox

-----------------------------------------------------------------------------
(***************************************************************************)
(* The places of the blocks: F is the free list, h says who holds which, q *)
(* is what the ring contains and a what is on its way into it.             *)
(***************************************************************************)
Args == [i \in DOMAIN psq |-> psq[i].arg]
Held(h) == {b \in Message : h[b] # None}
Holders == [Message -> Thread \cup {Isr, None}]

Placed(F, h, q, a) ==
    /\ q \in Seq(Message) /\ Distinct(q) /\ a \in Seq(Message) /\ Distinct(a)
    /\ F \cup Held(h) \cup ToSet(q) \cup ToSet(a) = Message
    /\ F \cap (Held(h) \cup ToSet(q) \cup ToSet(a)) = {}
    /\ Held(h) \cap (ToSet(q) \cup ToSet(a)) = {}
    /\ ToSet(q) \cap ToSet(a) = {}

LEMMA LongerList ==
    ASSUME NEW S, NEW q \in Seq(S), NEW x \in S, Distinct(q), x \notin ToSet(q)
    PROVE  /\ Append(q, x) \in Seq(S) /\ Distinct(Append(q, x))
           /\ ToSet(Append(q, x)) = ToSet(q) \cup {x}
<1> DEFINE r == Append(q, x)
           n == Len(q)
<1>1. /\ r \in Seq(S) /\ n \in Nat /\ DOMAIN q = 1 .. n /\ DOMAIN r = 1 .. n + 1
      /\ r[n + 1] = x /\ \A i \in 1 .. n : r[i] = q[i]
  OBVIOUS
<1> HIDE DEF r, n
<1>2. \A i \in 1 .. n + 1 : i \in 1 .. n \/ i = n + 1
  BY <1>1
<1>3. \A i \in 1 .. n : q[i] # x
  BY <1>1 DEF ToSet
<1>4. Distinct(r)
  <2>1. ASSUME NEW i \in 1 .. n + 1, NEW j \in 1 .. n + 1, r[i] = r[j] PROVE i = j
    BY <1>1, <1>2, <1>3, <2>1 DEF Distinct
  <2> QED BY <1>1, <2>1 DEF Distinct
<1>5. ToSet(r) = ToSet(q) \cup {x}
  <2>1. n + 1 \in 1 .. n + 1 /\ \A i \in 1 .. n : i \in 1 .. n + 1
    BY <1>1
  <2> QED BY <1>1, <1>2, <2>1 DEF ToSet
<1> QED BY <1>1, <1>4, <1>5 DEF r

LEMMA ShorterList ==
    ASSUME NEW S, NEW q \in Seq(S), Distinct(q), q # <<>>
    PROVE  /\ Tail(q) \in Seq(S) /\ Distinct(Tail(q)) /\ Head(q) \in ToSet(q)
           /\ ToSet(Tail(q)) = ToSet(q) \ {Head(q)} /\ Head(q) \in S
<1> DEFINE r == Tail(q)
           n == Len(q)
<1>1. /\ r \in Seq(S) /\ n \in Nat /\ n # 0 /\ DOMAIN q = 1 .. n /\ DOMAIN r = 1 .. n - 1
      /\ Head(q) = q[1] /\ q[1] \in S /\ \A i \in 1 .. n - 1 : r[i] = q[i + 1]
  OBVIOUS
<1> HIDE DEF r, n
<1>2. /\ 1 \in 1 .. n /\ \A i \in 1 .. n - 1 : i + 1 \in 1 .. n /\ i + 1 # 1
      /\ \A i \in 1 .. n : i = 1 \/ (i - 1 \in 1 .. n - 1 /\ (i - 1) + 1 = i)
  BY <1>1
<1>3. Distinct(r)
  <2>1. ASSUME NEW i \in 1 .. n - 1, NEW j \in 1 .. n - 1, r[i] = r[j] PROVE i = j
    <3>1. i + 1 = j + 1
      BY <1>1, <1>2, <2>1 DEF Distinct
    <3> QED BY <3>1
  <2> QED BY <1>1, <2>1 DEF Distinct
<1>4. ToSet(r) = ToSet(q) \ {Head(q)}
  <2>1. ASSUME NEW i \in 1 .. n - 1 PROVE r[i] \in ToSet(q) /\ r[i] # q[1]
    <3>1. i + 1 \in 1 .. n /\ i + 1 # 1 /\ 1 \in 1 .. n /\ r[i] = q[i + 1]
      BY <1>1, <1>2
    <3>2. q[i + 1] \in ToSet(q)
      BY <1>1, <3>1 DEF ToSet
    <3>3. q[i + 1] # q[1]
      BY <1>1, <3>1 DEF Distinct
    <3> QED BY <3>1, <3>2, <3>3
  <2>2. ASSUME NEW i \in 1 .. n, q[i] # q[1] PROVE q[i] \in ToSet(r)
    <3>1. i - 1 \in 1 .. n - 1 /\ r[i - 1] = q[i]
      BY <1>1, <1>2, <2>2
    <3> QED BY <1>1, <3>1 DEF ToSet
  <2>3. ASSUME NEW x \in ToSet(r) PROVE x \in ToSet(q) \ {q[1]}
    <3>1. PICK i \in 1 .. n - 1 : x = r[i]
      BY <1>1 DEF ToSet
    <3> QED BY <2>1, <3>1
  <2>4. ASSUME NEW x \in ToSet(q) \ {q[1]} PROVE x \in ToSet(r)
    <3>1. PICK i \in 1 .. n : x = q[i]
      BY <1>1 DEF ToSet
    <3> QED BY <2>2, <3>1
  <2> QED BY <1>1, <2>3, <2>4
<1>5. Head(q) \in ToSet(q)
  BY <1>1, <1>2 DEF ToSet
<1> QED BY <1>1, <1>3, <1>4, <1>5 DEF r

LEMMA HeldBy ==
    ASSUME NEW h \in Holders, NEW b \in Message, NEW x
    PROVE  /\ x # None => Held([h EXCEPT ![b] = x]) = Held(h) \cup {b}
           /\ Held([h EXCEPT ![b] = None]) = Held(h) \ {b}
  BY DEF Held, Holders

LEMMA PlacedTaken ==
    ASSUME NEW F, NEW h \in Holders, NEW q, NEW a, Placed(F, h, q, a),
           NEW b \in F, NEW x, x # None, b \in Message
    PROVE  Placed(F \ {b}, [h EXCEPT ![b] = x], q, a)
<1> DEFINE g == [h EXCEPT ![b] = x]
<1>1. Held(g) = Held(h) \cup {b}
  BY HeldBy
<1> HIDE DEF g
<1>2. Placed(F \ {b}, g, q, a)
  BY <1>1 DEF Placed
<1> QED BY <1>2 DEF g

LEMMA PlacedFreed ==
    ASSUME NEW F, NEW h \in Holders, NEW q, NEW a, Placed(F, h, q, a),
           NEW b \in Message, h[b] # None
    PROVE  Placed(F \cup {b}, [h EXCEPT ![b] = None], q, a)
<1> DEFINE g == [h EXCEPT ![b] = None]
<1>1. Held(g) = Held(h) \ {b} /\ b \in Held(h)
  BY HeldBy DEF Held
<1> HIDE DEF g
<1>2. Placed(F \cup {b}, g, q, a)
  BY <1>1 DEF Placed
<1> QED BY <1>2 DEF g

LEMMA PlacedGiven ==
    ASSUME NEW F, NEW h \in Holders, NEW q, NEW a, Placed(F, h, q, a),
           NEW b \in Message, h[b] # None, NEW x, x # None
    PROVE  Placed(F, [h EXCEPT ![b] = x], q, a)
<1> DEFINE g == [h EXCEPT ![b] = x]
<1>1. Held(g) = Held(h)
  BY HeldBy DEF Held
<1> HIDE DEF g
<1>2. Placed(F, g, q, a)
  BY <1>1 DEF Placed
<1> QED BY <1>2 DEF g

LEMMA PlacedPut ==
    ASSUME NEW F, NEW h \in Holders, NEW q, NEW a, Placed(F, h, q, a),
           NEW b \in Message, h[b] # None
    PROVE  /\ Placed(F, [h EXCEPT ![b] = None], Append(q, b), a)
           /\ Placed(F, [h EXCEPT ![b] = None], q, Append(a, b))
<1> DEFINE g == [h EXCEPT ![b] = None]
           r == Append(q, b)
           c == Append(a, b)
<1>1. Held(g) = Held(h) \ {b} /\ b \in Held(h)
  BY HeldBy DEF Held
<1>2. /\ b \notin ToSet(q) /\ b \notin ToSet(a)
      /\ q \in Seq(Message) /\ Distinct(q) /\ a \in Seq(Message) /\ Distinct(a)
  BY <1>1 DEF Placed
<1>3. /\ r \in Seq(Message) /\ Distinct(r) /\ ToSet(r) = ToSet(q) \cup {b}
      /\ c \in Seq(Message) /\ Distinct(c) /\ ToSet(c) = ToSet(a) \cup {b}
  BY <1>2, LongerList
<1> HIDE DEF g, r, c
<1>4. Placed(F, g, r, a)
  BY <1>1, <1>2, <1>3 DEF Placed
<1>5. Placed(F, g, q, c)
  BY <1>1, <1>2, <1>3 DEF Placed
<1> QED BY <1>4, <1>5 DEF g, r, c

LEMMA PlacedGot ==
    ASSUME NEW F, NEW h \in Holders, NEW q, NEW a, Placed(F, h, q, a), NEW x, x # None
    PROVE  /\ q # <<>> => /\ Head(q) \in Message
                          /\ Placed(F, [h EXCEPT ![Head(q)] = x], Tail(q), a)
           /\ a # <<>> => /\ Head(a) \in Message
                          /\ Placed(F, [h EXCEPT ![Head(a)] = x], q, Tail(a))
<1>1. q \in Seq(Message) /\ Distinct(q) /\ a \in Seq(Message) /\ Distinct(a)
  BY DEF Placed
<1>2. ASSUME q # <<>>
      PROVE  Head(q) \in Message /\ Placed(F, [h EXCEPT ![Head(q)] = x], Tail(q), a)
  <2> DEFINE b == Head(q)
             r == Tail(q)
             g == [h EXCEPT ![b] = x]
  <2>1. /\ r \in Seq(Message) /\ Distinct(r) /\ b \in ToSet(q) /\ b \in Message
        /\ ToSet(r) = ToSet(q) \ {b}
    BY <1>1, <1>2, ShorterList
  <2> HIDE DEF b, r
  <2>2. Held(g) = Held(h) \cup {b}
    BY <2>1, HeldBy
  <2> HIDE DEF g
  <2>3. Placed(F, g, r, a)
    BY <1>1, <2>1, <2>2 DEF Placed
  <2> QED BY <2>1, <2>3 DEF b, r, g
<1>3. ASSUME a # <<>>
      PROVE  Head(a) \in Message /\ Placed(F, [h EXCEPT ![Head(a)] = x], q, Tail(a))
  <2> DEFINE b == Head(a)
             r == Tail(a)
             g == [h EXCEPT ![b] = x]
  <2>1. /\ r \in Seq(Message) /\ Distinct(r) /\ b \in ToSet(a) /\ b \in Message
        /\ ToSet(r) = ToSet(a) \ {b}
    BY <1>1, <1>3, ShorterList
  <2> HIDE DEF b, r
  <2>2. Held(g) = Held(h) \cup {b}
    BY <2>1, HeldBy
  <2> HIDE DEF g
  <2>3. Placed(F, g, q, r)
    BY <1>1, <2>1, <2>2 DEF Placed
  <2> QED BY <2>1, <2>3 DEF b, r, g
<1> QED BY <1>2, <1>3

LEMMA PlacedStored ==
    ASSUME NEW F, NEW h, NEW q, NEW a, Placed(F, h, q, a), a # <<>>
    PROVE  Placed(F, h, Append(q, Head(a)), Tail(a))
<1> DEFINE b == Head(a)
           r == Append(q, b)
           c == Tail(a)
<1>1. q \in Seq(Message) /\ Distinct(q) /\ a \in Seq(Message) /\ Distinct(a)
  BY DEF Placed
<1>2. /\ c \in Seq(Message) /\ Distinct(c) /\ b \in ToSet(a) /\ b \in Message
      /\ ToSet(c) = ToSet(a) \ {b}
  BY <1>1, ShorterList
<1> HIDE DEF b, c
<1>3. b \notin ToSet(q)
  BY <1>2 DEF Placed
<1>4. r \in Seq(Message) /\ Distinct(r) /\ ToSet(r) = ToSet(q) \cup {b}
  BY <1>1, <1>2, <1>3, LongerList
<1> HIDE DEF r
<1>5. Placed(F, h, r, c)
  BY <1>1, <1>2, <1>4 DEF Placed
<1> QED BY <1>5 DEF b, c, r

-----------------------------------------------------------------------------
(***************************************************************************)
(* Every step of a program with a mail queue moves one block at most, from *)
(* one place to another.                                                   *)
(***************************************************************************)
Kept == use \in MailUses =>
    \A o \in Obj : Placed(free, holder, Contents(mbx[o]), Args)

\* What the steps find.
LEMMA KeptFinds ==
    ASSUME Base, Relied, Kept, use \in MailUses, NEW o \in Obj
    PROVE  /\ Placed(free, holder, Contents(mbx[o]), Args) /\ Obj = {o}
           /\ holder \in Holders /\ free \subseteq Message /\ mbx \in [Obj -> Mailbox]
           /\ mbx[o] \in Mailbox /\ mbx[o].first = (mbx[o].last + mbx[o].count) % Size
           /\ ~Sending(o) /\ Message \subseteq Word /\ None \notin Thread /\ Isr # None
           /\ k.run \in Thread /\ (k.wait[o] # <<>> => First(o) \in Thread)
           /\ None \notin [to : Thread, msg : Word]
<1>1. /\ holder \in Holders /\ free \subseteq Message /\ mbx[o] \in Mailbox /\ use \in Uses
      /\ mbx \in [Obj -> Mailbox]
  BY DEF Relied, Typed, Holders
<1>2. Well(use, k.wait[o] = <<>>, mbx[o], free)
  BY DEF Relied
<1>3. mbx[o].first = (mbx[o].last + mbx[o].count) % Size /\ ~Sending(o)
  BY <1>2 DEF Well, Sending, MailUses
<1>4. k.run \in Thread /\ (k.wait[o] # <<>> => First(o) \in Thread) /\ None \notin Thread
  BY ListFields DEF Base
<1>5. Message \subseteq Word /\ Isr # None /\ None \notin [to : Thread, msg : Word]
  BY MailAssumption DEF MailAssumption, Word
<1>6. Obj = {o}
  BY <1>1, OneMailbox
<1> QED BY <1>1, <1>3, <1>4, <1>5, <1>6 DEF Kept

\* The ring of the one mailbox, and what is on its way, after a step.
LEMMA KeptAfter ==
    ASSUME NEW o, Obj = {o}, use' = use, NEW q, NEW a,
           Contents(mbx'[o]) = q, Args' = a, Placed(free', holder', q, a)
    PROVE  Kept'
  BY DEF Kept

LEMMA KeptByMove ==
    ASSUME NEW o, Obj = {o}, use' = use, NEW F, NEW h, NEW q, NEW a,
           free' = F, holder' = h, Contents(mbx'[o]) = q, Args' = a, Placed(F, h, q, a)
    PROVE  Kept'
  BY DEF Kept

LEMMA ArgsSame ==
    ASSUME psq' = psq
    PROVE  Args' = Args
  BY DEF Args

LEMMA ArgsLonger ==
    ASSUME Relied, NEW o \in Obj, NEW x \in Word, psq' = Append(psq, [id |-> o, arg |-> x])
    PROVE  Args' = Append(Args, x)
<1> DEFINE S == [id : Obj, arg : Word]
           e == [id |-> o, arg |-> x]
<1>1. psq \in Seq(S) /\ e \in S /\ e.arg = x
  BY DEF Relied, Typed
<1> HIDE DEF S, e
<1>2. /\ DOMAIN psq' = 1 .. Len(psq) + 1 /\ Len(psq) \in Nat /\ DOMAIN psq = 1 .. Len(psq)
      /\ psq'[Len(psq) + 1] = e /\ \A i \in 1 .. Len(psq) : psq'[i] = psq[i]
  <2>1. psq' = Append(psq, e)
    BY DEF e
  <2> QED BY ONLY <1>1, <2>1
<1>3. \A i \in 1 .. Len(psq) : psq[i].arg \in Word
  <2>1. \A i \in 1 .. Len(psq) : psq[i] \in S
    BY ONLY <1>1
  <2> QED BY <2>1 DEF S
<1>4. /\ Args \in Seq(Word) /\ Len(Args) = Len(psq)
      /\ \A i \in 1 .. Len(psq) : Args[i] = psq[i].arg
  BY <1>2, <1>3 DEF Args
<1>5. /\ Args' = [i \in 1 .. Len(psq) + 1 |-> psq'[i].arg]
  BY <1>2 DEF Args
<1>6. /\ Args' \in Seq(Word) /\ Len(Args') = Len(psq) + 1
      /\ Args'[Len(psq) + 1] = x /\ \A i \in 1 .. Len(psq) : Args'[i] = psq[i].arg
  BY <1>1, <1>2, <1>3, <1>5
<1> DEFINE p == Args'
           q == Args
<1>7. /\ p \in Seq(Word) /\ q \in Seq(Word) /\ Len(p) = Len(q) + 1
      /\ p[Len(q) + 1] = x /\ \A i \in 1 .. Len(q) : p[i] = q[i]
  BY <1>4, <1>6
<1> HIDE DEF p, q
<1>8. p = Append(q, x)
  BY ONLY <1>7, x \in Word
<1> QED BY <1>8 DEF p, q

LEMMA ArgsShorter ==
    ASSUME Relied, psq # <<>>
    PROVE  /\ Args # <<>> /\ Head(Args) = Head(psq).arg
           /\ psq' = Tail(psq) => Args' = Tail(Args)
<1> DEFINE S == [id : Obj, arg : Word]
<1>1. psq \in Seq(S)
  BY DEF Relied, Typed
<1> HIDE DEF S
<1>2. /\ Len(psq) \in Nat \ {0} /\ DOMAIN psq = 1 .. Len(psq) /\ Head(psq) = psq[1]
      /\ \A i \in 1 .. Len(psq) : psq[i] \in S
  BY ONLY <1>1, psq # <<>>
<1>3. /\ Args \in Seq(Word) /\ Len(Args) = Len(psq)
      /\ \A i \in 1 .. Len(psq) : Args[i] = psq[i].arg
  BY <1>2 DEF Args, S
<1>4. Args # <<>> /\ Head(Args) = Head(psq).arg
  BY <1>2, <1>3
<1>5. ASSUME psq' = Tail(psq) PROVE Args' = Tail(Args)
  <2>1. /\ DOMAIN psq' = 1 .. Len(psq) - 1
        /\ \A i \in 1 .. Len(psq) - 1 : psq'[i] = psq[i + 1]
    BY ONLY <1>1, <1>5, psq # <<>>
  <2>2. Args' = [i \in 1 .. Len(psq) - 1 |-> psq[i + 1].arg]
    BY <2>1 DEF Args
  <2> DEFINE p == Args'
             q == Args
  <2>3. /\ p \in Seq(Word) /\ q \in Seq(Word) /\ Len(q) > 0 /\ Len(p) = Len(q) - 1
        /\ \A i \in 1 .. Len(q) - 1 : p[i] = q[i + 1]
    BY <1>2, <1>3, <2>2 DEF S
  <2> HIDE DEF p, q
  <2>4. p = Tail(q)
    BY ONLY <2>3
  <2> QED BY <2>4 DEF p, q
<1> QED BY <1>4, <1>5

LEMMA RestKept ==
    ASSUME Kept, use' = use, mbx' = mbx, psq' = psq, UNCHANGED blockVars
    PROVE  Kept'
<1>1. Args' = Args /\ free' = free /\ holder' = holder
  BY ArgsSame DEF blockVars
<1> QED BY <1>1 DEF Kept

LEMMA AllocKept ==
    ASSUME Base, Relied, Kept, use \in MailUses, NEW o \in Obj, NEW n \in AllocTimeouts,
           MailAlloc(o, n), use' = use
    PROVE  Kept'
<1>1. /\ Placed(free, holder, Contents(mbx[o]), Args) /\ Obj = {o}
      /\ holder \in Holders /\ free \subseteq Message /\ mbx \in [Obj -> Mailbox]
      /\ mbx[o] \in Mailbox /\ k.run \in Thread /\ None \notin Thread
  BY KeptFinds
<1>2. AllocEnds(o, n) /\ psq' = psq
  BY CallTimeouts, AllocSteps
<1>3. CASE mbx' = mbx /\ \E b \in free : AllocBox(b, k.run)
  <2>1. PICK b \in free : free' = free \ {b} /\ holder' = [holder EXCEPT ![b] = k.run]
    BY <1>3 DEF AllocBox
  <2>2. Placed(free', holder', Contents(mbx[o]), Args)
    BY <1>1, <2>1, PlacedTaken
  <2> QED BY <1>1, <1>2, <1>3, <2>2, ArgsSame, KeptAfter
<1>4. CASE mbx' = mbx /\ UNCHANGED blockVars
  BY <1>2, <1>4, RestKept
<1>5. CASE mbx' = [mbx EXCEPT ![o].state = Now(o, 3)] /\ UNCHANGED blockVars
  <2>1. mbx'[o] = [mbx[o] EXCEPT !.state = Now(o, 3)]
    BY <1>1, <1>5
  <2>2. Contents(mbx'[o]) = Contents(mbx[o])
    BY <1>1, <2>1, ContentsSame
  <2> QED BY <1>1, <1>2, <1>5, <2>2, ArgsSame, KeptAfter DEF blockVars
<1> QED BY <1>2, <1>3, <1>4, <1>5 DEF AllocEnds

\* A block that goes to the free list, or from one holder to another.
LEMMA BlockKept ==
    ASSUME Base, Relied, Kept, use \in MailUses, NEW o \in Obj, NEW b \in Message,
           use' = use, psq' = psq, Contents(mbx'[o]) = Contents(mbx[o]), holder[b] # None,
           \/ FreeBox(b)
           \/ /\ free' = free
              /\ \E t \in Thread : holder' = [holder EXCEPT ![b] = t]
    PROVE  Kept'
<1>1. /\ Placed(free, holder, Contents(mbx[o]), Args) /\ Obj = {o}
      /\ holder \in Holders /\ None \notin Thread
  BY KeptFinds
<1>2. CASE FreeBox(b)
  <2>1. Placed(free', holder', Contents(mbx[o]), Args)
    BY <1>1, <1>2, PlacedFreed DEF FreeBox
  <2> QED BY <1>1, <2>1, ArgsSame, KeptAfter
<1>3. CASE free' = free /\ \E t \in Thread : holder' = [holder EXCEPT ![b] = t]
  <2>1. PICK t \in Thread : holder' = [holder EXCEPT ![b] = t]
    BY <1>3
  <2>2. Placed(free, [holder EXCEPT ![b] = t], Contents(mbx[o]), Args)
    <3>1. t # None
      BY <1>1
    <3> DEFINE q == Contents(mbx[o])
    <3> HIDE DEF q
    <3> QED BY <1>1, <3>1, PlacedGiven DEF q
  <2>3. Placed(free', holder', Contents(mbx[o]), Args)
    BY <1>3, <2>1, <2>2
  <2> QED BY <1>1, <2>3, ArgsSame, KeptAfter
<1> QED BY <1>2, <1>3

LEMMA FreeKept ==
    ASSUME Base, Relied, Kept, use \in MailUses, NEW o \in Obj, NEW b \in Message,
           MailFree(o, b), use' = use
    PROVE  Kept'
<1>1. /\ mbx \in [Obj -> Mailbox] /\ mbx[o] \in Mailbox /\ k.run \in Thread
      /\ (k.wait[o] # <<>> => First(o) \in Thread) /\ None \notin Thread
  BY KeptFinds
<1>2. FreeEnds(o, b) /\ psq' = psq /\ holder[b] = k.run
  BY FreeSteps
<1>3. CASE mbx' = mbx /\ FreeBox(b)
  BY <1>1, <1>2, <1>3, BlockKept
<1>4. CASE /\ k.wait[o] # <<>> /\ mbx' = HandMemory(o) /\ free' = free
           /\ holder' = [holder EXCEPT ![b] = First(o)]
  <2> DEFINE s == IF Tail(k.wait[o]) = <<>> THEN 0 ELSE mbx[o].state
  <2>1. mbx'[o] = [mbx[o] EXCEPT !.state = s]
    BY <1>1, <1>4 DEF HandMemory
  <2> HIDE DEF s
  <2>2. Contents(mbx'[o]) = Contents(mbx[o])
    BY <1>1, <2>1, ContentsSame
  <2> QED BY <1>1, <1>2, <1>4, <2>2, BlockKept
<1>5. CASE mbx' = mbx /\ UNCHANGED blockVars
  BY <1>2, <1>5, RestKept
<1> QED BY <1>2, <1>3, <1>4, <1>5 DEF FreeEnds

LEMMA IsrKept ==
    ASSUME Base, Relied, Kept, use \in MailUses, MailIsr, use' = use
    PROVE  Kept'
<1>1. CASE IsrMailAlloc
  <2>1. PICK b \in free : free' = free \ {b} /\ holder' = [holder EXCEPT ![b] = Isr]
    BY <1>1 DEF IsrMailAlloc, AllocBox
  <2>2. psq' = psq /\ mbx' = mbx
    BY <1>1 DEF IsrMailAlloc, kernelVars
  <2>3. ASSUME NEW o \in Obj PROVE Placed(free', holder', Contents(mbx[o]), Args)
    <3>1. /\ Placed(free, holder, Contents(mbx[o]), Args) /\ holder \in Holders
          /\ free \subseteq Message /\ Isr # None
      BY KeptFinds
    <3> QED BY <2>1, <3>1, PlacedTaken
  <2> QED BY <2>2, <2>3, ArgsSame DEF Kept
<1>2. CASE use # "wait" /\ \E o \in Obj, b \in Message : IsrMailPut(o, b)
  <2>1. PICK o \in Obj, b \in Message : IsrMailPut(o, b)
    BY <1>2
  <2> DEFINE e == [id |-> o, arg |-> b]
  <2>2. /\ Placed(free, holder, Contents(mbx[o]), Args) /\ Obj = {o}
        /\ holder \in Holders /\ Message \subseteq Word /\ Isr # None
    BY KeptFinds
  <2>3. /\ IsrMessagePut(o, b) /\ free' = free /\ holder[b] = Isr
        /\ holder' = IF psq' = psq THEN holder ELSE [holder EXCEPT ![b] = None]
    BY <2>1 DEF IsrMailPut
  <2>4. Enqueued(e) /\ mbx' = mbx
    BY <2>2, <2>3, EnqSteps DEF IsrMessagePut
  <2>5. CASE psq' = psq
    BY <2>3, <2>4, <2>5, RestKept DEF blockVars
  <2>6. CASE psq' # psq
    <3>1. psq' = Append(psq, e)
      BY <2>4, <2>6 DEF Enqueued
    <3>2. Args' = Append(Args, b)
      BY <2>2, <3>1, ArgsLonger
    <3>3. Placed(free', holder', Contents(mbx[o]), Append(Args, b))
      BY <2>2, <2>3, <2>6, PlacedPut
    <3> QED BY <2>2, <2>4, <3>2, <3>3, KeptAfter
  <2> QED BY <2>5, <2>6
<1>3. CASE use # "wait" /\ \E o \in Obj, b \in Message : IsrMailFree(o, b)
  <2>1. PICK o \in Obj, b \in Message : IsrMailFree(o, b)
    BY <1>3
  <2>2. /\ mbx' = mbx /\ FreeBox(b) /\ holder[b] = Isr
        /\ mbx[o].state # 3 => psq' = psq
    BY <2>1, IsrFreeSteps
  <2>3. mbx[o].state # 3
    BY <1>3 DEF Relied, Well
  <2>4. Isr # None
    BY KeptFinds
  <2> QED BY <2>2, <2>3, <2>4, BlockKept
<1> QED BY <1>1, <1>2, <1>3 DEF MailIsr

LEMMA PutKept ==
    ASSUME Base, Relied, Kept, use \in MailUses, NEW o \in Obj, NEW b \in Message,
           MailPut(o, b), use' = use
    PROVE  Kept'
<1> DEFINE n == 0
<1>1. /\ Placed(free, holder, Contents(mbx[o]), Args) /\ Obj = {o}
      /\ holder \in Holders /\ mbx \in [Obj -> Mailbox] /\ mbx[o] \in Mailbox
      /\ mbx[o].first = (mbx[o].last + mbx[o].count) % Size
      /\ Message \subseteq Word /\ None \notin Thread /\ k.run \in Thread
      /\ (k.wait[o] # <<>> => First(o) \in Thread)
      /\ None \notin [to : Thread, msg : Word]
  BY KeptFinds
<1>2. /\ holder[b] = k.run /\ MessagePut(o, b, n) /\ free' = free
      /\ holder' = IF mbx' = mbx /\ got' = None THEN holder
                   ELSE Received([holder EXCEPT ![b] = None])
      /\ n \in 0 .. Forever /\ n = 0
  BY CallTimeouts DEF MailPut
<1> HIDE DEF n
<1>3. PutEnds(o, b, n) /\ psq' = psq
  BY <1>2, PutSteps
<1>4. CASE Receiving(o) /\ mbx' = mbx /\ got' = [to |-> First(o), msg |-> b]
  <2>1. First(o) \in Thread /\ got' \in [to : Thread, msg : Word]
    BY <1>1, <1>4 DEF Receiving
  <2>2. got' # None /\ got'.msg = b /\ got'.to = First(o)
    BY <1>1, <1>4, <2>1
  <2>3. holder' = [[holder EXCEPT ![b] = None] EXCEPT ![b] = First(o)]
    BY <1>2, <2>2 DEF Received
  <2>4. holder' = [holder EXCEPT ![b] = First(o)]
    BY <1>1, <2>3 DEF Holders
  <2> QED BY <1>1, <1>2, <1>3, <1>4, <2>1, <2>4, BlockKept
<1>5. CASE ~Full(mbx[o]) /\ mbx' = [mbx EXCEPT ![o] = Stored(@, b)] /\ got' = None
  <2>1. /\ mbx'[o] = Stored(mbx[o], b) /\ mbx[o].count # Size
        /\ Stored(mbx[o], b).count = mbx[o].count + 1 /\ mbx[o].count \in Nat
    BY <1>1, <1>5, StoredFields, MailboxFields DEF Full
  <2>2. mbx' # mbx
    BY <2>1
  <2>3. holder' = [holder EXCEPT ![b] = None]
    BY <1>2, <1>5, <2>2 DEF Received
  <2>4. Contents(mbx'[o]) = Append(Contents(mbx[o]), b)
    BY <1>1, <2>1, ContentsStored
  <2>5. Placed(free', holder', Append(Contents(mbx[o]), b), Args)
    BY <1>1, <1>2, <2>3, PlacedPut
  <2> QED BY <1>1, <1>3, <2>4, <2>5, ArgsSame, KeptAfter
<1>6. CASE mbx' = mbx /\ got' = None
  BY <1>2, <1>3, <1>6, RestKept DEF blockVars
<1> QED BY <1>2, <1>3, <1>4, <1>5, <1>6 DEF PutEnds

LEMMA GetKept ==
    ASSUME Base, Relied, Kept, use \in MailUses, NEW o \in Obj, NEW n \in GetTimeouts,
           MailGet(o, n), use' = use
    PROVE  Kept'
<1>1. /\ Placed(free, holder, Contents(mbx[o]), Args) /\ Obj = {o}
      /\ holder \in Holders /\ mbx \in [Obj -> Mailbox] /\ mbx[o] \in Mailbox
      /\ ~Sending(o) /\ Message \subseteq Word /\ None \notin Thread /\ k.run \in Thread
      /\ None \notin [to : Thread, msg : Word]
  BY KeptFinds
<1>2. GetEnds(o, n) /\ psq' = psq /\ holder' = Received(holder) /\ free' = free
  BY CallTimeouts, GetSteps DEF MailGet
<1>3. CASE /\ mbx[o].count > 0 /\ mbx' = [mbx EXCEPT ![o] = Taken(@)]
           /\ got' = [to |-> k.run, msg |-> Oldest(mbx[o])]
  <2> DEFINE q == Contents(mbx[o])
  <2>1. q # <<>> /\ Oldest(mbx[o]) = Head(q) /\ Contents(Taken(mbx[o])) = Tail(q)
    BY <1>1, <1>3, ContentsTaken
  <2>2. Contents(mbx'[o]) = Tail(q)
    BY <1>1, <1>3, <2>1
  <2> HIDE DEF q
  <2>3. Head(q) \in Message /\ Placed(free, [holder EXCEPT ![Head(q)] = k.run], Tail(q), Args)
    <3>1. Placed(free, holder, q, Args) /\ k.run # None
      BY <1>1 DEF q
    <3> QED BY <1>1, <2>1, <3>1, PlacedGot
  <2>4. got' \in [to : Thread, msg : Word] /\ got'.msg = Head(q) /\ got'.to = k.run
    BY <1>1, <1>3, <2>1, <2>3
  <2>5. holder' = [holder EXCEPT ![Head(q)] = k.run]
    BY <1>1, <1>2, <2>3, <2>4 DEF Received
  <2> DEFINE h == [holder EXCEPT ![Head(q)] = k.run]
  <2>6. /\ Obj = {o} /\ use' = use /\ free' = free /\ holder' = h
        /\ Contents(mbx'[o]) = Tail(q) /\ Args' = Args /\ Placed(free, h, Tail(q), Args)
    BY <1>1, <1>2, <2>2, <2>3, <2>5, ArgsSame
  <2> HIDE DEF h
  <2> QED BY <2>6, KeptByMove
<1>4. CASE mbx' = mbx /\ got' = None
  BY <1>2, <1>4, RestKept DEF Received, blockVars
<1>5. CASE mbx' = [mbx EXCEPT ![o].state = Now(o, 1)] /\ got' = None
  <2>1. mbx'[o] = [mbx[o] EXCEPT !.state = Now(o, 1)]
    BY <1>1, <1>5
  <2>2. Contents(mbx'[o]) = Contents(mbx[o]) /\ holder' = holder
    BY <1>1, <1>2, <1>5, <2>1, ContentsSame DEF Received
  <2> QED BY <1>1, <1>2, <2>2, ArgsSame, KeptAfter
<1> QED BY <1>1, <1>2, <1>3, <1>4, <1>5 DEF GetEnds

LEMMA PopKept ==
    ASSUME Base, Relied, Kept, use \in MailUses, PopMail, use' = use
    PROVE  Kept'
<1> DEFINE o == Head(psq).id
           x == Head(psq).arg
<1>1. PopMessage /\ holder' = Received(holder) /\ free' = free
  BY DEF PopMail
<1>2. /\ psq # <<>> /\ o \in Obj
      /\ \/ psq' = Tail(psq) /\ PopEnds(o, x)
         \/ psq' = psq /\ mbx' = mbx /\ got' = None
  BY <1>1, PopSteps
<1>3. /\ Placed(free, holder, Contents(mbx[o]), Args) /\ Obj = {o}
      /\ holder \in Holders /\ mbx \in [Obj -> Mailbox] /\ mbx[o] \in Mailbox
      /\ mbx[o].first = (mbx[o].last + mbx[o].count) % Size
      /\ ~Sending(o) /\ Message \subseteq Word /\ None \notin Thread
      /\ (k.wait[o] # <<>> => First(o) \in Thread)
      /\ None \notin [to : Thread, msg : Word]
  <2> HIDE DEF o
  <2> QED BY <1>2, KeptFinds
<1>4. /\ Args # <<>> /\ Head(Args) = x
      /\ psq' = Tail(psq) => Args' = Tail(Args)
  BY <1>2, ArgsShorter
<1>5. mbx[o].state # 3 \/ k.wait[o] = <<>>
  BY <1>1 DEF PopMessage
<1> HIDE DEF o, x
<1>6. x \in Message
  BY <1>3, <1>4, ShorterList DEF Placed
<1>7. CASE psq' = psq /\ mbx' = mbx /\ got' = None
  BY <1>1, <1>7, RestKept DEF Received, blockVars
<1>8. CASE /\ psq' = Tail(psq) /\ ~Full(mbx[o]) /\ got' = None
           /\ mbx' = [mbx EXCEPT ![o] = Stored(@, x)]
  <2>1. mbx'[o] = Stored(mbx[o], x) /\ mbx[o].count # Size
    BY <1>3, <1>8 DEF Full
  <2>2. Contents(mbx'[o]) = Append(Contents(mbx[o]), x)
    BY <1>3, <1>6, <2>1, ContentsStored
  <2>3. Placed(free, holder, Append(Contents(mbx[o]), x), Tail(Args))
    BY <1>3, <1>4, PlacedStored
  <2>4. holder' = holder /\ free' = free
    BY <1>1, <1>8 DEF Received
  <2> QED BY <1>3, <1>4, <1>8, <2>2, <2>3, <2>4, KeptAfter
<1>9. CASE /\ psq' = Tail(psq) /\ Receiving(o) /\ mbx' = mbx
           /\ got' = [to |-> First(o), msg |-> x]
  <2>1. First(o) \in Thread /\ First(o) # None
    BY <1>3, <1>9 DEF Receiving
  <2>2. got' \in [to : Thread, msg : Word] /\ got'.msg = x /\ got'.to = First(o)
    BY <1>3, <1>6, <1>9, <2>1
  <2>3. holder' = [holder EXCEPT ![x] = First(o)]
    BY <1>1, <1>3, <1>6, <2>2 DEF Received
  <2>4. Placed(free, [holder EXCEPT ![x] = First(o)], Contents(mbx[o]), Tail(Args))
    <3> DEFINE t == First(o)
               q == Contents(mbx[o])
    <3>1. Placed(free, holder, q, Args) /\ t # None /\ Args # <<>> /\ holder \in Holders
      BY <1>3, <1>4, <2>1
    <3> HIDE DEF t, q
    <3>2. Placed(free, [holder EXCEPT ![Head(Args)] = t], q, Tail(Args))
      BY <3>1, PlacedGot
    <3> QED BY <1>4, <3>2 DEF t, q
  <2> DEFINE h == [holder EXCEPT ![x] = First(o)]
             a == Tail(Args)
  <2>5. /\ Obj = {o} /\ use' = use /\ free' = free /\ holder' = h
        /\ Contents(mbx'[o]) = Contents(mbx[o]) /\ Args' = a
        /\ Placed(free, h, Contents(mbx[o]), a)
    BY <1>1, <1>3, <1>4, <1>9, <2>3, <2>4
  <2> HIDE DEF h, a
  <2> QED BY <2>5, KeptByMove
<1>10. CASE k.wait[o] # <<>> /\ ~Receiving(o) /\ ~Sending(o) /\ mbx[o].state # 3
  <2>1. Well(use, k.wait[o] = <<>>, mbx[o], free)
    BY <1>2 DEF Relied
  <2> QED BY <1>10, <2>1 DEF Well, Receiving, Sending
<1> QED BY <1>2, <1>3, <1>7, <1>8, <1>9, <1>10 DEF PopEnds

LEMMA KeptInit == MailInit => Kept
<1> SUFFICES ASSUME MailInit, use \in MailUses, NEW o \in Obj
             PROVE  Placed(free, holder, Contents(mbx[o]), Args)
  BY DEF Kept
<1>1. free = Message /\ holder = [b \in Message |-> None] /\ psq = <<>> /\ use # "any"
  BY DEF MailInit, MailUses, Init, KernelInit
<1>2. Held(holder) = {}
  BY <1>1 DEF Held
<1>3. mbx[o] \in Mailbox /\ mbx[o].count = 0
  BY <1>1, ReliedInit DEF Relied, Typed, MailInit, Init
<1>4. Contents(mbx[o]) = <<>>
  <2> DEFINE q == Contents(mbx[o])
  <2>1. q \in Seq(Word) /\ Len(q) = 0
    BY <1>3, ContentsFields
  <2> HIDE DEF q
  <2>2. q = <<>>
    BY <2>1
  <2> QED BY <2>2 DEF q
<1>5. Args = <<>>
  <2>1. DOMAIN psq = 1 .. 0
    BY <1>1
  <2>2. Args \in [1 .. 0 -> Message] /\ DOMAIN Args = 1 .. 0
    BY <2>1 DEF Args
  <2> QED BY <2>2
<1>6. Distinct(<<>>) /\ ToSet(<<>>) = {} /\ <<>> \in Seq(Message)
  BY DEF Distinct, ToSet
<1> QED BY <1>1, <1>2, <1>4, <1>5, <1>6 DEF Placed

LEMMA KeptNext == Base /\ Relied /\ Kept /\ use # "any" /\ [MailNext]_mailVars => Kept'
<1> SUFFICES ASSUME Base, Relied, Kept, [MailNext]_mailVars, use' \in MailUses PROVE Kept'
  BY DEF Kept
<1>1. use' = use /\ use \in MailUses /\ use # "message"
  BY UseStays DEF MailUses
<1>2. CASE MailSvc
  <2>1. PICK o \in Obj :
           \/ \E n \in AllocTimeouts : MailAlloc(o, n) /\ got' = None
           \/ \E n \in GetTimeouts : MailGet(o, n)
           \/ \E b \in Message : MailPut(o, b) \/ (MailFree(o, b) /\ got' = None)
    BY <1>2 DEF MailSvc
  <2>2. CASE \E n \in AllocTimeouts : MailAlloc(o, n) /\ got' = None
    BY <1>1, <2>2, AllocKept
  <2>3. CASE \E n \in GetTimeouts : MailGet(o, n)
    BY <1>1, <2>3, GetKept
  <2>4. CASE \E b \in Message : MailPut(o, b)
    BY <1>1, <2>4, PutKept
  <2>5. CASE \E b \in Message : MailFree(o, b) /\ got' = None
    BY <1>1, <2>5, FreeKept
  <2> QED BY <2>1, <2>2, <2>3, <2>4, <2>5
<1>3. CASE MailIsr
  BY <1>1, <1>3, IsrKept
<1>4. CASE PopMail
  BY <1>1, <1>4, PopKept
<1>5. CASE PopMemory
  <2>1. psq # <<>> /\ Head(psq).id \in Obj /\ mbx[Head(psq).id].state = 3
    BY <1>5, PopMemorySteps
  <2>2. use # "wait"
    BY <2>1 DEF Relied
  <2> QED BY <2>1, <2>2 DEF Relied, Well
<1>6. CASE Elsewhere /\ UNCHANGED blockVars
  BY <1>1, <1>6, ElsewhereSteps, RestKept
<1>7. CASE UNCHANGED mailVars
  BY <1>1, <1>7, RestKept DEF mailVars, vars, kernelVars, mbxVars
<1> QED BY <1>1, <1>2, <1>3, <1>4, <1>5, <1>6, <1>7 DEF MailNext, MailPop

-----------------------------------------------------------------------------
(***************************************************************************)
(* A mail on its way finds room: the ring holds only other mails, and      *)
(* there are no more than it has room for.                                 *)
(***************************************************************************)
LEMMA RoomForMail ==
    ASSUME NEW F, NEW h, NEW q, NEW a, Placed(F, h, q, a), a # <<>>,
           IsFiniteSet(Message), Size \in Nat, Cardinality(Message) <= Size
    PROVE  Len(q) # Size
<1> DEFINE S == Message \ {Head(a)}
           n == Len(q)
<1>1. q \in Seq(Message) /\ Distinct(q) /\ a \in Seq(Message) /\ Distinct(a)
  BY DEF Placed
<1>2. Head(a) \in ToSet(a) /\ Head(a) \in Message
  BY <1>1, ShorterList
<1>3. /\ IsFiniteSet(S) /\ Cardinality(S) = Cardinality(Message) - 1
      /\ Cardinality(Message) \in Nat
  BY <1>2, FS_RemoveElement, FS_CardinalityType
<1>4. q \in [1 .. n -> S] /\ n \in Nat /\ DOMAIN q = 1 .. n
  <2>1. n \in Nat /\ DOMAIN q = 1 .. n /\ q \in [1 .. n -> Message]
    BY <1>1
  <2>2. \A i \in 1 .. n : q[i] # Head(a)
    BY <1>2, <2>1 DEF Placed, ToSet
  <2> HIDE DEF n
  <2> QED BY <2>1, <2>2
<1> HIDE DEF S, n
<1>5. SUFFICES ASSUME n = Size PROVE FALSE
  BY DEF n
<1>6. IsFiniteSet(1 .. n) /\ Cardinality(1 .. n) = n
  BY <1>4, FS_Interval
<1>7. Cardinality(S) < Cardinality(1 .. n)
  BY <1>3, <1>5, <1>6
<1>8. PICK i, j \in 1 .. n : i # j /\ q[i] = q[j]
  BY <1>3, <1>4, <1>6, <1>7, FS_PigeonHole
<1> QED BY <1>1, <1>4, <1>8 DEF Distinct

LEMMA OnePlace ==
    ASSUME NEW A, NEW B, NEW C, NEW D,
           \/ A /\ ~B /\ ~C /\ ~D
           \/ ~A /\ B /\ ~C /\ ~D
           \/ ~A /\ ~B /\ C /\ ~D
           \/ ~A /\ ~B /\ ~C /\ D
    PROVE  Cardinality({p \in {"free", "held", "ring", "way"} :
              \/ p = "free" /\ A
              \/ p = "held" /\ B
              \/ p = "ring" /\ C
              \/ p = "way" /\ D}) = 1
<1> DEFINE P == {p \in {"free", "held", "ring", "way"} :
                    \/ p = "free" /\ A
                    \/ p = "held" /\ B
                    \/ p = "ring" /\ C
                    \/ p = "way" /\ D}
<1>1. P = {"free"} \/ P = {"held"} \/ P = {"ring"} \/ P = {"way"}
  OBVIOUS
<1> HIDE DEF P
<1>2. Cardinality(P) = 1
  BY <1>1, FS_Singleton
<1> QED BY <1>2 DEF P

LEMMA KeptIsConserved == Base /\ (use # "any" => Relied) /\ Kept => BlocksConserved
<1> SUFFICES ASSUME Base, use # "any" => Relied, Kept, use \in MailUses
             PROVE  /\ \A b \in Message :
                          Cardinality({p \in {"free", "held", "ring", "way"} :
                              \/ p = "free" /\ b \in free
                              \/ p = "held" /\ holder[b] # None
                              \/ p = "ring" /\ InRing(b)
                              \/ p = "way" /\ Coming(b)}) = 1
                    /\ \A o \in Obj : IsInjective(Contents(mbx[o]))
                    /\ IsInjective([i \in DOMAIN psq |-> psq[i].arg])
                    /\ mode = "pop" /\ psq # <<>> => ~Full(mbx[Head(psq).id])
  BY DEF BlocksConserved
<1>1. Relied /\ use \in Uses
  BY DEF MailUses, Relied, Typed
<1>2. PICK o \in Obj : Obj = {o}
  BY <1>1, OneMailbox
<1> DEFINE q == Contents(mbx[o])
           a == Args
<1>3. Placed(free, holder, q, a) /\ mbx[o] \in Mailbox
  BY <1>1, KeptFinds
<1>4. ASSUME NEW b \in Message
      PROVE  /\ holder[b] # None <=> b \in Held(holder)
             /\ InRing(b) <=> b \in ToSet(q)
             /\ Coming(b) <=> b \in ToSet(a)
  <2>1. Coming(b) <=> b \in ToSet(a)
    BY DEF Coming, ToSet, Args
  <2> QED BY <1>2, <2>1 DEF Held, InRing
<1>5. IsInjective(q) /\ IsInjective(a) /\ Len(q) = mbx[o].count
  BY <1>3, ContentsFields DEF Placed, Distinct, IsInjective
<1>6. ASSUME psq # <<>> PROVE mbx[o].count # Size
  <2>1. a # <<>>
    BY <1>1, <1>6, ArgsShorter
  <2>2. IsFiniteSet(Message) /\ Cardinality(Message) <= Size /\ Size \in Nat
    BY <1>1, OneMailbox, MailboxAssumption DEF MailboxAssumption
  <2> HIDE DEF q, a
  <2>3. Len(q) # Size
    BY <1>3, <2>1, <2>2, RoomForMail
  <2> QED BY <1>5, <2>3
<1>7. ASSUME NEW b \in Message
      PROVE  Cardinality({p \in {"free", "held", "ring", "way"} :
                 \/ p = "free" /\ b \in free
                 \/ p = "held" /\ holder[b] # None
                 \/ p = "ring" /\ InRing(b)
                 \/ p = "way" /\ Coming(b)}) = 1
  <2> HIDE DEF q, a
  <2> DEFINE A == b \in free
             B == holder[b] # None
             C == InRing(b)
             D == Coming(b)
  <2>1. \/ A /\ ~B /\ ~C /\ ~D
        \/ ~A /\ B /\ ~C /\ ~D
        \/ ~A /\ ~B /\ C /\ ~D
        \/ ~A /\ ~B /\ ~C /\ D
    BY <1>3, <1>4 DEF Placed
  <2> QED BY <2>1, OnePlace
<1>8. psq # <<>> => Head(psq).id = o
  BY <1>2, PsqFields DEF Base
<1> QED BY <1>2, <1>5, <1>6, <1>7, <1>8 DEF Full, Args

(***************************************************************************)
(* Every block of a mail queue is always in one place, and the ring never  *)
(* overflows.                                                              *)
(***************************************************************************)
THEOREM MailBlocksConserved == MailSpec => []BlocksConserved
<1> DEFINE I == Base /\ (use # "any" => Relied) /\ Kept
<1>1. MailInit => I
  BY BaseInit, ReliedInit, KeptInit
<1>2. I /\ [MailNext]_mailVars => I'
  <2>1. use = "any" /\ [MailNext]_mailVars => Kept'
    BY UseStays DEF Kept, MailUses
  <2> QED BY <2>1, BaseNext, ReliedNext, KeptNext, UseStays
<1>3. I => BlocksConserved
  BY KeptIsConserved
<1> QED BY <1>1, <1>2, <1>3, PTL DEF MailSpec

-----------------------------------------------------------------------------
(***************************************************************************)
(* The mailboxes implement MessageQueue, where the program relies on their *)
(* lists: every step is one of its steps.  One that changes nothing there  *)
(* is that of a thread that gives up without having waited.                *)
(***************************************************************************)
LEMMA BoxesBecome ==
    ASSUME NEW o \in Obj, \A x \in Obj \ {o} : mbx'[x] = mbx[x],
           NEW q, Contents(mbx'[o]) = q
    PROVE  Boxes' = [Boxes EXCEPT ![o] = q] /\ (q = Contents(mbx[o]) => Boxes' = Boxes)
  BY DEF Boxes

\* Who waits to put and to get, in whatever state the list is.
Side(w, b, s) == [o \in Obj |-> IF b[o].state = s THEN ToSet(w[o]) ELSE {}]

LEMMA SidesAre ==
    /\ Senders = Side(k.wait, mbx, 2) /\ Senders' = Side(k'.wait, mbx', 2)
    /\ Receivers = Side(k.wait, mbx, 1) /\ Receivers' = Side(k'.wait, mbx', 1)
<1>1. ToSet(<<>>) = {}
  BY DEF ToSet
<1>2. ASSUME NEW o \in Obj, NEW w, NEW b, NEW s
      PROVE  (IF w[o] # <<>> /\ b[o].state = s THEN ToSet(w[o]) ELSE {})
                = IF b[o].state = s THEN ToSet(w[o]) ELSE {}
  BY <1>1
<1>3. Senders = Side(k.wait, mbx, 2) /\ Receivers = Side(k.wait, mbx, 1)
  BY <1>2 DEF Senders, Receivers, Side, Sending, Receiving
<1>4. Senders' = Side(k'.wait, mbx', 2) /\ Receivers' = Side(k'.wait, mbx', 1)
  BY <1>2 DEF Senders, Receivers, Side, Sending, Receiving
<1> QED BY <1>3, <1>4

LEMMA SideStep ==
    ASSUME NEW o \in Obj, NEW s,
           \A x \in Obj \ {o} : k'.wait[x] = k.wait[x] /\ mbx'[x].state = mbx[x].state
    PROVE  /\ mbx'[o].state = s =>
                  Side(k'.wait, mbx', s) = [Side(k.wait, mbx, s) EXCEPT ![o] = ToSet(k'.wait[o])]
           /\ mbx'[o].state # s /\ mbx[o].state # s =>
                  Side(k'.wait, mbx', s) = Side(k.wait, mbx, s)
           /\ mbx[o].state = s => Side(k.wait, mbx, s)[o] = ToSet(k.wait[o])
           /\ mbx[o].state # s \/ k.wait[o] = <<>> => Side(k.wait, mbx, s)[o] = {}
<1> DEFINE p == Side(k.wait, mbx, s)
           r == Side(k'.wait, mbx', s)
<1>1. p = [x \in Obj |-> IF mbx[x].state = s THEN ToSet(k.wait[x]) ELSE {}]
  BY DEF Side
<1>2. r = [x \in Obj |-> IF mbx'[x].state = s THEN ToSet(k'.wait[x]) ELSE {}]
  BY DEF Side
<1> HIDE DEF p, r
<1>3. \A x \in Obj \ {o} : r[x] = p[x]
  BY <1>1, <1>2
<1>4. ASSUME mbx'[o].state = s PROVE r = [p EXCEPT ![o] = ToSet(k'.wait[o])]
  <2> DEFINE q == [p EXCEPT ![o] = ToSet(k'.wait[o])]
  <2>1. r[o] = ToSet(k'.wait[o])
    BY <1>2, <1>4
  <2>2. q = [x \in Obj |-> IF x = o THEN ToSet(k'.wait[o]) ELSE p[x]]
    BY <1>1
  <2>3. r = [x \in Obj |-> r[x]]
    BY <1>2
  <2> HIDE DEF q
  <2>4. q = r
    BY <1>3, <2>1, <2>2, <2>3
  <2> QED BY <2>4 DEF q
<1>5. mbx'[o].state # s /\ mbx[o].state # s => r = p
  BY <1>1, <1>2, <1>3
<1>6. ToSet(<<>>) = {}
  BY DEF ToSet
<1>7. /\ mbx[o].state = s => p[o] = ToSet(k.wait[o])
      /\ mbx[o].state # s \/ k.wait[o] = <<>> => p[o] = {}
  BY <1>1, <1>6
<1> QED BY <1>4, <1>5, <1>7 DEF p, r

\* The first of those who wait to get goes, or of those who wait to put.
LEMMA FirstOfSide ==
    ASSUME NEW o \in Obj, k.wait[o] # <<>>, FirstLeaves(k, k', o),
           \A x \in Obj : mbx'[x].state = mbx[x].state
    PROVE  /\ Receiving(o) => /\ First(o) \in Receivers[o] /\ Senders' = Senders
                              /\ Receivers' = [Receivers EXCEPT ![o] = @ \ {First(o)}]
           /\ Sending(o) => /\ First(o) \in Senders[o] /\ Receivers' = Receivers
                            /\ Senders' = [Senders EXCEPT ![o] = @ \ {First(o)}]
<1>1. /\ First(o) \in ToSet(k.wait[o])
      /\ ToSet(k'.wait[o]) = ToSet(k.wait[o]) \ {First(o)}
      /\ \A x \in Obj \ {o} : k'.wait[x] = k.wait[x]
  BY DEF FirstLeaves, First
<1>2. ASSUME NEW s, mbx[o].state = s
      PROVE  /\ Side(k.wait, mbx, s)[o] = ToSet(k.wait[o])
             /\ Side(k'.wait, mbx', s)
                  = [Side(k.wait, mbx, s) EXCEPT ![o] = @ \ {First(o)}]
  <2>1. Side(k.wait, mbx, s)[o] = ToSet(k.wait[o])
    BY <1>1, <1>2, SideStep
  <2>2. Side(k'.wait, mbx', s) = [Side(k.wait, mbx, s) EXCEPT ![o] = ToSet(k'.wait[o])]
    BY <1>1, <1>2, SideStep
  <2> QED BY <1>1, <2>1, <2>2
<1>3. ASSUME NEW s, mbx[o].state # s
      PROVE  Side(k'.wait, mbx', s) = Side(k.wait, mbx, s)
  <2>1. /\ mbx'[o].state # s /\ mbx[o].state # s
        /\ \A x \in Obj \ {o} : k'.wait[x] = k.wait[x] /\ mbx'[x].state = mbx[x].state
    BY <1>1, <1>3
  <2> QED BY ONLY o \in Obj, <2>1, SideStep
<1>4. CASE Receiving(o)
  <2>1. mbx[o].state = 1 /\ mbx[o].state # 2
    BY <1>4 DEF Receiving
  <2> QED BY <1>1, <1>2, <1>3, <2>1, SidesAre DEF Sending
<1>5. CASE Sending(o)
  <2>1. mbx[o].state = 2 /\ mbx[o].state # 1
    BY <1>5 DEF Sending
  <2> QED BY <1>1, <1>2, <1>3, <2>1, SidesAre DEF Receiving
<1> QED BY <1>4, <1>5

\* The running thread joins a list that is empty or of its kind.
LEMMA JoinsSide ==
    ASSUME NEW o \in Obj, NEW t, Joins(k, k', o, t), NEW s, mbx'[o].state = s,
           \A x \in Obj \ {o} : mbx'[x].state = mbx[x].state,
           k.wait[o] # <<>> => mbx[o].state = s
    PROVE  /\ Side(k'.wait, mbx', s) = [Side(k.wait, mbx, s) EXCEPT ![o] = @ \cup {t}]
           /\ \A r : r # s => /\ Side(k'.wait, mbx', r) = Side(k.wait, mbx, r)
                              /\ Side(k.wait, mbx, r)[o] = {}
<1>1. /\ ToSet(k'.wait[o]) = ToSet(k.wait[o]) \cup {t}
      /\ \A x \in Obj \ {o} : k'.wait[x] = k.wait[x]
  BY DEF Joins
<1>2. Side(k.wait, mbx, s)[o] = ToSet(k.wait[o])
  BY DEF Side, ToSet
<1>3. Side(k'.wait, mbx', s) = [Side(k.wait, mbx, s) EXCEPT ![o] = @ \cup {t}]
  <2>1. Side(k'.wait, mbx', s) = [Side(k.wait, mbx, s) EXCEPT ![o] = ToSet(k'.wait[o])]
    <3>1. /\ mbx'[o].state = s
          /\ \A x \in Obj \ {o} : k'.wait[x] = k.wait[x] /\ mbx'[x].state = mbx[x].state
      BY <1>1
    <3> QED BY ONLY o \in Obj, <3>1, SideStep
  <2> QED BY <1>1, <1>2, <2>1
<1>4. ASSUME NEW r, r # s
      PROVE  Side(k'.wait, mbx', r) = Side(k.wait, mbx, r) /\ Side(k.wait, mbx, r)[o] = {}
  <2>1. CASE mbx[o].state # r
    BY <1>1, <1>4, <2>1, SideStep
  <2>2. CASE k.wait[o] = <<>>
    <3>1. Side(k.wait, mbx, r)[o] = {}
      BY <1>1, <2>2, SideStep
    <3>2. \A x \in Obj : Side(k'.wait, mbx', r)[x] = Side(k.wait, mbx, r)[x]
      BY <1>1, <1>4, <3>1 DEF Side
    <3> QED BY <3>1, <3>2 DEF Side
  <2> QED BY <1>4, <2>1, <2>2
<1> QED BY <1>1, <1>3, <1>4

\* The requests of interrupts are messages on their way.
AsPosted(q) == [i \in DOMAIN q |-> [to |-> q[i].id, msg |-> q[i].arg]]

LEMMA PostedLonger ==
    ASSUME NEW S, NEW q \in Seq(S), NEW e \in S
    PROVE  AsPosted(Append(q, e)) = Append(AsPosted(q), [to |-> e.id, msg |-> e.arg])
<1> DEFINE p == AsPosted(Append(q, e))
           r == AsPosted(q)
           x == [to |-> e.id, msg |-> e.arg]
           T == {[to |-> y.id, msg |-> y.arg] : y \in S}
           n == Len(q)
<1>1. /\ n \in Nat /\ DOMAIN q = 1 .. n /\ DOMAIN Append(q, e) = 1 .. n + 1
      /\ Append(q, e)[n + 1] = e /\ \A i \in 1 .. n : Append(q, e)[i] = q[i] /\ q[i] \in S
  OBVIOUS
<1>2. r \in [1 .. n -> T] /\ p \in [1 .. n + 1 -> T] /\ x \in T
  BY <1>1 DEF AsPosted
<1>3. p[n + 1] = x /\ \A i \in 1 .. n : p[i] = r[i]
  BY <1>1 DEF AsPosted
<1> HIDE DEF p, r, x, T, n
<1>4. r \in Seq(T) /\ Len(r) = n /\ p \in Seq(T) /\ Len(p) = n + 1
  BY <1>1, <1>2
<1>5. p = Append(r, x)
  BY ONLY <1>1, <1>2, <1>3, <1>4
<1> QED BY <1>5 DEF p, r, x

LEMMA PostedShorter ==
    ASSUME NEW S, NEW q \in Seq(S), q # <<>>
    PROVE  /\ AsPosted(q) # <<>> /\ AsPosted(Tail(q)) = Tail(AsPosted(q))
           /\ Head(AsPosted(q)) = [to |-> Head(q).id, msg |-> Head(q).arg]
<1> DEFINE p == AsPosted(Tail(q))
           r == AsPosted(q)
           x == [to |-> Head(q).id, msg |-> Head(q).arg]
           T == {[to |-> y.id, msg |-> y.arg] : y \in S}
           n == Len(q)
<1>1. /\ n \in Nat \ {0} /\ DOMAIN q = 1 .. n /\ DOMAIN Tail(q) = 1 .. n - 1
      /\ Head(q) = q[1] /\ \A i \in 1 .. n - 1 : Tail(q)[i] = q[i + 1] /\ i + 1 \in 1 .. n
      /\ \A i \in 1 .. n : q[i] \in S
  OBVIOUS
<1>2. r \in [1 .. n -> T] /\ p \in [1 .. n - 1 -> T]
  BY <1>1 DEF AsPosted
<1>3. r[1] = x /\ \A i \in 1 .. n - 1 : p[i] = r[i + 1]
  BY <1>1 DEF AsPosted
<1> HIDE DEF p, r, x, T, n
<1>4. r \in Seq(T) /\ Len(r) = n /\ p \in Seq(T) /\ Len(p) = n - 1
  BY <1>1, <1>2
<1>5. r # <<>> /\ Head(r) = x /\ p = Tail(r)
  BY ONLY <1>1, <1>3, <1>4
<1> QED BY <1>5 DEF p, r, x

\* What the steps find.
LEMMA FifoFinds ==
    ASSUME Base, Relied, NEW o \in Obj
    PROVE  /\ mbx \in [Obj -> Mailbox] /\ mbx[o] \in Mailbox
           /\ mbx[o].first = (mbx[o].last + mbx[o].count) % Size
           /\ Size \in Nat \ {0} /\ mbx[o].count \in 0 .. Size
           /\ Boxes[o] = Contents(mbx[o]) /\ Len(Boxes[o]) = mbx[o].count
           /\ Boxes[o] = <<>> <=> mbx[o].count = 0
           /\ k.run \in Thread /\ Fifo!NotWaiting(k.run)
           /\ k.wait[o] # <<>> /\ mbx[o].state # 3 => \/ mbx[o].state = 1 /\ mbx[o].count = 0
                                                      \/ mbx[o].state = 2 /\ mbx[o].count = Size
           /\ use # "wait" => mbx[o].state # 3
           /\ ~Sending(o) => Senders[o] = {}
           /\ ~Receiving(o) => Receivers[o] = {}
<1>1. mbx \in [Obj -> Mailbox] /\ mbx[o] \in Mailbox /\ Well(use, k.wait[o] = <<>>, mbx[o], free)
  BY DEF Relied, Typed
<1>2. Size \in Nat \ {0} /\ mbx[o].count \in 0 .. Size
  BY <1>1, MailboxFields
<1>3. Boxes[o] = Contents(mbx[o]) /\ Len(Boxes[o]) = mbx[o].count /\ Boxes[o] \in Seq(Word)
  BY <1>1, ContentsFields DEF Boxes
<1>4. Boxes[o] = <<>> <=> mbx[o].count = 0
  BY <1>3
<1>5. k.run \in Thread /\ \A x \in Obj : k.run \notin ToSet(k.wait[x])
  BY ListFields DEF Base
<1>6. Fifo!NotWaiting(k.run)
  BY <1>5 DEF Fifo!NotWaiting, Senders, Receivers
<1> QED BY <1>1, <1>2, <1>3, <1>4, <1>5, <1>6 DEF Well, Senders, Receivers

LEMMA NothingMoves ==
    ASSUME Base, Relied, Boxes' = Boxes, Posted' = Posted, Senders' = Senders,
           Receivers' = Receivers, msg' = msg, got' = None
    PROVE  \E t \in Thread : Fifo!GiveUp(t)
<1>1. k.run \in Thread /\ \A x \in Obj : k.run \notin ToSet(k.wait[x])
  BY ListFields DEF Base
<1>2. \A x \in Obj : k.run \notin Senders[x] /\ k.run \notin Receivers[x]
  BY <1>1 DEF Senders, Receivers
<1>3. /\ Senders' = [x \in Obj |-> Senders[x] \ {k.run}]
      /\ Receivers' = [x \in Obj |-> Receivers[x] \ {k.run}]
  BY <1>2 DEF Senders, Receivers
<1>4. Fifo!GiveUp(k.run)
  BY <1>3 DEF Fifo!GiveUp
<1> QED BY <1>1, <1>4

LEMMA PostedSame ==
    ASSUME psq' = psq
    PROVE  Posted' = Posted
  BY DEF Posted

\* The mailboxes and their lists stay as they are.
LEMMA ListsStay ==
    ASSUME k' = k, mbx' = mbx
    PROVE  Boxes' = Boxes /\ Senders' = Senders /\ Receivers' = Receivers
  BY DEF Boxes, Senders, Receivers, Sending, Receiving

\* A message for a thread that waits, which a put or a request brings.
LEMMA EnterHands ==
    ASSUME Base, Relied, NEW o \in Obj, NEW x, Receiving(o), FirstLeaves(k, k', o),
           mbx' = mbx, msg' = msg, got' = [to |-> First(o), msg |-> x]
    PROVE  Fifo!Enter(o, x)
<1>1. k.wait[o] # <<>>
  BY DEF Receiving
<1>2. /\ First(o) \in Receivers[o] /\ Senders' = Senders
      /\ Receivers' = [Receivers EXCEPT ![o] = @ \ {First(o)}]
  BY <1>1, FirstOfSide
<1>3. Boxes' = Boxes
  BY DEF Boxes
<1> QED BY <1>2, <1>3 DEF Fifo!Enter

\* A message for which there is room.
LEMMA EnterStores ==
    ASSUME Base, Relied, NEW o \in Obj, NEW x \in Word, ~Receiving(o), ~Full(mbx[o]),
           k' = k, mbx' = [mbx EXCEPT ![o] = Stored(@, x)], msg' = msg, got' = None
    PROVE  Fifo!Enter(o, x)
<1>1. /\ mbx[o] \in Mailbox /\ mbx[o].first = (mbx[o].last + mbx[o].count) % Size
      /\ mbx[o].count # Size /\ mbx[o].count \in 0 .. Size /\ Size \in Nat
      /\ Boxes[o] = Contents(mbx[o]) /\ Len(Boxes[o]) = mbx[o].count
      /\ Receivers[o] = {} /\ mbx \in [Obj -> Mailbox]
  BY FifoFinds DEF Full
<1>2. mbx'[o] = Stored(mbx[o], x) /\ \A y \in Obj \ {o} : mbx'[y] = mbx[y]
  BY <1>1
<1>3. mbx'[o].state = mbx[o].state
  BY <1>1, <1>2, StoredFields
<1>4. Senders' = Senders /\ Receivers' = Receivers
  <2>1. \A y \in Obj : k'.wait[y] = k.wait[y] /\ mbx'[y].state = mbx[y].state
    BY <1>2, <1>3
  <2> QED BY <2>1 DEF Senders, Receivers, Sending, Receiving
<1>5. Contents(mbx'[o]) = Append(Boxes[o], x)
  BY <1>1, <1>2, ContentsStored
<1>6. Boxes' = [Boxes EXCEPT ![o] = Append(@, x)]
  BY <1>2, <1>5, BoxesBecome
<1>7. Len(Boxes[o]) < Size
  BY <1>1
<1> QED BY <1>1, <1>4, <1>6, <1>7 DEF Fifo!Enter

LEMMA PutIsFifo ==
    ASSUME Base, Relied, NEW o \in Obj, NEW x \in Word, NEW n \in 0 .. Forever,
           MessagePut(o, x, n), use # "wait" \/ n = 0
    PROVE  Fifo!Next
<1>1. PutEnds(o, x, n) /\ psq' = psq
  BY PutSteps
<1>2. Posted' = Posted
  BY <1>1, PostedSame
<1>3. CASE /\ Receiving(o) /\ FirstLeaves(k, k', o) /\ mbx' = mbx /\ msg' = msg
           /\ got' = [to |-> First(o), msg |-> x]
  <2>1. Fifo!Put(o, x)
    BY <1>2, <1>3, EnterHands DEF Fifo!Put
  <2> QED BY <2>1 DEF Fifo!Next
<1>4. CASE /\ ~Receiving(o) /\ ~Full(mbx[o]) /\ k' = k /\ msg' = msg
           /\ mbx' = [mbx EXCEPT ![o] = Stored(@, x)] /\ got' = None
  <2>1. Fifo!Put(o, x)
    BY <1>2, <1>4, EnterStores DEF Fifo!Put
  <2> QED BY <2>1 DEF Fifo!Next
<1>5. CASE k' = k /\ mbx' = mbx /\ msg' = msg /\ got' = None
  BY <1>2, <1>5, ListsStay, NothingMoves DEF Fifo!Next
<1>6. CASE /\ ~Receiving(o) /\ Full(mbx[o]) /\ n # 0 /\ Joins(k, k', o, k.run)
           /\ mbx' = [mbx EXCEPT ![o].state = Now(o, 2)]
           /\ msg' = [msg EXCEPT ![k.run] = x] /\ got' = None
  <2> DEFINE t == k.run
  <2>1. /\ mbx \in [Obj -> Mailbox] /\ Len(Boxes[o]) = Size /\ Receivers[o] = {}
        /\ t \in Thread /\ Fifo!NotWaiting(t)
        /\ k.wait[o] # <<>> => mbx[o].state = 2
    BY <1>6, FifoFinds DEF Full, Receiving
  <2> HIDE DEF t
  <2>2. /\ Side(k'.wait, mbx', 2) = [Side(k.wait, mbx, 2) EXCEPT ![o] = @ \cup {t}]
        /\ Side(k'.wait, mbx', 1) = Side(k.wait, mbx, 1)
    <3> DEFINE s == 2
               r == 1
    <3>1. mbx'[o] = [mbx[o] EXCEPT !.state = Now(o, s)] /\ mbx[o] \in Mailbox
      BY <1>6, <2>1
    <3>2. mbx'[o].state = Now(o, s)
      BY <3>1 DEF Mailbox
    <3>3. /\ Joins(k, k', o, t) /\ r # s /\ mbx'[o].state = s
          /\ \A y \in Obj \ {o} : mbx'[y].state = mbx[y].state
          /\ k.wait[o] # <<>> => mbx[o].state = s
      BY <1>6, <2>1, <3>2 DEF Now, t
    <3> HIDE DEF s, r
    <3>4. /\ Side(k'.wait, mbx', s) = [Side(k.wait, mbx, s) EXCEPT ![o] = @ \cup {t}]
          /\ Side(k'.wait, mbx', r) = Side(k.wait, mbx, r)
      BY <3>3, JoinsSide
    <3> QED BY <3>4 DEF s, r
  <2>3. Senders' = [Senders EXCEPT ![o] = @ \cup {t}] /\ Receivers' = Receivers
    BY <2>2, SidesAre
  <2>4. Boxes' = Boxes
    <3>1. /\ mbx'[o] = [mbx[o] EXCEPT !.state = Now(o, 2)] /\ mbx[o] \in Mailbox
          /\ \A y \in Obj \ {o} : mbx'[y] = mbx[y]
      BY <1>6, <2>1
    <3>2. Contents(mbx'[o]) = Contents(mbx[o])
      BY <3>1, ContentsSame
    <3> QED BY <3>1, <3>2, BoxesBecome
  <2>5. msg' = [msg EXCEPT ![t] = x]
    BY <1>6 DEF t
  <2>6. Fifo!WaitToPut(o, t, x)
    BY <1>2, <1>6, <2>1, <2>3, <2>4, <2>5 DEF Fifo!WaitToPut
  <2> QED BY <2>1, <2>6 DEF Fifo!Next
<1> QED BY <1>1, <1>3, <1>4, <1>5, <1>6 DEF PutEnds

LEMMA GetIsFifo ==
    ASSUME Base, Relied, NEW o \in Obj, NEW n \in 0 .. Forever,
           MessageGet(o, n), use # "wait" \/ n = 0
    PROVE  Fifo!Next
<1>1. GetEnds(o, n) /\ psq' = psq /\ msg' = msg
  BY GetSteps
<1>2. Posted' = Posted
  BY <1>1, PostedSame
<1> DEFINE t == k.run
           m == mbx[o]
<1>3. /\ mbx \in [Obj -> Mailbox] /\ m \in Mailbox
      /\ m.first = (m.last + m.count) % Size /\ m.count \in 0 .. Size /\ Size \in Nat \ {0}
      /\ Boxes[o] = Contents(m) /\ (Boxes[o] = <<>> <=> m.count = 0)
      /\ t \in Thread /\ Fifo!NotWaiting(t)
      /\ ~Sending(o) => Senders[o] = {}
  BY FifoFinds
<1> HIDE DEF t
<1>4. CASE /\ m.count > 0 /\ ~Sending(o) /\ k' = k /\ mbx' = [mbx EXCEPT ![o] = Taken(@)]
           /\ got' = [to |-> t, msg |-> Oldest(m)]
  <2>1. mbx'[o] = Taken(m) /\ \A y \in Obj \ {o} : mbx'[y] = mbx[y]
    BY <1>3, <1>4
  <2>2. Boxes[o] # <<>> /\ Oldest(m) = Head(Boxes[o]) /\ Contents(mbx'[o]) = Tail(Boxes[o])
    BY <1>3, <1>4, <2>1, ContentsTaken
  <2>3. mbx'[o].state = mbx[o].state
    BY <1>3, <1>4, <2>1, TakenFields
  <2>4. Senders' = Senders /\ Receivers' = Receivers
    <3>1. \A y \in Obj : k'.wait[y] = k.wait[y] /\ mbx'[y].state = mbx[y].state
      BY <1>4, <2>1, <2>3
    <3> QED BY <3>1 DEF Senders, Receivers, Sending, Receiving
  <2>5. Boxes' = [Boxes EXCEPT ![o] = Tail(@)]
    BY <2>1, <2>2, BoxesBecome
  <2>6. Fifo!Get(o, t)
    BY <1>1, <1>2, <1>3, <1>4, <2>2, <2>4, <2>5 DEF Fifo!Get
  <2> QED BY <1>3, <2>6 DEF Fifo!Next
<1>5. CASE /\ m.count > 0 /\ Sending(o) /\ FirstLeaves(k, k', o)
           /\ mbx' = [mbx EXCEPT ![o] = FromSender(o, Taken(@))]
           /\ got' = [to |-> t, msg |-> Oldest(m)]
  <2> DEFINE x == msg[First(o)]
             v == Taken(m)
  <2>1. /\ mbx'[o] = Stored(v, x) /\ \A y \in Obj \ {o} : mbx'[y] = mbx[y]
    BY <1>3, <1>5 DEF FromSender
  <2>2. Boxes[o] # <<>> /\ Oldest(m) = Head(Boxes[o]) /\ Contents(v) = Tail(Boxes[o])
    BY <1>3, <1>5, ContentsTaken
  <2>3. /\ v \in Mailbox /\ v.count # Size /\ v.first = (v.last + v.count) % Size
        /\ v.state = m.state
    BY <1>3, <1>5, TakenFields
  <2>4. First(o) \in Thread /\ x \in Word
    BY <1>5, ListFields DEF Base, Sending, Relied, Typed
  <2> HIDE DEF v, x
  <2>5. /\ Contents(mbx'[o]) = Append(Tail(Boxes[o]), x) /\ mbx'[o].state = m.state
    <3>1. Contents(Stored(v, x)) = Append(Contents(v), x) /\ Stored(v, x).state = v.state
      BY ONLY <2>3, <2>4, ContentsStored, StoredFields
    <3> QED BY <2>1, <2>2, <2>3, <3>1
  <2>6. Boxes' = [Boxes EXCEPT ![o] = Append(Tail(@), x)]
    BY <2>1, <2>5, BoxesBecome
  <2>7. /\ First(o) \in Senders[o] /\ Receivers' = Receivers
        /\ Senders' = [Senders EXCEPT ![o] = @ \ {First(o)}]
    <3>1. k.wait[o] # <<>> /\ \A y \in Obj : mbx'[y].state = mbx[y].state
      BY <1>5, <2>1, <2>5 DEF Sending
    <3> QED BY <1>5, <3>1, FirstOfSide
  <2>8. Fifo!Get(o, t)
    BY <1>1, <1>2, <1>3, <1>5, <2>2, <2>6, <2>7 DEF Fifo!Get, x
  <2> QED BY <1>3, <2>8 DEF Fifo!Next
<1>6. CASE k' = k /\ mbx' = mbx /\ got' = None
  BY <1>1, <1>2, <1>6, ListsStay, NothingMoves DEF Fifo!Next
<1>7. CASE /\ ~(m.count > 0) /\ n # 0 /\ Joins(k, k', o, t)
           /\ mbx' = [mbx EXCEPT ![o].state = Now(o, 1)] /\ got' = None
  <2>1. /\ Boxes[o] = <<>> /\ m.count = 0 /\ m.count # Size
    BY <1>3, <1>7
  <2>2. Senders[o] = {} /\ (k.wait[o] # <<>> => m.state = 1)
    <3>1. k.wait[o] # <<>> => m.state = 1
      BY <1>7, <2>1, FifoFinds
    <3> QED BY <1>3, <3>1 DEF Sending
  <2>3. /\ Side(k'.wait, mbx', 1) = [Side(k.wait, mbx, 1) EXCEPT ![o] = @ \cup {t}]
        /\ Side(k'.wait, mbx', 2) = Side(k.wait, mbx, 2)
    <3> DEFINE s == 1
               r == 2
    <3>1. mbx'[o] = [mbx[o] EXCEPT !.state = Now(o, s)] /\ mbx[o] \in Mailbox
      BY <1>3, <1>7, <2>2
    <3>2. mbx'[o].state = Now(o, s)
      BY <3>1 DEF Mailbox
    <3>3. /\ Joins(k, k', o, t) /\ r # s /\ mbx'[o].state = s
          /\ \A y \in Obj \ {o} : mbx'[y].state = mbx[y].state
          /\ k.wait[o] # <<>> => mbx[o].state = s
      BY <1>3, <1>7, <2>2, <3>2 DEF Now
    <3> HIDE DEF s, r
    <3>4. /\ Side(k'.wait, mbx', s) = [Side(k.wait, mbx, s) EXCEPT ![o] = @ \cup {t}]
          /\ Side(k'.wait, mbx', r) = Side(k.wait, mbx, r)
      BY <3>3, JoinsSide
    <3> QED BY <3>4 DEF s, r
  <2>4. Receivers' = [Receivers EXCEPT ![o] = @ \cup {t}] /\ Senders' = Senders
    BY <2>3, SidesAre
  <2>5. Boxes' = Boxes
    <3>1. /\ mbx'[o] = [mbx[o] EXCEPT !.state = Now(o, 1)] /\ mbx[o] \in Mailbox
          /\ \A y \in Obj \ {o} : mbx'[y] = mbx[y]
      BY <1>3, <1>7
    <3>2. Contents(mbx'[o]) = Contents(mbx[o])
      BY <3>1, ContentsSame
    <3> QED BY <3>1, <3>2, BoxesBecome
  <2>6. Fifo!WaitToGet(o, t)
    BY <1>1, <1>2, <1>3, <1>7, <2>1, <2>2, <2>4, <2>5 DEF Fifo!WaitToGet
  <2> QED BY <1>3, <2>6 DEF Fifo!Next
<1> QED BY <1>1, <1>4, <1>5, <1>6, <1>7 DEF GetEnds, t

LEMMA IsrPutIsFifo ==
    ASSUME Base, Relied, NEW o \in Obj, NEW x \in Word, IsrMessagePut(o, x)
    PROVE  Fifo!Next
<1> DEFINE e == [id |-> o, arg |-> x]
           S == [id : Obj, arg : Word]
<1>1. Enqueued(e) /\ mbx' = mbx /\ msg' = msg /\ got' = None
  BY EnqSteps DEF IsrMessagePut
<1>2. Boxes' = Boxes /\ Senders' = Senders /\ Receivers' = Receivers
  BY <1>1, ListsStay DEF Enqueued
<1>3. CASE psq' = Append(psq, e)
  <2>1. psq \in Seq(S) /\ e \in S /\ e.id = o /\ e.arg = x
    BY DEF Relied, Typed
  <2> HIDE DEF e, S
  <2>2. AsPosted(psq') = Append(AsPosted(psq), [to |-> o, msg |-> x])
    BY <1>3, <2>1, PostedLonger
  <2>3. Posted' = Append(Posted, [to |-> o, msg |-> x])
    BY <2>2 DEF AsPosted, Posted
  <2>4. Fifo!Post(o, x)
    BY <1>1, <1>2, <2>3 DEF Fifo!Post
  <2> QED BY <2>4 DEF Fifo!Next
<1>4. CASE psq' = psq
  BY <1>1, <1>2, <1>4, PostedSame, NothingMoves DEF Fifo!Next
<1> QED BY <1>1, <1>3, <1>4 DEF Enqueued

LEMMA PopIsFifo ==
    ASSUME Base, Relied, PopMessage
    PROVE  Fifo!Next
<1> DEFINE o == Head(psq).id
           x == Head(psq).arg
           S == [id : Obj, arg : Word]
<1>1. /\ psq # <<>> /\ o \in Obj /\ msg' = msg
      /\ \/ psq' = Tail(psq) /\ PopEnds(o, x)
         \/ psq' = psq /\ k' = k /\ mbx' = mbx /\ got' = None
  BY PopSteps
<1>2. x \in Word /\ ~Sending(o)
  <2>1. psq \in Seq(S) /\ Under(psq, k.wait, mbx, mode)
    BY DEF Relied, Typed
  <2>2. 1 \in DOMAIN psq /\ Head(psq) = psq[1] /\ psq[1] \in S
    <3> HIDE DEF S
    <3> QED BY <1>1, <2>1
  <2> QED BY <2>1, <2>2 DEF Under, Sending
<1>3. psq' = Tail(psq) => /\ Posted # <<>> /\ Posted' = Tail(Posted)
                          /\ Head(Posted) = [to |-> o, msg |-> x]
  <2>1. psq \in Seq(S)
    BY DEF Relied, Typed
  <2>2. /\ AsPosted(psq) # <<>> /\ AsPosted(Tail(psq)) = Tail(AsPosted(psq))
        /\ Head(AsPosted(psq)) = [to |-> Head(psq).id, msg |-> Head(psq).arg]
    <3> HIDE DEF S
    <3> QED BY <1>1, <2>1, PostedShorter
  <2>3. AsPosted(psq) = Posted /\ (psq' = Tail(psq) => AsPosted(Tail(psq)) = Posted')
    BY DEF AsPosted, Posted
  <2> QED BY <2>2, <2>3
<1> HIDE DEF o, x
<1>4. ASSUME psq' = Tail(psq), Fifo!Enter(o, x) PROVE Fifo!Next
  <2>1. Fifo!Arrive
    BY <1>3, <1>4 DEF Fifo!Arrive
  <2> QED BY <2>1 DEF Fifo!Next
<1>5. CASE /\ psq' = Tail(psq) /\ k.wait[o] = <<>> /\ ~Full(mbx[o]) /\ k' = k
           /\ mbx' = [mbx EXCEPT ![o] = Stored(@, x)] /\ got' = None
  BY <1>1, <1>2, <1>4, <1>5, EnterStores DEF Receiving
<1>6. CASE /\ psq' = Tail(psq) /\ Receiving(o) /\ FirstLeaves(k, k', o) /\ mbx' = mbx
           /\ got' = [to |-> First(o), msg |-> x]
  BY <1>1, <1>2, <1>4, <1>6, EnterHands
<1>7. CASE psq' = psq /\ k' = k /\ mbx' = mbx /\ got' = None
  BY <1>1, <1>7, ListsStay, PostedSame, NothingMoves DEF Fifo!Next
<1>8. CASE k.wait[o] # <<>> /\ ~Receiving(o) /\ ~Sending(o) /\ mbx[o].state # 3
  BY <1>1, <1>8, FifoFinds DEF Receiving, Sending
<1> QED BY <1>1, <1>2, <1>5, <1>6, <1>7, <1>8 DEF PopEnds

\* The list of those who wait for memory is on neither side.
LEMMA MemorySide ==
    ASSUME NEW o \in Obj, mbx[o].state \notin {1, 2}, mbx'[o].state \notin {1, 2},
           \A x \in Obj \ {o} : k'.wait[x] = k.wait[x] /\ mbx'[x].state = mbx[x].state
    PROVE  Senders' = Senders /\ Receivers' = Receivers
<1>1. ASSUME NEW s, s \in {1, 2} PROVE Side(k'.wait, mbx', s) = Side(k.wait, mbx, s)
  <2>1. mbx[o].state # s /\ mbx'[o].state # s
    BY <1>1
  <2> QED BY <2>1, SideStep
<1> QED BY <1>1, SidesAre

LEMMA AllocIsFifo ==
    ASSUME Base, Relied, use \in MailUses, NEW o \in Obj, NEW n \in AllocTimeouts,
           MailAlloc(o, n), got' = None
    PROVE  Fifo!Next
<1>1. AllocEnds(o, n) /\ psq' = psq /\ msg' = msg
  BY CallTimeouts, AllocSteps
<1>2. CASE k' = k /\ mbx' = mbx
  BY <1>1, <1>2, ListsStay, PostedSame, NothingMoves DEF Fifo!Next
<1>3. CASE n # 0 /\ Joins(k, k', o, k.run) /\ mbx' = [mbx EXCEPT ![o].state = Now(o, 3)]
  <2>1. use = "wait"
    BY <1>3 DEF AllocTimeouts, MailUses
  <2>2. /\ mbx \in [Obj -> Mailbox] /\ mbx[o] \in Mailbox
        /\ mbx[o].state \in {0, 3} /\ (k.wait[o] # <<>> => mbx[o].state = 3)
    BY <2>1 DEF Relied, Typed, Well
  <2>3. /\ mbx'[o] = [mbx[o] EXCEPT !.state = Now(o, 3)]
        /\ \A x \in Obj \ {o} : mbx'[x] = mbx[x] /\ k'.wait[x] = k.wait[x]
    BY <1>3, <2>2 DEF Joins
  <2>4. mbx'[o].state = 3
    <3>1. mbx'[o].state = Now(o, 3)
      BY <2>2, <2>3 DEF Mailbox
    <3> QED BY <2>2, <3>1 DEF Now
  <2>5. Senders' = Senders /\ Receivers' = Receivers
    <3>1. /\ mbx[o].state \notin {1, 2} /\ mbx'[o].state \notin {1, 2}
          /\ \A x \in Obj \ {o} : k'.wait[x] = k.wait[x] /\ mbx'[x].state = mbx[x].state
      BY <2>2, <2>3, <2>4
    <3> QED BY ONLY o \in Obj, <3>1, MemorySide
  <2>6. Boxes' = Boxes
    <3>1. Contents(mbx'[o]) = Contents(mbx[o])
      BY <2>2, <2>3, ContentsSame
    <3> QED BY <2>3, <3>1, BoxesBecome
  <2> QED BY <1>1, <2>5, <2>6, PostedSame, NothingMoves DEF Fifo!Next
<1> QED BY <1>1, <1>2, <1>3 DEF AllocEnds

LEMMA FreeIsFifo ==
    ASSUME Base, Relied, NEW o \in Obj, NEW b \in Message, MailFree(o, b), got' = None
    PROVE  Fifo!Next
<1>1. FreeEnds(o, b) /\ psq' = psq /\ msg' = msg
  BY FreeSteps
<1>2. CASE k' = k /\ mbx' = mbx
  BY <1>1, <1>2, ListsStay, PostedSame, NothingMoves DEF Fifo!Next
<1>3. CASE /\ mbx[o].state = 3 /\ k.wait[o] # <<>> /\ FirstLeaves(k, k', o)
           /\ mbx' = HandMemory(o)
  <2> DEFINE s == IF Tail(k.wait[o]) = <<>> THEN 0 ELSE mbx[o].state
  <2>1. mbx \in [Obj -> Mailbox] /\ mbx[o] \in Mailbox /\ s \in {0, 3}
    BY <1>3 DEF Relied, Typed
  <2>2. /\ mbx'[o] = [mbx[o] EXCEPT !.state = s]
        /\ \A x \in Obj \ {o} : mbx'[x] = mbx[x] /\ k'.wait[x] = k.wait[x]
    BY <1>3, <2>1 DEF HandMemory, FirstLeaves
  <2> HIDE DEF s
  <2>3. mbx'[o].state \in {0, 3}
    BY <2>1, <2>2 DEF Mailbox
  <2>4. Senders' = Senders /\ Receivers' = Receivers
    <3>1. /\ mbx[o].state \notin {1, 2} /\ mbx'[o].state \notin {1, 2}
          /\ \A x \in Obj \ {o} : k'.wait[x] = k.wait[x] /\ mbx'[x].state = mbx[x].state
      BY <1>3, <2>2, <2>3
    <3> QED BY ONLY o \in Obj, <3>1, MemorySide
  <2>5. Boxes' = Boxes
    <3>1. Contents(mbx'[o]) = Contents(mbx[o])
      BY <2>1, <2>2, ContentsSame
    <3> QED BY <2>2, <3>1, BoxesBecome
  <2> QED BY <1>1, <2>4, <2>5, PostedSame, NothingMoves DEF Fifo!Next
<1> QED BY <1>1, <1>2, <1>3 DEF FreeEnds

LEMMA MailIsrIsFifo ==
    ASSUME Base, Relied, use \in MailUses, MailIsr
    PROVE  Fifo!Next
<1>1. CASE IsrMailAlloc /\ got' = None
  <2>1. k' = k /\ mbx' = mbx /\ psq' = psq /\ msg' = msg
    BY <1>1 DEF IsrMailAlloc, kernelVars
  <2> QED BY <1>1, <2>1, ListsStay, PostedSame, NothingMoves DEF Fifo!Next
<1>2. CASE \E o \in Obj, b \in Message : IsrMailPut(o, b)
  <2>1. PICK o \in Obj, b \in Message : IsrMessagePut(o, b)
    BY <1>2 DEF IsrMailPut
  <2> QED BY <2>1, IsrPutIsFifo DEF Word
<1>3. CASE use # "wait" /\ \E o \in Obj, b \in Message : IsrMailFree(o, b) /\ got' = None
  <2>1. PICK o \in Obj, b \in Message : IsrMailFree(o, b) /\ got' = None
    BY <1>3
  <2>2. mbx[o].state # 3
    BY <1>3 DEF Relied, Well
  <2>3. k' = k /\ mbx' = mbx /\ psq' = psq /\ msg' = msg
    BY <2>1, <2>2, IsrFreeSteps
  <2> QED BY <2>1, <2>3, ListsStay, PostedSame, NothingMoves DEF Fifo!Next
<1> QED BY <1>1, <1>2, <1>3 DEF MailIsr

\* A timeout, or the end of a thread: it gives up, if it has waited.
LEMMA ElsewhereIsFifo ==
    ASSUME Base, Relied, Elsewhere
    PROVE  Fifo!Next
<1>1. /\ OneLeaves(k, k') /\ psq' = psq /\ mbx' = mbx /\ msg' = msg /\ got' = None
  BY ElsewhereSteps
<1>2. Boxes' = Boxes /\ Posted' = Posted
  BY <1>1, PostedSame DEF Boxes
<1>3. CASE SameWaiters(k, k')
  <2>1. Senders' = Senders /\ Receivers' = Receivers
    <3>1. ASSUME NEW s PROVE Side(k'.wait, mbx', s) = Side(k.wait, mbx, s)
      BY <1>1, <1>3 DEF SameWaiters, Side
    <3> QED BY <3>1, SidesAre
  <2> QED BY <1>1, <1>2, <2>1, NothingMoves DEF Fifo!Next
<1>4. ASSUME NEW t \in Thread, Leaves(k, k', t) PROVE Fifo!Next
  <2>1. ASSUME NEW s
        PROVE  Side(k'.wait, mbx', s) = [o \in Obj |-> Side(k.wait, mbx, s)[o] \ {t}]
    BY <1>1, <1>4 DEF Leaves, Side
  <2>2. /\ Senders' = [o \in Obj |-> Senders[o] \ {t}]
        /\ Receivers' = [o \in Obj |-> Receivers[o] \ {t}]
    BY <2>1, SidesAre
  <2>3. Fifo!GiveUp(t)
    BY <1>1, <1>2, <2>2 DEF Fifo!GiveUp
  <2> QED BY <1>4, <2>3 DEF Fifo!Next
<1> QED BY <1>1, <1>3, <1>4 DEF OneLeaves

LEMMA FifoInit == MailInit /\ use # "any" => Fifo!Init
<1> SUFFICES ASSUME MailInit, use # "any" PROVE Fifo!Init
  OBVIOUS
<1>1. \A o \in Obj : mbx[o] \in Mailbox /\ mbx[o].count = 0 /\ mbx[o].state = 0
  BY ReliedInit DEF Relied, Typed, MailInit, Init
<1>2. Boxes = [o \in Obj |-> <<>>]
  <2>1. ASSUME NEW o \in Obj PROVE Contents(mbx[o]) = <<>>
    <3> DEFINE q == Contents(mbx[o])
    <3>1. q \in Seq(Word) /\ Len(q) = 0
      BY <1>1, ContentsFields
    <3> HIDE DEF q
    <3>2. q = <<>>
      BY <3>1
    <3> QED BY <3>2 DEF q
  <2> QED BY <2>1 DEF Boxes
<1>3. Posted = <<>>
  <2>1. DOMAIN psq = 1 .. 0
    BY DEF MailInit, Init, KernelInit
  <2>2. Posted \in [1 .. 0 -> {}] /\ DOMAIN Posted = 1 .. 0
    BY <2>1 DEF Posted
  <2> QED BY <2>2
<1>4. Senders = [o \in Obj |-> {}] /\ Receivers = [o \in Obj |-> {}]
  BY <1>1 DEF Senders, Receivers, Sending, Receiving
<1>5. msg \in [Thread -> Word] /\ got = None
  BY DEF MailInit, Init, Word
<1> QED BY <1>2, <1>3, <1>4, <1>5 DEF Fifo!Init

LEMMA FifoNext ==
    ASSUME Base, Relied, use # "any", [MailNext]_mailVars
    PROVE  [Fifo!Next]_(Fifo!vars)
<1>1. use \in Uses /\ SvcPuts \cup IsrPuts \subseteq Word /\ Message \subseteq Word
  BY MailboxAssumption DEF Relied, Typed, MailboxAssumption, Word
<1>2. use # "message" => use \in MailUses
  BY <1>1, MailAssumption DEF MailAssumption
<1>3. CASE use = "message" /\ Next
  <2>1. CASE Svc
    <3>1. PICK o \in Obj, n \in 0 .. Forever :
             MessageGet(o, n) \/ \E x \in SvcPuts : MessagePut(o, x, n)
      BY <2>1, CallTimeouts DEF Svc
    <3> QED BY <1>1, <1>3, <3>1, GetIsFifo, PutIsFifo
  <2>2. CASE \E o \in Obj, x \in IsrPuts : IsrMessagePut(o, x)
    BY <1>1, <2>2, IsrPutIsFifo
  <2> QED BY <1>3, <2>1, <2>2, PopIsFifo, ElsewhereIsFifo DEF Next
<1>4. CASE use \in MailUses /\ MailSvc
  <2>1. PICK o \in Obj :
           \/ \E n \in AllocTimeouts : MailAlloc(o, n) /\ got' = None
           \/ \E n \in GetTimeouts : MailGet(o, n)
           \/ \E b \in Message : MailPut(o, b) \/ (MailFree(o, b) /\ got' = None)
    BY <1>4 DEF MailSvc
  <2>2. CASE \E n \in AllocTimeouts : MailAlloc(o, n) /\ got' = None
    BY <1>4, <2>2, AllocIsFifo
  <2>3. CASE \E n \in GetTimeouts : MailGet(o, n)
    <3>1. PICK n \in GetTimeouts : MessageGet(o, n)
      BY <2>3 DEF MailGet
    <3>2. n \in 0 .. Forever /\ (use # "wait" \/ n = 0)
      BY <3>1, CallTimeouts DEF GetTimeouts
    <3> QED BY <3>1, <3>2, GetIsFifo
  <2>4. CASE \E b \in Message : MailPut(o, b)
    <3>1. PICK b \in Message : MessagePut(o, b, 0)
      BY <2>4 DEF MailPut
    <3> DEFINE n == 0
    <3>2. n \in 0 .. Forever /\ n = 0 /\ b \in Word /\ MessagePut(o, b, n)
      BY <1>1, <3>1, CallTimeouts
    <3> HIDE DEF n
    <3> QED BY <3>2, PutIsFifo
  <2>5. CASE \E b \in Message : MailFree(o, b) /\ got' = None
    BY <2>5, FreeIsFifo
  <2> QED BY <2>1, <2>2, <2>3, <2>4, <2>5
<1>5. CASE use \in MailUses /\ MailIsr
  BY <1>5, MailIsrIsFifo
<1>6. CASE PopMail
  BY <1>6, PopIsFifo DEF PopMail
<1>7. CASE PopMemory
  <2>1. psq # <<>> /\ Head(psq).id \in Obj /\ mbx[Head(psq).id].state = 3
    BY <1>7, PopMemorySteps
  <2>2. use # "wait"
    BY <2>1 DEF Relied
  <2> QED BY <2>1, <2>2 DEF Relied, Well
<1>8. CASE Elsewhere
  BY <1>8, ElsewhereIsFifo
<1>9. CASE UNCHANGED mailVars
  <2>1. k' = k /\ mbx' = mbx /\ psq' = psq /\ msg' = msg /\ got' = got
    BY <1>9 DEF mailVars, vars, kernelVars, mbxVars
  <2> QED BY <2>1, ListsStay, PostedSame DEF Fifo!vars
<1> QED BY <1>2, <1>3, <1>4, <1>5, <1>6, <1>7, <1>8, <1>9 DEF MailNext, MailPop

(***************************************************************************)
(* In the programs that rely on the lists no message is lost or doubled,   *)
(* and none overtakes another, whatever threads and interrupts put while   *)
(* others wait, time out or end.                                           *)
(***************************************************************************)
THEOREM MailIsFifo == ASSUME "any" \notin Uses PROVE MailSpec => FifoSpec
<1> DEFINE I == Base /\ (use # "any" => Relied) /\ use \in Uses
<1>1. MailInit => I
  BY BaseInit, ReliedInit DEF MailInit
<1>2. I /\ [MailNext]_mailVars => I'
  BY BaseNext, ReliedNext, UseStays
<1>3. MailInit => Fifo!Init
  BY FifoInit DEF MailInit
<1>4. I /\ [MailNext]_mailVars => [Fifo!Next]_(Fifo!vars)
  BY FifoNext
<1> QED BY <1>1, <1>2, <1>3, <1>4, PTL DEF MailSpec, FifoSpec, Fifo!Spec
=============================================================================
