------------------------------- MODULE RtMail -------------------------------
(***************************************************************************)
(* The mail queues of rt_CMSIS.c: a mailbox whose messages are blocks of a *)
(* memory pool (rt_MemBox.c) that has as many blocks as the ring has room. *)
(* The one list of the mailbox then also holds threads that wait for       *)
(* memory: state 3.                                                        *)
(*                                                                         *)
(* Which programs may rely on that list is the question, and use gives the *)
(* answers that are checked:                                               *)
(*   message   the queue is a message queue, as in RtMailbox               *)
(*   poll      osMailAlloc never waits                                     *)
(*   wait      osMailAlloc waits for ever, osMailGet never, interrupts at  *)
(*             most allocate, and no thread ends                           *)
(*   any       whatever the services take                                  *)
(***************************************************************************)
EXTENDS RtMailbox

CONSTANTS Uses,     \* what programs there are
          Isr,      \* the interrupts, as a holder of blocks
          PoolPtr   \* the pool's address, the argument of sysMailFree's request

\* The programs with a mail queue, which is one mailbox and one pool.
MailUses == {"poll", "wait"}

ASSUME MailAssumption ==
    /\ Uses \subseteq {"message", "any"} \cup MailUses
    /\ Uses # {"message"} => /\ \E o \in Obj : Obj = {o}
                             /\ IsFiniteSet(Message) /\ Cardinality(Message) <= Size
    /\ Isr \notin Thread /\ None # Isr /\ PoolPtr \notin Word
    /\ None \notin [to : Thread, msg : Word]

VARIABLES use,    \* which of the programs it is
          free,   \* the free list of the pool: P_BM->free and what it chains
          holder  \* who has allocated or got each block

blockVars == <<free, holder>>
mailVars == <<vars, use, blockVars>>

MailTypeOK ==
    /\ TypeOK
    /\ use \in Uses
    /\ free \subseteq Message
    /\ holder \in [Message -> Thread \cup {Isr, None}]

\* svcMailCreate has made all blocks free; a message queue has no blocks.
MailInit ==
    /\ Init
    /\ use \in Uses
    /\ free = IF use = "message" THEN {} ELSE Message
    /\ holder = [b \in Message |-> None]

-----------------------------------------------------------------------------
\* rt_alloc_box on the pool, for holder h.  (Mutant: the block stays free.)
AllocBoxShared(b, h) ==
    b \in free /\ free' = free /\ holder' = [holder EXCEPT ![b] = h]

AllocBox(b, h) ==
    b \in free /\ free' = free \ {b} /\ holder' = [holder EXCEPT ![b] = h]

\* rt_free_box on the pool.
FreeBox(b) == free' = free \cup {b} /\ holder' = [holder EXCEPT ![b] = None]

\* osMailAlloc and osMailCAlloc.
MailAlloc(o, n) ==
    \/ /\ SvcReturn(k)
       /\ \E b \in free : AllocBox(b, k.run)
       /\ UNCHANGED <<mbx, msg>>
    \/ /\ free = {}
       /\ IF n = 0 THEN SvcReturn(k) /\ UNCHANGED mbx
          ELSE /\ SvcReturn(WaitFor(k, o, n, "WAIT_MBX"))
               /\ mbx' = [mbx EXCEPT ![o].state = Now(o, 3)]
       /\ UNCHANGED <<msg, blockVars>>

IsrMailAlloc ==
    /\ ~Halted
    /\ \E b \in free : AllocBox(b, Isr)
    /\ UNCHANGED <<kernelVars, mbx, msg>>

\* The block goes from a thread's osMailFree to the first thread of the list.
\* (Mutant: the list counts as one for memory for good.)
HandMemoryStale(o) == mbx

HandMemory(o) ==
    [mbx EXCEPT ![o].state = IF Tail(k.wait[o]) = <<>> THEN 0 ELSE @]

\* osMailFree by a thread.  rt_get_first follows the head of the list without
\* looking whether there is one.
MailFree(o, b) ==
    /\ holder[b] = k.run
    /\ IF mbx[o].state # 3 THEN SvcReturn(k) /\ FreeBox(b) /\ UNCHANGED mbx
       ELSE IF k.wait[o] # <<>>
       THEN /\ SvcReturn(Dispatch(Served(o), First(o)))
            /\ mbx' = HandMemory(o)
            /\ holder' = [holder EXCEPT ![b] = First(o)]
            /\ UNCHANGED free
       ELSE /\ mode = "svc" /\ mode' = "undefined"
            /\ UNCHANGED <<k, psq, pend, robin, time, mbx, blockVars>>
    /\ UNCHANGED msg

IsrMailFree(o, b) ==
    /\ holder[b] = Isr
    /\ FreeBox(b)
    /\ IF mbx[o].state = 3 THEN PsqEnq([id |-> o, arg |-> PoolPtr])
       ELSE ~Halted /\ UNCHANGED kernelVars
    /\ UNCHANGED <<mbx, msg>>

\* rt_mbx_psh, for a list of state 3: the argument is taken for the pool.
PopMemory ==
    LET o == Head(psq).id
    IN /\ psq # <<>> /\ k.wait[o] # <<>> /\ mbx[o].state = 3
       /\ IF Head(psq).arg # PoolPtr
          THEN /\ mode = "pop" /\ mode' = "undefined"
               /\ UNCHANGED <<k, psq, pend, robin, time, blockVars>>
          ELSE IF free = {} THEN PopRequest(k) /\ UNCHANGED blockVars
          ELSE /\ PopRequest(PutRdy(Served(o), First(o)))
               /\ \E b \in free : AllocBox(b, First(o))
       /\ UNCHANGED <<mbx, msg>>

-----------------------------------------------------------------------------
\* What got' delivers belongs to the thread that gets it.
Received(h) ==
    IF got' # None /\ got'.msg \in Message THEN [h EXCEPT ![got'.msg] = got'.to] ELSE h

\* osMailPut; a full ring gives an error, and the mail stays with its holder.
MailPut(o, b) ==
    /\ holder[b] = k.run
    /\ MessagePut(o, b, 0)
    /\ holder' = IF mbx' = mbx /\ got' = None THEN holder
                 ELSE Received([holder EXCEPT ![b] = None])
    /\ UNCHANGED free

MailGet(o, n) ==
    /\ MessageGet(o, n)
    /\ holder' = Received(holder)
    /\ UNCHANGED free

IsrMailPut(o, b) ==
    /\ holder[b] = Isr
    /\ IsrMessagePut(o, b)
    /\ holder' = IF psq' = psq THEN holder ELSE [holder EXCEPT ![b] = None]
    /\ UNCHANGED free

PopMail == PopMessage /\ holder' = Received(holder) /\ UNCHANGED free

-----------------------------------------------------------------------------
AllocTimeouts == IF use = "poll" THEN {0} ELSE IF use = "wait" THEN {Forever} ELSE Timeouts
GetTimeouts == IF use = "wait" THEN {0} ELSE Timeouts

MailSvc == \E o \in Obj :
    \/ \E n \in AllocTimeouts : MailAlloc(o, n) /\ got' = None
    \/ \E n \in GetTimeouts : MailGet(o, n)
    \/ \E b \in Message : MailPut(o, b) \/ (MailFree(o, b) /\ got' = None)

MailIsr ==
    \/ IsrMailAlloc /\ got' = None
    \/ \E o \in Obj, b \in Message :
          use # "wait" /\ (IsrMailPut(o, b) \/ (IsrMailFree(o, b) /\ got' = None))

MailPop == PopMail \/ (PopMemory /\ got' = None)

MailNext ==
    /\ UNCHANGED use
    /\ \/ use = "message" /\ Next /\ UNCHANGED blockVars
       \/ use # "message" /\ (MailSvc \/ MailIsr \/ MailPop)
       \/ use # "message" /\ Elsewhere /\ UNCHANGED blockVars
    /\ use = "wait" => k'.active = k.active

MailSpec == MailInit /\ [][MailNext]_mailVars

-----------------------------------------------------------------------------
(***************************************************************************)
(* Every block is in one place: free, with whom it was given to, in the    *)
(* ring or on its way into it.  None is lost, none has two owners, and the *)
(* ring, which has room for all, never overflows: rt_mbx_psh, which a mail *)
(* reaches after isrMessagePut has looked for room, always finds it.       *)
(***************************************************************************)
InRing(b) == \E o \in Obj : b \in ToSet(Contents(mbx[o]))
Coming(b) == \E i \in DOMAIN psq : psq[i].arg = b

BlocksConserved == use \in MailUses =>
    /\ \A b \in Message :
          Cardinality({p \in {"free", "held", "ring", "way"} :
              \/ p = "free" /\ b \in free
              \/ p = "held" /\ holder[b] # None
              \/ p = "ring" /\ InRing(b)
              \/ p = "way" /\ Coming(b)}) = 1
    /\ \A o \in Obj : IsInjective(Contents(mbx[o]))
    /\ IsInjective([i \in DOMAIN psq |-> psq[i].arg])
    /\ mode = "pop" /\ psq # <<>> => ~Full(mbx[Head(psq).id])

(***************************************************************************)
(* A thread's osMailFree that finds state 3 finds a thread that waits for  *)
(* memory, provided that nobody else has used the list; and nobody waits   *)
(* for memory while there is some.                                         *)
(***************************************************************************)
MemoryIsServed == use \in MailUses =>
    \A o \in Obj :
        /\ mbx[o].state = 3 => k.wait[o] # <<>>
        /\ k.wait[o] # <<>> /\ mbx[o].state = 3 => free = {}

(***************************************************************************)
(* rt_CMSIS.c:1931, of sysMailFree: "Task is waiting to allocate a         *)
(* message", where the state is 3, for the code that takes the first       *)
(* thread off the list without looking whether there is one.               *)
(***************************************************************************)
TaskIsWaiting ==
    [][\A o \in Obj, b \in Message :
          MailFree(o, b) /\ mbx[o].state = 3 => k.wait[o] # <<>>]_mailVars

(***************************************************************************)
(* The inductive invariant of the proofs.  In any program the lists of the *)
(* kernel agree, and PendSV comes before the next service.  In those that  *)
(* rely on the list, a request in the queue finds the ring therefore as    *)
(* the interrupt has found it, or with one message more: it is under way   *)
(* to no list of senders.  Only one kind of thread waits: for messages and *)
(* for room, or for memory.                                                *)
(***************************************************************************)
ServedFirst == psq # <<>> => pend \/ mode \in {"pop", "os_error", "undefined"}

Requests ==
    psq \in Seq([id : Obj, arg : Word \cup {PoolPtr}]) /\ Len(psq) <= FifoSize

UnderWay == \A i \in DOMAIN psq :
    LET o == psq[i].id IN ~Sending(o) /\ (mode = "svc" => ~Full(mbx[o]))

Rings == \A o \in Obj : mbx[o].first = (mbx[o].last + mbx[o].count) % Size

ForMemory ==
    /\ psq = <<>>
    /\ \A o \in Obj :
          /\ mbx[o].state \in {0, 3}
          /\ \A t \in ToSet(k.wait[o]) : t \notin ToSet(k.dly)

MailInv ==
    /\ OInv /\ ServedFirst /\ Requests
    /\ use # "any" =>
          /\ MailTypeOK /\ OneSide /\ MemoryIsServed /\ UnderWay /\ Rings
          /\ IF use = "wait" THEN ForMemory ELSE \A o \in Obj : mbx[o].state # 3
          /\ use = "poll" => \A o \in Obj : mbx[o].state # 2
=============================================================================
