----------------------------- MODULE RtMailbox ------------------------------
(***************************************************************************)
(* The mailboxes of rt_Mailbox.c behind the message queues of rt_CMSIS.c.  *)
(* A mailbox has a ring of messages and one list of threads, which wait to *)
(* put or to get: state says which.  Interrupts put through os_psq; none   *)
(* gets, which would change the ring in the middle of a handler, too.      *)
(***************************************************************************)
EXTENDS RtObjects

CONSTANTS Message,   \* what threads and interrupts put
          NullMsg,   \* 0, which the fields hold at first
          Size,      \* p_MCB->size
          SvcPuts,   \* the messages threads put
          IsrPuts    \* those interrupts put

ASSUME MailboxAssumption ==
    /\ NullMsg \notin Message
    /\ Size \in Nat \ {0}
    /\ SvcPuts \cup IsrPuts \subseteq Message

VARIABLES mbx,  \* the fields of each mailbox
          msg,  \* p_TCB->msg: what a thread waits to put
          got   \* history: what the last step delivered, and to whom

mbxVars == <<mbx, msg, got>>
vars == <<kernelVars, mbxVars>>

Word == Message \cup {NullMsg}

TypeOK ==
    /\ KernelTypeOK
    /\ psq \in Seq([id : Obj, arg : Word]) /\ Len(psq) <= FifoSize
    /\ mbx \in [Obj -> [state : 0 .. 3, first : 0 .. Size - 1, last : 0 .. Size - 1,
                        count : 0 .. Size, msg : [0 .. Size - 1 -> Word]]]
    /\ msg \in [Thread -> Word]
    /\ got \in [to : Thread, msg : Word] \cup {None}

\* The mailboxes are created when the program starts; nothing deletes them.
Init ==
    /\ KernelInit
    /\ mbx = [o \in Obj |-> [state |-> 0, first |-> 0, last |-> 0, count |-> 0,
                             msg |-> [i \in 0 .. Size - 1 |-> NullMsg]]]
    /\ msg = [t \in Thread |-> NullMsg]
    /\ got = None

-----------------------------------------------------------------------------
\* The ring of a mailbox b.  (Mutant: one message too many.)
FullLate(b) == b.count > Size

Full(b) == b.count = Size
Stored(b, x) == [b EXCEPT !.msg[b.first] = x, !.first = (@ + 1) % Size, !.count = @ + 1]
Taken(b) == [b EXCEPT !.last = (@ + 1) % Size, !.count = @ - 1]
Oldest(b) == b.msg[b.last]

\* The list of mailbox o: does it hold threads that wait to get, or to put?
Receiving(o) == k.wait[o] # <<>> /\ mbx[o].state = 1
Sending(o) == k.wait[o] # <<>> /\ mbx[o].state = 2

\* The first thread that waits for o goes on; if it waited to put, its
\* message is in the ring b.
First(o) == Head(k.wait[o])
Served(o) == Woken(k, o)
FromSender(o, b) == Stored(b, msg[First(o)])

\* The running thread waits; the first to wait says what for.
\* (Mutant: only the very first; the state is left over.)
NowStale(o, wanted) == IF mbx[o].state = 0 THEN wanted ELSE mbx[o].state

Now(o, wanted) == IF k.wait[o] = <<>> THEN wanted ELSE mbx[o].state

-----------------------------------------------------------------------------
MessagePut(o, x, n) ==
    IF Receiving(o)
    THEN /\ SvcReturn(Dispatch(Served(o), First(o)))
         /\ got' = [to |-> First(o), msg |-> x]
         /\ UNCHANGED <<mbx, msg>>
    ELSE /\ got' = None
         /\ IF ~Full(mbx[o])
            THEN /\ SvcReturn(k)
                 /\ mbx' = [mbx EXCEPT ![o] = Stored(@, x)]
                 /\ UNCHANGED msg
            ELSE IF n = 0 THEN SvcReturn(k) /\ UNCHANGED <<mbx, msg>>
            ELSE /\ SvcReturn(WaitFor(k, o, n, "WAIT_MBX"))
                 /\ mbx' = [mbx EXCEPT ![o].state = Now(o, 2)]
                 /\ msg' = [msg EXCEPT ![k.run] = x]

\* A message is taken; one that a thread waits to put takes its place.
Refill(o) ==
    IF Sending(o) THEN FromSender(o, Taken(mbx[o])) ELSE Taken(mbx[o])

MessageGet(o, n) ==
    /\ UNCHANGED msg
    /\ IF mbx[o].count > 0
       THEN /\ SvcReturn(IF Sending(o) THEN Dispatch(Served(o), First(o)) ELSE k)
            /\ mbx' = [mbx EXCEPT ![o] = Refill(o)]
            /\ got' = [to |-> k.run, msg |-> Oldest(mbx[o])]
       ELSE /\ got' = None
            /\ IF n = 0 THEN SvcReturn(k) /\ UNCHANGED mbx
               ELSE /\ SvcReturn(WaitFor(k, o, n, "WAIT_MBX"))
                    /\ mbx' = [mbx EXCEPT ![o].state = Now(o, 1)]

\* rt_mbx_check counts what is in the ring, not what is in the queue.
IsrMessagePut(o, x) ==
    /\ ~Full(mbx[o])
    /\ PsqEnq([id |-> o, arg |-> x])
    /\ got' = None
    /\ UNCHANGED <<mbx, msg>>

\* rt_mbx_psh, for the request at the head of the queue.  (Mutant: a message
\* that finds the ring full is dropped without a word.)
StoreLateDrop(o, x) ==
    /\ PopRequest(k)
    /\ mbx' = IF Full(mbx[o]) THEN mbx ELSE [mbx EXCEPT ![o] = Stored(@, x)]

StoreLate(o, x) ==
    IF ~Full(mbx[o])
    THEN PopRequest(k) /\ mbx' = [mbx EXCEPT ![o] = Stored(@, x)]
    ELSE /\ mode = "pop" /\ mode' = "os_error"
         /\ UNCHANGED <<k, psq, pend, robin, time, mbx>>

\* (A list of threads that wait for memory, state 3, is served in RtMail.)
PopMessage ==
    LET o == Head(psq).id
        x == Head(psq).arg
    IN /\ psq # <<>>
       /\ k.wait[o] # <<>> => mbx[o].state # 3
       /\ IF k.wait[o] = <<>>
          THEN StoreLate(o, x) /\ got' = None
          ELSE /\ PopRequest(PutRdy(Served(o), First(o)))
               /\ mbx' = IF Sending(o) THEN [mbx EXCEPT ![o] = FromSender(o, @)] ELSE mbx
               /\ got' = IF Receiving(o) THEN [to |-> First(o), msg |-> x] ELSE None
       /\ UNCHANGED msg

-----------------------------------------------------------------------------
Elsewhere ==
    /\ KernelStep \/ (\E n \in Delays : Delay(n)) \/ \E t \in Thread : Control(t)
    /\ got' = None /\ UNCHANGED <<mbx, msg>>

Svc == \E o \in Obj, n \in Timeouts :
    MessageGet(o, n) \/ \E x \in SvcPuts : MessagePut(o, x, n)

Next ==
    \/ Svc
    \/ \E o \in Obj, x \in IsrPuts : IsrMessagePut(o, x)
    \/ PopMessage
    \/ Elsewhere

Spec == Init /\ [][Next]_vars

-----------------------------------------------------------------------------
(***************************************************************************)
(* Threads wait for an empty mailbox to get, or for a full one to put, and *)
(* the state tells which: one list is enough for both, and nobody waits    *)
(* for what is there.                                                      *)
(***************************************************************************)
OneSide ==
    \A o \in Obj : k.wait[o] # <<>> /\ mbx[o].state # 3 =>
        \/ mbx[o].state = 1 /\ mbx[o].count = 0
        \/ mbx[o].state = 2 /\ Full(mbx[o])

(***************************************************************************)
(* The ring, the one list and the queue of PendSV together are a queue in  *)
(* which messages are neither lost nor doubled, nor change their order.    *)
(***************************************************************************)
Contents(b) == [i \in 1 .. b.count |-> b.msg[(b.last + i - 1) % Size]]

Boxes == [o \in Obj |-> Contents(mbx[o])]
Posted == [i \in DOMAIN psq |-> [to |-> psq[i].id, msg |-> psq[i].arg]]
Senders == [o \in Obj |-> IF Sending(o) THEN ToSet(k.wait[o]) ELSE {}]
Receivers == [o \in Obj |-> IF Receiving(o) THEN ToSet(k.wait[o]) ELSE {}]

Fifo == INSTANCE MessageQueue WITH
    Queue <- Obj, Message <- Word, Capacity <- Size, Nobody <- None,
    box <- Boxes, posted <- Posted,
    senders <- Senders, offer <- msg, receivers <- Receivers

FifoSpec == Fifo!Spec
=============================================================================
