---------------------------- MODULE MessageQueue ----------------------------
(***************************************************************************)
(* What a message queue promises: every message that is put is got once,   *)
(* in the order in which the messages came into the queue, and no other    *)
(* message is got.  A put of an interrupt comes in later, in its turn.     *)
(***************************************************************************)
EXTENDS Naturals, Sequences

CONSTANTS Queue, Thread, Message, Capacity, Nobody

VARIABLES box,       \* the messages in each queue
          posted,    \* the puts of interrupts on their way: [to, msg]
          senders,   \* the threads that wait to put, by queue
          offer,     \* the message such a thread waits with
          receivers, \* the threads that wait to get, by queue
          got        \* what the last step delivered, and to whom

vars == <<box, posted, senders, offer, receivers, got>>

Init ==
    /\ box = [q \in Queue |-> <<>>]
    /\ posted = <<>>
    /\ senders = [q \in Queue |-> {}]
    /\ offer \in [Thread -> Message]
    /\ receivers = [q \in Queue |-> {}]
    /\ got = Nobody

NotWaiting(t) == \A q \in Queue : t \notin senders[q] \cup receivers[q]

\* x comes into q: a thread that waits gets it at once, or it is kept.
Enter(q, x) ==
    /\ IF receivers[q] # {}
       THEN \E t \in receivers[q] :
              /\ receivers' = [receivers EXCEPT ![q] = @ \ {t}]
              /\ got' = [to |-> t, msg |-> x]
              /\ UNCHANGED box
       ELSE /\ Len(box[q]) < Capacity
            /\ box' = [box EXCEPT ![q] = Append(@, x)]
            /\ got' = Nobody
            /\ UNCHANGED receivers
    /\ UNCHANGED <<senders, offer>>

Put(q, x) == Enter(q, x) /\ UNCHANGED posted

Post(q, x) ==
    /\ posted' = Append(posted, [to |-> q, msg |-> x])
    /\ got' = Nobody
    /\ UNCHANGED <<box, senders, offer, receivers>>

Arrive ==
    /\ posted # <<>>
    /\ Enter(Head(posted).to, Head(posted).msg)
    /\ posted' = Tail(posted)

\* t gets the first message, and a thread that waits to put takes its place.
Get(q, t) ==
    /\ NotWaiting(t) /\ box[q] # <<>>
    /\ got' = [to |-> t, msg |-> Head(box[q])]
    /\ IF senders[q] = {}
       THEN box' = [box EXCEPT ![q] = Tail(@)] /\ UNCHANGED senders
       ELSE \E s \in senders[q] :
              /\ box' = [box EXCEPT ![q] = Append(Tail(@), offer[s])]
              /\ senders' = [senders EXCEPT ![q] = @ \ {s}]
    /\ UNCHANGED <<posted, offer, receivers>>

WaitToPut(q, t, x) ==
    /\ NotWaiting(t) /\ Len(box[q]) = Capacity /\ receivers[q] = {}
    /\ senders' = [senders EXCEPT ![q] = @ \cup {t}]
    /\ offer' = [offer EXCEPT ![t] = x]
    /\ got' = Nobody
    /\ UNCHANGED <<box, posted, receivers>>

WaitToGet(q, t) ==
    /\ NotWaiting(t) /\ box[q] = <<>> /\ senders[q] = {}
    /\ receivers' = [receivers EXCEPT ![q] = @ \cup {t}]
    /\ got' = Nobody
    /\ UNCHANGED <<box, posted, senders, offer>>

GiveUp(t) ==
    /\ senders' = [q \in Queue |-> senders[q] \ {t}]
    /\ receivers' = [q \in Queue |-> receivers[q] \ {t}]
    /\ got' = Nobody
    /\ UNCHANGED <<box, posted, offer>>

Next ==
    \/ \E q \in Queue, x \in Message : Put(q, x) \/ Post(q, x)
    \/ Arrive
    \/ \E q \in Queue, t \in Thread :
          Get(q, t) \/ WaitToGet(q, t) \/ \E x \in Message : WaitToPut(q, t, x)
    \/ \E t \in Thread : GiveUp(t)

Spec == Init /\ [][Next]_vars
=============================================================================
