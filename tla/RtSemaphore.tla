---------------------------- MODULE RtSemaphore -----------------------------
(***************************************************************************)
(* The semaphores of rt_Semaphore.c behind the services of rt_CMSIS.c.     *)
(* Threads create, wait for, release and delete semaphores; interrupts     *)
(* release them through the queue os_psq, whose requests PendSV serves     *)
(* later, whatever has happened to the semaphore since.                    *)
(***************************************************************************)
EXTENDS RtObjects

CONSTANTS MaxTokens,   \* osFeature_Semaphore, 65535
          TokenMod,    \* 2^16, where the counter of a P_SCB wraps
          InitTokens,  \* the counts semaphores are created with
          Budget       \* bound: the releases of a semaphore in its life

ASSUME SemaphoreAssumption ==
    /\ MaxTokens \in Nat /\ TokenMod = MaxTokens + 1
    /\ InitTokens \subseteq 0 .. MaxTokens
    /\ Budget \in Nat

VARIABLES tokens,  \* p_SCB->tokens
          live,    \* p_SCB->cb_type = SCB
          ret,     \* what the last wait of a thread returned
          given    \* history: the releases accepted since the creation

semVars == <<tokens, live, ret, given>>
vars == <<kernelVars, semVars>>

TypeOK ==
    /\ KernelTypeOK
    /\ psq \in Seq(Obj) /\ Len(psq) <= FifoSize
    /\ tokens \in [Obj -> 0 .. TokenMod - 1]
    /\ live \in [Obj -> BOOLEAN]
    /\ ret \in [Thread -> {"none", "token"}]
    /\ given \in [Obj -> 0 .. Budget]

Init ==
    /\ KernelInit
    /\ tokens = [o \in Obj |-> 0]
    /\ live = [o \in Obj |-> FALSE]
    /\ ret = [t \in Thread |-> "none"]
    /\ given = [o \in Obj |-> 0]

-----------------------------------------------------------------------------
\* The releases of o that interrupts have asked for and PendSV has not served.
Pending(o) == Cardinality({i \in DOMAIN psq : psq[i] = o})

\* What svcSemaphoreRelease and isrSemaphoreRelease look at.
MayRelease(o) == live[o] /\ tokens[o] # MaxTokens /\ given[o] < Budget
Accepted(o) == given' = [given EXCEPT ![o] = @ + 1]

SemaphoreCreate(o, n) ==
    /\ ~live[o]
    /\ SvcReturn(k)
    /\ tokens' = [tokens EXCEPT ![o] = n]
    /\ live' = [live EXCEPT ![o] = TRUE]
    /\ given' = [given EXCEPT ![o] = 0]
    /\ UNCHANGED ret

\* Mutant: zero tokens will do.
SemaphoreWaitZero(o, n) ==
    /\ live[o]
    /\ SvcReturn(k)
    /\ tokens' = [tokens EXCEPT ![o] = @ - 1]
    /\ ret' = [ret EXCEPT ![k.run] = "token"]
    /\ UNCHANGED <<live, given>>

SemaphoreWait(o, n) ==
    /\ live[o]
    /\ IF tokens[o] > 0
       THEN /\ SvcReturn(k)
            /\ tokens' = [tokens EXCEPT ![o] = @ - 1]
            /\ ret' = [ret EXCEPT ![k.run] = "token"]
       ELSE /\ SvcReturn(IF n = 0 THEN k ELSE WaitFor(k, o, n, "WAIT_SEM"))
            /\ ret' = [ret EXCEPT ![k.run] = "none"]
            /\ UNCHANGED tokens
    /\ UNCHANGED <<live, given>>

\* A token is stored, or the first thread that waits returns with it.
\* (Mutant: both.)
StoreTwice(o) ==
    /\ tokens' = [tokens EXCEPT ![o] = (@ + 1) % TokenMod]
    /\ ret' = IF k.wait[o] = <<>> THEN ret
              ELSE [ret EXCEPT ![Head(k.wait[o])] = "token"]

Store(o) ==
    IF k.wait[o] = <<>>
    THEN tokens' = [tokens EXCEPT ![o] = (@ + 1) % TokenMod] /\ UNCHANGED ret
    ELSE ret' = [ret EXCEPT ![Head(k.wait[o])] = "token"] /\ UNCHANGED tokens

SemaphoreRelease(o) ==
    /\ MayRelease(o)
    /\ SvcReturn(IF k.wait[o] = <<>> THEN k ELSE Dispatch(Woken(k, o), Head(k.wait[o])))
    /\ Store(o)
    /\ Accepted(o)
    /\ UNCHANGED live

SemaphoreDelete(o) ==
    /\ live[o]
    /\ SvcReturn(Preempted(Flush(k, o)))
    /\ live' = [live EXCEPT ![o] = FALSE]
    /\ ret' = [t \in Thread |-> IF t \in ToSet(k.wait[o]) THEN "none" ELSE ret[t]]
    /\ UNCHANGED <<tokens, given>>

IsrSemaphoreRelease(o) ==
    /\ MayRelease(o)
    /\ PsqEnq(o)
    /\ IF Len(psq) < FifoSize THEN Accepted(o) ELSE UNCHANGED given
    /\ UNCHANGED <<tokens, live, ret>>

\* Mutant: the token is stored, whoever waits.
PopSemaphoreStores ==
    LET o == Head(psq)
    IN /\ PopRequest(k)
       /\ tokens' = [tokens EXCEPT ![o] = (@ + 1) % TokenMod]
       /\ UNCHANGED <<live, given, ret>>

\* rt_sem_psh: neither the limit nor cb_type is looked at again.
PopSemaphore ==
    LET o == Head(psq)
    IN /\ PopRequest(IF k.wait[o] = <<>> THEN k ELSE PutRdy(Woken(k, o), Head(k.wait[o])))
       /\ Store(o)
       /\ UNCHANGED <<live, given>>

-----------------------------------------------------------------------------
Svc == \E o \in Obj :
    \/ \E n \in InitTokens : SemaphoreCreate(o, n)
    \/ \E n \in Timeouts : SemaphoreWait(o, n)
    \/ SemaphoreRelease(o)
    \/ SemaphoreDelete(o)

Next ==
    \/ Svc
    \/ \E o \in Obj : IsrSemaphoreRelease(o)
    \/ PopSemaphore
    \/ /\ KernelStep \/ (\E n \in Delays : Delay(n)) \/ \E t \in Thread : Control(t)
       /\ UNCHANGED semVars

Spec == Init /\ [][Next]_vars

-----------------------------------------------------------------------------
(***************************************************************************)
(* Nobody waits for a semaphore that has a token, or for a deleted one.    *)
(***************************************************************************)
NoIdleToken == \A o \in Obj : tokens[o] > 0 \/ ~live[o] => k.wait[o] = <<>>

(***************************************************************************)
(* A thread that returns with a token leaves none of a higher priority     *)
(* waiting for the same semaphore.                                         *)
(***************************************************************************)
HighestFirst ==
    [][\A o \in Obj, t \in Thread :
          /\ t \in ToSet(k.wait[o]) /\ t \notin ToSet(k.wait'[o])
          /\ ret'[t] = "token"
          => \A u \in ToSet(k.wait'[o]) : k.prio[u] <= k.prio[t]]_vars

(***************************************************************************)
(* The inductive invariant of the proofs: besides the lists of the kernel, *)
(* nobody who waits has been told yet that he got a token.                 *)
(***************************************************************************)
SInv ==
    /\ OInv /\ TypeOK /\ NoIdleToken
    /\ \A o \in Obj : \A t \in ToSet(k.wait[o]) : ret[t] = "none"

(***************************************************************************)
(* What the semaphores promise, whatever the kernel does: a release counts *)
(* from the moment it is accepted, also one that is still in the queue.    *)
(***************************************************************************)
Value == [o \in Obj |-> IF live[o] THEN tokens[o] + Pending(o) ELSE 0]
Waiters == [o \in Obj |-> ToSet(k.wait[o])]
Told == {t \in Thread : ret[t] = "token"}

Counting == INSTANCE CountingSemaphore WITH
    Sem <- Obj, Counts <- InitTokens,
    value <- Value, waiting <- Waiters, open <- live, released <- given, got <- Told

CountingSpec == Counting!Spec

(***************************************************************************)
(* Why a semaphore that is created again has nothing left in the queue:    *)
(* PendSV is served before SVC_Handler, so that every request was left     *)
(* since the handler was entered, for a semaphore that is still there.  No *)
(* count is above what the semaphore was created with and was given since. *)
(***************************************************************************)
CInv ==
    /\ psq # <<>> => pend \/ mode \in {"pop", "os_error", "undefined"}
    /\ mode = "svc" => \A i \in DOMAIN psq : live[psq[i]]
    /\ \A o \in Obj : live[o] =>
          \E n \in InitTokens : tokens[o] + Pending(o) <= n + given[o]
=============================================================================
