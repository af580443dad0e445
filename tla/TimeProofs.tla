----------------------------- MODULE TimeProofs -----------------------------
(***************************************************************************)
(* The two that keep events in the order of their times.                   *)
(*                                                                         *)
(* The events of Ticker, for any number of Tickers and Timeouts, any delay *)
(* and any width of the counter: no alarm is lost, and in the programs     *)
(* that keep clear of the wrap every event is served on time.              *)
(*                                                                         *)
(* The user timers of RtTimer, for any number of timers, any width of      *)
(* their counts and any size of their queue: the list has the running      *)
(* timers, each expires when its ticks have passed, and its callback comes *)
(* once for each time.                                                     *)
(***************************************************************************)
EXTENDS Ticker, RtTimer, RtListProofs


LEMMA Constants ==
    /\ CountMod \in Nat /\ CountMod > 1 /\ Late \in Nat
    /\ \A d \in Delays : d \in 1 .. CountMod - 1 /\ Late < d /\ d \in Time
    /\ \A x \in Time : x \in Nat /\ x < CountMod /\ x # Null
    /\ 0 \in Time /\ 1 \in Time
<1>1. CountMod \in Nat /\ CountMod > 1 /\ Late \in Nat
  BY TickerAssumption DEF TickerAssumption
<1>2. \A d \in Delays : d \in 1 .. CountMod - 1 /\ Late < d
  BY TickerAssumption DEF TickerAssumption
<1>3. \A x \in Time : x \in Nat /\ x < CountMod /\ x \in Int
  BY <1>1 DEF Time
<1>4. \A x \in Int : x # Null
  BY TickerAssumption DEF TickerAssumption
<1> QED BY <1>1, <1>2, <1>3, <1>4 DEF Time

\* The counter meets a time ahead of it only when nothing is left.
LEMMA TimeAhead ==
    ASSUME NEW a \in Time, NEW d \in Time
    PROVE  /\ (a + d) % CountMod = a <=> d = 0
           /\ d # 0 => (((a + 1) % CountMod) + (d - 1)) % CountMod = (a + d) % CountMod
<1> DEFINE n == CountMod
<1>1. n \in Nat \ {0} /\ a \in 0 .. n - 1 /\ d \in 0 .. n /\ d # n /\ d \in Nat
  BY Constants DEF Time
<1> HIDE DEF n
<1>2. (a + d) % n = a => d = 0 \/ d = n
  BY <1>1, Ahead
<1>3. d = 0 => (a + d) % n = a
  BY <1>1, Ahead
<1>4. d >= 1 => (((a + 1) % n) + (d - 1)) % n = (a + d) % n
  <2>1. d >= 1 => d \in 1 .. n
    BY <1>1
  <2> QED BY ONLY <1>1, <2>1, OneNearer
<1> QED BY <1>1, <1>2, <1>3, <1>4 DEF n

\* The least number of all that are as far below CountMod as a delay.
LEMMA LongestDelay ==
    /\ Ends \in Nat /\ Ends < CountMod
    /\ \A d \in Delays : Ends + d <= CountMod - 1
<1> DEFINE S == {x \in Nat : CountMod - x \in Delays}
<1>1. PICK d \in Delays : TRUE
  BY TickerAssumption DEF TickerAssumption
<1>2. CountMod - d \in S /\ S \in SUBSET Nat
  BY <1>1, Constants
<1>3. Min(S) \in S /\ \A x \in S : Min(S) <= x
  BY <1>2, MinProperties
<1> DEFINE m == CountMod - Min(S)
<1>4. m \in Delays /\ \A x \in Delays : m >= x
  <2>1. \A x \in Delays : CountMod - x \in S
    BY Constants
  <2> HIDE DEF S
  <2>2. Min(S) \in Nat /\ CountMod - Min(S) \in Delays
    BY <1>3 DEF S
  <2> QED BY <1>3, <2>1, <2>2, Constants
<1> HIDE DEF m
<1>5. Max(Delays) \in Delays /\ \A x \in Delays : Max(Delays) >= x
  BY <1>4 DEF Max
<1> QED BY <1>5, Constants DEF Ends

-----------------------------------------------------------------------------
(***************************************************************************)
(* What the insertion and the removal of an event make of the list.        *)
(***************************************************************************)
LEMMA InsertedCorrect ==
    ASSUME NEW q \in Seq(Event), Distinct(q), NEW e \in Event, e \notin ToSet(q),
           NEW t \in Time, stamp \in [Event -> Time]
    PROVE  LET r == InsertAt(q, Behind(q, t), e)
           IN /\ r \in Seq(Event) /\ Distinct(r) /\ ToSet(r) = ToSet(q) \cup {e}
              /\ r # <<>> /\ (Behind(q, t) # 1 => q # <<>>)
              /\ Head(r) = IF Behind(q, t) = 1 THEN e ELSE Head(q)
              /\ Rising(q, stamp) => Rising(r, [stamp EXCEPT ![e] = t])
              /\ q = <<>> => r = <<e>>
<1> DEFINE stops == {i \in DOMAIN q : t < stamp[q[i]]}
           p == Behind(q, t)
           r == InsertAt(q, p, e)
           key == [stamp EXCEPT ![e] = t]
<1>1. stops \in SUBSET DOMAIN q /\ DOMAIN q = 1 .. Len(q) /\ Len(q) \in Nat
  OBVIOUS
<1>2. \A i \in 1 .. Len(q) : i \in stops <=> t < stamp[q[i]]
  BY <1>1
<1>3. \A i \in 1 .. Len(q) : q[i] \in Event /\ q[i] # e
  BY <1>1 DEF ToSet
<1>4. p = StopAt(q, stops)
  BY DEF Behind
<1> HIDE DEF stops
<1>5. /\ p \in 1 .. Len(q) + 1
      /\ \A i \in stops : p <= i
      /\ p # Len(q) + 1 => p \in stops
  BY <1>1, <1>4, StopAtProperties
<1> HIDE DEF p
<1>6. /\ r \in Seq(Event)
      /\ Len(r) = Len(q) + 1
      /\ \A i \in 1 .. Len(q) + 1 :
            r[i] = IF i < p THEN q[i] ELSE IF i = p THEN e ELSE q[i - 1]
  BY <1>5, InsertAtElements
<1> HIDE DEF r
<1>7. ToSet(r) = ToSet(q) \cup {e} /\ Distinct(r)
  <2>1. /\ ToSet(r) = ToSet(q) \cup {e}
        /\ Distinct(q) /\ e \notin ToSet(q) => Distinct(r)
    BY ONLY q \in Seq(Event), e \in Event, <1>5, <1>6, SpliceMembers
  <2> QED BY <2>1
<1>8. r # <<>> /\ (p # 1 => q # <<>>) /\ Head(r) = IF p = 1 THEN e ELSE Head(q)
  <2>1. r # <<>> /\ Head(r) = r[1] /\ 1 \in 1 .. Len(q) + 1
    BY <1>1, <1>6
  <2>2. p # 1 => 1 < p /\ q # <<>> /\ Head(q) = q[1]
    BY <1>1, <1>5
  <2> QED BY <1>6, <2>1, <2>2
<1>9. ASSUME Rising(q, stamp) PROVE Rising(r, key)
  <2>1. /\ key \in [Event -> Int] /\ key[e] = t /\ t \in Int
        /\ \A x \in Event : stamp[x] \in Int
        /\ \A i \in 1 .. Len(q) : key[q[i]] = stamp[q[i]]
    BY <1>3, Constants
  <2> HIDE DEF key
  <2>2. \A i \in 1 .. Len(q) : i < p => key[q[i]] <= key[e]
    <3> SUFFICES ASSUME NEW i \in 1 .. Len(q), i < p PROVE key[q[i]] <= key[e]
      OBVIOUS
    <3>1. ~(t < stamp[q[i]])
      BY <1>1, <1>2, <1>5
    <3> QED BY <1>3, <2>1, <3>1
  <2>3. p # Len(q) + 1 => key[e] <= key[q[p]]
    <3> SUFFICES ASSUME p # Len(q) + 1 PROVE key[e] <= key[q[p]]
      OBVIOUS
    <3>1. p \in 1 .. Len(q) /\ t < stamp[q[p]]
      BY <1>1, <1>2, <1>5
    <3> QED BY <1>3, <2>1, <3>1
  <2>4. Rising(q, key)
    BY <1>1, <1>9, <2>1 DEF Rising
  <2> QED BY <1>5, <1>6, <2>1, <2>2, <2>3, <2>4, SpliceRising
<1>10. ASSUME q = <<>> PROVE r = <<e>>
  <2>1. Len(r) = 1 /\ r[1] = e
    BY <1>5, <1>6, <1>10
  <2> QED BY <1>6, <2>1
<1> QED BY <1>6, <1>7, <1>8, <1>9, <1>10 DEF r, p

LEMMA WithoutCorrect ==
    ASSUME queue \in Seq(Event), Distinct(queue), NEW e \in Event
    PROVE  /\ Without(e) \in Seq(Event) /\ Distinct(Without(e))
           /\ ToSet(Without(e)) = ToSet(queue) \ {e}
           /\ stamp \in [Event -> Nat] /\ Rising(queue, stamp) => Rising(Without(e), stamp)
           /\ ~Queued(e) => Without(e) = queue
           /\ Without(e) # <<>> =>
                 /\ queue # <<>>
                 /\ Head(Without(e)) = IF Head(queue) = e THEN queue[2] ELSE Head(queue)
                 /\ Head(queue) = e => Tail(queue) # <<>>
<1>1. /\ Without(e) \in Seq(Event) /\ Distinct(Without(e))
      /\ ToSet(Without(e)) = ToSet(queue) \ {e}
      /\ stamp \in [Event -> Nat] /\ Rising(queue, stamp) => Rising(Without(e), stamp)
  BY UnlinkCorrect DEF Without
<1>2. DOMAIN queue = 1 .. Len(queue) /\ Len(queue) \in Nat
  OBVIOUS
<1>3. CASE PositionsOf(queue, e) = {}
  <2>1. Without(e) = queue /\ ~Queued(e)
    BY <1>3 DEF Without, Unlink, PositionsOf, Queued, ToSet
  <2>2. queue # <<>> => Head(queue) # e
    BY <1>2, <1>3 DEF PositionsOf
  <2> QED BY <1>1, <2>1, <2>2
<1>4. CASE PositionsOf(queue, e) # {}
  <2> DEFINE p == Min(PositionsOf(queue, e))
             r == RemoveAt(queue, p)
  <2>1. PositionsOf(queue, e) \in SUBSET Nat
    BY <1>2 DEF PositionsOf
  <2>2. p \in PositionsOf(queue, e) /\ Without(e) = r
    BY <1>4, <2>1, MinProperties DEF Without, Unlink
  <2> HIDE DEF p
  <2>3. p \in 1 .. Len(queue) /\ queue[p] = e
    BY <1>2, <2>2 DEF PositionsOf
  <2>4. /\ r \in Seq(Event)
        /\ Len(r) = Len(queue) - 1
        /\ \A i \in 1 .. Len(queue) - 1 : r[i] = IF i < p THEN queue[i] ELSE queue[i + 1]
    BY <2>3, RemoveAtElements
  <2> HIDE DEF r
  <2>5. Queued(e)
    BY <1>2, <2>3 DEF Queued, ToSet
  <2>6. ASSUME r # <<>>
        PROVE  /\ queue # <<>> /\ (Head(queue) = e => Tail(queue) # <<>>)
               /\ Head(r) = IF Head(queue) = e THEN queue[2] ELSE Head(queue)
    <3>1. Len(queue) >= 2 /\ Head(queue) = queue[1] /\ Head(r) = r[1] /\ queue # <<>>
      BY <1>2, <2>4, <2>6
    <3>2. Tail(queue) # <<>>
      <4>1. Len(Tail(queue)) = Len(queue) - 1 /\ Len(<<>>) = 0
        BY <3>1
      <4>2. Len(Tail(queue)) # Len(<<>>)
        BY <1>2, <3>1, <4>1
      <4> QED BY <4>2
    <3>3. Head(queue) = e <=> p = 1
      BY <1>2, <2>3, <3>1 DEF Distinct
    <3>4. r[1] = IF 1 < p THEN queue[1] ELSE queue[2]
      BY <2>3, <2>4, <3>1
    <3> QED BY <2>3, <3>1, <3>2, <3>3, <3>4
  <2> QED BY <1>1, <2>2, <2>5, <2>6
<1> QED BY <1>3, <1>4

\* The first of the list is the one with the least timestamp.
LEMMA FirstServed ==
    ASSUME Typed, Distinct(queue), queue # <<>>
    PROVE  /\ Head(queue) \in Event /\ Queued(Head(queue)) /\ Tail(queue) \in Seq(Event)
           /\ ToSet(Tail(queue)) = ToSet(queue) \ {Head(queue)} /\ Distinct(Tail(queue))
           /\ Rising(queue, stamp) =>
                 /\ Rising(Tail(queue), stamp)
                 /\ \A x \in ToSet(queue) : stamp[Head(queue)] <= stamp[x]
<1>1. queue \in Seq(Event) /\ stamp \in [Event -> Nat]
  BY Constants DEF Typed
<1> QED BY <1>1, TakeFirstCorrect DEF Queued

LEMMA Members ==
    ASSUME Typed
    PROVE  ToSet(queue) \subseteq Event /\ (queue = <<>> => ToSet(queue) = {})
           /\ \A e \in Event : queue = <<e>> => ToSet(queue) = {e} /\ Head(queue) = e
  BY DEF Typed, ToSet

-----------------------------------------------------------------------------
(***************************************************************************)
(* The calls of threads and callbacks.                                     *)
(***************************************************************************)
LEMMA SetupKeeps ==
    ASSUME TickInv, NEW e \in Event, NEW d \in Delays, Setup(e, d)
    PROVE  TickInv'
<1> DEFINE t == (now + d) % CountMod
           w == Without(e)
           r == InsertAt(w, Behind(w, t), e)
<1>1. /\ Typed /\ Distinct(queue) /\ MayCall(e)
      /\ delay' = [delay EXCEPT ![e] = d] /\ stamp' = [stamp EXCEPT ![e] = t]
      /\ queue' = r /\ alarm' = IF Behind(w, t) = 1 THEN t ELSE AlarmWithout(e)
      /\ due' = [due EXCEPT ![e] = d]
      /\ last' = last /\ mode' = mode /\ now' = now /\ pend' = pend /\ waits' = waits /\ use' = use
  BY DEF TickInv, Armed, Setup, Insert
<1>2. /\ now \in Time /\ now \in Nat /\ d \in Nat /\ d >= 1 /\ d \in Time /\ d \in Int
      /\ now + d \in Nat /\ CountMod \in Nat \ {0}
  <2>1. now \in Time /\ d \in 1 .. CountMod - 1 /\ d \in Time
    BY <1>1, Constants DEF Typed
  <2>2. CountMod \in Nat /\ CountMod > 1 /\ now \in Nat /\ d \in Nat
    BY <2>1, Constants
  <2> QED BY <2>1, <2>2
<1>3. t \in Time /\ (now + d < CountMod => t = now + d)
  BY <1>2, Modulo DEF Time
<1>4. /\ w \in Seq(Event) /\ Distinct(w) /\ ToSet(w) = ToSet(queue) \ {e}
      /\ Rising(queue, stamp) => Rising(w, stamp)
      /\ ~Queued(e) => w = queue
      /\ w # <<>> =>
            /\ queue # <<>> /\ Head(w) = IF Head(queue) = e THEN queue[2] ELSE Head(queue)
            /\ Head(queue) = e => Tail(queue) # <<>>
  <2>1. stamp \in [Event -> Nat] /\ queue \in Seq(Event)
    BY <1>1, Constants DEF Typed
  <2> QED BY <1>1, <2>1, WithoutCorrect
<1> HIDE DEF t, w
<1>5. /\ r \in Seq(Event) /\ Distinct(r) /\ ToSet(r) = ToSet(w) \cup {e}
      /\ r # <<>> /\ (Behind(w, t) # 1 => w # <<>>)
      /\ Head(r) = IF Behind(w, t) = 1 THEN e ELSE Head(w)
      /\ Rising(w, stamp) => Rising(r, stamp')
      /\ w = <<>> => r = <<e>>
  <2>1. e \notin ToSet(w) /\ stamp \in [Event -> Time]
    BY <1>1, <1>4 DEF Typed
  <2> QED BY <1>1, <1>3, <1>4, <2>1, InsertedCorrect
<1> HIDE DEF r
<1>6. ToSet(queue') = ToSet(queue) \cup {e}
  BY <1>1, <1>4, <1>5
<1>7. alarm' \in Time \cup {Null}
  <2>1. ASSUME w # <<>>, Head(queue) = e PROVE stamp[queue[2]] \in Time
    <3>1. Head(w) = queue[2] /\ Head(w) \in Event
      BY <1>4, <2>1
    <3> QED BY <1>1, <3>1 DEF Typed
  <2> QED BY <1>1, <1>3, <1>4, <1>5, <2>1 DEF Typed, AlarmWithout
<1>8. Typed'
  BY <1>1, <1>2, <1>3, <1>5, <1>6, <1>7 DEF Typed, Queued
<1>9. Armed'
  <2>1. ASSUME mode = "thread", ~pend PROVE alarm' = stamp'[Head(r)]
    <3>1. CASE Behind(w, t) = 1
      BY <1>1, <1>5, <3>1 DEF Typed
    <3>2. CASE Behind(w, t) # 1
      <4>1. w # <<>> /\ Head(w) \in Event /\ Head(w) \in ToSet(w) /\ Head(r) = Head(w)
        BY <1>4, <1>5, <3>2, TakeFirstCorrect
      <4>2. stamp'[Head(w)] = stamp[Head(w)]
        BY <1>1, <1>4, <4>1 DEF Typed
      <4>3. queue # <<>> /\ alarm = stamp[Head(queue)]
        BY <1>4, <2>1, <4>1 DEF TickInv, Armed
      <4>4. AlarmWithout(e) = stamp[Head(w)]
        BY <1>4, <4>1, <4>3 DEF AlarmWithout
      <4> QED BY <1>1, <3>2, <4>1, <4>2, <4>4
    <3> QED BY <3>1, <3>2
  <2> QED BY <1>1, <1>5, <2>1 DEF Armed
<1>10. ASSUME use = "first" PROVE InFirst'
  <2>1. InFirst /\ now + d < CountMod /\ now <= Ends
    BY <1>2, <1>10, Constants, LongestDelay DEF TickInv, InFirst
  <2>2. t = now + d /\ last \in Nat
    BY <1>1, <1>3, <2>1, Constants DEF Typed
  <2>3. Rising(queue', stamp')
    BY <1>1, <1>4, <1>5, <2>1 DEF InFirst
  <2>4. ASSUME NEW x \in ToSet(queue')
        PROVE  /\ delay'[x] \in Delays /\ due'[x] = stamp'[x] - now /\ last <= stamp'[x]
               /\ due'[x] >= -Late
               /\ mode = "thread" => due'[x] >= IF pend THEN -waits ELSE 1
    <3>1. CASE x = e
      <4>1. delay'[e] = d /\ stamp'[e] = now + d /\ due'[e] = d /\ waits \in Nat
        BY <1>1, <2>2, Constants DEF Typed
      <4> QED BY <1>2, <2>1, <2>2, <3>1, <4>1, Constants DEF InFirst
    <3>2. CASE x # e
      <4>1. x \in ToSet(queue) /\ x \in Event
        BY <1>1, <1>6, <3>2, Members
      <4>2. delay'[x] = delay[x] /\ stamp'[x] = stamp[x] /\ due'[x] = due[x]
        BY <1>1, <3>2, <4>1 DEF Typed
      <4> QED BY <2>1, <4>1, <4>2 DEF InFirst
    <3> QED BY <3>1, <3>2
  <2> QED BY <1>1, <2>1, <2>3, <2>4 DEF InFirst
<1>11. ASSUME use = "single" PROVE Alone(e)'
  <2>1. e \in Tickers /\ \A x \in Event : delay[x] = 0
    BY <1>1, <1>11 DEF MayCall
  <2>2. NoneYet
    BY <1>11, <2>1, Constants, TickerAssumption DEF TickInv, Alone, TickerAssumption
  <2>3. queue' = <<e>>
    BY <1>1, <1>4, <1>5, <2>2, Members DEF NoneYet, Queued
  <2>4. delay'[e] = d /\ stamp'[e] = t /\ due'[e] = d
    BY <1>1 DEF Typed
  <2> QED BY <1>1, <1>2, <2>1, <2>2, <2>3, <2>4 DEF Alone, NoneYet, t
<1>12. e \in Tickers \/ use # "single"
  BY <1>1 DEF MayCall
<1> QED BY <1>1, <1>8, <1>9, <1>10, <1>11, <1>12 DEF TickInv

LEMMA DetachKeeps ==
    ASSUME TickInv, NEW e \in Event, Detach(e)
    PROVE  TickInv'
<1> DEFINE w == Without(e)
<1>1. /\ Typed /\ Distinct(queue) /\ MayCall(e) /\ Queued(e)
      /\ queue' = w /\ alarm' = AlarmWithout(e) /\ due' = [due EXCEPT ![e] = 0]
      /\ stamp' = stamp /\ delay' = delay
      /\ last' = last /\ mode' = mode /\ now' = now /\ pend' = pend /\ waits' = waits /\ use' = use
  BY DEF TickInv, Armed, Detach
<1>2. /\ w \in Seq(Event) /\ Distinct(w) /\ ToSet(w) = ToSet(queue) \ {e}
      /\ Rising(queue, stamp) => Rising(w, stamp)
      /\ w # <<>> =>
            /\ queue # <<>> /\ Head(w) = IF Head(queue) = e THEN queue[2] ELSE Head(queue)
            /\ Head(queue) = e => Tail(queue) # <<>>
  <2>1. stamp \in [Event -> Nat] /\ queue \in Seq(Event)
    BY <1>1, Constants DEF Typed
  <2> QED BY <1>1, <2>1, WithoutCorrect
<1>3. alarm' \in Time \cup {Null}
  <2>1. queue \in Seq(Event) /\ stamp \in [Event -> Time] /\ alarm \in Time \cup {Null}
    BY <1>1 DEF Typed
  <2>2. queue # <<>> /\ Tail(queue) # <<>> => queue[2] \in Event
    BY <2>1
  <2> QED BY <1>1, <2>1, <2>2 DEF AlarmWithout
<1> HIDE DEF w
<1>4. Typed'
  BY <1>1, <1>2, <1>3 DEF Typed, Queued
<1>5. Armed'
  BY <1>1, <1>2 DEF TickInv, Armed, AlarmWithout
<1>6. ASSUME use = "first" PROVE InFirst'
  <2>1. InFirst
    BY <1>6 DEF TickInv
  <2>2. \A x \in ToSet(queue') : x \in ToSet(queue) /\ x \in Event /\ due'[x] = due[x]
    BY <1>1, <1>2, Members DEF Typed
  <2>3. Rising(queue', stamp')
    BY <1>1, <1>2, <2>1 DEF InFirst
  <2> QED BY <1>1, <2>1, <2>2, <2>3 DEF InFirst
<1>7. use # "single"
  <2> SUFFICES ASSUME use = "single" PROVE FALSE
    OBVIOUS
  <2>1. e \in ToSet(queue) /\ \A x \in Event : delay[x] = 0
    BY <1>1 DEF MayCall, Queued
  <2> QED BY <1>1, <2>1, Members, Constants, TickerAssumption
          DEF TickInv, NoneYet, Alone, TickerAssumption
<1> QED BY <1>1, <1>4, <1>5, <1>6, <1>7 DEF TickInv
-----------------------------------------------------------------------------
(***************************************************************************)
(* The interrupt.                                                          *)
(***************************************************************************)
LEMMA Modes == "thread" \notin Event /\ "irq" \notin Event
  BY TickerAssumption DEF TickerAssumption

LEMMA IrqEnterKeeps ==
    ASSUME TickInv, IrqEnter
    PROVE  TickInv'
<1>1. /\ Typed /\ Distinct(queue) /\ mode = "thread" /\ pend
      /\ mode' = "irq" /\ pend' = FALSE /\ waits' = 0
      /\ queue' = queue /\ stamp' = stamp /\ delay' = delay
      /\ last' = last /\ now' = now /\ alarm' = alarm /\ due' = due /\ use' = use
  BY DEF TickInv, Armed, IrqEnter, listVars
<1>2. Typed'
  <2>1. 0 \in 0 .. Late
    BY Constants
  <2> QED BY <1>1, <2>1 DEF Typed, Queued
<1>3. Armed'
  BY <1>1 DEF Armed
<1>4. use = "first" => InFirst'
  BY <1>1 DEF TickInv, InFirst
<1>5. use = "single" => \E e \in Tickers : Alone(e)'
  BY <1>1 DEF TickInv, NoneYet, Alone
<1> QED BY <1>1, <1>2, <1>3, <1>4, <1>5 DEF TickInv

LEMMA ServeTickerKeeps ==
    ASSUME TickInv, NEW e \in Event, ServeTicker(e)
    PROVE  TickInv'
<1> DEFINE q == Tail(queue)
           t == (stamp[e] + delay[e]) % CountMod
           r == InsertAt(q, Behind(q, t), e)
<1>1. /\ Typed /\ Distinct(queue) /\ e \in Tickers
      /\ mode = "irq" /\ Due /\ e = Head(queue) /\ queue # <<>>
      /\ queue' = r /\ stamp' = [stamp EXCEPT ![e] = t]
      /\ alarm' = IF Behind(q, t) = 1 THEN t ELSE alarm
      /\ due' = [due EXCEPT ![e] = due[e] + delay[e]]
      /\ last' = stamp[e] /\ delay' = delay
      /\ mode' = mode /\ now' = now /\ pend' = pend /\ waits' = waits /\ use' = use
  BY DEF TickInv, Armed, ServeTicker, Served, Insert, Due
<1>2. /\ stamp[e] \in Time /\ delay[e] \in Time /\ now \in Time
      /\ stamp[e] \in Nat /\ delay[e] \in Nat /\ now \in Nat /\ CountMod \in Nat \ {0}
      /\ due[e] \in Int
  <2>1. stamp[e] \in Time /\ delay[e] \in Time /\ now \in Time /\ due[e] \in Int
    BY <1>1 DEF Typed
  <2> QED BY <2>1, Constants
<1>3. t \in Time /\ (stamp[e] + delay[e] < CountMod => t = stamp[e] + delay[e])
  <2>1. stamp[e] + delay[e] \in Nat
    BY <1>2
  <2> QED BY <1>2, <2>1, Modulo DEF Time
<1>4. /\ Queued(e) /\ q \in Seq(Event) /\ Distinct(q)
      /\ ToSet(q) = ToSet(queue) \ {e}
      /\ Rising(queue, stamp) =>
            Rising(q, stamp) /\ \A x \in ToSet(queue) : stamp[e] <= stamp[x]
  BY <1>1, FirstServed
<1> HIDE DEF t, q
<1>5. /\ r \in Seq(Event) /\ Distinct(r) /\ ToSet(r) = ToSet(q) \cup {e}
      /\ r # <<>>
      /\ Rising(q, stamp) => Rising(r, stamp')
      /\ q = <<>> => r = <<e>>
  <2>1. e \notin ToSet(q) /\ stamp \in [Event -> Time]
    BY <1>1, <1>4 DEF Typed
  <2>2. /\ r \in Seq(Event) /\ Distinct(r) /\ ToSet(r) = ToSet(q) \cup {e} /\ r # <<>>
        /\ Rising(q, stamp) => Rising(r, [stamp EXCEPT ![e] = t])
        /\ q = <<>> => r = <<e>>
    BY <1>3, <1>4, <2>1, InsertedCorrect
  <2> HIDE DEF r
  <2> QED BY <1>1, <2>2
<1> HIDE DEF r
<1>6. ToSet(queue') = ToSet(queue)
  BY <1>1, <1>4, <1>5 DEF Queued
<1>7. Typed'
  <2>1. queue' \in Seq(Event) /\ stamp' \in [Event -> Time] /\ alarm' \in Time \cup {Null}
    BY <1>1, <1>3, <1>5 DEF Typed
  <2>2. due' \in [Event -> Int] /\ \A x \in Event : ~Queued(x)' => due'[x] = 0
    BY <1>1, <1>2, <1>4, <1>6 DEF Typed, Queued
  <2> QED BY <1>1, <1>2, <2>1, <2>2 DEF Typed
<1>8. Armed'
  BY <1>1, <1>5 DEF Armed
<1>9. ASSUME use = "first" PROVE InFirst'
  <2>1. InFirst /\ e \in ToSet(queue) /\ stamp[e] <= now /\ delay[e] \in Delays
    BY <1>1, <1>4, <1>9 DEF TickInv, InFirst, Queued, Due
  <2>2. stamp[e] + delay[e] < CountMod /\ t = stamp[e] + delay[e]
    <3>1. now <= Ends /\ Ends \in Nat /\ Ends + delay[e] <= CountMod - 1
      BY <2>1, LongestDelay DEF InFirst
    <3> QED BY <1>2, <1>3, <2>1, <3>1
  <2>3. Rising(queue', stamp')
    BY <1>1, <1>4, <1>5, <2>1 DEF InFirst
  <2>4. ASSUME NEW x \in ToSet(queue')
        PROVE  /\ delay'[x] \in Delays /\ due'[x] = stamp'[x] - now /\ last' <= stamp'[x]
               /\ due'[x] >= -Late
    <3>1. CASE x = e
      <4>1. stamp'[e] = stamp[e] + delay[e] /\ due'[e] = due[e] + delay[e]
        BY <1>1, <2>2 DEF Typed
      <4>2. due[e] = stamp[e] - now /\ due[e] >= -Late /\ Late \in Nat
        BY <2>1, Constants DEF InFirst
      <4> QED BY <1>1, <1>2, <2>1, <3>1, <4>1, <4>2
    <3>2. CASE x # e
      <4>1. x \in ToSet(queue) /\ x \in Event
        BY <1>1, <1>6, <3>2, Members
      <4>2. stamp'[x] = stamp[x] /\ due'[x] = due[x]
        BY <1>1, <3>2, <4>1 DEF Typed
      <4>3. stamp[e] <= stamp[x]
        BY <1>4, <2>1, <4>1 DEF InFirst
      <4> QED BY <1>1, <2>1, <4>1, <4>2, <4>3 DEF InFirst
    <3> QED BY <3>1, <3>2
  <2> QED BY <1>1, <2>1, <2>3, <2>4 DEF InFirst
<1>10. ASSUME use = "single" PROVE Alone(e)'
  <2>1. Alone(e) /\ q = <<>>
    <3>1. PICK a \in Tickers : Alone(a)
      BY <1>1, <1>10 DEF TickInv, NoneYet
    <3> QED BY <1>1, <3>1 DEF Alone, q
  <2>2. /\ queue' = <<e>> /\ due'[e] = due[e] + delay[e] /\ stamp'[e] = t
    BY <1>1, <1>5, <2>1 DEF Typed
  <2>3. /\ delay[e] \in Delays /\ delay[e] \in 1 .. CountMod - 1 /\ due[e] \in 0 .. delay[e]
        /\ stamp[e] = (now + due[e]) % CountMod /\ (due[e] = 0 \/ last = now) /\ ~pend
    BY <1>1, <2>1, Constants DEF Alone
  <2>4. due[e] = 0 /\ stamp[e] = now
    <3>1. stamp[e] <= now /\ (last = now => stamp[e] >= now)
      BY <1>1, <1>2 DEF Due, AfterWrap
    <3>2. due[e] = 0 \/ stamp[e] = now
      BY <1>2, <2>3, <3>1
    <3>3. due[e] \in Time
      BY <1>2, <2>3, Constants DEF Time
    <3>4. (now + due[e]) % CountMod = now <=> due[e] = 0
      BY <1>2, <3>3, TimeAhead
    <3> QED BY <2>3, <3>2, <3>4
  <2>5. due'[e] = delay[e] /\ stamp'[e] = (now + delay[e]) % CountMod
    BY <1>2, <2>2, <2>3, <2>4 DEF t
  <2>6. delay[e] \in 0 .. delay[e]
    BY <1>2
  <2> QED BY <1>1, <2>2, <2>3, <2>4, <2>5, <2>6 DEF Alone
<1> QED BY <1>1, <1>7, <1>8, <1>9, <1>10 DEF TickInv

LEMMA ServeTimeoutKeeps ==
    ASSUME TickInv, NEW e \in Event, ServeTimeout(e)
    PROVE  TickInv'
<1>1. /\ Typed /\ Distinct(queue) /\ e \notin Tickers
      /\ mode = "irq" /\ Due /\ e = Head(queue) /\ queue # <<>>
      /\ queue' = Tail(queue) /\ mode' = e /\ stamp' = stamp /\ alarm' = alarm
      /\ due' = [due EXCEPT ![e] = 0]
      /\ last' = stamp[e] /\ delay' = delay
      /\ now' = now /\ pend' = pend /\ waits' = waits /\ use' = use
  BY DEF TickInv, Armed, ServeTimeout, Served, Due
<1>2. /\ Queued(e) /\ queue' \in Seq(Event) /\ Distinct(queue')
      /\ ToSet(queue') = ToSet(queue) \ {e} /\ ToSet(queue) \subseteq Event
      /\ Rising(queue, stamp) =>
            Rising(queue', stamp) /\ \A x \in ToSet(queue) : stamp[e] <= stamp[x]
  BY <1>1, FirstServed, Members
<1>3. Typed'
  BY <1>1, <1>2 DEF Typed, Queued
<1>4. Armed'
  BY <1>1, <1>2, Modes DEF Armed
<1>5. ASSUME use = "first" PROVE InFirst'
  <2>1. InFirst /\ stamp[e] <= now
    BY <1>1, <1>5 DEF TickInv, Due
  <2>2. \A x \in ToSet(queue') : x \in ToSet(queue) /\ due'[x] = due[x]
    BY <1>1, <1>2 DEF Typed
  <2> QED BY <1>1, <1>2, <2>1, <2>2, Modes DEF InFirst
<1>6. use # "single"
  BY <1>1 DEF TickInv, NoneYet, Alone
<1> QED BY <1>1, <1>3, <1>4, <1>5, <1>6 DEF TickInv

LEMMA CallbackReturnsKeeps ==
    ASSUME TickInv, CallbackReturns
    PROVE  TickInv'
<1>1. /\ Typed /\ Distinct(queue) /\ mode \in Event /\ mode # "thread" /\ mode # "irq"
      /\ mode' = "irq"
      /\ queue' = queue /\ stamp' = stamp /\ delay' = delay /\ pend' = pend /\ waits' = waits
      /\ last' = last /\ now' = now /\ alarm' = alarm /\ due' = due /\ use' = use
  BY Modes DEF TickInv, Armed, CallbackReturns, listVars
<1>2. Typed'
  BY <1>1 DEF Typed, Queued
<1>3. Armed'
  BY <1>1 DEF Armed
<1>4. use = "first" => InFirst'
  BY <1>1 DEF TickInv, InFirst
<1>5. use # "single"
  BY <1>1 DEF TickInv, NoneYet, Alone
<1> QED BY <1>1, <1>2, <1>3, <1>4, <1>5 DEF TickInv

LEMMA IrqExitKeeps ==
    ASSUME TickInv, IrqExit
    PROVE  TickInv'
<1>1. /\ Typed /\ Distinct(queue) /\ mode = "irq" /\ ~Due
      /\ mode' = "thread" /\ alarm' = IF queue = <<>> THEN Null ELSE stamp[Head(queue)]
      /\ queue' = queue /\ stamp' = stamp /\ delay' = delay /\ pend' = pend /\ waits' = waits
      /\ last' = last /\ now' = now /\ due' = due /\ use' = use
  BY DEF TickInv, Armed, IrqExit, listVars
<1>2. queue # <<>> => /\ Head(queue) \in Event /\ Queued(Head(queue))
                      /\ stamp[Head(queue)] \in Time
                      /\ Rising(queue, stamp) =>
                            \A x \in ToSet(queue) : stamp[Head(queue)] <= stamp[x]
  BY <1>1, FirstServed DEF Typed
<1>3. Typed'
  BY <1>1, <1>2 DEF Typed, Queued
<1>4. Armed'
  BY <1>1 DEF Armed
<1>5. ASSUME use = "first" PROVE InFirst'
  <2>1. InFirst /\ ~pend
    BY <1>1, <1>5 DEF TickInv, InFirst
  <2>2. ASSUME NEW x \in ToSet(queue) PROVE due[x] >= 1
    <3>1. queue # <<>> /\ x \in Event
      BY <1>1, Members
    <3>2. stamp[Head(queue)] <= stamp[x] /\ last <= stamp[Head(queue)]
      BY <1>2, <2>1, <3>1 DEF InFirst, Queued
    <3>3. /\ stamp[Head(queue)] \in Nat /\ stamp[x] \in Nat /\ now \in Nat /\ last \in Nat
          /\ due[x] = stamp[x] - now
      BY <1>1, <1>2, <2>1, <3>1, Constants DEF Typed, InFirst
    <3>4. stamp[Head(queue)] > now
      BY <1>1, <3>1, <3>2, <3>3 DEF Due, AfterWrap
    <3> QED BY <3>2, <3>3, <3>4
  <2> QED BY <1>1, <2>1, <2>2 DEF InFirst
<1>6. ASSUME use = "single" PROVE \E e \in Tickers : Alone(e)'
  <2>1. PICK e \in Tickers : Alone(e)
    BY <1>1, <1>6 DEF TickInv, NoneYet
  <2>2. /\ e \in Event /\ queue # <<>> /\ Head(queue) = e /\ ~pend /\ delay[e] \in 1 .. CountMod - 1
        /\ due[e] \in 0 .. delay[e] /\ stamp[e] = (now + due[e]) % CountMod
    <3>1. e \in Event /\ queue = <<e>> /\ delay[e] \in Delays
      BY <2>1, TickerAssumption DEF Alone, TickerAssumption
    <3>2. queue # <<>> /\ Head(queue) = e
      BY <3>1
    <3> QED BY <1>1, <2>1, <3>1, <3>2, Constants DEF Alone
  <2>3. due[e] # 0
    <3> SUFFICES ASSUME due[e] = 0 PROVE FALSE
      OBVIOUS
    <3>1. now \in Nat /\ now < CountMod /\ last \in Nat /\ CountMod \in Nat \ {0}
      BY <1>1, Constants DEF Typed
    <3>2. stamp[e] = now
      <4>1. now + 0 = now
        BY <3>1
      <4>2. now % CountMod = now
        BY <3>1, Modulo
      <4> QED BY <2>2, <4>1, <4>2
    <3> QED BY <1>1, <2>2, <3>1, <3>2 DEF Due, AfterWrap
  <2> QED BY <1>1, <2>1, <2>2, <2>3 DEF Alone
<1> QED BY <1>1, <1>3, <1>4, <1>5, <1>6 DEF TickInv

-----------------------------------------------------------------------------
(***************************************************************************)
(* The counter.                                                            *)
(***************************************************************************)
LEMMA CountUpKeeps ==
    ASSUME TickInv, CountUp
    PROVE  TickInv'
<1>1. /\ Typed /\ Distinct(queue) /\ mode = "thread" /\ mode' = "thread"
      /\ (use = "first" => now < Ends) /\ (pend => waits < HeldUp)
      /\ now' = (now + 1) % CountMod /\ pend' = (pend \/ now' = alarm)
      /\ waits' = IF pend THEN waits + 1 ELSE 0
      /\ due' = [e \in Event |-> IF Queued(e) THEN due[e] - 1 ELSE 0]
      /\ queue' = queue /\ stamp' = stamp /\ delay' = delay
      /\ last' = last /\ alarm' = alarm /\ use' = use
  BY DEF TickInv, Armed, CountUp, listVars
<1>2. /\ now \in Nat /\ now < CountMod /\ last \in Nat /\ waits \in Nat /\ Late \in Nat
      /\ CountMod \in Nat /\ CountMod > 1
  BY <1>1, Constants DEF Typed
<1>3. now' \in Time /\ (now + 1 < CountMod => now' = now + 1)
  <2>1. now + 1 \in Nat /\ CountMod \in Nat \ {0}
    BY <1>2
  <2> QED BY <1>1, <2>1, Modulo DEF Time
<1>4. HeldUp <= Late /\ HeldUp \in Nat /\ (use = "single" => HeldUp = 0)
  BY <1>2 DEF HeldUp
<1>5. \A e \in Event : due[e] \in Int
  BY <1>1 DEF Typed
<1>6. Typed'
  <2>1. waits' \in 0 .. Late
    BY <1>1, <1>2, <1>4
  <2>2. due' \in [Event -> Int] /\ \A e \in Event : ~Queued(e)' => due'[e] = 0
    BY <1>1, <1>5 DEF Queued
  <2>3. pend' \in BOOLEAN
    BY <1>1 DEF Typed
  <2> QED BY <1>1, <1>3, <2>1, <2>2, <2>3 DEF Typed
<1>7. Armed'
  BY <1>1 DEF TickInv, Armed
<1>8. ASSUME use = "first" PROVE InFirst'
  <2>1. InFirst /\ now' = now + 1 /\ now' <= Ends
    BY <1>1, <1>2, <1>3, <1>8, LongestDelay DEF TickInv
  <2>2. ASSUME NEW x \in ToSet(queue)
        PROVE  /\ due'[x] = stamp[x] - now' /\ due'[x] >= -Late
               /\ due'[x] >= IF pend' THEN -waits' ELSE 1
    <3>1. /\ queue # <<>> /\ x \in Event /\ due[x] \in Int /\ due'[x] = due[x] - 1
          /\ due[x] = stamp[x] - now /\ stamp[x] \in Nat
          /\ due[x] >= IF pend THEN -waits ELSE 1
      BY <1>1, <1>5, <2>1, Members, Constants DEF Typed, InFirst, Queued
    <3>2. due'[x] = stamp[x] - now' /\ due[x] - 1 \in Int
      BY <1>2, <2>1, <3>1
    <3>3. CASE pend
      <4>1. due[x] >= -waits /\ due'[x] = due[x] - 1 /\ waits < HeldUp
        BY <1>1, <3>1, <3>3
      <4>2. pend' /\ waits' = waits + 1
        BY <1>1, <3>3
      <4>3. waits < Late
        BY <1>2, <1>4, <4>1
      <4>4. due[x] - 1 >= -(waits + 1) /\ due[x] - 1 >= -Late
        BY <1>2, <3>1, <4>1, <4>3
      <4> QED BY <3>2, <4>1, <4>2, <4>4
    <3>4. CASE ~pend /\ now' = alarm
      <4>1. due[x] >= 1 /\ pend' /\ waits' = 0 /\ due'[x] = due[x] - 1
        BY <1>1, <3>1, <3>4
      <4>2. due[x] - 1 >= -0 /\ due[x] - 1 >= -Late
        BY <1>2, <3>1, <4>1
      <4> QED BY <3>2, <4>1, <4>2
    <3>5. CASE ~pend /\ now' # alarm
      <4>1. /\ Head(queue) \in Event /\ Head(queue) \in ToSet(queue)
            /\ stamp[Head(queue)] <= stamp[x]
        BY <1>1, <2>1, <3>1, FirstServed DEF InFirst, Queued
      <4>2. /\ stamp[Head(queue)] \in Nat /\ due[Head(queue)] >= 1
            /\ due[Head(queue)] = stamp[Head(queue)] - now
        BY <1>1, <2>1, <3>5, <4>1, Constants DEF Typed, InFirst
      <4>3. now' # stamp[Head(queue)]
        BY <1>1, <3>1, <3>5 DEF TickInv, Armed
      <4>4. stamp[Head(queue)] > now + 1
        BY <1>2, <2>1, <4>2, <4>3
      <4>5. due[x] - 1 >= 1 /\ due[x] - 1 >= -Late
        BY <1>2, <3>1, <4>1, <4>2, <4>4
      <4>6. ~pend'
        BY <1>1, <3>5
      <4> QED BY <3>1, <3>2, <4>5, <4>6
    <3> QED BY <3>3, <3>4, <3>5
  <2>3. last' <= now' \/ last' = 1
    BY <1>1, <1>2, <2>1 DEF InFirst
  <2> QED BY <1>1, <2>1, <2>2, <2>3 DEF InFirst
<1>9. ASSUME use = "single" PROVE NoneYet' \/ \E e \in Tickers : Alone(e)'
  <2>1. ~pend
    BY <1>1, <1>2, <1>4, <1>9
  <2>2. CASE NoneYet
    <3>1. now' # alarm
      BY <1>3, <2>2, Constants DEF NoneYet
    <3> QED BY <1>1, <2>1, <2>2, <3>1 DEF NoneYet
  <2>3. ASSUME NEW e \in Tickers, Alone(e) PROVE Alone(e)'
    <3>1. /\ e \in Event /\ queue = <<e>> /\ delay[e] \in Delays
          /\ delay[e] \in 1 .. CountMod - 1 /\ due[e] \in 0 .. delay[e] /\ due[e] # 0
          /\ stamp[e] = (now + due[e]) % CountMod
      BY <1>1, <2>1, <2>3, Constants, TickerAssumption DEF Alone, TickerAssumption
    <3>2. queue # <<>> /\ Head(queue) = e /\ Queued(e)
      BY <1>1, <3>1, Members DEF Queued
    <3>3. due'[e] = due[e] - 1 /\ alarm = stamp[e]
      BY <1>1, <2>1, <3>1, <3>2 DEF TickInv, Armed
    <3>4. stamp[e] = (now' + due'[e]) % CountMod
      <4>1. now \in Time /\ due[e] \in Time /\ due[e] # 0
        BY <1>2, <3>1 DEF Time
      <4>2. (((now + 1) % CountMod) + (due[e] - 1)) % CountMod = (now + due[e]) % CountMod
        BY <4>1, TimeAhead
      <4> QED BY <1>1, <3>1, <3>3, <4>2
    <3>5. pend' <=> due'[e] = 0
      <4>1. now' \in Time /\ due'[e] \in Time
        BY <1>2, <1>3, <3>1, <3>3 DEF Time
      <4>2. (now' + due'[e]) % CountMod = now' <=> due'[e] = 0
        <5> DEFINE a == now'
                   d == due'[e]
        <5>1. a \in Time /\ d \in Time
          BY <4>1
        <5> HIDE DEF a, d
        <5>2. (a + d) % CountMod = a <=> d = 0
          BY <5>1, TimeAhead
        <5> QED BY <5>2 DEF a, d
      <4> QED BY <1>1, <2>1, <3>3, <3>4, <4>2
    <3>6. due'[e] \in 0 .. delay[e]
      BY <1>2, <3>1, <3>3
    <3> QED BY <1>1, <3>1, <3>4, <3>5, <3>6 DEF Alone
  <2> QED BY <1>9, <2>2, <2>3 DEF TickInv
<1> QED BY <1>1, <1>6, <1>7, <1>8, <1>9 DEF TickInv

-----------------------------------------------------------------------------
LEMMA InitTickInv == Init => TickInv
<1> SUFFICES ASSUME Init PROVE TickInv
  OBVIOUS
<1>1. /\ queue = <<>> /\ last = 1 /\ now = 0 /\ mode = "thread" /\ alarm = Null
      /\ pend = FALSE /\ waits = 0 /\ use \in Uses
      /\ stamp = [e \in Event |-> 0] /\ delay = [e \in Event |-> 0]
      /\ due = [e \in Event |-> 0]
  BY DEF Init
<1>2. Typed
  <2>1. /\ queue \in Seq(Event) /\ stamp \in [Event -> Time] /\ delay \in [Event -> Time]
        /\ last \in Time /\ now \in Time
    BY <1>1, Constants
  <2>2. due \in [Event -> Int] /\ \A e \in Event : due[e] = 0
    BY <1>1
  <2>3. waits \in 0 .. Late
    BY <1>1, Constants
  <2> QED BY <1>1, <2>1, <2>2, <2>3 DEF Typed
<1>3. Armed
  BY <1>1 DEF Armed, Distinct
<1>4. InFirst
  <2>1. ToSet(queue) = {} /\ Rising(queue, stamp)
    BY <1>1, <1>2, Members DEF Rising
  <2> QED BY <1>1, <2>1, LongestDelay DEF InFirst
<1>5. NoneYet
  BY <1>1 DEF NoneYet
<1> QED BY <1>2, <1>3, <1>4, <1>5 DEF TickInv

LEMMA NextTickInv == TickInv /\ [Next]_vars => TickInv'
<1> SUFFICES ASSUME TickInv, [Next]_vars PROVE TickInv'
  OBVIOUS
<1>1. ASSUME NEW e \in Event, Detach(e) PROVE TickInv'
  BY <1>1, DetachKeeps
<1>2. ASSUME NEW e \in Event, NEW d \in Delays, Setup(e, d) PROVE TickInv'
  BY <1>2, SetupKeeps
<1>3. CASE Irq
  BY <1>3, IrqEnterKeeps, ServeTickerKeeps, ServeTimeoutKeeps, CallbackReturnsKeeps,
     IrqExitKeeps DEF Irq
<1>4. CASE CountUp
  BY <1>4, CountUpKeeps
<1>5. CASE UNCHANGED vars
  <2>1. /\ queue' = queue /\ stamp' = stamp /\ delay' = delay /\ last' = last /\ mode' = mode
        /\ now' = now /\ alarm' = alarm /\ pend' = pend /\ waits' = waits /\ due' = due
        /\ use' = use
    BY <1>5 DEF vars, listVars
  <2> QED BY <2>1 DEF TickInv, Typed, Queued, Armed, InFirst, NoneYet, Alone
<1> QED BY <1>1, <1>2, <1>3, <1>4, <1>5 DEF Next

-----------------------------------------------------------------------------
(***************************************************************************)
(* The inductive invariant of the ticker, in every program that the model  *)
(* knows: Setup, Detach, the turns of ticker_irq_handler, the callbacks    *)
(* and the counter keep it.                                                *)
(***************************************************************************)
THEOREM TickerInvariance == Spec => []TickInv
  BY InitTickInv, NextTickInv, PTL DEF Spec

(***************************************************************************)
(* No alarm is lost: after any calls of threads and of callbacks, in any   *)
(* order with the turns of ticker_irq_handler, and across any number of    *)
(* wraps of the counter, the interrupt is pending or the alarm is that of  *)
(* the first event, as long as one waits.                                  *)
(***************************************************************************)
THEOREM AlarmsKept == Spec => []Armed
<1>1. TickInv => Armed
  BY DEF TickInv
<1> QED BY <1>1, TickerInvariance, PTL

(***************************************************************************)
(* The time left to an event is neither below what the interrupt may be    *)
(* held up for nor above the delays, in the programs that keep clear of    *)
(* comparing timestamps on both sides of a wrap.                           *)
(***************************************************************************)
LEMMA Bounded ==
    ASSUME TickInv, use # "any"
    PROVE  /\ \A e \in Event : Queued(e) => due[e] >= -HeldUp
           /\ \A e \in Event : due[e] \in -Late .. CountMod
<1>1. Typed /\ use \in {"first", "single"}
  BY TickerAssumption DEF TickInv, Typed, TickerAssumption
<1>2. ASSUME NEW e \in Event, ~Queued(e) PROVE due[e] = 0
  BY <1>1, <1>2 DEF Typed
<1>3. ASSUME NEW e \in Event, Queued(e) PROVE due[e] \in -HeldUp .. CountMod
  <2>1. CASE use = "first"
    <3>1. /\ InFirst /\ due[e] = stamp[e] - now /\ due[e] >= -Late /\ HeldUp = Late
      BY <1>3, <2>1 DEF TickInv, InFirst, Queued, HeldUp
    <3>2. stamp[e] \in Nat /\ stamp[e] < CountMod /\ now \in Nat
      BY <1>1, Constants DEF Typed
    <3> QED BY <3>1, <3>2, Constants
  <2>2. CASE use = "single"
    <3>1. PICK x \in Tickers : Alone(x)
      BY <1>1, <1>3, <2>2, Members DEF TickInv, NoneYet, Queued
    <3>2. x = e /\ HeldUp = 0
      <4>1. x \in Event /\ queue = <<x>>
        BY <3>1, TickerAssumption DEF Alone, TickerAssumption
      <4> QED BY <1>1, <1>3, <2>2, <4>1, Members DEF Queued, HeldUp
    <3>3. delay[e] \in 1 .. CountMod - 1 /\ due[e] \in 0 .. delay[e]
      BY <3>1, <3>2, Constants DEF Alone
    <3> QED BY <3>2, <3>3, Constants
  <2> QED BY <1>1, <2>1, <2>2
<1>4. HeldUp \in 0 .. Late
  BY Constants DEF HeldUp
<1> QED BY <1>2, <1>3, <1>4, Constants

(***************************************************************************)
(* Every event is served on time in the programs without a wrap between    *)
(* two events, and the model's state keeps its types.  A program of the    *)
(* use "any" is one that ticker_irq_handler does not serve on time.        *)
(***************************************************************************)
THEOREM ServedOnTime ==
    ASSUME Uses \subseteq {"first", "single"}
    PROVE  Spec => []OnTime
<1>1. TickInv => OnTime
  BY Bounded DEF TickInv, Typed, OnTime
<1> QED BY <1>1, TickerInvariance, PTL

(***************************************************************************)
(* The type invariant, for the same programs: the time an event has left   *)
(* is bounded.                                                             *)
(***************************************************************************)
THEOREM TickerTypes ==
    ASSUME Uses \subseteq {"first", "single"}
    PROVE  Spec => []TypeOK
<1>1. TickInv => TypeOK
  <2> SUFFICES ASSUME TickInv PROVE TypeOK
    OBVIOUS
  <2>1. Typed /\ use # "any"
    BY DEF TickInv, Typed
  <2>2. due \in [Event -> -Late .. CountMod]
    BY <2>1, Bounded DEF Typed
  <2> QED BY <2>1, <2>2 DEF Typed, TypeOK
<1> QED BY <1>1, TickerInvariance, PTL

(***************************************************************************)
(* No event is served before its time, in its first or in a later period:  *)
(* the head of the list is taken for due only when it is.                  *)
(***************************************************************************)
THEOREM NotBeforeTime ==
    ASSUME Uses \subseteq {"first", "single"}
    PROVE  Spec => NeverEarly
<1>1. ASSUME TickInv, NEW e \in Event, ServeTicker(e) \/ ServeTimeout(e)
      PROVE  due[e] <= 0
  <2>1. /\ Typed /\ Distinct(queue) /\ mode = "irq" /\ Due /\ e = Head(queue) /\ queue # <<>>
        /\ stamp[e] <= now /\ use \in {"first", "single"}
    BY <1>1 DEF TickInv, Typed, Armed, ServeTicker, ServeTimeout, Served, Due
  <2>2. stamp[e] \in Nat /\ now \in Nat /\ now < CountMod /\ last \in Nat
    BY <2>1, Constants DEF Typed
  <2>3. CASE use = "first"
    <3>1. e \in ToSet(queue)
      BY <2>1, FirstServed DEF Queued
    <3> QED BY <1>1, <2>1, <2>2, <2>3, <3>1 DEF TickInv, InFirst
  <2>4. CASE use = "single"
    <3>1. PICK x \in Tickers : Alone(x)
      BY <1>1, <2>1, <2>4 DEF TickInv, NoneYet
    <3>2. x = e
      BY <2>1, <3>1 DEF Alone
    <3>3. /\ delay[e] \in 1 .. CountMod - 1 /\ due[e] \in 0 .. delay[e]
          /\ stamp[e] = (now + due[e]) % CountMod /\ (due[e] = 0 \/ last = now)
      BY <2>1, <3>1, <3>2, Constants DEF Alone
    <3>4. due[e] = 0 \/ stamp[e] = now
      BY <2>1, <2>2, <3>3 DEF Due, AfterWrap
    <3>5. due[e] \in Time /\ now \in Time
      BY <2>2, <3>3, Constants DEF Time
    <3>6. (now + due[e]) % CountMod = now => due[e] = 0
      BY <3>5, TimeAhead
    <3> QED BY <3>3, <3>4, <3>5, <3>6
  <2> QED BY <2>1, <2>3, <2>4
<1>2. TickInv /\ [Next]_vars =>
        [\A e \in Event : ServeTicker(e) \/ ServeTimeout(e) => due[e] <= 0]_vars
  BY <1>1
<1> QED BY <1>2, TickerInvariance, PTL DEF Spec, NeverEarly

-----------------------------------------------------------------------------
(***************************************************************************)
(* The user timers.                                                        *)
(***************************************************************************)
LEMMA TimerConstants ==
    /\ TcntMod \in Nat \ {0} /\ FifoSize \in Nat /\ CbqSize \in Nat \ {0}
    /\ NoTimer \notin Timer
    /\ \A n \in Ticks : n \in 1 .. TcntMod - 1
  BY TimerAssumption DEF TimerAssumption

(***************************************************************************)
(* Until(l, c, _) is the one function that starts at 0 and grows by the    *)
(* count of each timer.                                                    *)
(***************************************************************************)
Sums(l, c, d) ==
    d[0] = 0 /\ \A i \in 1 .. Len(l) : d[i] = d[i - 1] + c[l[i]].tcnt

SumsUpTo(l, c, d, n) ==
    d \in [0 .. n -> Nat] /\ d[0] = 0 /\ \A i \in 1 .. n : d[i] = d[i - 1] + c[l[i]].tcnt

LEMMA SumsExist ==
    ASSUME NEW l \in Seq(Timer), NEW c \in [Timer -> Block]
    PROVE  \E d \in [0 .. Len(l) -> Nat] : Sums(l, c, d)
<1> DEFINE S == {n \in Nat : n <= Len(l) => \E d : SumsUpTo(l, c, d, n)}
<1>1. Len(l) \in Nat /\ \A i \in 1 .. Len(l) : c[l[i]].tcnt \in Nat
  BY TimerConstants DEF Block
<1>2. 0 \in S
  <2> DEFINE d == [i \in 0 .. 0 |-> 0]
  <2>1. SumsUpTo(l, c, d, 0)
    BY DEF SumsUpTo
  <2> QED BY <2>1
<1>3. ASSUME NEW n \in Nat, n + 1 <= Len(l), NEW d, SumsUpTo(l, c, d, n)
      PROVE  \E e : SumsUpTo(l, c, e, n + 1)
  <2> DEFINE x == d[n] + c[l[n + 1]].tcnt
             e == [i \in 0 .. n + 1 |-> IF i = n + 1 THEN x ELSE d[i]]
  <2>1. d[n] \in Nat /\ n + 1 \in 1 .. Len(l)
    BY <1>1, <1>3 DEF SumsUpTo
  <2>2. x \in Nat
    BY <1>1, <2>1
  <2>3. e \in [0 .. n + 1 -> Nat] /\ e[0] = 0
    BY <1>3, <2>2 DEF SumsUpTo
  <2>4. \A i \in 0 .. n : e[i] = d[i]
    OBVIOUS
  <2>5. e[n + 1] = d[n] + c[l[n + 1]].tcnt
    OBVIOUS
  <2> HIDE DEF x, e
  <2>6. ASSUME NEW i \in 1 .. n + 1 PROVE e[i] = e[i - 1] + c[l[i]].tcnt
    <3>1. CASE i = n + 1
      <4>1. i - 1 = n /\ n \in 0 .. n
        BY <3>1
      <4> QED BY <2>4, <2>5, <3>1, <4>1
    <3>2. CASE i # n + 1
      <4>1. i \in 1 .. n /\ i \in 0 .. n /\ i - 1 \in 0 .. n
        BY <3>2
      <4>2. d[i] = d[i - 1] + c[l[i]].tcnt
        BY <1>3, <4>1 DEF SumsUpTo
      <4> QED BY <2>4, <4>1, <4>2
    <3> QED BY <3>1, <3>2
  <2>7. SumsUpTo(l, c, e, n + 1)
    BY <2>3, <2>6 DEF SumsUpTo
  <2> QED BY <2>7
<1>4. ASSUME NEW n \in S PROVE n + 1 \in S
  <2>1. CASE n + 1 <= Len(l)
    <3>1. n \in Nat /\ n <= Len(l)
      BY <1>1, <2>1
    <3>2. PICK d : SumsUpTo(l, c, d, n)
      BY <3>1
    <3>3. \E e : SumsUpTo(l, c, e, n + 1)
      BY <1>3, <2>1, <3>1, <3>2
    <3> QED BY <3>1, <3>3
  <2> QED BY <2>1
<1> HIDE DEF S
<1>5. S = Nat
  BY <1>2, <1>4, AllNumbers DEF S
<1>6. PICK d : SumsUpTo(l, c, d, Len(l))
  BY <1>1, <1>5 DEF S
<1> QED BY <1>6 DEF SumsUpTo, Sums

LEMMA SumsUnique ==
    ASSUME NEW l \in Seq(Timer), NEW c, NEW d, NEW e, Sums(l, c, d), Sums(l, c, e)
    PROVE  \A i \in 0 .. Len(l) : d[i] = e[i]
<1> DEFINE S == {n \in Nat : n <= Len(l) => d[n] = e[n]}
<1>1. 0 \in S
  BY DEF Sums
<1>2. ASSUME NEW n \in S PROVE n + 1 \in S
  <2> SUFFICES ASSUME n + 1 <= Len(l) PROVE d[n + 1] = e[n + 1]
    OBVIOUS
  <2>1. n + 1 \in 1 .. Len(l) /\ (n + 1) - 1 = n /\ n <= Len(l)
    OBVIOUS
  <2> QED BY <2>1 DEF Sums
<1> HIDE DEF S
<1>3. S = Nat
  BY <1>1, <1>2, AllNumbers DEF S
<1> QED BY <1>3 DEF S

LEMMA UntilSums ==
    ASSUME NEW l \in Seq(Timer), NEW c \in [Timer -> Block]
    PROVE  /\ \A i \in 0 .. Len(l) : Until(l, c, i) \in Nat
           /\ Until(l, c, 0) = 0
           /\ \A i \in 1 .. Len(l) : Until(l, c, i) = Until(l, c, i - 1) + c[l[i]].tcnt
           /\ \A d : Sums(l, c, d) => \A i \in 0 .. Len(l) : Until(l, c, i) = d[i]
<1> DEFINE Loop(f) == [j \in 0 .. Len(l) |-> IF j = 0 THEN 0 ELSE f[j - 1] + c[l[j]].tcnt]
           w == CHOOSE f : f = Loop(f)
<1>1. PICK d \in [0 .. Len(l) -> Nat] : Sums(l, c, d)
  BY SumsExist
<1>2. d = Loop(d)
  BY <1>1 DEF Sums
<1>3. w = Loop(w)
  BY <1>2
<1>4. \A i : Until(l, c, i) = w[i]
  BY DEF Until
<1> HIDE DEF w
<1>5. Sums(l, c, w)
  BY <1>3 DEF Sums
<1>6. \A i \in 0 .. Len(l) : w[i] = d[i]
  BY <1>1, <1>5, SumsUnique
<1>7. \A e : Sums(l, c, e) => \A i \in 0 .. Len(l) : w[i] = e[i]
  BY <1>5, SumsUnique
<1>8. /\ \A i \in 0 .. Len(l) : w[i] \in Nat
      /\ w[0] = 0
      /\ \A i \in 1 .. Len(l) : w[i] = w[i - 1] + c[l[i]].tcnt
  BY <1>1, <1>5, <1>6 DEF Sums
<1> QED BY <1>4, <1>7, <1>8

\* Nobody is due before one in front of it.
LEMMA UntilRises ==
    ASSUME NEW l \in Seq(Timer), NEW c \in [Timer -> Block]
    PROVE  \A i, j \in 0 .. Len(l) : i <= j => Until(l, c, i) <= Until(l, c, j)
<1> DEFINE U(i) == Until(l, c, i)
<1>1. /\ \A i \in 0 .. Len(l) : U(i) \in Nat
      /\ \A i \in 1 .. Len(l) : U(i) = U(i - 1) + c[l[i]].tcnt
      /\ \A i \in 1 .. Len(l) : c[l[i]].tcnt \in Nat
  BY UntilSums, TimerConstants DEF Block
<1> HIDE DEF U
<1> SUFFICES ASSUME NEW i \in 0 .. Len(l)
             PROVE  \A j \in 0 .. Len(l) : i <= j => U(i) <= U(j)
  BY DEF U
<1> DEFINE S == {n \in Nat : i + n <= Len(l) => U(i) <= U(i + n)}
<1>2. 0 \in S
  BY <1>1
<1>3. ASSUME NEW n \in S PROVE n + 1 \in S
  <2> SUFFICES ASSUME i + (n + 1) <= Len(l) PROVE U(i) <= U(i + (n + 1))
    OBVIOUS
  <2>1. i + n \in 0 .. Len(l) /\ i + (n + 1) \in 1 .. Len(l) /\ (i + (n + 1)) - 1 = i + n
    OBVIOUS
  <2>2. U(i) <= U(i + n) /\ U(i + (n + 1)) = U(i + n) + c[l[i + (n + 1)]].tcnt
    BY <1>1, <2>1
  <2> QED BY <1>1, <2>1, <2>2
<1> HIDE DEF S
<1>4. S = Nat
  BY <1>2, <1>3, AllNumbers DEF S
<1>5. ASSUME NEW j \in 0 .. Len(l), i <= j PROVE U(i) <= U(j)
  <2> DEFINE n == j - i
  <2>1. n \in Nat /\ i + n = j /\ i + n <= Len(l)
    BY <1>5
  <2> HIDE DEF n
  <2>2. U(i) <= U(i + n)
    BY <1>4, <2>1 DEF S
  <2> QED BY <2>1, <2>2
<1> QED BY <1>5
\* Blocks that count the same are due at the same times.
LEMMA UntilSame ==
    ASSUME NEW l \in Seq(Timer), NEW c \in [Timer -> Block], NEW b \in [Timer -> Block],
           \A i \in 1 .. Len(l) : b[l[i]].tcnt = c[l[i]].tcnt
    PROVE  \A i \in 0 .. Len(l) : Until(l, b, i) = Until(l, c, i)
<1> DEFINE d == [i \in 0 .. Len(l) |-> Until(l, c, i)]
<1>1. d[0] = 0 /\ \A i \in 1 .. Len(l) : d[i] = d[i - 1] + c[l[i]].tcnt
  BY UntilSums
<1>2. \A i \in 0 .. Len(l) : d[i] = Until(l, c, i)
  OBVIOUS
<1> HIDE DEF d
<1>3. Sums(l, b, d)
  BY <1>1 DEF Sums
<1> QED BY <1>2, <1>3, UntilSums

\* The walk of rt_timer_insert passes all that are due by then, and no other.
LEMMA PlaceProperties ==
    ASSUME NEW l \in Seq(Timer), NEW c \in [Timer -> Block], NEW n \in Nat
    PROVE  /\ Place(l, c, n) \in 1 .. Len(l) + 1
           /\ Until(l, c, Place(l, c, n) - 1) \in 0 .. n
           /\ \A i \in 1 .. Len(l) : i < Place(l, c, n) => Until(l, c, i) <= n
           /\ \A i \in 1 .. Len(l) : Place(l, c, n) <= i => Until(l, c, i) > n
<1> DEFINE U(i) == Until(l, c, i)
           late == {i \in DOMAIN l : Until(l, c, i) > n}
           p == Place(l, c, n)
<1>1. Len(l) \in Nat /\ DOMAIN l = 1 .. Len(l)
  OBVIOUS
<1>2. /\ p \in 1 .. Len(l) + 1
      /\ \A i \in late : p <= i
      /\ p # Len(l) + 1 => p \in late
  BY StopAtProperties DEF Place
<1>3. /\ \A i \in 0 .. Len(l) : U(i) \in Nat
      /\ U(0) = 0
      /\ \A i, j \in 0 .. Len(l) : i <= j => U(i) <= U(j)
  BY UntilSums, UntilRises
<1>4. \A i \in 1 .. Len(l) : i \in late <=> U(i) > n
  BY <1>1
<1> HIDE DEF U, late, p
<1>5. ASSUME NEW i \in 1 .. Len(l), i < p PROVE U(i) <= n
  BY <1>1, <1>2, <1>3, <1>4, <1>5
<1>6. ASSUME NEW i \in 1 .. Len(l), p <= i PROVE U(i) > n
  <2>1. p \in 1 .. Len(l)
    BY <1>1, <1>2, <1>6
  <2>2. U(p) > n
    BY <1>1, <1>2, <1>4, <2>1
  <2>3. U(p) <= U(i) /\ U(p) \in Nat /\ U(i) \in Nat
    BY <1>1, <1>3, <1>6, <2>1
  <2> QED BY <2>2, <2>3
<1>7. U(p - 1) \in 0 .. n
  <2>1. p - 1 \in 0 .. Len(l) /\ U(p - 1) \in Nat
    BY <1>1, <1>2, <1>3
  <2>2. CASE p - 1 = 0
    BY <1>3, <2>2
  <2>3. CASE p - 1 # 0
    <3>1. p - 1 \in 1 .. Len(l) /\ p - 1 < p
      BY <1>1, <1>2, <2>1, <2>3
    <3> QED BY <1>5, <2>1, <3>1
  <2> QED BY <2>2, <2>3
<1>8. p \in 1 .. Len(l) + 1
  BY <1>2
<1> QED BY <1>5, <1>6, <1>7, <1>8 DEF U, p

(***************************************************************************)
(* A list in order: no timer twice, none further away than 16 bits say.    *)
(***************************************************************************)
Timed(l, c) ==
    /\ l \in Seq(Timer) /\ Distinct(l)
    /\ c \in [Timer -> Block]
    /\ \A i \in 1 .. Len(l) : Until(l, c, i) < TcntMod

\* What a block says besides its count.
SameButCount(b, c) ==
    \A u \in Timer : /\ b[u].state = c[u].state /\ b[u].type = c[u].type
                     /\ b[u].icnt = c[u].icnt

LEMMA InsertTimerList ==
    ASSUME NEW l \in Seq(Timer), NEW t \in Timer, NEW p \in 1 .. Len(l) + 1
    PROVE  InsertAt(l, p, t) \in Seq(Timer)
  BY InsertAtElements

LEMMA InsertTimerElements ==
    ASSUME NEW l \in Seq(Timer), NEW t \in Timer, NEW p \in 1 .. Len(l) + 1,
           NEW r \in Seq(Timer), r = InsertAt(l, p, t)
    PROVE  /\ Len(r) = Len(l) + 1
           /\ \A i \in 1 .. Len(l) + 1 :
                 r[i] = IF i < p THEN l[i] ELSE IF i = p THEN t ELSE l[i - 1]
<1>1. /\ Len(InsertAt(l, p, t)) = Len(l) + 1
      /\ \A i \in 1 .. Len(l) + 1 :
            InsertAt(l, p, t)[i] =
               IF i < p THEN l[i] ELSE IF i = p THEN t ELSE l[i - 1]
  BY ONLY l \in Seq(Timer), t \in Timer, p \in 1 .. Len(l) + 1, InsertAtElements
<1> QED BY ONLY <1>1, r = InsertAt(l, p, t)

\* rt_timer_insert: t is due in n ticks, every other timer when it was.
LEMMA InsertUntil ==
    ASSUME NEW l \in Seq(Timer), NEW c \in [Timer -> Block], Timed(l, c),
           NEW t \in Timer, t \notin ToSet(l), NEW n \in 0 .. TcntMod - 1,
           NEW p \in 1 .. Len(l) + 1, p = Place(l, c, n),
           NEW r \in Seq(Timer), r = InsertAt(l, p, t),
           NEW b, b = CountsWith(l, c, t, n)
    PROVE  /\ Len(r) = Len(l) + 1
           /\ \A i \in 1 .. Len(l) + 1 :
                 r[i] = IF i < p THEN l[i] ELSE IF i = p THEN t ELSE l[i - 1]
           /\ Distinct(r) /\ ToSet(r) = ToSet(l) \cup {t}
           /\ b \in [Timer -> Block] /\ SameButCount(b, c)
           /\ \A u \in Timer : u \notin ToSet(r) => b[u] = c[u]
           /\ \A i \in 0 .. Len(l) + 1 :
                 Until(r, b, i) = IF i < p THEN Until(l, c, i)
                                  ELSE IF i = p THEN n ELSE Until(l, c, i - 1)
<1> DEFINE U(i) == Until(l, c, i)
           own == n - U(p - 1)
           f == [i \in 0 .. Len(l) + 1 |->
                   IF i < p THEN U(i) ELSE IF i = p THEN n ELSE U(i - 1)]
<1>1. /\ l \in Seq(Timer) /\ Distinct(l) /\ c \in [Timer -> Block]
      /\ \A i \in 1 .. Len(l) : U(i) < TcntMod
      /\ Len(l) \in Nat /\ DOMAIN l = 1 .. Len(l) /\ TcntMod \in Nat /\ n \in Nat
      /\ TcntMod \in Nat \ {0}
  BY TimerConstants DEF Timed
<1>2. /\ p \in 1 .. Len(l) + 1
      /\ U(p - 1) \in 0 .. n
      /\ \A i \in 1 .. Len(l) : p <= i => U(i) > n
  BY <1>1, PlaceProperties
<1>3. /\ \A i \in 0 .. Len(l) : U(i) \in Nat
      /\ U(0) = 0
      /\ \A i \in 1 .. Len(l) : U(i) = U(i - 1) + c[l[i]].tcnt
  BY <1>1, UntilSums
<1>4. \A u \in Timer : c[u] \in Block /\ c[u].tcnt \in 0 .. TcntMod - 1
  BY <1>1 DEF Block
<1>5. /\ r \in Seq(Timer) /\ Len(r) = Len(l) + 1
      /\ \A i \in 1 .. Len(l) + 1 :
            r[i] = IF i < p THEN l[i] ELSE IF i = p THEN t ELSE l[i - 1]
  BY InsertTimerElements
<1>6. Distinct(r) /\ ToSet(r) = ToSet(l) \cup {t}
  <2>1. l \in Seq(Timer) /\ t \in Timer /\ p \in 1 .. Len(l) + 1 /\ Distinct(l)
        /\ t \notin ToSet(l)
    BY <1>1, <1>2
  <2>2. Len(r) = Len(l) + 1
    BY <1>5
  <2>3. \A i \in 1 .. Len(l) + 1 :
           r[i] = IF i < p THEN l[i] ELSE IF i = p THEN t ELSE l[i - 1]
    BY <1>5
  <2>4. /\ ToSet(r) = ToSet(l) \cup {t}
        /\ Distinct(l) /\ t \notin ToSet(l) => Distinct(r)
    BY ONLY l \in Seq(Timer), r \in Seq(Timer), t \in Timer, p \in 1 .. Len(l) + 1,
            <2>2, <2>3, SpliceMembers
  <2> QED BY <2>1, <2>4
<1>7. /\ \A i \in 1 .. Len(l) : l[i] \in Timer /\ l[i] # t /\ l[i] \in ToSet(l)
      /\ \A i, j \in 1 .. Len(l) : l[i] = l[j] => i = j
  <2>1. \A i \in 1 .. Len(l) : l[i] \in Timer /\ l[i] \in ToSet(l)
    BY <1>1 DEF ToSet
  <2>2. \A i \in 1 .. Len(l) : l[i] # t
    BY <2>1
  <2>3. \A i, j \in 1 .. Len(l) : l[i] = l[j] => i = j
    BY <1>1 DEF Distinct
  <2> QED BY <2>1, <2>2, <2>3
<1>8. b = [u \in Timer |->
            IF u = t THEN [c[u] EXCEPT !.tcnt = own]
            ELSE IF p <= Len(l) /\ u = l[p] THEN [c[u] EXCEPT !.tcnt = Less(@, own)]
            ELSE c[u]]
  BY DEF CountsWith
<1> HIDE DEF U
<1>9. own \in 0 .. TcntMod - 1
  BY <1>1, <1>2
<1> HIDE DEF own
<1>10. ASSUME p <= Len(l)
       PROVE  Less(c[l[p]].tcnt, own) = U(p) - n /\ U(p) - n \in 0 .. TcntMod - 1
  <2>1. p \in 1 .. Len(l) /\ p - 1 \in 0 .. Len(l) /\ p \in 0 .. Len(l)
    BY <1>1, <1>2, <1>10
  <2>2. U(p) > n /\ U(p) < TcntMod /\ U(p) \in Nat /\ U(p - 1) \in Nat
        /\ U(p) = U(p - 1) + c[l[p]].tcnt /\ c[l[p]].tcnt \in Nat
    BY <1>1, <1>2, <1>3, <1>4, <1>7, <2>1
  <2> DEFINE x == U(p) - n
  <2>3. c[l[p]].tcnt - own = x /\ x \in Nat /\ x < TcntMod
    <3> DEFINE v == U(p)
               w == U(p - 1)
               m == c[l[p]].tcnt
    <3>1. /\ v > n /\ v < TcntMod /\ v \in Nat /\ w \in Nat /\ v = w + m /\ m \in Nat
          /\ own = n - w /\ x = v - n /\ n \in Nat /\ TcntMod \in Nat
      BY <1>1, <2>2 DEF own
    <3> HIDE DEF v, w, m, x
    <3>2. m - own = x /\ x \in Nat /\ x < TcntMod
      BY <3>1
    <3> QED BY <3>2 DEF m
  <2> HIDE DEF x
  <2>4. x % TcntMod = x /\ x \in 0 .. TcntMod - 1
    BY <1>1, <2>3, Modulo
  <2>5. Less(c[l[p]].tcnt, own) = x
    BY <2>3, <2>4 DEF Less
  <2> QED BY <2>4, <2>5 DEF x
<1>11. /\ b[t] = [c[t] EXCEPT !.tcnt = own]
       /\ p <= Len(l) => b[l[p]] = [c[l[p]] EXCEPT !.tcnt = U(p) - n]
       /\ \A u \in Timer : u # t /\ ~(p <= Len(l) /\ u = l[p]) => b[u] = c[u]
  <2>1. p <= Len(l) => l[p] \in Timer /\ l[p] # t
    BY <1>1, <1>2, <1>7
  <2>2. p <= Len(l) => b[l[p]] = [c[l[p]] EXCEPT !.tcnt = Less(@, own)]
    BY <1>8, <2>1
  <2> QED BY <1>8, <1>10, <2>2
<1>12. /\ b[t].tcnt = own
       /\ p <= Len(l) => b[l[p]].tcnt = U(p) - n
       /\ \A u \in Timer : u # t /\ ~(p <= Len(l) /\ u = l[p]) => b[u].tcnt = c[u].tcnt
  <2>1. p <= Len(l) => l[p] \in Timer
    BY <1>1, <1>2, <1>7
  <2> QED BY <1>4, <1>11, <2>1 DEF Block
<1>13. \A u \in Timer : /\ b[u] \in Block
                        /\ b[u].state = c[u].state /\ b[u].type = c[u].type
                        /\ b[u].icnt = c[u].icnt
  <2> TAKE u \in Timer
  <2>1. c[u] \in Block
    BY <1>4
  <2>2. CASE u = t
    BY <1>9, <1>11, <2>1, <2>2 DEF Block
  <2>3. CASE p <= Len(l) /\ u = l[p]
    BY <1>10, <1>11, <2>1, <2>3 DEF Block
  <2>4. CASE u # t /\ ~(p <= Len(l) /\ u = l[p])
    BY <1>11, <2>1, <2>4
  <2> QED BY <2>2, <2>3, <2>4
<1>14. b \in [Timer -> Block] /\ SameButCount(b, c)
  BY <1>8, <1>13 DEF SameButCount
<1>15. \A u \in Timer : u \notin ToSet(r) => b[u] = c[u]
  <2>1. p <= Len(l) => l[p] \in ToSet(r)
    BY <1>1, <1>2, <1>6, <1>7
  <2>2. t \in ToSet(r)
    BY <1>6
  <2> QED BY <1>11, <2>1, <2>2
<1>16. /\ f[0] = 0
       /\ \A i \in 0 .. Len(l) + 1 :
             f[i] = IF i < p THEN U(i) ELSE IF i = p THEN n ELSE U(i - 1)
  BY <1>1, <1>2, <1>3
<1> HIDE DEF f
<1>17. ASSUME NEW i \in 1 .. Len(r) PROVE f[i] = f[i - 1] + b[r[i]].tcnt
  <2>1. /\ i \in 1 .. Len(l) + 1 /\ i \in 0 .. Len(l) + 1 /\ i - 1 \in 0 .. Len(l) + 1
        /\ i \in Int /\ p \in Int
    BY <1>1, <1>2, <1>5
  <2>2. CASE i < p
    <3>1. i \in 1 .. Len(l) /\ i - 1 < p /\ ~(p <= Len(l) /\ i = p)
      BY <1>1, <1>2, <2>1, <2>2
    <3>2. r[i] = l[i] /\ l[i] \in Timer /\ l[i] # t
      BY <1>5, <1>7, <2>1, <2>2, <3>1
    <3>3. ~(p <= Len(l) /\ l[i] = l[p])
      BY <1>1, <1>2, <1>7, <2>2, <3>1
    <3>4. b[r[i]].tcnt = c[l[i]].tcnt
      BY <1>12, <3>2, <3>3
    <3> QED BY <1>3, <1>16, <2>1, <2>2, <3>1, <3>4
  <2>3. CASE i = p
    <3>1. r[i] = t /\ i - 1 < p /\ f[i] = n /\ f[i - 1] = U(p - 1)
      BY <1>5, <1>16, <2>1, <2>3
    <3>2. U(p - 1) \in Int /\ own = n - U(p - 1)
      BY <1>1, <1>2 DEF own
    <3> QED BY <1>1, <1>12, <3>1, <3>2
  <2>4. CASE i = p + 1
    <3>1. p <= Len(l) /\ r[i] = l[p] /\ i - 1 = p /\ ~(i < p) /\ i # p
      BY <1>1, <1>2, <1>5, <2>1, <2>4
    <3>2. f[i] = U(p) /\ f[i - 1] = n
      BY <1>16, <2>1, <2>4, <3>1
    <3>3. U(p) \in Nat /\ b[r[i]].tcnt = U(p) - n
      BY <1>1, <1>2, <1>3, <1>12, <3>1
    <3> QED BY <1>1, <3>2, <3>3
  <2>5. CASE i > p + 1
    <3>1. /\ i - 1 \in 1 .. Len(l) /\ i - 1 # p /\ ~(i < p) /\ i # p
          /\ ~(i - 1 < p) /\ (i - 1) - 1 \in 0 .. Len(l)
      BY <1>1, <1>2, <2>1, <2>5
    <3>2. r[i] = l[i - 1] /\ l[i - 1] \in Timer /\ l[i - 1] # t
      BY <1>5, <1>7, <2>1, <3>1
    <3>3. ~(p <= Len(l) /\ l[i - 1] = l[p])
      BY <1>1, <1>2, <1>7, <3>1
    <3>4. b[r[i]].tcnt = c[l[i - 1]].tcnt
      BY <1>12, <3>2, <3>3
    <3>5. f[i] = U(i - 1) /\ f[i - 1] = U((i - 1) - 1)
      BY <1>16, <2>1, <3>1
    <3> QED BY <1>3, <3>1, <3>4, <3>5
  <2> QED BY <2>1, <2>2, <2>3, <2>4, <2>5
<1>18. Sums(r, b, f)
  BY <1>16, <1>17 DEF Sums
<1>19. \A i \in 0 .. Len(r) : Until(r, b, i) = f[i]
  BY <1>5, <1>14, <1>18, UntilSums
<1>20. \A i \in 0 .. Len(l) + 1 :
          Until(r, b, i) = IF i < p THEN Until(l, c, i)
                           ELSE IF i = p THEN n ELSE Until(l, c, i - 1)
  BY <1>5, <1>16, <1>19 DEF U
<1> QED BY <1>2, <1>5, <1>6, <1>14, <1>15, <1>20
\* The ticks that timer u has left, 0 if it does not run.
LeftIn(l, c, u) ==
    IF u \in ToSet(l) THEN Until(l, c, CHOOSE i \in DOMAIN l : l[i] = u) ELSE 0

LEMMA LeftAt ==
    ASSUME NEW l \in Seq(Timer), NEW c, Distinct(l)
    PROVE  /\ \A i \in 1 .. Len(l) : /\ l[i] \in Timer /\ l[i] \in ToSet(l)
                                     /\ LeftIn(l, c, l[i]) = Until(l, c, i)
           /\ \A u \in ToSet(l) : u \in Timer /\ \E i \in 1 .. Len(l) : u = l[i]
           /\ \A u : u \notin ToSet(l) => LeftIn(l, c, u) = 0
<1>1. DOMAIN l = 1 .. Len(l) /\ Len(l) \in Nat
  OBVIOUS
<1>2. \A u \in ToSet(l) : u \in Timer /\ \E i \in 1 .. Len(l) : u = l[i]
  BY <1>1 DEF ToSet
<1>3. \A u : u \notin ToSet(l) => LeftIn(l, c, u) = 0
  BY DEF LeftIn
<1>4. ASSUME NEW i \in 1 .. Len(l)
      PROVE  l[i] \in Timer /\ l[i] \in ToSet(l) /\ LeftIn(l, c, l[i]) = Until(l, c, i)
  <2>1. l[i] \in Timer /\ l[i] \in ToSet(l)
    BY <1>1 DEF ToSet
  <2>2. \A j \in DOMAIN l : l[j] = l[i] <=> j = i
    BY <1>1 DEF Distinct
  <2>3. (CHOOSE j \in DOMAIN l : l[j] = l[i]) = i
    BY <1>1, <2>2
  <2> QED BY <2>1, <2>3 DEF LeftIn
<1> QED BY <1>2, <1>3, <1>4

\* The first timer counts from now, and no other is due before it.
LEMMA FirstLeft ==
    ASSUME NEW l, NEW c, Timed(l, c), l # <<>>
    PROVE  /\ Head(l) \in Timer /\ Head(l) \in ToSet(l) /\ Head(l) = l[1]
           /\ c[Head(l)].tcnt = LeftIn(l, c, Head(l))
           /\ c[Head(l)].tcnt = Until(l, c, 1)
           /\ \A u \in ToSet(l) : LeftIn(l, c, u) \in Nat /\ c[Head(l)].tcnt <= LeftIn(l, c, u)
<1>1. l \in Seq(Timer) /\ Distinct(l) /\ c \in [Timer -> Block]
  BY DEF Timed
<1>2. Len(l) \in Nat /\ 1 \in 1 .. Len(l) /\ Head(l) = l[1] /\ l[1] \in Timer
  BY <1>1
<1>3. c[l[1]].tcnt \in Nat
  BY <1>1, <1>2, TimerConstants DEF Block
<1>4. Until(l, c, 0) = 0 /\ Until(l, c, 1) = Until(l, c, 1 - 1) + c[l[1]].tcnt
  BY <1>1, <1>2, UntilSums
<1>5. Until(l, c, 1) = c[l[1]].tcnt
  BY <1>3, <1>4
<1>6. /\ \A i \in 1 .. Len(l) : LeftIn(l, c, l[i]) = Until(l, c, i)
      /\ \A u \in ToSet(l) : \E i \in 1 .. Len(l) : u = l[i]
      /\ l[1] \in ToSet(l)
  BY <1>1, <1>2, LeftAt
<1>7. \A i \in 1 .. Len(l) : Until(l, c, 1) <= Until(l, c, i) /\ Until(l, c, i) \in Nat
  <2>1. \A i \in 1 .. Len(l) : i \in 0 .. Len(l) /\ 1 \in 0 .. Len(l) /\ 1 <= i
    BY <1>2
  <2> QED BY <1>1, <2>1, UntilRises, UntilSums
<1>8. \A u \in ToSet(l) : LeftIn(l, c, u) \in Nat /\ c[l[1]].tcnt <= LeftIn(l, c, u)
  BY <1>5, <1>6, <1>7
<1> QED BY <1>2, <1>5, <1>6, <1>8

(***************************************************************************)
(* rt_timer_insert is right: t is chained, due in n ticks, and no other    *)
(* timer is due earlier or later than before.                              *)
(***************************************************************************)
LEMMA InsertCorrect ==
    ASSUME NEW l \in Seq(Timer), NEW c \in [Timer -> Block], Timed(l, c),
           NEW t \in Timer, t \notin ToSet(l),
           NEW n \in 0 .. TcntMod - 1,
           NEW r, r = InsertAt(l, Place(l, c, n), t), NEW b, b = CountsWith(l, c, t, n)
    PROVE  /\ Timed(r, b) /\ ToSet(r) = ToSet(l) \cup {t} /\ r # <<>>
           /\ SameButCount(b, c)
           /\ \A u \in Timer : u \notin ToSet(r) => b[u] = c[u]
           /\ \A u \in Timer :
                 LeftIn(r, b, u) = IF u = t THEN n ELSE LeftIn(l, c, u)
           /\ IF l = <<>> THEN Head(r) = t
              ELSE Head(r) = Head(l) \/ (Head(r) = t /\ b[Head(l)].tcnt > 0)
<1> DEFINE p == Place(l, c, n)
           V(i) == Until(r, b, i)
           U(i) == Until(l, c, i)
<1>1. l \in Seq(Timer) /\ Distinct(l) /\ c \in [Timer -> Block]
      /\ \A i \in 1 .. Len(l) : U(i) < TcntMod
  BY DEF Timed
<1>2. n \in Nat /\ TcntMod \in Nat /\ Len(l) \in Nat
  BY <1>1, TimerConstants
<1>3. p \in 1 .. Len(l) + 1 /\ \A i \in 1 .. Len(l) : p <= i => U(i) > n
  BY <1>1, <1>2, PlaceProperties
<1>4. r = InsertAt(l, p, t) /\ p = Place(l, c, n)
  OBVIOUS
<1> HIDE DEF p
<1>5. r \in Seq(Timer)
  BY <1>3, <1>4, InsertTimerList
<1>6. /\ Len(r) = Len(l) + 1
      /\ \A i \in 1 .. Len(l) + 1 :
            r[i] = IF i < p THEN l[i] ELSE IF i = p THEN t ELSE l[i - 1]
      /\ Distinct(r) /\ ToSet(r) = ToSet(l) \cup {t}
      /\ b \in [Timer -> Block] /\ SameButCount(b, c)
      /\ \A u \in Timer : u \notin ToSet(r) => b[u] = c[u]
      /\ \A i \in 0 .. Len(l) + 1 :
            V(i) = IF i < p THEN U(i) ELSE IF i = p THEN n ELSE U(i - 1)
  BY <1>1, <1>3, <1>4, <1>5, InsertUntil
<1>7. \A i \in 0 .. Len(l) : U(i) \in Nat
  BY <1>1, UntilSums
<1>8. /\ \A i \in 1 .. Len(l) : l[i] \in Timer /\ LeftIn(l, c, l[i]) = U(i)
      /\ \A u \in ToSet(l) : \E i \in 1 .. Len(l) : u = l[i]
      /\ \A u : u \notin ToSet(l) => LeftIn(l, c, u) = 0
  BY <1>1, LeftAt
<1>9. /\ \A i \in 1 .. Len(r) : LeftIn(r, b, r[i]) = V(i)
      /\ \A u \in ToSet(r) : \E i \in 1 .. Len(r) : u = r[i]
      /\ \A u : u \notin ToSet(r) => LeftIn(r, b, u) = 0
  <2>1. Distinct(r) /\ \A i \in 1 .. Len(r) : V(i) = Until(r, b, i)
    BY <1>6
  <2> HIDE DEF V
  <2>2. r \in Seq(Timer)
    BY <1>5
  <2>3. /\ \A i \in 1 .. Len(r) : LeftIn(r, b, r[i]) = Until(r, b, i)
        /\ \A u \in ToSet(r) : u \in Timer /\ \E i \in 1 .. Len(r) : u = r[i]
        /\ \A u : u \notin ToSet(r) => LeftIn(r, b, u) = 0
    BY ONLY <2>1, r \in Seq(Timer), <2>2, LeftAt
  <2> QED BY <2>1, <2>3
<1>10. ASSUME l # <<>>
       PROVE  /\ 1 \in 1 .. Len(l) /\ Head(l) = l[1]
              /\ p = 1 => b[Head(l)].tcnt > 0
  <2>1. 1 \in 1 .. Len(l) /\ Head(l) = l[1] /\ l[1] \in Timer
    BY <1>1, <1>10
  <2>2. ASSUME p = 1 PROVE b[l[1]].tcnt > 0
    <3>1. 2 \in 1 .. Len(r) /\ 2 \in 0 .. Len(l) + 1 /\ 1 \in 0 .. Len(l) + 1 /\ 1 \in 0 .. Len(l)
      BY <1>2, <1>6, <2>1
    <3>2. r[2] = l[1] /\ V(2) = U(1) /\ V(1) = n
      BY <1>6, <2>2, <3>1
    <3>3. V(2) = V(2 - 1) + b[r[2]].tcnt
      BY <1>5, <1>6, <3>1, UntilSums
    <3>4. U(1) > n /\ U(1) \in Nat
      BY <1>3, <1>7, <2>1, <2>2, <3>1
    <3>5. b[l[1]].tcnt \in Nat
      <4>1. b[l[1]] \in Block
        BY <1>6, <2>1
      <4> QED BY <4>1, TimerConstants DEF Block
    <3> HIDE DEF U, V
    <3>6. V(2 - 1) = n
      BY <3>2
    <3> QED BY <1>2, <3>2, <3>3, <3>4, <3>5, <3>6
  <2> QED BY <2>1, <2>2
<1> HIDE DEF U, V
<1>11. \A i \in 1 .. Len(r) : V(i) < TcntMod
  <2> SUFFICES ASSUME NEW i \in 1 .. Len(r) PROVE V(i) < TcntMod
    OBVIOUS
  <2>1. i \in 0 .. Len(l) + 1 /\ i \in Int /\ p \in Int
    BY <1>2, <1>3, <1>6
  <2>2. CASE i < p
    <3>1. i \in 1 .. Len(l)
      BY <1>2, <1>3, <1>6, <2>2
    <3> QED BY <1>1, <1>6, <2>1, <2>2, <3>1
  <2>3. CASE i = p
    BY <1>2, <1>6, <2>1, <2>3
  <2>4. CASE i > p
    <3>1. i - 1 \in 1 .. Len(l) /\ ~(i < p) /\ i # p
      BY <1>2, <1>3, <1>6, <2>4
    <3> QED BY <1>1, <1>6, <2>1, <3>1
  <2> QED BY <2>1, <2>2, <2>3, <2>4
<1>12. Timed(r, b)
  BY <1>5, <1>6, <1>11 DEF Timed, V
<1>13. ASSUME NEW u \in Timer
       PROVE  LeftIn(r, b, u) = IF u = t THEN n ELSE LeftIn(l, c, u)
  <2>1. CASE u \in ToSet(r)
    <3>1. PICK i \in 1 .. Len(r) : u = r[i]
      BY <1>9, <2>1
    <3>2. LeftIn(r, b, u) = V(i)
      BY <1>9, <3>1
    <3>3. i \in 0 .. Len(l) + 1 /\ i \in 1 .. Len(l) + 1 /\ i \in Int /\ p \in Int
      BY <1>2, <1>3, <1>6
    <3>4. CASE i < p
      <4>1. i \in 1 .. Len(l)
        BY <1>2, <1>3, <1>6, <3>4
      <4>2. u = l[i] /\ V(i) = U(i)
        BY <1>6, <3>1, <3>3, <3>4
      <4>3. l[i] \in ToSet(l)
        BY <1>1, <4>1 DEF ToSet
      <4> QED BY <1>8, <3>2, <4>1, <4>2, <4>3
    <3>5. CASE i = p
      BY <1>6, <3>1, <3>2, <3>3, <3>5
    <3>6. CASE i > p
      <4>1. i - 1 \in 1 .. Len(l) /\ ~(i < p) /\ i # p
        BY <1>2, <1>3, <1>6, <3>6
      <4>2. u = l[i - 1] /\ V(i) = U(i - 1)
        BY <1>6, <3>1, <3>3, <4>1
      <4>3. l[i - 1] \in ToSet(l)
        BY <1>1, <4>1 DEF ToSet
      <4> QED BY <1>8, <3>2, <4>1, <4>2, <4>3
    <3> QED BY <3>3, <3>4, <3>5, <3>6
  <2>2. CASE u \notin ToSet(r)
    BY <1>6, <1>8, <1>9, <2>2
  <2> QED BY <2>1, <2>2
<1>14. 1 \in 1 .. Len(l) + 1 /\ r # <<>> /\ Head(r) = r[1]
  BY <1>2, <1>5, <1>6
<1>15. CASE p = 1
  <2>1. Head(r) = t
    BY <1>6, <1>14, <1>15
  <2> QED BY <1>6, <1>10, <1>12, <1>13, <1>14, <1>15, <2>1
<1>16. CASE p # 1
  <2>1. 1 < p /\ l # <<>>
    BY <1>1, <1>2, <1>3, <1>16
  <2>2. Head(r) = Head(l)
    BY <1>6, <1>10, <1>14, <2>1
  <2> QED BY <1>6, <1>12, <1>13, <1>14, <2>1, <2>2
<1> QED BY <1>15, <1>16
\* Where a chained timer is, and what the list without it has in each place.
LEMMA Removed ==
    ASSUME list \in Seq(Timer), Distinct(list), NEW t \in Timer, Chained(t)
    PROVE  /\ PlaceOf(t) \in 1 .. Len(list) /\ list[PlaceOf(t)] = t
           /\ Unlink(list, t) \in Seq(Timer) /\ Len(Unlink(list, t)) = Len(list) - 1
           /\ \A i \in 1 .. Len(list) - 1 :
                 Unlink(list, t)[i] = IF i < PlaceOf(t) THEN list[i] ELSE list[i + 1]
<1> DEFINE k == PlaceOf(t)
<1>1. DOMAIN list = 1 .. Len(list) /\ Len(list) \in Nat
  OBVIOUS
<1>2. \E i \in DOMAIN list : list[i] = t
  BY DEF Chained, ToSet
<1>3. k \in DOMAIN list /\ list[k] = t
  BY <1>2 DEF PlaceOf
<1>4. PositionsOf(list, t) = {k}
  BY <1>1, <1>3 DEF PositionsOf, Distinct
<1> HIDE DEF k
<1>5. {k} \in SUBSET Nat /\ {k} # {}
  BY <1>1, <1>3
<1>6. Min({k}) = k
  <2> DEFINE S == {k}
  <2>1. S \in SUBSET Nat /\ S # {} /\ \A x \in S : x = k
    BY <1>5
  <2> HIDE DEF S
  <2>2. Min(S) \in S
    BY <2>1, MinProperties
  <2> QED BY <2>1, <2>2 DEF S
<1>7. Unlink(list, t) = RemoveAt(list, k)
  BY <1>4, <1>5, <1>6 DEF Unlink
<1>8. k \in 1 .. Len(list)
  BY <1>1, <1>3
<1>9. ASSUME k \in 1 .. Len(list)
      PROVE  /\ RemoveAt(list, k) \in Seq(Timer)
             /\ Len(RemoveAt(list, k)) = Len(list) - 1
             /\ \A i \in 1 .. Len(list) - 1 :
                   RemoveAt(list, k)[i] = IF i < k THEN list[i] ELSE list[i + 1]
  BY <1>9, RemoveAtElements
<1>10. /\ Unlink(list, t) \in Seq(Timer) /\ Len(Unlink(list, t)) = Len(list) - 1
       /\ \A i \in 1 .. Len(list) - 1 :
             Unlink(list, t)[i] = IF i < k THEN list[i] ELSE list[i + 1]
  BY <1>7, <1>8, <1>9
<1> QED BY <1>3, <1>8, <1>10 DEF k

(***************************************************************************)
(* rt_timer_remove is right: t is no longer chained, and no other timer is *)
(* due earlier or later than before.                                       *)
(***************************************************************************)
LEMMA RemoveCorrect ==
    ASSUME Timed(list, cb), NEW t \in Timer, Chained(t),
           NEW r, r = Unlink(list, t), NEW b, b = CountsWithout(t)
    PROVE  /\ Timed(r, b) /\ ToSet(r) = ToSet(list) \ {t}
           /\ SameButCount(b, cb) /\ b[t].tcnt = 0
           /\ \A u \in Timer : u \notin ToSet(list) => b[u] = cb[u]
           /\ \A u \in Timer :
                 LeftIn(r, b, u) = IF u = t THEN 0 ELSE LeftIn(list, cb, u)
<1> DEFINE k == PlaceOf(t)
           U(i) == Until(list, cb, i)
           V(i) == Until(r, b, i)
           f == [i \in 0 .. Len(list) - 1 |-> IF i < k THEN U(i) ELSE U(i + 1)]
<1>1. list \in Seq(Timer) /\ Distinct(list) /\ cb \in [Timer -> Block]
      /\ \A i \in 1 .. Len(list) : U(i) < TcntMod
  BY DEF Timed
<1>2. TcntMod \in Nat \ {0} /\ Len(list) \in Nat /\ DOMAIN list = 1 .. Len(list)
  BY <1>1, TimerConstants
<1>3. /\ k \in 1 .. Len(list) /\ list[k] = t
      /\ r \in Seq(Timer) /\ Len(r) = Len(list) - 1
      /\ \A i \in 1 .. Len(list) - 1 : r[i] = IF i < k THEN list[i] ELSE list[i + 1]
  BY <1>1, Removed
<1>4. ToSet(r) = ToSet(list) \ {t} /\ Distinct(r)
  BY <1>1, UnlinkCorrect
<1>5. /\ \A i \in 0 .. Len(list) : U(i) \in Nat
      /\ U(0) = 0
      /\ \A i \in 1 .. Len(list) : U(i) = U(i - 1) + cb[list[i]].tcnt
  BY <1>1, UntilSums
<1>6. \A u \in Timer : cb[u] \in Block /\ cb[u].tcnt \in 0 .. TcntMod - 1
  BY <1>1 DEF Block
<1>7. \A i \in 1 .. Len(list) : list[i] \in Timer /\ list[i] \in ToSet(list)
  BY <1>1, <1>2 DEF ToSet
<1>8. \A i, j \in 1 .. Len(list) : list[i] = list[j] => i = j
  BY <1>1, <1>2 DEF Distinct
<1>9. b = [u \in Timer |->
            IF u = t THEN [cb[u] EXCEPT !.tcnt = 0]
            ELSE IF k < Len(list) /\ u = list[k + 1]
            THEN [cb[u] EXCEPT !.tcnt = (@ + cb[t].tcnt) % TcntMod]
            ELSE cb[u]]
  BY DEF CountsWithout
<1> HIDE DEF U, k
<1> DEFINE both == U(k + 1) - U(k - 1)
<1>10. ASSUME k < Len(list)
       PROVE  /\ k + 1 \in 1 .. Len(list) /\ list[k + 1] \in Timer /\ list[k + 1] # t
              /\ (cb[list[k + 1]].tcnt + cb[t].tcnt) % TcntMod = both
              /\ both \in 0 .. TcntMod - 1
  <2>1. /\ k + 1 \in 1 .. Len(list) /\ k \in 1 .. Len(list) /\ k - 1 \in 0 .. Len(list)
        /\ k + 1 \in 0 .. Len(list) /\ k \in 0 .. Len(list) /\ (k + 1) - 1 = k /\ k + 1 # k
    BY <1>2, <1>3, <1>10
  <2>2. list[k + 1] \in Timer /\ list[k + 1] # t
    BY <1>3, <1>7, <1>8, <2>1
  <2>3. /\ U(k + 1) = U(k) + cb[list[k + 1]].tcnt /\ U(k) = U(k - 1) + cb[t].tcnt
        /\ U(k + 1) \in Nat /\ U(k) \in Nat /\ U(k - 1) \in Nat /\ U(k + 1) < TcntMod
        /\ cb[list[k + 1]].tcnt \in Nat /\ cb[t].tcnt \in Nat
    BY <1>1, <1>3, <1>5, <1>6, <2>1, <2>2
  <2>4. cb[list[k + 1]].tcnt + cb[t].tcnt = both /\ both \in Nat /\ both < TcntMod
    <3> DEFINE x == U(k + 1)
               y == U(k)
               z == U(k - 1)
               m == cb[list[k + 1]].tcnt
               n == cb[t].tcnt
    <3>1. x = y + m /\ y = z + n /\ x \in Nat /\ y \in Nat /\ z \in Nat /\ m \in Nat
          /\ n \in Nat /\ x < TcntMod /\ both = x - z
      BY <2>3
    <3> HIDE DEF x, y, z, m, n, both
    <3>2. m + n = both /\ both \in Nat /\ both < TcntMod
      BY <1>2, <3>1
    <3> QED BY <3>2 DEF m, n
  <2> HIDE DEF both
  <2>5. both % TcntMod = both /\ both \in 0 .. TcntMod - 1
    BY <1>2, <2>4, Modulo
  <2> QED BY <2>1, <2>2, <2>4, <2>5
<1>11. both = U(k + 1) - U(k - 1)
  OBVIOUS
<1> HIDE DEF both
<1>12. /\ b[t] = [cb[t] EXCEPT !.tcnt = 0]
       /\ k < Len(list) => b[list[k + 1]] = [cb[list[k + 1]] EXCEPT !.tcnt = both]
       /\ \A u \in Timer : u # t /\ ~(k < Len(list) /\ u = list[k + 1]) => b[u] = cb[u]
  BY <1>9, <1>10
<1>13. /\ b[t].tcnt = 0
       /\ k < Len(list) => b[list[k + 1]].tcnt = both
       /\ \A u \in Timer : u # t /\ ~(k < Len(list) /\ u = list[k + 1])
                           => b[u].tcnt = cb[u].tcnt
  BY <1>6, <1>10, <1>12 DEF Block
<1>14. \A u \in Timer : /\ b[u] \in Block
                        /\ b[u].state = cb[u].state /\ b[u].type = cb[u].type
                        /\ b[u].icnt = cb[u].icnt
  <2> TAKE u \in Timer
  <2>1. cb[u] \in Block /\ 0 \in 0 .. TcntMod - 1
    BY <1>2, <1>6
  <2>2. CASE u = t
    BY <1>12, <2>1, <2>2 DEF Block
  <2>3. CASE k < Len(list) /\ u = list[k + 1]
    BY <1>10, <1>12, <2>1, <2>3 DEF Block
  <2>4. CASE u # t /\ ~(k < Len(list) /\ u = list[k + 1])
    BY <1>12, <2>1, <2>4
  <2> QED BY <2>2, <2>3, <2>4
<1>15. b \in [Timer -> Block] /\ SameButCount(b, cb)
  BY <1>9, <1>14 DEF SameButCount
<1>16. \A u \in Timer : u \notin ToSet(list) => b[u] = cb[u]
  BY <1>3, <1>7, <1>10, <1>12
<1>17. /\ f[0] = 0
       /\ \A i \in 0 .. Len(list) - 1 : f[i] = IF i < k THEN U(i) ELSE U(i + 1)
  BY <1>2, <1>3, <1>5
<1> HIDE DEF f
<1>18. ASSUME NEW i \in 1 .. Len(r) PROVE f[i] = f[i - 1] + b[r[i]].tcnt
  <2>1. /\ i \in 1 .. Len(list) - 1 /\ i \in 0 .. Len(list) - 1 /\ i - 1 \in 0 .. Len(list) - 1
        /\ i \in 1 .. Len(list) /\ i + 1 \in 1 .. Len(list) /\ i \in Int /\ k \in Int
    BY <1>2, <1>3
  <2>2. CASE i < k
    <3>1. r[i] = list[i] /\ list[i] \in Timer /\ list[i] # t /\ i # k + 1 /\ i - 1 < k
      BY <1>3, <1>7, <1>8, <2>1, <2>2
    <3>2. ~(k < Len(list) /\ list[i] = list[k + 1])
      BY <1>8, <1>10, <2>1, <3>1
    <3>3. b[r[i]].tcnt = cb[list[i]].tcnt
      BY <1>13, <3>1, <3>2
    <3> QED BY <1>5, <1>17, <2>1, <2>2, <3>1, <3>3
  <2>3. CASE i = k
    <3>1. k < Len(list) /\ r[i] = list[k + 1] /\ i - 1 < k
      BY <1>2, <1>3, <2>1, <2>3
    <3>2. b[r[i]].tcnt = both
      BY <1>13, <3>1
    <3>3. f[i] = U(k + 1) /\ f[i - 1] = U(k - 1)
      BY <1>17, <2>1, <2>3, <3>1
    <3>4. U(k + 1) \in Nat /\ U(k - 1) \in Nat
      <4>1. k + 1 \in 0 .. Len(list) /\ k - 1 \in 0 .. Len(list)
        BY <1>2, <1>3, <3>1
      <4> QED BY <1>5, <4>1
    <3> QED BY <1>11, <3>2, <3>3, <3>4
  <2>4. CASE i > k
    <3>1. /\ i + 1 # k /\ i + 1 # k + 1
          /\ ~(i < k) /\ ~(i - 1 < k) /\ (i - 1) + 1 = i /\ (i + 1) - 1 = i
      BY <2>1, <2>4
    <3>2. r[i] = list[i + 1] /\ list[i + 1] \in Timer
      BY <1>3, <1>7, <2>1, <3>1
    <3>3. list[i + 1] # t /\ ~(k < Len(list) /\ list[i + 1] = list[k + 1])
      BY <1>3, <1>8, <1>10, <2>1, <3>1
    <3>4. b[r[i]].tcnt = cb[list[i + 1]].tcnt
      BY <1>13, <3>2, <3>3
    <3> QED BY <1>5, <1>17, <2>1, <3>1, <3>4
  <2> QED BY <2>1, <2>2, <2>3, <2>4
<1>19. Sums(r, b, f)
  BY <1>17, <1>18 DEF Sums
<1>20. \A i \in 0 .. Len(list) - 1 : V(i) = IF i < k THEN U(i) ELSE U(i + 1)
  <2>1. \A i \in 0 .. Len(r) : Until(r, b, i) = f[i]
    BY <1>3, <1>15, <1>19, UntilSums
  <2> QED BY <1>3, <1>17, <2>1
<1>21. \A i \in 1 .. Len(r) : V(i) < TcntMod
  <2> SUFFICES ASSUME NEW i \in 1 .. Len(r) PROVE V(i) < TcntMod
    OBVIOUS
  <2>1. i \in 0 .. Len(list) - 1 /\ i \in 1 .. Len(list) /\ i + 1 \in 1 .. Len(list)
    BY <1>2, <1>3
  <2> QED BY <1>1, <1>20, <2>1
<1>22. Timed(r, b)
  BY <1>3, <1>4, <1>15, <1>21 DEF Timed, V
<1>23. /\ \A i \in 1 .. Len(list) : LeftIn(list, cb, list[i]) = U(i)
       /\ \A u \in ToSet(list) : \E i \in 1 .. Len(list) : u = list[i]
       /\ \A u : u \notin ToSet(list) => LeftIn(list, cb, u) = 0
  BY <1>1, LeftAt DEF U
<1> HIDE DEF V
<1>24. /\ \A i \in 1 .. Len(r) : LeftIn(r, b, r[i]) = V(i)
       /\ \A u \in ToSet(r) : \E i \in 1 .. Len(r) : u = r[i]
       /\ \A u : u \notin ToSet(r) => LeftIn(r, b, u) = 0
  <2>1. r \in Seq(Timer)
    BY <1>3
  <2>2. /\ \A i \in 1 .. Len(r) : LeftIn(r, b, r[i]) = Until(r, b, i)
        /\ \A u \in ToSet(r) : u \in Timer /\ \E i \in 1 .. Len(r) : u = r[i]
        /\ \A u : u \notin ToSet(r) => LeftIn(r, b, u) = 0
    BY ONLY r \in Seq(Timer), <2>1, <1>4, LeftAt
  <2> QED BY <2>2 DEF V
<1>25. ASSUME NEW u \in Timer
       PROVE  LeftIn(r, b, u) = IF u = t THEN 0 ELSE LeftIn(list, cb, u)
  <2>1. CASE u \in ToSet(r)
    <3>1. PICK i \in 1 .. Len(r) : u = r[i]
      BY <1>24, <2>1
    <3>2. /\ i \in 0 .. Len(list) - 1 /\ i \in 1 .. Len(list) - 1 /\ i \in 1 .. Len(list)
          /\ i + 1 \in 1 .. Len(list) /\ u # t
      BY <1>2, <1>3, <1>4, <2>1
    <3> QED BY <1>3, <1>20, <1>23, <1>24, <3>1, <3>2
  <2>2. CASE u \notin ToSet(r)
    BY <1>4, <1>23, <1>24, <2>2
  <2> QED BY <2>1, <2>2
<1> QED BY <1>4, <1>13, <1>15, <1>16, <1>22, <1>25
-----------------------------------------------------------------------------
\* What the handlers write into the blocks besides counts moves no timer.
LEMMA LeftSame ==
    ASSUME NEW l, NEW c, Timed(l, c), NEW b \in [Timer -> Block],
           \A u \in ToSet(l) : b[u].tcnt = c[u].tcnt
    PROVE  Timed(l, b) /\ \A u : LeftIn(l, b, u) = LeftIn(l, c, u)
<1>1. l \in Seq(Timer) /\ Distinct(l) /\ c \in [Timer -> Block]
      /\ \A i \in 1 .. Len(l) : Until(l, c, i) < TcntMod
  BY DEF Timed
<1>2. DOMAIN l = 1 .. Len(l) /\ Len(l) \in Nat
  BY <1>1
<1>3. \A i \in 1 .. Len(l) : b[l[i]].tcnt = c[l[i]].tcnt
  BY <1>2 DEF ToSet
<1>4. \A i \in 0 .. Len(l) : Until(l, b, i) = Until(l, c, i)
  BY <1>1, <1>3, UntilSame
<1>5. \A i \in 1 .. Len(l) : Until(l, b, i) = Until(l, c, i)
  BY <1>2, <1>4
<1>6. Timed(l, b)
  BY <1>1, <1>5 DEF Timed
<1>7. ASSUME NEW u PROVE LeftIn(l, b, u) = LeftIn(l, c, u)
  <2>1. CASE u \in ToSet(l)
    <3>1. (CHOOSE i \in DOMAIN l : l[i] = u) \in DOMAIN l
      BY <2>1 DEF ToSet
    <3> QED BY <1>2, <1>5, <2>1, <3>1 DEF LeftIn
  <2>2. CASE u \notin ToSet(l)
    BY <2>2 DEF LeftIn
  <2> QED BY <2>1, <2>2
<1> QED BY <1>6, <1>7

\* A tick, which only the first timer counts, brings every timer one nearer.
LEMMA TickCorrect ==
    ASSUME NEW l \in Seq(Timer), NEW c \in [Timer -> Block], Timed(l, c),
           l # <<>>, c[Head(l)].tcnt > 0,
           NEW b, b = [c EXCEPT ![Head(l)].tcnt = Less(@, 1)]
    PROVE  /\ Timed(l, b) /\ SameButCount(b, c)
           /\ \A u \in Timer : u # Head(l) => b[u] = c[u]
           /\ \A u \in ToSet(l) : LeftIn(l, c, u) \in Nat /\ LeftIn(l, c, u) > 0
           /\ \A u \in ToSet(l) : LeftIn(l, b, u) = LeftIn(l, c, u) - 1
<1> DEFINE h == Head(l)
           x == c[h].tcnt
           U(i) == Until(l, c, i)
           f == [i \in 0 .. Len(l) |-> IF i = 0 THEN 0 ELSE U(i) - 1]
<1>1. Distinct(l) /\ \A i \in 1 .. Len(l) : U(i) < TcntMod
  BY DEF Timed
<1>2. /\ h \in Timer /\ h = l[1]
      /\ x = U(1)
      /\ \A u \in ToSet(l) : LeftIn(l, c, u) \in Nat /\ x <= LeftIn(l, c, u)
  BY FirstLeft
<1>3. /\ TcntMod \in Nat \ {0} /\ Len(l) \in Nat /\ 1 \in 1 .. Len(l)
      /\ DOMAIN l = 1 .. Len(l)
  BY TimerConstants
<1>4. c[h] \in Block /\ x \in 0 .. TcntMod - 1 /\ x > 0
  BY <1>2 DEF Block
<1> DEFINE y == x - 1
<1>5. Less(x, 1) = y /\ y \in 0 .. TcntMod - 1
  <2>1. y \in Nat /\ y < TcntMod /\ y \in 0 .. TcntMod - 1 /\ y = x - 1
    BY <1>3, <1>4
  <2> HIDE DEF y, x
  <2>2. y % TcntMod = y
    BY <1>3, <2>1, Modulo
  <2> QED BY <2>1, <2>2 DEF Less
<1>6. b = [c EXCEPT ![h] = [c[h] EXCEPT !.tcnt = y]]
  BY <1>2, <1>5
<1> HIDE DEF h
<1>7. b[h] = [c[h] EXCEPT !.tcnt = y] /\ \A u \in Timer : u # h => b[u] = c[u]
  BY <1>2, <1>6
<1>8. b[h].tcnt = y
  BY <1>4, <1>7 DEF Block
<1>9. \A u \in Timer : /\ b[u] \in Block
                       /\ b[u].state = c[u].state /\ b[u].type = c[u].type
                       /\ b[u].icnt = c[u].icnt
  <2> TAKE u \in Timer
  <2>1. c[u] \in Block
    OBVIOUS
  <2>2. CASE u = h
    BY <1>5, <1>7, <2>1, <2>2 DEF Block
  <2>3. CASE u # h
    BY <1>7, <2>1, <2>3
  <2> QED BY <2>2, <2>3
<1>10. b \in [Timer -> Block] /\ SameButCount(b, c)
  BY <1>6, <1>9 DEF SameButCount
<1>11. /\ \A i \in 0 .. Len(l) : U(i) \in Nat
       /\ U(0) = 0
       /\ \A i \in 1 .. Len(l) : U(i) = U(i - 1) + c[l[i]].tcnt
  BY UntilSums
<1>12. f[0] = 0 /\ \A i \in 0 .. Len(l) : f[i] = IF i = 0 THEN 0 ELSE U(i) - 1
  BY <1>3
<1> HIDE DEF U, f
<1>13. ASSUME NEW i \in 1 .. Len(l) PROVE f[i] = f[i - 1] + b[l[i]].tcnt
  <2>1. i \in 0 .. Len(l) /\ i - 1 \in 0 .. Len(l) /\ i # 0 /\ l[i] \in Timer
    BY <1>3
  <2>2. CASE i = 1
    <3>1. b[l[i]].tcnt = y /\ f[i] = U(1) - 1 /\ f[i - 1] = 0
      BY <1>2, <1>8, <1>12, <2>1, <2>2
    <3> QED BY <1>2, <1>4, <3>1
  <2>3. CASE i # 1
    <3>1. l[i] # h
      BY <1>1, <1>2, <1>3, <2>3 DEF Distinct
    <3>2. b[l[i]].tcnt = c[l[i]].tcnt
      BY <1>7, <2>1, <3>1
    <3>3. i - 1 # 0 /\ f[i] = U(i) - 1 /\ f[i - 1] = U(i - 1) - 1
      BY <1>12, <2>1, <2>3
    <3>4. U(i) = U(i - 1) + c[l[i]].tcnt /\ U(i) \in Nat /\ U(i - 1) \in Nat
          /\ c[l[i]].tcnt \in Nat
      BY <1>3, <1>11, <2>1 DEF Block
    <3> DEFINE m == c[l[i]].tcnt
               v == U(i)
               w == U(i - 1)
    <3>5. v = w + m /\ v \in Nat /\ w \in Nat /\ m \in Nat /\ f[i] = v - 1
          /\ f[i - 1] = w - 1 /\ b[l[i]].tcnt = m
      BY <3>2, <3>3, <3>4
    <3> HIDE DEF m, v, w
    <3>6. f[i] = f[i - 1] + m
      BY <3>5
    <3> QED BY <3>5, <3>6
  <2> QED BY <2>2, <2>3
<1>14. Sums(l, b, f)
  BY <1>12, <1>13 DEF Sums
<1>15. \A i \in 1 .. Len(l) : Until(l, b, i) = U(i) - 1
  <2>1. \A i \in 0 .. Len(l) : Until(l, b, i) = f[i]
    <3>1. b \in [Timer -> Block]
      BY <1>10
    <3> QED BY ONLY l \in Seq(Timer), b \in [Timer -> Block], <3>1, <1>14, UntilSums
  <2>2. \A i \in 1 .. Len(l) : i \in 0 .. Len(l) /\ i # 0
    BY <1>3
  <2> QED BY <1>12, <2>1, <2>2
<1>16. Timed(l, b)
  <2>1. ASSUME NEW i \in 1 .. Len(l) PROVE Until(l, b, i) < TcntMod
    <3>1. U(i) < TcntMod /\ U(i) \in Nat
      BY <1>1, <1>3, <1>11
    <3> DEFINE v == U(i)
               w == Until(l, b, i)
    <3>2. v \in Nat /\ v < TcntMod /\ w = v - 1 /\ TcntMod \in Nat
      BY <1>3, <1>15, <3>1
    <3> HIDE DEF v, w
    <3>3. w < TcntMod
      BY <3>2
    <3> QED BY <3>3 DEF w
  <2> QED BY <1>1, <1>10, <2>1 DEF Timed
<1>17. \A u \in ToSet(l) : LeftIn(l, b, u) = LeftIn(l, c, u) - 1
  <2>1. /\ \A i \in 1 .. Len(l) : LeftIn(l, c, l[i]) = U(i)
        /\ \A u \in ToSet(l) : \E i \in 1 .. Len(l) : u = l[i]
    BY <1>1, LeftAt DEF U
  <2>2. \A i \in 1 .. Len(l) : LeftIn(l, b, l[i]) = Until(l, b, i)
    BY <1>1, LeftAt
  <2> QED BY <1>15, <2>1, <2>2
<1>18. \A u \in ToSet(l) : LeftIn(l, c, u) \in Nat /\ LeftIn(l, c, u) > 0
  BY <1>2, <1>4
<1> QED BY <1>7, <1>10, <1>16, <1>17, <1>18 DEF h

\* The first timer, when it is due, leaves the others where they are.
LEMMA FirstExpires ==
    ASSUME Timed(list, cb), list # <<>>, cb[Head(list)].tcnt = 0
    PROVE  /\ SubSeq(list, PlaceOf(Head(list)) + 1, Len(list)) = Tail(list)
           /\ Timed(Tail(list), cb)
           /\ ToSet(Tail(list)) = ToSet(list) \ {Head(list)}
           /\ \A u \in Timer : LeftIn(Tail(list), cb, u) = LeftIn(list, cb, u)
           /\ LeftIn(list, cb, Head(list)) = 0
<1> DEFINE r == Tail(list)
           U(i) == Until(list, cb, i)
           f == [i \in 0 .. Len(list) - 1 |-> U(i + 1)]
<1>1. list \in Seq(Timer) /\ Distinct(list) /\ cb \in [Timer -> Block]
      /\ \A i \in 1 .. Len(list) : U(i) < TcntMod
  BY DEF Timed
<1>2. /\ Len(list) \in Nat /\ 1 \in 1 .. Len(list) /\ DOMAIN list = 1 .. Len(list)
      /\ Head(list) = list[1]
  BY <1>1
<1>3. /\ r \in Seq(Timer) /\ Len(r) = Len(list) - 1
      /\ \A i \in 1 .. Len(list) - 1 : r[i] = list[i + 1]
  BY <1>1, <1>2
<1>4. ToSet(r) = ToSet(list) \ {Head(list)} /\ Distinct(r)
  BY <1>1, TakeFirstCorrect
<1>5. PlaceOf(Head(list)) = 1
  <2>1. \A j \in DOMAIN list : list[j] = Head(list) <=> j = 1
    BY <1>1, <1>2 DEF Distinct
  <2> QED BY <1>2, <2>1 DEF PlaceOf
<1>6. SubSeq(list, PlaceOf(Head(list)) + 1, Len(list)) = Tail(list)
  BY <1>1, <1>5
<1>7. U(1) = 0 /\ LeftIn(list, cb, Head(list)) = 0
  BY <1>1, FirstLeft
<1>8. /\ \A i \in 0 .. Len(list) : U(i) \in Nat
      /\ \A i \in 1 .. Len(list) : U(i) = U(i - 1) + cb[list[i]].tcnt
  BY <1>1, UntilSums
<1>9. f[0] = 0 /\ \A i \in 0 .. Len(list) - 1 : f[i] = U(i + 1)
  BY <1>2, <1>7
<1> HIDE DEF r, U, f
<1>10. ASSUME NEW i \in 1 .. Len(r) PROVE f[i] = f[i - 1] + cb[r[i]].tcnt
  <2>1. /\ i \in 0 .. Len(list) - 1 /\ i - 1 \in 0 .. Len(list) - 1
        /\ i \in 1 .. Len(list) - 1 /\ i + 1 \in 1 .. Len(list)
        /\ (i + 1) - 1 = i /\ (i - 1) + 1 = i
    BY <1>2, <1>3
  <2> QED BY <1>3, <1>8, <1>9, <2>1
<1>11. Sums(r, cb, f)
  BY <1>9, <1>10 DEF Sums
<1>12. \A i \in 0 .. Len(list) - 1 : Until(r, cb, i) = U(i + 1)
  <2>1. \A i \in 0 .. Len(r) : Until(r, cb, i) = f[i]
    BY <1>1, <1>3, <1>11, UntilSums
  <2> QED BY <1>3, <1>9, <2>1
<1>13. \A i \in 1 .. Len(r) : /\ i \in 0 .. Len(list) - 1 /\ i \in 1 .. Len(list) - 1
                              /\ i + 1 \in 1 .. Len(list)
  BY <1>2, <1>3
<1>14. Timed(r, cb)
  BY <1>1, <1>3, <1>4, <1>12, <1>13 DEF Timed
<1>15. /\ \A i \in 1 .. Len(list) : LeftIn(list, cb, list[i]) = U(i)
       /\ \A u : u \notin ToSet(list) => LeftIn(list, cb, u) = 0
  BY <1>1, LeftAt DEF U
<1>16. /\ \A i \in 1 .. Len(r) : LeftIn(r, cb, r[i]) = Until(r, cb, i)
       /\ \A u \in ToSet(r) : \E i \in 1 .. Len(r) : u = r[i]
       /\ \A u : u \notin ToSet(r) => LeftIn(r, cb, u) = 0
  <2>1. PICK q \in Seq(Timer) : q = r
    BY <1>3
  <2>2. Distinct(q)
    BY <1>4, <2>1
  <2>3. /\ \A i \in 1 .. Len(q) : LeftIn(q, cb, q[i]) = Until(q, cb, i)
        /\ \A u \in ToSet(q) : \E i \in 1 .. Len(q) : u = q[i]
        /\ \A u : u \notin ToSet(q) => LeftIn(q, cb, u) = 0
    BY <2>2, LeftAt
  <2> QED BY <2>1, <2>3
<1>17. ASSUME NEW u \in Timer PROVE LeftIn(r, cb, u) = LeftIn(list, cb, u)
  <2>1. CASE u \in ToSet(r)
    <3>1. PICK i \in 1 .. Len(r) : u = r[i]
      BY <1>16, <2>1
    <3> QED BY <1>3, <1>12, <1>13, <1>15, <1>16, <3>1
  <2>2. CASE u \notin ToSet(r)
    BY <1>4, <1>7, <1>15, <1>16, <2>2
  <2> QED BY <2>1, <2>2
<1> QED BY <1>4, <1>6, <1>7, <1>14, <1>17 DEF r
-----------------------------------------------------------------------------
(***************************************************************************)
(* The list and the blocks as the handlers keep them: the running timers   *)
(* are the chained ones, and they alone count.                             *)
(***************************************************************************)
Kept(l, c, u) ==
    /\ u \in ToSet(l) <=> c[u].state = "running"
    /\ IF u \in ToSet(l) THEN c[u].icnt > 0 ELSE c[u].tcnt = 0 /\ c[u].icnt = 0

WellKept(l, c) == Timed(l, c) /\ \A u \in Timer : Kept(l, c, u)

\* What a handler makes of timer t; the others stay as they are.
Becomes(t, state, type, left, icnt) ==
    /\ WellKept(list', cb')
    /\ \A u \in Timer :
          /\ cb'[u].state = IF u = t THEN state ELSE cb[u].state
          /\ cb'[u].type = IF u = t THEN type ELSE cb[u].type
          /\ cb'[u].icnt = IF u = t THEN icnt ELSE cb[u].icnt
          /\ LeftIn(list', cb', u) = IF u = t THEN left ELSE LeftIn(list, cb, u)

LEMMA InvKeeps ==
    ASSUME TimerInv
    PROVE  WellKept(list, cb)
<1>1. list \in Seq(Timer) /\ cb \in [Timer -> Block] /\ Distinct(list)
  BY DEF TimerInv, TimerTypeOK, ListOfRunning
<1>2. \A i \in 1 .. Len(list) : Until(list, cb, i) < TcntMod
  BY <1>1 DEF TimerInv
<1>3. \A u \in Timer : Kept(list, cb, u)
  BY DEF TimerInv, ListOfRunning, Chained, Kept
<1> QED BY <1>1, <1>2, <1>3 DEF WellKept, Timed

\* A timer that is not chained is inserted.
LEMMA InsertKeeps ==
    ASSUME NEW l \in Seq(Timer), NEW c \in [Timer -> Block], Timed(l, c),
           NEW t \in Timer, t \notin ToSet(l), NEW n \in 0 .. TcntMod - 1,
           \A u \in Timer : u # t => Kept(l, c, u),
           c[t].state = "running", c[t].icnt > 0,
           NEW r, r = InsertAt(l, Place(l, c, n), t), NEW b, b = CountsWith(l, c, t, n)
    PROVE  WellKept(r, b)
<1>1. /\ Timed(r, b) /\ ToSet(r) = ToSet(l) \cup {t}
      /\ SameButCount(b, c)
      /\ \A u \in Timer : u \notin ToSet(r) => b[u] = c[u]
  BY InsertCorrect
<1>2. ASSUME NEW u \in Timer PROVE Kept(r, b, u)
  <2>1. b[u].state = c[u].state /\ b[u].icnt = c[u].icnt
    BY <1>1 DEF SameButCount
  <2>2. CASE u = t
    BY <1>1, <2>1, <2>2 DEF Kept
  <2>3. CASE u # t
    <3>1. Kept(l, c, u) /\ (u \in ToSet(r) <=> u \in ToSet(l))
      BY <1>1, <2>3
    <3> QED BY <1>1, <2>1, <3>1 DEF Kept
  <2> QED BY <2>2, <2>3
<1> QED BY <1>1, <1>2 DEF WellKept

LEMMA StartMeans ==
    ASSUME TimerInv, NEW t \in Timer, NEW n \in Ticks, TimerStart(t, n)
    PROVE  Becomes(t, "running", cb[t].type, n, n)
<1> DEFINE c == [cb EXCEPT ![t].state = "running", ![t].icnt = n]
<1>1. Timed(list, cb) /\ \A u \in Timer : Kept(list, cb, u)
  BY InvKeeps DEF WellKept
<1>2. list \in Seq(Timer) /\ cb \in [Timer -> Block]
  BY <1>1 DEF Timed
<1>3. n \in 0 .. TcntMod - 1 /\ n \in Nat /\ n > 0
  BY TimerConstants
<1>4. t \notin ToSet(list)
  BY <1>1 DEF TimerStart, Kept
<1>5. /\ list' = InsertAt(list, Place(list, c, n), t)
      /\ cb' = CountsWith(list, c, t, n)
  BY DEF TimerStart, InsertTimer
<1>6. /\ c \in [Timer -> Block]
      /\ c[t].state = "running" /\ c[t].icnt = n /\ c[t].type = cb[t].type
      /\ \A u \in Timer : u # t => c[u] = cb[u]
  <2>1. cb[t] \in Block
    BY <1>2
  <2>2. c = [cb EXCEPT ![t] = [cb[t] EXCEPT !.state = "running", !.icnt = n]]
    BY <1>2
  <2> DEFINE x == [cb[t] EXCEPT !.state = "running", !.icnt = n]
  <2>3. x \in Block /\ x.state = "running" /\ x.icnt = n /\ x.type = cb[t].type
    BY <1>3, <2>1 DEF Block
  <2> HIDE DEF x, c
  <2>4. c = [cb EXCEPT ![t] = x]
    BY <2>2 DEF x
  <2> QED BY <1>2, <2>3, <2>4
<1> HIDE DEF c
<1>7. \A u \in Timer : u # t => Kept(list, c, u)
  BY <1>1, <1>6 DEF Kept
<1>8. Timed(list, c) /\ \A u : LeftIn(list, c, u) = LeftIn(list, cb, u)
  <2>1. \A u \in ToSet(list) : u \in Timer /\ u # t
    BY <1>1, <1>2, <1>4, LeftAt DEF Timed
  <2>2. \A u \in ToSet(list) : c[u].tcnt = cb[u].tcnt
    BY <1>6, <2>1
  <2> QED BY <1>1, <1>6, <2>2, LeftSame
<1>9. /\ SameButCount(cb', c)
      /\ \A u \in Timer : LeftIn(list', cb', u) = IF u = t THEN n ELSE LeftIn(list, c, u)
  BY <1>2, <1>3, <1>4, <1>5, <1>6, <1>8, InsertCorrect
<1>10. WellKept(list', cb')
  BY <1>2, <1>3, <1>4, <1>5, <1>6, <1>7, <1>8, InsertKeeps
<1> QED BY <1>6, <1>8, <1>9, <1>10 DEF Becomes, SameButCount

LEMMA RestartMeans ==
    ASSUME TimerInv, NEW t \in Timer, NEW n \in Ticks, TimerRestart(t, n)
    PROVE  Becomes(t, "running", cb[t].type, n, cb[t].icnt)
<1> DEFINE l == Unlink(list, t)
           c == CountsWithout(t)
<1>1. Timed(list, cb) /\ \A u \in Timer : Kept(list, cb, u)
  BY InvKeeps DEF WellKept
<1>2. n \in 0 .. TcntMod - 1
  BY TimerConstants
<1>3. Chained(t) /\ t \in ToSet(list) /\ cb[t].state = "running"
  BY DEF TimerRestart, Chained
<1>4. list' = InsertAt(l, Place(l, c, n), t) /\ cb' = CountsWith(l, c, t, n)
  BY DEF TimerRestart, InsertTimer
<1>5. /\ Timed(l, c) /\ ToSet(l) = ToSet(list) \ {t}
      /\ SameButCount(c, cb)
      /\ \A u \in Timer : u \notin ToSet(list) => c[u] = cb[u]
      /\ \A u \in Timer : LeftIn(l, c, u) = IF u = t THEN 0 ELSE LeftIn(list, cb, u)
  BY <1>1, <1>3, RemoveCorrect
<1> HIDE DEF l, c
<1>6. l \in Seq(Timer) /\ c \in [Timer -> Block] /\ t \notin ToSet(l)
  BY <1>5 DEF Timed
<1>7. \A u \in Timer : u # t => Kept(l, c, u)
  BY <1>1, <1>5 DEF Kept, SameButCount
<1>8. c[t].state = "running" /\ c[t].icnt > 0
  BY <1>1, <1>3, <1>5 DEF Kept, SameButCount
<1>9. /\ SameButCount(cb', c)
      /\ \A u \in Timer : LeftIn(list', cb', u) = IF u = t THEN n ELSE LeftIn(l, c, u)
  BY <1>2, <1>4, <1>5, <1>6, InsertCorrect
<1>10. WellKept(list', cb')
  BY <1>2, <1>4, <1>5, <1>6, <1>7, <1>8, InsertKeeps
<1>11. \A u \in Timer : LeftIn(list', cb', u) = IF u = t THEN n ELSE LeftIn(list, cb, u)
  BY <1>5, <1>9
<1> QED BY <1>3, <1>5, <1>9, <1>10, <1>11 DEF Becomes, SameButCount
\* Blocks change in nothing that counts, and in one timer that is not chained.
LEMMA BlockKeeps ==
    ASSUME NEW l \in Seq(Timer), NEW c \in [Timer -> Block], Timed(l, c),
           NEW t \in Timer, t \notin ToSet(l),
           \A u \in Timer : u # t => Kept(l, c, u),
           NEW b \in [Timer -> Block], \A u \in Timer : u # t => b[u] = c[u],
           b[t].state # "running", b[t].tcnt = 0, b[t].icnt = 0
    PROVE  WellKept(l, b) /\ \A u : LeftIn(l, b, u) = LeftIn(l, c, u)
<1>1. b \in [Timer -> Block] /\ \A u \in Timer : u # t => b[u] = c[u]
  OBVIOUS
<1>2. \A u \in ToSet(l) : b[u].tcnt = c[u].tcnt
  <2>1. \A u \in ToSet(l) : u \in Timer /\ u # t
    BY LeftAt DEF Timed
  <2> QED BY <1>1, <2>1
<1>3. Timed(l, b) /\ \A u : LeftIn(l, b, u) = LeftIn(l, c, u)
  BY <1>1, <1>2, LeftSame
<1>4. \A u \in Timer : Kept(l, b, u)
  BY <1>1 DEF Kept
<1> QED BY <1>3, <1>4 DEF WellKept

LEMMA CreateMeans ==
    ASSUME TimerInv, NEW t \in Timer, NEW type \in {"once", "periodic"}, TimerCreate(t, type)
    PROVE  Becomes(t, "stopped", type, 0, 0)
<1> DEFINE x == [cb[t] EXCEPT !.state = "stopped", !.type = type]
<1>1. Timed(list, cb) /\ \A u \in Timer : Kept(list, cb, u)
  BY InvKeeps DEF WellKept
<1>2. list \in Seq(Timer) /\ cb \in [Timer -> Block]
  BY <1>1 DEF Timed
<1>3. t \notin ToSet(list) /\ cb[t].tcnt = 0 /\ cb[t].icnt = 0
  BY <1>1 DEF TimerCreate, Kept
<1>4. x \in Block /\ x.state = "stopped" /\ x.type = type /\ x.tcnt = 0 /\ x.icnt = 0
  <2>1. cb[t] \in Block
    BY <1>2
  <2> QED BY <1>3, <2>1 DEF Block
<1>5. cb' = [cb EXCEPT ![t] = x] /\ list' = list
  BY <1>2 DEF TimerCreate
<1> HIDE DEF x
<1>6. WellKept(list', cb') /\ \A u : LeftIn(list', cb', u) = LeftIn(list, cb, u)
  <2>1. cb' \in [Timer -> Block] /\ cb'[t] = x /\ \A u \in Timer : u # t => cb'[u] = cb[u]
    BY <1>2, <1>4, <1>5
  <2>2. cb'[t].state # "running" /\ cb'[t].tcnt = 0 /\ cb'[t].icnt = 0
    BY <1>4, <2>1
  <2>3. Timed(list, cb) /\ (\A u \in Timer : u # t => Kept(list, cb, u)) /\ t \notin ToSet(list)
    BY <1>1, <1>3
  <2>4. WellKept(list, cb') /\ \A u : LeftIn(list, cb', u) = LeftIn(list, cb, u)
    BY <1>2, <2>1, <2>2, <2>3, BlockKeeps
  <2> QED BY <1>5, <2>4
<1>7. LeftIn(list, cb, t) = 0
  BY <1>3 DEF LeftIn
<1> QED BY <1>2, <1>3, <1>4, <1>5, <1>6, <1>7 DEF Becomes

LEMMA DeleteMeans ==
    ASSUME TimerInv, NEW t \in Timer, cb[t].state = "stopped",
           cb' = [cb EXCEPT ![t].state = "invalid"], UNCHANGED list
    PROVE  Becomes(t, "invalid", cb[t].type, 0, 0)
<1> DEFINE x == [cb[t] EXCEPT !.state = "invalid"]
<1>1. Timed(list, cb) /\ \A u \in Timer : Kept(list, cb, u)
  BY InvKeeps DEF WellKept
<1>2. list \in Seq(Timer) /\ cb \in [Timer -> Block]
  BY <1>1 DEF Timed
<1>3. t \notin ToSet(list) /\ cb[t].tcnt = 0 /\ cb[t].icnt = 0
  BY <1>1 DEF Kept
<1>4. x \in Block /\ x.state = "invalid" /\ x.type = cb[t].type /\ x.tcnt = 0 /\ x.icnt = 0
  <2>1. cb[t] \in Block
    BY <1>2
  <2> QED BY <1>3, <2>1 DEF Block
<1>5. cb' = [cb EXCEPT ![t] = x] /\ list' = list
  BY <1>2
<1> HIDE DEF x
<1>6. WellKept(list', cb') /\ \A u : LeftIn(list', cb', u) = LeftIn(list, cb, u)
  <2>1. cb' \in [Timer -> Block] /\ cb'[t] = x /\ \A u \in Timer : u # t => cb'[u] = cb[u]
    BY <1>2, <1>4, <1>5
  <2>2. cb'[t].state # "running" /\ cb'[t].tcnt = 0 /\ cb'[t].icnt = 0
    BY <1>4, <2>1
  <2>3. Timed(list, cb) /\ (\A u \in Timer : u # t => Kept(list, cb, u)) /\ t \notin ToSet(list)
    BY <1>1, <1>3
  <2>4. PICK b \in [Timer -> Block] : b = cb'
    BY <2>1
  <2>5. b[t].state # "running" /\ b[t].tcnt = 0 /\ b[t].icnt = 0
    BY <2>2, <2>4
  <2>6. \A u \in Timer : u # t => b[u] = cb[u]
    BY <2>1, <2>4
  <2>7. WellKept(list, b) /\ \A u : LeftIn(list, b, u) = LeftIn(list, cb, u)
    BY <1>2, <2>3, <2>5, <2>6, BlockKeeps
  <2> QED BY <1>5, <2>4, <2>7
<1>7. LeftIn(list, cb, t) = 0
  BY <1>3 DEF LeftIn
<1> QED BY <1>2, <1>3, <1>4, <1>5, <1>6, <1>7 DEF Becomes

LEMMA OffMeans ==
    ASSUME TimerInv, NEW t \in Timer, NEW state \in {"stopped", "invalid"},
           cb[t].state = "running", Off(t, state)
    PROVE  Becomes(t, state, cb[t].type, 0, 0)
<1> DEFINE l == Unlink(list, t)
           c == CountsWithout(t)
           x == [c[t] EXCEPT !.state = state, !.icnt = 0]
<1>1. Timed(list, cb) /\ \A u \in Timer : Kept(list, cb, u)
  BY InvKeeps DEF WellKept
<1>2. Chained(t) /\ t \in ToSet(list)
  BY <1>1 DEF Kept, Chained
<1>3. list' = l /\ cb' = [c EXCEPT ![t].state = state, ![t].icnt = 0]
  BY <1>2 DEF Off
<1>4. /\ Timed(l, c) /\ ToSet(l) = ToSet(list) \ {t}
      /\ SameButCount(c, cb) /\ c[t].tcnt = 0
      /\ \A u \in Timer : u \notin ToSet(list) => c[u] = cb[u]
      /\ \A u \in Timer : LeftIn(l, c, u) = IF u = t THEN 0 ELSE LeftIn(list, cb, u)
  BY <1>1, <1>2, RemoveCorrect
<1> HIDE DEF l, c
<1>5. l \in Seq(Timer) /\ c \in [Timer -> Block] /\ t \notin ToSet(l)
  BY <1>4 DEF Timed
<1>6. \A u \in Timer : u # t => Kept(l, c, u)
  BY <1>1, <1>4 DEF Kept, SameButCount
<1>7. /\ x \in Block /\ x.state = state /\ x.state # "running" /\ x.type = cb[t].type
      /\ x.tcnt = 0 /\ x.icnt = 0
  <2>1. c[t] \in Block /\ c[t].type = cb[t].type /\ c[t].tcnt = 0
    BY <1>4, <1>5 DEF SameButCount
  <2>2. 0 \in 0 .. TcntMod - 1
    BY TimerConstants
  <2> QED BY <2>1, <2>2 DEF Block
<1>8. cb' = [c EXCEPT ![t] = x]
  BY <1>3, <1>5
<1> HIDE DEF x
<1>9. WellKept(list', cb') /\ \A u : LeftIn(list', cb', u) = LeftIn(l, c, u)
  <2>1. cb' \in [Timer -> Block] /\ cb'[t] = x /\ \A u \in Timer : u # t => cb'[u] = c[u]
    BY <1>5, <1>7, <1>8
  <2>2. cb'[t].state # "running" /\ cb'[t].tcnt = 0 /\ cb'[t].icnt = 0
    BY <1>7, <2>1
  <2>3. WellKept(l, cb') /\ \A u : LeftIn(l, cb', u) = LeftIn(l, c, u)
    BY <1>4, <1>5, <1>6, <2>1, <2>2, BlockKeeps
  <2> QED BY <1>3, <2>3
<1>10. \A u \in Timer : u # t => cb'[u] = c[u]
  BY <1>5, <1>8
<1>11. cb'[t] = x
  BY <1>5, <1>8
<1> QED BY <1>4, <1>7, <1>9, <1>10, <1>11 DEF Becomes, SameButCount

(***************************************************************************)
(* A tick brings every running timer one nearer.                           *)
(***************************************************************************)
LEMMA TickMeans ==
    ASSUME TimerInv, TickEnter
    PROVE  /\ WellKept(list', cb') /\ list' = list
           /\ \A u \in Timer :
                 /\ cb'[u].state = cb[u].state /\ cb'[u].type = cb[u].type
                 /\ cb'[u].icnt = cb[u].icnt
                 /\ u \in ToSet(list) =>
                       LeftIn(list, cb, u) \in Nat /\ LeftIn(list, cb, u) > 0
                 /\ LeftIn(list', cb', u) =
                       IF u \in ToSet(list) THEN LeftIn(list, cb, u) - 1 ELSE 0
           /\ Head(list) \in ToSet(list)
<1>1. Timed(list, cb) /\ \A u \in Timer : Kept(list, cb, u)
  BY InvKeeps DEF WellKept
<1>2. list \in Seq(Timer) /\ cb \in [Timer -> Block]
  BY <1>1 DEF Timed
<1>3. list # <<>> /\ cb[Head(list)].tcnt > 0
  BY DEF TickEnter, InThread, TimerInv, ListOfRunning
<1>4. cb' = [cb EXCEPT ![Head(list)].tcnt = Less(@, 1)] /\ list' = list
  BY DEF TickEnter
<1>5. /\ Timed(list, cb') /\ SameButCount(cb', cb)
      /\ \A u \in Timer : u # Head(list) => cb'[u] = cb[u]
      /\ \A u \in ToSet(list) : LeftIn(list, cb, u) \in Nat /\ LeftIn(list, cb, u) > 0
      /\ \A u \in ToSet(list) : LeftIn(list, cb', u) = LeftIn(list, cb, u) - 1
  BY <1>1, <1>2, <1>3, <1>4, TickCorrect
<1>6. Head(list) \in ToSet(list)
  BY <1>1, <1>3, FirstLeft
<1>7. \A u \in Timer : Kept(list, cb', u)
  BY <1>1, <1>5, <1>6 DEF Kept, SameButCount
<1>8. \A u \in Timer : u \notin ToSet(list) => LeftIn(list, cb', u) = 0
  BY DEF LeftIn
<1> QED BY <1>4, <1>5, <1>6, <1>7, <1>8 DEF WellKept, SameButCount
(***************************************************************************)
(* A timer that expires starts again for its period, or stops; and the     *)
(* next turn of the loop looks at the front of the list, or at a timer     *)
(* that is not due.                                                        *)
(***************************************************************************)
\* The loop of sysTimerTick looks at the front of the list while that is due.
AtFront(l, c, t) ==
    /\ t # NoTimer => t \in ToSet(l)
    /\ IF t # NoTimer /\ c[t].tcnt = 0 THEN t = Head(l)
       ELSE l # <<>> => c[Head(l)].tcnt > 0

LEMMA ExpireMeans ==
    ASSUME TimerInv, TimerExpires, ~Overflows
    PROVE  /\ cur \in Timer /\ cb[cur].state = "running" /\ LeftIn(list, cb, cur) = 0
           /\ IF cb[cur].type = "periodic"
              THEN Becomes(cur, "running", cb[cur].type, cb[cur].icnt, cb[cur].icnt)
              ELSE Becomes(cur, "stopped", cb[cur].type, 0, 0)
           /\ AtFront(list', cb', cur') /\ cur' \in Timer \cup {NoTimer}
<1> DEFINE rest == Tail(list)
           n == cb[cur].icnt
<1>1. Timed(list, cb) /\ \A u \in Timer : Kept(list, cb, u)
  BY InvKeeps DEF WellKept
<1>2. list \in Seq(Timer) /\ cb \in [Timer -> Block]
  BY <1>1 DEF Timed
<1>3. /\ phase = "tick" /\ Expires /\ cur # NoTimer /\ cb[cur].tcnt = 0
      /\ cur = Head(list) /\ cur \in ToSet(list)
  BY DEF TimerExpires, Expires, TimerInv, Chained
<1>4. list # <<>>
  BY <1>3 DEF ToSet
<1>5. cur \in Timer
  BY <1>1, <1>3, <1>4, FirstLeft
<1>6. /\ SubSeq(list, PlaceOf(cur) + 1, Len(list)) = rest
      /\ Timed(rest, cb)
      /\ ToSet(rest) = ToSet(list) \ {cur}
      /\ \A u \in Timer : LeftIn(rest, cb, u) = LeftIn(list, cb, u)
      /\ LeftIn(list, cb, cur) = 0
  BY <1>1, <1>3, <1>4, FirstExpires
<1>7. /\ cur' = IF rest = <<>> THEN NoTimer ELSE Head(rest)
      /\ IF cb[cur].type = "periodic" THEN InsertTimer(rest, cb, cur, n)
         ELSE list' = rest /\ cb' = Stopped(cur)
  BY <1>6 DEF TimerExpires
<1>8. cb[cur].state = "running" /\ n > 0 /\ n \in 0 .. TcntMod - 1 /\ n \in Nat
  BY <1>1, <1>2, <1>3, <1>5, TimerConstants DEF Kept, Block
<1>9. \A u \in Timer : u # cur => Kept(rest, cb, u)
  BY <1>1, <1>6 DEF Kept
<1> HIDE DEF rest, n
<1>10. rest \in Seq(Timer) /\ cur \notin ToSet(rest)
  BY <1>6 DEF Timed
<1>11. rest # <<>> => Head(rest) \in Timer /\ Head(rest) \in ToSet(rest)
  BY <1>6, FirstLeft
<1>12. cur' \in Timer \cup {NoTimer} /\ (cur' # NoTimer => rest # <<>> /\ cur' = Head(rest))
       /\ (cur' = NoTimer => rest = <<>>)
  BY <1>7, <1>11, TimerConstants
<1>13. CASE cb[cur].type = "periodic"
  <2>1. list' = InsertAt(rest, Place(rest, cb, n), cur) /\ cb' = CountsWith(rest, cb, cur, n)
    BY <1>7, <1>13 DEF InsertTimer
  <2>2. /\ Timed(list', cb') /\ ToSet(list') = ToSet(rest) \cup {cur} /\ list' # <<>>
        /\ SameButCount(cb', cb)
        /\ \A u \in Timer :
              LeftIn(list', cb', u) = IF u = cur THEN n ELSE LeftIn(rest, cb, u)
        /\ IF rest = <<>> THEN Head(list') = cur
           ELSE Head(list') = Head(rest) \/ (Head(list') = cur /\ cb'[Head(rest)].tcnt > 0)
    <3>1. PICK t \in Timer : t = cur
      BY <1>5
    <3>2. Timed(rest, cb) /\ t \notin ToSet(rest) /\ n \in 0 .. TcntMod - 1
      BY <1>6, <1>8, <1>10, <3>1
    <3>3. list' = InsertAt(rest, Place(rest, cb, n), t) /\ cb' = CountsWith(rest, cb, t, n)
      BY <2>1, <3>1
    <3>4. /\ Timed(list', cb') /\ ToSet(list') = ToSet(rest) \cup {t} /\ list' # <<>>
          /\ SameButCount(cb', cb)
          /\ \A u \in Timer :
                LeftIn(list', cb', u) = IF u = t THEN n ELSE LeftIn(rest, cb, u)
          /\ IF rest = <<>> THEN Head(list') = t
             ELSE Head(list') = Head(rest) \/ (Head(list') = t /\ cb'[Head(rest)].tcnt > 0)
      BY <1>2, <1>10, <3>2, <3>3, InsertCorrect
    <3> QED BY <3>1, <3>4
  <2>3. WellKept(list', cb')
    BY <1>2, <1>5, <1>6, <1>8, <1>9, <1>10, <2>1, InsertKeeps DEF n
  <2>4. Becomes(cur, "running", cb[cur].type, n, n)
    BY <1>5, <1>6, <1>8, <2>2, <2>3 DEF Becomes, SameButCount, n
  <2>5. Head(list') = cur => cb'[Head(list')].tcnt > 0
    BY <1>5, <1>8, <2>2, FirstLeft
  <2>6. cb' \in [Timer -> Block]
    BY <2>2 DEF Timed
  <2>7. rest # <<>> => cb'[Head(rest)].tcnt \in Nat
    BY <1>11, <2>6, TimerConstants DEF Block
  <2>8. AtFront(list', cb', cur')
    <3>1. CASE rest = <<>>
      BY <1>12, <2>2, <2>5, <3>1 DEF AtFront
    <3>2. CASE rest # <<>>
      <4>1. cur' = Head(rest) /\ cur' # NoTimer /\ cur' \in ToSet(list')
        BY <1>11, <1>12, <2>2, <3>2
      <4>2. CASE cb'[cur'].tcnt = 0
        BY <2>2, <3>2, <4>1, <4>2 DEF AtFront
      <4>3. CASE cb'[cur'].tcnt # 0
        <5>1. cb'[Head(rest)].tcnt > 0
          BY <2>7, <3>2, <4>1, <4>3
        <5>2. cb'[Head(list')].tcnt > 0
          BY <2>2, <2>5, <3>2, <5>1
        <5> QED BY <4>1, <4>3, <5>2 DEF AtFront
      <4> QED BY <4>2, <4>3
    <3> QED BY <3>1, <3>2
  <2> QED BY <1>5, <1>6, <1>8, <1>12, <1>13, <2>4, <2>8 DEF n
<1>14. CASE cb[cur].type # "periodic"
  <2> DEFINE x == [cb[cur] EXCEPT !.state = "stopped", !.icnt = 0]
  <2>1. list' = rest /\ cb' = [cb EXCEPT ![cur] = x]
    BY <1>2, <1>5, <1>7, <1>14 DEF Stopped
  <2>2. /\ x \in Block /\ x.state = "stopped" /\ x.type = cb[cur].type
        /\ x.tcnt = 0 /\ x.icnt = 0
    <3>1. cb[cur] \in Block /\ cb[cur].tcnt = 0 /\ 0 \in 0 .. TcntMod - 1
      BY <1>2, <1>3, <1>5, TimerConstants
    <3> QED BY <3>1 DEF Block
  <2> HIDE DEF x
  <2>3. cb' \in [Timer -> Block] /\ cb'[cur] = x /\ \A u \in Timer : u # cur => cb'[u] = cb[u]
    BY <1>2, <1>5, <2>1, <2>2
  <2>4. PICK b \in [Timer -> Block] : b = cb'
    BY <2>3
  <2>5. PICK t \in Timer : t = cur
    BY <1>5
  <2>6. b[t].state # "running" /\ b[t].tcnt = 0 /\ b[t].icnt = 0
    BY <2>2, <2>3, <2>4, <2>5
  <2>7. /\ \A u \in Timer : u # t => b[u] = cb[u]
        /\ \A u \in Timer : u # t => Kept(rest, cb, u)
        /\ t \notin ToSet(rest)
    BY <1>9, <1>10, <2>3, <2>4, <2>5
  <2>8. WellKept(rest, b) /\ \A u : LeftIn(rest, b, u) = LeftIn(rest, cb, u)
    BY <1>2, <1>6, <1>10, <2>6, <2>7, BlockKeeps
  <2>9. WellKept(list', cb') /\ \A u \in Timer : LeftIn(list', cb', u) = LeftIn(list, cb, u)
    BY <1>6, <2>1, <2>4, <2>8
  <2>10. Becomes(cur, "stopped", cb[cur].type, 0, 0)
    BY <1>5, <1>6, <2>2, <2>3, <2>9 DEF Becomes
  <2>11. AtFront(list', cb', cur')
    <3>1. CASE rest = <<>>
      BY <1>12, <2>1, <3>1 DEF AtFront
    <3>2. CASE rest # <<>>
      <4>1. cur' = Head(list') /\ cur' \in ToSet(list') /\ cur' \in Timer
        BY <1>11, <1>12, <2>1, <3>2, TimerConstants
      <4>2. cb'[cur'].tcnt \in Nat
        BY <2>3, <4>1, TimerConstants DEF Block
      <4> QED BY <4>1, <4>2, TimerConstants DEF AtFront
    <3> QED BY <3>1, <3>2
  <2> QED BY <1>5, <1>6, <1>8, <1>12, <1>14, <2>10, <2>11
<1> QED BY <1>13, <1>14
-----------------------------------------------------------------------------
(***************************************************************************)
(* The inductive invariant.                                                *)
(***************************************************************************)
QueueOK ==
    /\ posted \in Seq(Timer) /\ Len(posted) <= FifoSize
    /\ box \in Seq(Timer) /\ Len(box) <= CbqSize
    /\ reader \in [at : {"get", "waits"}, timer : {NoTimer}]
              \cup [at : {"fetch", "calls"}, timer : Timer]
    /\ reader.at = "waits" => box = <<>>

\* Where the handlers are: no thread goes on while a timer is overdue.
PhaseOK ==
    /\ phase \in {"thread", "tick", "os_error"} /\ cur \in Timer \cup {NoTimer}
    /\ phase = "thread" => cur = NoTimer /\ (list # <<>> => cb[Head(list)].tcnt > 0)
    /\ phase = "tick" => AtFront(list, cb, cur)

LEMMA InvParts ==
    TimerInv => WellKept(list, cb) /\ PhaseOK /\ QueueOK
<1> SUFFICES ASSUME TimerInv PROVE WellKept(list, cb) /\ PhaseOK /\ QueueOK
  OBVIOUS
<1>1. WellKept(list, cb)
  BY InvKeeps
<1>2. PhaseOK
  BY DEF TimerInv, TimerTypeOK, ListOfRunning, PhaseOK, AtFront, Expires, Chained
<1>3. QueueOK
  BY DEF TimerInv, TimerTypeOK, QueueOK
<1> QED BY <1>1, <1>2, <1>3

LEMMA PartsInv ==
    WellKept(list, cb) /\ PhaseOK /\ QueueOK => TimerInv
<1> SUFFICES ASSUME WellKept(list, cb), PhaseOK, QueueOK PROVE TimerInv
  OBVIOUS
<1>1. /\ list \in Seq(Timer) /\ Distinct(list) /\ cb \in [Timer -> Block]
      /\ \A i \in 1 .. Len(list) : Until(list, cb, i) < TcntMod
      /\ \A t \in Timer : Kept(list, cb, t)
  BY DEF WellKept, Timed
<1>2. TimerTypeOK
  BY <1>1 DEF TimerTypeOK, PhaseOK, QueueOK
<1>3. ListOfRunning
  BY <1>1 DEF ListOfRunning, PhaseOK, Kept, Chained
<1>4. \A i \in DOMAIN list : Until(list, cb, i) < TcntMod
  BY <1>1
<1>5. \A t \in Timer :
         IF Chained(t) THEN cb[t].icnt > 0 ELSE cb[t].tcnt = 0 /\ cb[t].icnt = 0
  BY <1>1 DEF Kept, Chained
<1>6. /\ phase = "thread" => cur = NoTimer
      /\ phase = "tick" =>
            /\ cur # NoTimer => Chained(cur)
            /\ IF Expires THEN cur = Head(list)
               ELSE list # <<>> => cb[Head(list)].tcnt > 0
  BY DEF PhaseOK, AtFront, Expires, Chained
<1>7. reader.at = "waits" => box = <<>>
  BY DEF QueueOK
<1> QED BY <1>2, <1>3, <1>4, <1>5, <1>6, <1>7 DEF TimerInv

LEMMA PartsInvNext ==
    WellKept(list', cb') /\ PhaseOK' /\ QueueOK' => TimerInv'
<1>1. (WellKept(list, cb) /\ PhaseOK /\ QueueOK)' => TimerInv'
  BY PartsInv, PTL
<1> QED BY <1>1

LEMMA InitInv == TimerInit => TimerInv
<1> SUFFICES ASSUME TimerInit PROVE WellKept(list, cb) /\ PhaseOK /\ QueueOK
  BY PartsInv
<1>1. 0 \in 0 .. TcntMod - 1
  BY TimerConstants
<1>2. list \in Seq(Timer) /\ Distinct(list) /\ Len(list) = 0 /\ ToSet(list) = {}
  BY DEF TimerInit, Distinct, ToSet
<1>3. cb \in [Timer -> Block]
  BY <1>1 DEF TimerInit, Block
<1>4. \A t \in Timer : Kept(list, cb, t)
  BY <1>2 DEF TimerInit, Kept
<1>5. \A i \in 1 .. Len(list) : Until(list, cb, i) < TcntMod
  BY <1>2
<1>6. WellKept(list, cb)
  BY <1>2, <1>3, <1>4, <1>5 DEF WellKept, Timed
<1>7. PhaseOK
  BY DEF TimerInit, PhaseOK
<1>8. QueueOK
  BY TimerConstants DEF TimerInit, QueueOK, At
<1> QED BY <1>6, <1>7, <1>8

\* A timer that a thread starts or stops leaves none overdue.
LEMMA BecomesKeeps ==
    ASSUME TimerInv, NEW t \in Timer, NEW state, NEW type, NEW left, NEW icnt,
           Becomes(t, state, type, left, icnt), phase = "thread",
           state = "running" => left > 0
    PROVE  list' # <<>> => cb'[Head(list')].tcnt > 0
<1>1. WellKept(list, cb) /\ PhaseOK
  BY InvParts
<1>2. Timed(list, cb) /\ (\A u \in Timer : Kept(list, cb, u))
      /\ (list # <<>> => cb[Head(list)].tcnt > 0)
  BY <1>1 DEF WellKept, PhaseOK
<1>3. Timed(list', cb') /\ (\A u \in Timer : Kept(list', cb', u))
  BY DEF Becomes, WellKept
<1> SUFFICES ASSUME list' # <<>> PROVE cb'[Head(list')].tcnt > 0
  OBVIOUS
<1> DEFINE h == Head(list')
<1>4. h \in Timer /\ h \in ToSet(list') /\ cb'[h].tcnt = LeftIn(list', cb', h)
  BY <1>3, FirstLeft
<1> HIDE DEF h
<1>5. cb'[h].state = "running"
  BY <1>3, <1>4 DEF Kept
<1>6. CASE h = t
  BY <1>4, <1>5, <1>6 DEF Becomes, h
<1>7. CASE h # t
  <2>1. cb[h].state = "running" /\ LeftIn(list', cb', h) = LeftIn(list, cb, h)
    BY <1>4, <1>5, <1>7 DEF Becomes
  <2>2. h \in ToSet(list) /\ list # <<>>
    BY <1>2, <1>4, <2>1 DEF Kept, ToSet
  <2>3. LeftIn(list, cb, h) \in Nat /\ cb[Head(list)].tcnt <= LeftIn(list, cb, h)
    BY <1>2, <2>2, FirstLeft
  <2>4. cb[Head(list)].tcnt > 0
    BY <1>2, <2>2
  <2>5. cb[Head(list)].tcnt \in Nat
    <3>1. Head(list) \in Timer /\ cb \in [Timer -> Block]
      BY <1>2, <2>2, FirstLeft DEF Timed
    <3> QED BY <3>1, TimerConstants DEF Block
  <2>6. LeftIn(list, cb, h) > 0
    BY <2>3, <2>4, <2>5
  <2> QED BY <1>4, <2>1, <2>6 DEF h
<1> QED BY <1>6, <1>7

\* Every service makes one timer something else.
LEMMA SvcMeans ==
    ASSUME TimerInv, Svc
    PROVE  \E t \in Timer :
              \/ \E type \in {"once", "periodic"} :
                    cb[t].state = "invalid" /\ Becomes(t, "stopped", type, 0, 0)
              \/ \E n \in Ticks :
                    /\ n > 0
                    /\ \/ cb[t].state = "stopped" /\ Becomes(t, "running", cb[t].type, n, n)
                       \/ /\ cb[t].state = "running"
                          /\ Becomes(t, "running", cb[t].type, n, cb[t].icnt)
              \/ /\ cb[t].state # "invalid"
                 /\ \/ Becomes(t, "stopped", cb[t].type, 0, 0)
                    \/ Becomes(t, "invalid", cb[t].type, 0, 0)
<1>1. PICK t \in Timer :
         \/ \E type \in {"once", "periodic"} : TimerCreate(t, type)
         \/ \E n \in Ticks : TimerStart(t, n) \/ TimerRestart(t, n)
         \/ TimerStop(t)
         \/ TimerDelete(t)
  BY DEF Svc
<1>2. CASE \E type \in {"once", "periodic"} : TimerCreate(t, type)
  <2>1. PICK type \in {"once", "periodic"} : TimerCreate(t, type)
    BY <1>2
  <2>2. Becomes(t, "stopped", type, 0, 0) /\ cb[t].state = "invalid"
    BY <2>1, CreateMeans DEF TimerCreate
  <2> QED BY <2>2
<1>3. CASE \E n \in Ticks : TimerStart(t, n) \/ TimerRestart(t, n)
  <2>1. PICK n \in Ticks : TimerStart(t, n) \/ TimerRestart(t, n)
    BY <1>3
  <2>2. n > 0
    BY TimerConstants
  <2>3. CASE TimerStart(t, n)
    <3>1. Becomes(t, "running", cb[t].type, n, n) /\ cb[t].state = "stopped"
      BY <2>3, StartMeans DEF TimerStart
    <3> QED BY <2>2, <3>1
  <2>4. CASE TimerRestart(t, n)
    <3>1. Becomes(t, "running", cb[t].type, n, cb[t].icnt) /\ cb[t].state = "running"
      BY <2>4, RestartMeans DEF TimerRestart
    <3> QED BY <2>2, <3>1
  <2> QED BY <2>1, <2>3, <2>4
<1>4. CASE TimerStop(t)
  <2>1. cb[t].state = "running" /\ Off(t, "stopped")
    BY <1>4 DEF TimerStop
  <2>2. Becomes(t, "stopped", cb[t].type, 0, 0)
    BY <2>1, OffMeans
  <2> QED BY <2>1, <2>2
<1>5. CASE TimerDelete(t)
  <2>1. CASE cb[t].state = "running" /\ Off(t, "invalid")
    <3>1. Becomes(t, "invalid", cb[t].type, 0, 0)
      BY <2>1, OffMeans
    <3> QED BY <2>1, <3>1
  <2>2. CASE cb[t].state = "stopped" /\ cb' = [cb EXCEPT ![t].state = "invalid"]
             /\ UNCHANGED list
    <3>1. Becomes(t, "invalid", cb[t].type, 0, 0)
      BY <2>2, DeleteMeans
    <3> QED BY <2>2, <3>1
  <2> QED BY <1>5, <2>1, <2>2 DEF TimerDelete
<1> QED BY <1>1, <1>2, <1>3, <1>4, <1>5
LEMMA SvcInv ==
    ASSUME TimerInv, Svc
    PROVE  TimerInv'
<1>1. /\ phase = "thread" /\ phase' = phase /\ cur' = cur
      /\ posted' = posted /\ box' = box /\ reader' = reader
  BY DEF Svc, InThread, queueVars
<1>2. PhaseOK /\ QueueOK
  BY InvParts
<1>3. WellKept(list', cb') /\ (list' # <<>> => cb'[Head(list')].tcnt > 0)
  <2>1. PICK t \in Timer :
              \/ \E type \in {"once", "periodic"} :
                    cb[t].state = "invalid" /\ Becomes(t, "stopped", type, 0, 0)
              \/ \E n \in Ticks :
                    /\ n > 0
                    /\ \/ cb[t].state = "stopped" /\ Becomes(t, "running", cb[t].type, n, n)
                       \/ /\ cb[t].state = "running"
                          /\ Becomes(t, "running", cb[t].type, n, cb[t].icnt)
              \/ /\ cb[t].state # "invalid"
                 /\ \/ Becomes(t, "stopped", cb[t].type, 0, 0)
                    \/ Becomes(t, "invalid", cb[t].type, 0, 0)
    BY SvcMeans
  <2>2. \E state, type, left, icnt :
           Becomes(t, state, type, left, icnt) /\ (state = "running" => left > 0)
    <3>1. CASE \E type \in {"once", "periodic"} : Becomes(t, "stopped", type, 0, 0)
      BY <3>1
    <3>2. CASE \E n \in Ticks : n > 0 /\ \E icnt : Becomes(t, "running", cb[t].type, n, icnt)
      BY <3>2
    <3>3. CASE Becomes(t, "stopped", cb[t].type, 0, 0)
      BY <3>3
    <3>4. CASE Becomes(t, "invalid", cb[t].type, 0, 0)
      BY <3>4
    <3> QED BY <2>1, <3>1, <3>2, <3>3, <3>4
  <2>3. PICK state, type, left, icnt :
           Becomes(t, state, type, left, icnt) /\ (state = "running" => left > 0)
    BY <2>2
  <2>4. list' # <<>> => cb'[Head(list')].tcnt > 0
    BY <1>1, <2>3, BecomesKeeps
  <2> QED BY <2>3, <2>4 DEF Becomes
<1>4. PhaseOK'
  BY <1>1, <1>2, <1>3 DEF PhaseOK
<1>5. QueueOK'
  BY <1>1, <1>2 DEF QueueOK
<1> QED BY <1>3, <1>4, <1>5, PartsInvNext

LEMMA EnterInv ==
    ASSUME TimerInv, TickEnter
    PROVE  TimerInv'
<1>1. /\ phase' = "tick" /\ cur' = Head(list)
      /\ posted' = posted /\ box' = box /\ reader' = reader
  BY DEF TickEnter, queueVars
<1>2. QueueOK
  BY InvParts
<1>3. WellKept(list', cb') /\ list' = list /\ Head(list) \in ToSet(list)
  BY TickMeans
<1>4. Timed(list', cb') /\ list' # <<>>
  BY <1>3 DEF WellKept, ToSet
<1>5. Head(list') \in Timer /\ cb'[Head(list')] \in Block
  BY <1>4, FirstLeft DEF Timed
<1>6. cb'[Head(list')].tcnt \in Nat
  BY <1>5, TimerConstants DEF Block
<1>7. PhaseOK'
  BY <1>1, <1>3, <1>5, <1>6, TimerConstants DEF PhaseOK, AtFront
<1>8. QueueOK'
  BY <1>1, <1>2 DEF QueueOK
<1> QED BY <1>3, <1>7, <1>8, PartsInvNext

LEMMA ExpireInv ==
    ASSUME TimerInv, TimerExpires
    PROVE  TimerInv'
<1>1. WellKept(list, cb) /\ PhaseOK /\ QueueOK
  BY InvParts
<1>2. phase = "tick" /\ box' = box /\ reader' = reader
  BY DEF TimerExpires
<1>3. CASE Overflows
  <2>1. phase' = "os_error" /\ UNCHANGED <<list, cb, cur, posted>>
    BY <1>3 DEF TimerExpires
  <2>2. WellKept(list', cb')
    BY <1>1, <2>1
  <2>3. PhaseOK' /\ QueueOK'
    BY <1>1, <1>2, <2>1 DEF PhaseOK, QueueOK
  <2> QED BY <2>2, <2>3, PartsInvNext
<1>4. CASE ~Overflows
  <2>1. /\ cur \in Timer
        /\ WellKept(list', cb')
        /\ AtFront(list', cb', cur') /\ cur' \in Timer \cup {NoTimer}
    BY <1>4, ExpireMeans DEF Becomes
  <2>2. phase' = phase /\ posted' = IF Len(box) < CbqSize THEN Append(posted, cur) ELSE posted
    BY <1>4 DEF TimerExpires, PostCallback
  <2>3. posted' \in Seq(Timer) /\ Len(posted') <= FifoSize
    <3>1. posted \in Seq(Timer) /\ Len(posted) <= FifoSize /\ FifoSize \in Nat
      BY <1>1, TimerConstants DEF QueueOK
    <3>2. Len(box) < CbqSize => Len(posted) # FifoSize
      BY <1>4 DEF Overflows
    <3> QED BY <2>1, <2>2, <3>1, <3>2
  <2>4. PhaseOK' /\ QueueOK'
    BY <1>1, <1>2, <2>1, <2>2, <2>3 DEF PhaseOK, QueueOK
  <2> QED BY <2>1, <2>4, PartsInvNext
<1> QED BY <1>3, <1>4

LEMMA PopInv ==
    ASSUME TimerInv, PopMessage
    PROVE  TimerInv'
<1>1. WellKept(list, cb) /\ PhaseOK /\ QueueOK
  BY InvParts
<1>2. phase = "thread" /\ posted # <<>> /\ UNCHANGED <<list, cb, cur>>
  BY DEF PopMessage
<1>3. /\ posted \in Seq(Timer) /\ Len(posted) <= FifoSize /\ FifoSize \in Nat
      /\ box \in Seq(Timer) /\ Len(box) <= CbqSize /\ CbqSize \in Nat
  BY <1>1, TimerConstants DEF QueueOK
<1>4. Head(posted) \in Timer /\ Tail(posted) \in Seq(Timer) /\ Len(Tail(posted)) <= FifoSize
  BY <1>2, <1>3
<1>5. WellKept(list', cb')
  BY <1>1, <1>2
<1>6. CASE reader.at = "waits"
  <2>1. reader' = At("fetch", Head(posted)) /\ posted' = Tail(posted) /\ UNCHANGED <<box, phase>>
    BY <1>6 DEF PopMessage
  <2>2. PhaseOK'
    BY <1>1, <1>2, <2>1 DEF PhaseOK
  <2>3. QueueOK'
    BY <1>3, <1>4, <2>1 DEF QueueOK, At
  <2> QED BY <1>5, <2>2, <2>3, PartsInvNext
<1>7. CASE reader.at # "waits"
  <2>1. StoreMessage /\ UNCHANGED reader
    BY <1>7 DEF PopMessage
  <2>2. phase' = phase \/ phase' = "os_error"
    BY <2>1 DEF StoreMessage
  <2>3. PhaseOK'
    BY <1>1, <1>2, <2>2 DEF PhaseOK
  <2>4. /\ posted' \in Seq(Timer) /\ Len(posted') <= FifoSize
        /\ box' \in Seq(Timer) /\ Len(box') <= CbqSize
    <3>1. CASE Len(box) < CbqSize
      <4>1. box' = Append(box, Head(posted)) /\ posted' = Tail(posted)
        BY <2>1, <3>1 DEF StoreMessage
      <4> QED BY <1>3, <1>4, <3>1, <4>1
    <3>2. CASE ~(Len(box) < CbqSize)
      BY <1>3, <2>1, <3>2 DEF StoreMessage
    <3> QED BY <3>1, <3>2
  <2>5. QueueOK'
    BY <1>1, <1>7, <2>1, <2>4 DEF QueueOK
  <2> QED BY <1>5, <2>3, <2>5, PartsInvNext
<1> QED BY <1>6, <1>7

LEMMA ThreadInv ==
    ASSUME TimerInv, TimerThread
    PROVE  TimerInv'
<1>1. WellKept(list, cb) /\ PhaseOK /\ QueueOK
  BY InvParts
<1>2. UNCHANGED <<list, cb, cur, phase, posted>>
  BY DEF TimerThread
<1>3. WellKept(list', cb') /\ PhaseOK'
  BY <1>1, <1>2 DEF PhaseOK
<1>4. posted' \in Seq(Timer) /\ Len(posted') <= FifoSize /\ box \in Seq(Timer)
      /\ Len(box) <= CbqSize /\ CbqSize \in Nat
  BY <1>1, <1>2, TimerConstants DEF QueueOK
<1>5. CASE reader.at = "get" /\ GetMessage
  <2>1. ASSUME box = <<>> PROVE QueueOK'
    BY <1>4, <1>5, <2>1 DEF GetMessage, QueueOK, At
  <2>2. ASSUME box # <<>> PROVE QueueOK'
    <3>1. reader' = At("fetch", Head(box)) /\ box' = Tail(box)
      BY <1>5, <2>2 DEF GetMessage
    <3>2. Head(box) \in Timer /\ Tail(box) \in Seq(Timer) /\ Len(Tail(box)) <= CbqSize
      BY <1>4, <2>2
    <3> QED BY <1>4, <3>1, <3>2 DEF QueueOK, At
  <2>3. QueueOK'
    BY <2>1, <2>2
  <2> QED BY <1>3, <2>3, PartsInvNext
<1>6. CASE reader.at = "fetch" /\ TimerCall
  <2>1. reader.timer \in Timer
    BY <1>1, <1>6 DEF QueueOK
  <2>2. QueueOK'
    BY <1>4, <1>6, <2>1 DEF TimerCall, QueueOK, At
  <2> QED BY <1>3, <2>2, PartsInvNext
<1>7. CASE reader.at = "calls" /\ reader' = At("get", NoTimer) /\ UNCHANGED box
  <2>1. QueueOK'
    BY <1>4, <1>7 DEF QueueOK, At
  <2> QED BY <1>3, <2>1, PartsInvNext
<1> QED BY <1>5, <1>6, <1>7 DEF TimerThread

LEMMA TimerStep == TimerInv /\ [TimerNext]_timerVars => TimerInv'
<1> SUFFICES ASSUME TimerInv, [TimerNext]_timerVars PROVE TimerInv'
  OBVIOUS
<1>1. CASE Svc
  BY <1>1, SvcInv
<1>2. CASE TickEnter
  BY <1>2, EnterInv
<1>3. CASE TimerExpires
  BY <1>3, ExpireInv
<1>4. CASE TickExit
  <2>1. WellKept(list, cb) /\ PhaseOK /\ QueueOK
    BY InvParts
  <2>2. /\ phase = "tick" /\ ~Expires /\ phase' = "thread" /\ cur' = NoTimer
        /\ list' = list /\ cb' = cb /\ posted' = posted /\ box' = box /\ reader' = reader
    BY <1>4 DEF TickExit, queueVars
  <2>3. WellKept(list', cb') /\ QueueOK'
    BY <2>1, <2>2 DEF QueueOK
  <2>4. PhaseOK'
    BY <2>1, <2>2 DEF PhaseOK, AtFront, Expires
  <2> QED BY <2>3, <2>4, PartsInvNext
<1>5. CASE PopMessage
  BY <1>5, PopInv
<1>6. CASE TimerThread
  BY <1>6, ThreadInv
<1>7. CASE UNCHANGED timerVars
  <2>1. WellKept(list, cb) /\ PhaseOK /\ QueueOK
    BY InvParts
  <2>2. WellKept(list', cb') /\ PhaseOK' /\ QueueOK'
    BY <1>7, <2>1 DEF timerVars, queueVars, PhaseOK, QueueOK
  <2> QED BY <2>2, PartsInvNext
<1> QED BY <1>1, <1>2, <1>3, <1>4, <1>5, <1>6, <1>7 DEF TimerNext, Handler, Die

(***************************************************************************)
(* The inductive invariant holds, for every number of timers, width of the *)
(* counts, size of the queue and of os_psq.                                *)
(***************************************************************************)
THEOREM TimerInvariance == TimerSpec => []TimerInv
  BY InitInv, TimerStep, PTL DEF TimerSpec

(***************************************************************************)
(* Every field keeps its type: tcnt and icnt stay within 16 bits, os_psq   *)
(* and the queue within their sizes.                                       *)
(***************************************************************************)
THEOREM TimerTypes == TimerSpec => []TimerTypeOK
<1>1. TimerInv => TimerTypeOK
  BY DEF TimerInv
<1> QED BY <1>1, TimerInvariance, PTL

(***************************************************************************)
(* The list has the running timers and no other, each once, and no timer   *)
(* is overdue while threads run.                                           *)
(***************************************************************************)
THEOREM TimerLists == TimerSpec => []ListOfRunning
<1>1. TimerInv => ListOfRunning
  BY DEF TimerInv
<1> QED BY <1>1, TimerInvariance, PTL
-----------------------------------------------------------------------------
(***************************************************************************)
(* The timers and their queue as TimerService sees them.                   *)
(***************************************************************************)
LEMMA LeftsAre ==
    /\ \A t \in Timer : Lefts[t] = LeftIn(list, cb, t)
    /\ \A t \in Timer : Lefts'[t] = LeftIn(list', cb', t)
<1>1. \A t \in Timer : Lefts[t] = LeftIn(list, cb, t)
  BY DEF Lefts, Left, LeftIn, Chained, PlaceOf
<1>2. \A t \in Timer : Lefts'[t] = LeftIn(list', cb', t)
  BY DEF Lefts, Left, LeftIn, Chained, PlaceOf
<1> QED BY <1>1, <1>2

\* A function of the timers that differs in one.
LEMMA Updated ==
    ASSUME NEW f, NEW g, f = [u \in Timer |-> f[u]], g = [u \in Timer |-> g[u]],
           NEW t \in Timer, NEW x, \A u \in Timer : g[u] = IF u = t THEN x ELSE f[u]
    PROVE  g = [f EXCEPT ![t] = x]
  OBVIOUS

LEMMA BecomesMaps ==
    ASSUME NEW t \in Timer, NEW state, NEW type, NEW left, NEW icnt,
           Becomes(t, state, type, left, icnt)
    PROVE  /\ States' = [States EXCEPT ![t] = state]
           /\ Types' = [Types EXCEPT ![t] = type]
           /\ Lefts' = [Lefts EXCEPT ![t] = left]
           /\ Periods' = [Periods EXCEPT ![t] = icnt]
<1>1. \A u \in Timer :
          /\ cb'[u].state = IF u = t THEN state ELSE cb[u].state
          /\ cb'[u].type = IF u = t THEN type ELSE cb[u].type
          /\ cb'[u].icnt = IF u = t THEN icnt ELSE cb[u].icnt
          /\ LeftIn(list', cb', u) = IF u = t THEN left ELSE LeftIn(list, cb, u)
  BY DEF Becomes
<1>2. States' = [States EXCEPT ![t] = state]
  BY <1>1 DEF States
<1>3. Types' = [Types EXCEPT ![t] = type]
  BY <1>1 DEF Types
<1>4. Periods' = [Periods EXCEPT ![t] = icnt]
  BY <1>1 DEF Periods
<1>5. Lefts' = [Lefts EXCEPT ![t] = left]
  <2>1. Lefts = [u \in Timer |-> Lefts[u]] /\ Lefts' = [u \in Timer |-> Lefts'[u]]
    BY DEF Lefts
  <2>2. \A u \in Timer : Lefts'[u] = IF u = t THEN left ELSE Lefts[u]
    BY <1>1, LeftsAre
  <2> QED BY <2>1, <2>2, Updated
<1> QED BY <1>2, <1>3, <1>4, <1>5

LEMMA FieldsAre ==
    /\ \A t \in Timer : /\ States[t] = cb[t].state /\ Types[t] = cb[t].type
                         /\ Periods[t] = cb[t].icnt
    /\ \A t \in Timer : /\ [States EXCEPT ![t] = cb[t].state] = States
                         /\ [Types EXCEPT ![t] = cb[t].type] = Types
                         /\ [Periods EXCEPT ![t] = cb[t].icnt] = Periods
  BY DEF States, Types, Periods

LEMMA BlocksStay ==
    ASSUME list' = list, cb' = cb
    PROVE  States' = States /\ Types' = Types /\ Lefts' = Lefts /\ Periods' = Periods
  BY DEF States, Types, Lefts, Periods, Left, Chained, PlaceOf

LEMMA InitServes == TimerInit => Service!Init
<1> SUFFICES ASSUME TimerInit PROVE Service!Init
  OBVIOUS
<1>1. /\ States = [t \in Timer |-> "invalid"] /\ Types = [t \in Timer |-> "once"]
      /\ Periods = [t \in Timer |-> 0]
  BY DEF TimerInit, States, Types, Periods
<1>2. \A t \in Timer : ~Chained(t)
  BY DEF TimerInit, Chained, ToSet
<1>3. Lefts = [t \in Timer |-> 0]
  BY <1>2 DEF Lefts, Left
<1>4. Coming = <<>> /\ Called = NoTimer
  BY DEF TimerInit, Coming, Called, At
<1> QED BY <1>1, <1>3, <1>4 DEF Service!Init

LEMMA SvcServes ==
    ASSUME TimerInv, Svc
    PROVE  Service!Next
<1>1. Coming' = Coming /\ Called' = Called
  BY DEF Svc, queueVars, Coming, Called
<1>2. PICK t \in Timer :
              \/ \E type \in {"once", "periodic"} :
                    cb[t].state = "invalid" /\ Becomes(t, "stopped", type, 0, 0)
              \/ \E n \in Ticks :
                    /\ n > 0
                    /\ \/ cb[t].state = "stopped" /\ Becomes(t, "running", cb[t].type, n, n)
                       \/ /\ cb[t].state = "running"
                          /\ Becomes(t, "running", cb[t].type, n, cb[t].icnt)
              \/ /\ cb[t].state # "invalid"
                 /\ \/ Becomes(t, "stopped", cb[t].type, 0, 0)
                    \/ Becomes(t, "invalid", cb[t].type, 0, 0)
  BY SvcMeans
<1>3. ASSUME NEW type \in {"once", "periodic"}, cb[t].state = "invalid",
             Becomes(t, "stopped", type, 0, 0)
      PROVE  Service!Next
  <2>1. Kept(list, cb, t)
    BY InvKeeps DEF WellKept
  <2>2. cb[t].icnt = 0 /\ LeftIn(list, cb, t) = 0
    BY <1>3, <2>1 DEF Kept, LeftIn
  <2>3. [Periods EXCEPT ![t] = 0] = Periods
    BY <2>2, FieldsAre
  <2>4. [Lefts EXCEPT ![t] = 0] = Lefts
    <3>1. Lefts[t] = 0
      BY <2>2, LeftsAre
    <3> QED BY <3>1 DEF Lefts
  <2>5. /\ States' = [States EXCEPT ![t] = "stopped"]
        /\ Types' = [Types EXCEPT ![t] = type]
        /\ Lefts' = Lefts /\ Periods' = Periods
    BY <1>3, <2>3, <2>4, BecomesMaps
  <2>6. Service!Create(t)
    BY <1>1, <1>3, <2>5, FieldsAre DEF Service!Create
  <2> QED BY <2>6 DEF Service!Next
<1>4. ASSUME NEW n \in Ticks, cb[t].state = "stopped", Becomes(t, "running", cb[t].type, n, n)
      PROVE  Service!Next
  <2>1. /\ States' = [States EXCEPT ![t] = "running"] /\ Types' = Types
        /\ Lefts' = [Lefts EXCEPT ![t] = n] /\ Periods' = [Periods EXCEPT ![t] = n]
    BY <1>4, BecomesMaps, FieldsAre
  <2>2. Service!Start(t, n)
    BY <1>1, <1>4, <2>1, FieldsAre DEF Service!Start, Service!Runs
  <2> QED BY <2>2 DEF Service!Next
<1>5. ASSUME NEW n \in Ticks, cb[t].state = "running",
             Becomes(t, "running", cb[t].type, n, cb[t].icnt)
      PROVE  Service!Next
  <2>1. /\ States' = [States EXCEPT ![t] = cb[t].state] /\ Types' = Types
        /\ Lefts' = [Lefts EXCEPT ![t] = n] /\ Periods' = Periods
    BY <1>5, BecomesMaps, FieldsAre
  <2>2. States' = States
    BY <2>1, FieldsAre
  <2>3. Service!Start(t, n)
    BY <1>1, <1>5, <2>1, <2>2, FieldsAre DEF Service!Start, Service!Runs
  <2> QED BY <2>3 DEF Service!Next
<1>6. ASSUME cb[t].state # "invalid", NEW state \in {"stopped", "invalid"},
             Becomes(t, state, cb[t].type, 0, 0)
      PROVE  Service!Next
  <2>1. /\ States' = [States EXCEPT ![t] = state] /\ Types' = Types
        /\ Lefts' = [Lefts EXCEPT ![t] = 0] /\ Periods' = [Periods EXCEPT ![t] = 0]
    BY <1>6, BecomesMaps, FieldsAre
  <2>2. Service!Halt(t, state)
    BY <1>1, <1>6, <2>1, FieldsAre DEF Service!Halt
  <2> QED BY <1>6, <2>2 DEF Service!Next
<1> QED BY <1>2, <1>3, <1>4, <1>5, <1>6

LEMMA EnterServes ==
    ASSUME TimerInv, TickEnter
    PROVE  Service!Next
<1>1. Coming' = Coming /\ Called' = Called
  BY DEF TickEnter, queueVars, Coming, Called
<1>2. \A u \in Timer :
         /\ cb'[u].state = cb[u].state /\ cb'[u].type = cb[u].type
         /\ cb'[u].icnt = cb[u].icnt
         /\ u \in ToSet(list) => LeftIn(list, cb, u) \in Nat /\ LeftIn(list, cb, u) > 0
         /\ LeftIn(list', cb', u) =
               IF u \in ToSet(list) THEN LeftIn(list, cb, u) - 1 ELSE 0
  BY TickMeans
<1>3. States' = States /\ Types' = Types /\ Periods' = Periods
  BY <1>2 DEF States, Types, Periods
<1>4. \A u \in Timer : u \in ToSet(list) <=> States[u] = "running"
  BY InvKeeps, FieldsAre DEF WellKept, Kept
<1>5. \A u \in Timer : States[u] = "running" => Lefts[u] > 0
  BY <1>2, <1>4, LeftsAre
<1>6. Lefts' = [u \in Timer |-> IF States[u] = "running" THEN Lefts[u] - 1 ELSE 0]
  <2>1. \A u \in Timer : Lefts'[u] = IF States[u] = "running" THEN Lefts[u] - 1 ELSE 0
    BY <1>2, <1>4, LeftsAre
  <2>2. Lefts' = [u \in Timer |-> Lefts'[u]]
    BY DEF Lefts
  <2> QED BY <2>1, <2>2
<1>7. Service!Tick
  BY <1>1, <1>3, <1>5, <1>6 DEF Service!Tick, Service!Runs
<1> QED BY <1>7 DEF Service!Next
\* What is still to come, while nobody fetches from the queue.
LEMMA ComingParts ==
    ASSUME QueueOK
    PROVE  /\ box \in Seq(Timer) /\ posted \in Seq(Timer)
           /\ reader.at # "fetch" => Coming = box \o posted
           /\ reader.at = "fetch" =>
                 /\ reader.timer \in Timer
                 /\ Coming = <<reader.timer>> \o box \o posted
           /\ Coming \in Seq(Timer)
<1>1. box \in Seq(Timer) /\ posted \in Seq(Timer)
  BY DEF QueueOK
<1>2. CASE reader.at = "fetch"
  <2>1. reader.timer \in Timer
    BY <1>2 DEF QueueOK
  <2> QED BY <1>1, <1>2, <2>1 DEF Coming
<1>3. CASE reader.at # "fetch"
  <2>1. Coming = <<>> \o box \o posted
    BY <1>3 DEF Coming
  <2>2. <<>> \o box = box
    BY <1>1
  <2>3. Coming = box \o posted
    BY <2>1, <2>2
  <2> QED BY <1>1, <1>3, <2>3
<1> QED BY <1>2, <1>3

LEMMA ExpireServes ==
    ASSUME TimerInv, TimerExpires
    PROVE  Service!Next \/ UNCHANGED Service!vars
<1>1. box' = box /\ reader' = reader
  BY DEF TimerExpires
<1>2. Called' = Called
  BY <1>1 DEF Called
<1>3. CASE Overflows
  <2>1. list' = list /\ cb' = cb /\ posted' = posted
    BY <1>3 DEF TimerExpires
  <2>2. Coming' = Coming
    BY <1>1, <2>1 DEF Coming
  <2> QED BY <1>2, <2>1, <2>2, BlocksStay DEF Service!vars
<1>4. CASE ~Overflows
  <2>1. /\ cur \in Timer /\ cb[cur].state = "running" /\ LeftIn(list, cb, cur) = 0
        /\ IF cb[cur].type = "periodic"
           THEN Becomes(cur, "running", cb[cur].type, cb[cur].icnt, cb[cur].icnt)
           ELSE Becomes(cur, "stopped", cb[cur].type, 0, 0)
    BY <1>4, ExpireMeans
  <2>2. QueueOK
    BY InvParts
  <2>3. Coming' = Append(Coming, cur) \/ (Len(Coming) >= CbqSize /\ Coming' = Coming)
    <3>1. posted' = IF Len(box) < CbqSize THEN Append(posted, cur) ELSE posted
      BY <1>4 DEF TimerExpires, PostCallback
    <3>2. CASE Len(box) < CbqSize
      <4>1. Coming' = (IF reader.at = "fetch" THEN <<reader.timer>> ELSE <<>>)
                      \o box \o Append(posted, cur)
        BY <1>1, <3>1, <3>2 DEF Coming
      <4> DEFINE a == (IF reader.at = "fetch" THEN <<reader.timer>> ELSE <<>>) \o box
      <4>2. a \in Seq(Timer) /\ posted \in Seq(Timer)
        <5>1. CASE reader.at = "fetch"
          BY <2>2, <5>1, ComingParts
        <5>2. CASE reader.at # "fetch"
          <6>1. a = <<>> \o box
            BY <5>2
          <6> QED BY <2>2, <6>1, ComingParts
        <5> QED BY <2>2, <5>1, <5>2, ComingParts
      <4>3. Coming = a \o posted /\ Coming' = a \o Append(posted, cur)
        BY <4>1 DEF Coming
      <4> HIDE DEF a
      <4>4. a \o Append(posted, cur) = Append(a \o posted, cur)
        BY <2>1, <4>2
      <4> QED BY <4>3, <4>4
    <3>3. CASE ~(Len(box) < CbqSize)
      <4>1. Coming' = Coming
        BY <1>1, <3>1, <3>3 DEF Coming
      <4>2. Len(box) >= CbqSize /\ CbqSize \in Nat
        BY <2>2, <3>3, TimerConstants, ComingParts
      <4>3. Len(Coming) >= Len(box)
        <5>1. CASE reader.at = "fetch"
          BY <2>2, <5>1, ComingParts
        <5>2. CASE reader.at # "fetch"
          BY <2>2, <5>2, ComingParts
        <5> QED BY <5>1, <5>2
      <4>4. Len(Coming) \in Nat /\ Len(box) \in Nat
        BY <2>2, ComingParts
      <4> QED BY <4>1, <4>2, <4>3, <4>4
    <3> QED BY <3>2, <3>3
  <2>4. Lefts[cur] = 0 /\ States[cur] = "running"
    BY <2>1, LeftsAre, FieldsAre
  <2>5. CASE cb[cur].type = "periodic"
    <3>1. /\ States' = States /\ Types' = Types /\ Periods' = Periods
          /\ Lefts' = [Lefts EXCEPT ![cur] = Periods[cur]]
      <4>1. /\ States' = [States EXCEPT ![cur] = cb[cur].state]
            /\ Types' = [Types EXCEPT ![cur] = cb[cur].type]
            /\ Periods' = [Periods EXCEPT ![cur] = cb[cur].icnt]
            /\ Lefts' = [Lefts EXCEPT ![cur] = cb[cur].icnt]
        BY <2>1, <2>5, BecomesMaps
      <4> QED BY <2>1, <4>1, FieldsAre
    <3>2. Service!Expire(cur)
      BY <1>2, <2>1, <2>3, <2>4, <2>5, <3>1, FieldsAre DEF Service!Expire, Service!Runs
    <3> QED BY <2>1, <3>2 DEF Service!Next
  <2>6. CASE cb[cur].type # "periodic"
    <3>1. /\ States' = [States EXCEPT ![cur] = "stopped"]
          /\ Types' = [Types EXCEPT ![cur] = cb[cur].type]
          /\ Periods' = [Periods EXCEPT ![cur] = 0]
          /\ Lefts' = [Lefts EXCEPT ![cur] = 0]
      BY <2>1, <2>6, BecomesMaps
    <3>2. Types' = Types
      BY <2>1, <3>1, FieldsAre
    <3>3. Lefts' = Lefts
      BY <2>4, <3>1 DEF Lefts
    <3>4. Service!Expire(cur)
      BY <1>2, <2>1, <2>3, <2>4, <2>6, <3>1, <3>2, <3>3, FieldsAre
         DEF Service!Expire, Service!Runs
    <3> QED BY <2>1, <3>4 DEF Service!Next
  <2> QED BY <2>5, <2>6
<1> QED BY <1>3, <1>4

LEMMA PopServes ==
    ASSUME TimerInv, PopMessage
    PROVE  UNCHANGED Service!vars
<1>1. QueueOK /\ QueueOK'
  <2>1. TimerInv'
    BY PopInv
  <2>2. TimerInv' => QueueOK'
    BY InvParts, PTL
  <2> QED BY <2>1, <2>2, InvParts
<1>2. posted # <<>> /\ list' = list /\ cb' = cb
  BY DEF PopMessage
<1>3. /\ box \in Seq(Timer) /\ posted \in Seq(Timer)
  BY <1>1, ComingParts
<1>4. posted = <<Head(posted)>> \o Tail(posted) /\ Head(posted) \in Timer
      /\ Tail(posted) \in Seq(Timer)
  BY <1>2, <1>3
<1>5. CASE reader.at = "waits"
  <2>1. /\ reader' = At("fetch", Head(posted)) /\ posted' = Tail(posted) /\ box' = box
    BY <1>5 DEF PopMessage
  <2>2. box = <<>>
    BY <1>1, <1>5 DEF QueueOK
  <2>3. Coming = <<>> \o <<>> \o posted
    BY <1>5, <2>2 DEF Coming
  <2>4. Coming' = <<Head(posted)>> \o <<>> \o Tail(posted)
    BY <2>1, <2>2 DEF Coming, At
  <2>5. Coming' = Coming
    BY <1>3, <1>4, <2>3, <2>4
  <2>6. Called' = Called
    BY <1>5, <2>1 DEF Called, At
  <2> QED BY <1>2, <2>5, <2>6, BlocksStay DEF Service!vars
<1>6. CASE reader.at # "waits"
  <2>1. StoreMessage /\ reader' = reader
    BY <1>6 DEF PopMessage
  <2>2. Called' = Called
    BY <2>1 DEF Called
  <2>3. CASE Len(box) < CbqSize
    <3>1. box' = Append(box, Head(posted)) /\ posted' = Tail(posted)
      BY <2>1, <2>3 DEF StoreMessage
    <3>2. CASE reader.at = "fetch"
      <4>1. /\ Coming = <<reader.timer>> \o box \o posted /\ reader.timer \in Timer
            /\ Coming' = <<reader.timer>> \o Append(box, Head(posted)) \o Tail(posted)
        BY <1>1, <2>1, <3>1, <3>2, ComingParts DEF Coming
      <4>2. <<reader.timer>> \o box \o (<<Head(posted)>> \o Tail(posted))
            = <<reader.timer>> \o Append(box, Head(posted)) \o Tail(posted)
        BY <1>3, <1>4, <4>1
      <4>3. Coming' = Coming
        BY <1>4, <4>1, <4>2
      <4> QED BY <1>2, <2>2, <4>3, BlocksStay DEF Service!vars
    <3>3. CASE reader.at # "fetch"
      <4>1. /\ Coming = <<>> \o box \o posted
            /\ Coming' = <<>> \o Append(box, Head(posted)) \o Tail(posted)
        BY <2>1, <3>1, <3>3 DEF Coming
      <4>2. <<>> \o box \o (<<Head(posted)>> \o Tail(posted))
            = <<>> \o Append(box, Head(posted)) \o Tail(posted)
        BY <1>3, <1>4
      <4>3. Coming' = Coming
        BY <1>4, <4>1, <4>2
      <4> QED BY <1>2, <2>2, <4>3, BlocksStay DEF Service!vars
    <3> QED BY <3>2, <3>3
  <2>4. CASE ~(Len(box) < CbqSize)
    <3>1. box' = box /\ posted' = posted
      BY <2>1, <2>4 DEF StoreMessage
    <3>2. Coming' = Coming
      BY <2>1, <3>1 DEF Coming
    <3> QED BY <1>2, <2>2, <3>2, BlocksStay DEF Service!vars
  <2> QED BY <2>3, <2>4
<1> QED BY <1>5, <1>6

LEMMA ThreadServes ==
    ASSUME TimerInv, TimerThread
    PROVE  Service!Next \/ UNCHANGED Service!vars
<1>1. QueueOK
  BY InvParts
<1>2. list' = list /\ cb' = cb /\ posted = <<>> /\ posted' = posted
  BY DEF TimerThread, InThread
<1>3. /\ States' = States /\ Types' = Types /\ Lefts' = Lefts /\ Periods' = Periods
  BY <1>2, BlocksStay
<1>4. box \in Seq(Timer)
  BY <1>1, ComingParts
<1>5. CASE reader.at = "get" /\ GetMessage
  <2>1. Coming = <<>> \o box \o <<>> /\ Called = NoTimer
    BY <1>2, <1>5 DEF Coming, Called
  <2>2. CASE box = <<>>
    <3>1. reader' = At("waits", NoTimer) /\ box' = box
      BY <1>5, <2>2 DEF GetMessage
    <3>2. Coming' = Coming /\ Called' = Called
      BY <1>2, <1>5, <3>1 DEF Coming, Called, At
    <3> QED BY <1>3, <3>2 DEF Service!vars
  <2>3. CASE box # <<>>
    <3>1. reader' = At("fetch", Head(box)) /\ box' = Tail(box)
      BY <1>5, <2>3 DEF GetMessage
    <3>2. Coming' = <<Head(box)>> \o Tail(box) \o <<>> /\ Called' = NoTimer
      BY <1>2, <3>1 DEF Coming, Called, At
    <3>3. <<Head(box)>> \o Tail(box) \o <<>> = <<>> \o box \o <<>>
      BY <1>4, <2>3
    <3> QED BY <1>3, <2>1, <3>2, <3>3 DEF Service!vars
  <2> QED BY <2>2, <2>3
<1>6. CASE reader.at = "fetch" /\ TimerCall
  <2>1. reader' = At("calls", reader.timer) /\ box' = box
    BY <1>6 DEF TimerCall
  <2>2. reader.timer \in Timer /\ Coming = <<reader.timer>> \o box \o <<>>
    BY <1>1, <1>2, <1>6, ComingParts
  <2>3. Coming' = <<>> \o box \o <<>> /\ Called = NoTimer /\ Called' = reader.timer
    BY <1>2, <1>6, <2>1 DEF Coming, Called, At
  <2>4. Coming # <<>> /\ Head(Coming) = reader.timer /\ Tail(Coming) = Coming'
    BY <1>4, <2>2, <2>3
  <2>5. Service!Call
    BY <1>3, <2>3, <2>4 DEF Service!Call
  <2> QED BY <2>5 DEF Service!Next
<1>7. CASE reader.at = "calls" /\ reader' = At("get", NoTimer) /\ UNCHANGED box
  <2>1. reader.timer \in Timer
    BY <1>1, <1>7 DEF QueueOK
  <2>2. Called # NoTimer /\ Called' = NoTimer /\ Coming' = Coming
    BY <1>2, <1>7, <2>1, TimerConstants DEF Coming, Called, At
  <2>3. Service!Return
    BY <1>3, <2>2 DEF Service!Return
  <2> QED BY <2>3 DEF Service!Next
<1> QED BY <1>5, <1>6, <1>7 DEF TimerThread

LEMMA StepServes == TimerInv /\ [TimerNext]_timerVars => [Service!Next]_(Service!vars)
<1> SUFFICES ASSUME TimerInv, [TimerNext]_timerVars
             PROVE  Service!Next \/ UNCHANGED Service!vars
  OBVIOUS
<1>1. CASE Svc
  BY <1>1, SvcServes
<1>2. CASE TickEnter
  BY <1>2, EnterServes
<1>3. CASE TimerExpires
  BY <1>3, ExpireServes
<1>4. CASE TickExit
  <2>1. list' = list /\ cb' = cb /\ posted' = posted /\ box' = box /\ reader' = reader
    BY <1>4 DEF TickExit, queueVars
  <2>2. Coming' = Coming /\ Called' = Called
    BY <2>1 DEF Coming, Called
  <2> QED BY <2>1, <2>2, BlocksStay DEF Service!vars
<1>5. CASE PopMessage
  BY <1>5, PopServes
<1>6. CASE TimerThread
  BY <1>6, ThreadServes
<1>7. CASE UNCHANGED timerVars
  <2>1. list' = list /\ cb' = cb /\ posted' = posted /\ box' = box /\ reader' = reader
    BY <1>7 DEF timerVars, queueVars
  <2>2. Coming' = Coming /\ Called' = Called
    BY <2>1 DEF Coming, Called
  <2> QED BY <2>1, <2>2, BlocksStay DEF Service!vars
<1> QED BY <1>1, <1>2, <1>3, <1>4, <1>5, <1>6, <1>7 DEF TimerNext, Handler, Die

(***************************************************************************)
(* The list of 16-bit differences, the loop of the tick, os_psq, the queue *)
(* and the timer thread keep what TimerService promises: a timer expires   *)
(* when its ticks have passed, and each expiry calls its callback once and *)
(* in order, unless CbqSize of them wait.                                  *)
(***************************************************************************)
THEOREM TimersServe == TimerSpec => ServiceSpec
<1>1. TimerInit => Service!Init
  BY InitServes
<1>2. TimerInv /\ [TimerNext]_timerVars => [Service!Next]_(Service!vars)
  BY StepServes
<1> QED BY <1>1, <1>2, TimerInvariance, PTL DEF TimerSpec, ServiceSpec, Service!Spec
=============================================================================
