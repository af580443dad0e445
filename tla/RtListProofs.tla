---------------------------- MODULE RtListProofs ----------------------------
(***************************************************************************)
(* What the list operations of RtList return, for every list.              *)
(***************************************************************************)
EXTENDS RtList, SequenceTheorems, WellFoundedInduction, TLAPS

\* A non-empty set of natural numbers has a least element, which Min names.
LEMMA MinProperties ==
    ASSUME NEW S \in SUBSET Nat, S # {}
    PROVE  /\ Min(S) \in S
           /\ \A x \in S : Min(S) <= x
<1>1. \E x \in S : \A y \in S : ~(<<y, x>> \in OpToRel(<, Nat))
  BY NatLessThanWellFounded, WFMin
<1>2. PICK x \in S : \A y \in S : ~(<<y, x>> \in OpToRel(<, Nat))
  BY <1>1
<1>3. \A y \in S : x <= y
  <2>1. ASSUME NEW y \in S, y < x PROVE FALSE
    <3>1. <<y, x>> \in OpToRel(<, Nat)
      BY <2>1, Zenon DEF OpToRel
    <3> QED BY <3>1, <1>2
  <2> QED BY <2>1
<1> QED
  BY <1>3 DEF Min

\* Induction, over a set of numbers.
LEMMA AllNumbers ==
    ASSUME NEW S \in SUBSET Nat, 0 \in S, \A n \in S : n + 1 \in S
    PROVE  S = Nat
<1> DEFINE R == Nat \ S
<1> SUFFICES ASSUME R # {} PROVE FALSE
  OBVIOUS
<1>1. Min(R) \in R /\ \A x \in R : Min(R) <= x
  BY MinProperties
<1>2. PICK m \in R : \A x \in R : m <= x
  BY <1>1
<1>3. m \in Nat /\ m # 0 /\ m - 1 \in Nat
  BY <1>2
<1>4. m - 1 \in S
  BY <1>2, <1>3
<1> QED BY <1>2, <1>3, <1>4

(***************************************************************************)
(* The elements of a concatenation, with the second list's renumbered.     *)
(***************************************************************************)
LEMMA ConcatElements ==
    ASSUME NEW T, NEW a \in Seq(T), NEW b \in Seq(T)
    PROVE  /\ a \o b \in Seq(T)
           /\ Len(a \o b) = Len(a) + Len(b)
           /\ \A i \in 1 .. Len(a) : (a \o b)[i] = a[i]
           /\ \A i \in 1 .. Len(b) : (a \o b)[Len(a) + i] = b[i]
  BY ConcatProperties

(***************************************************************************)
(* InsertAt keeps what precedes position p and moves the rest by one.      *)
(***************************************************************************)
LEMMA InsertAtElements ==
    ASSUME NEW T, NEW q \in Seq(T), NEW t \in T, NEW p \in 1 .. Len(q) + 1
    PROVE  /\ InsertAt(q, p, t) \in Seq(T)
           /\ Len(InsertAt(q, p, t)) = Len(q) + 1
           /\ \A i \in 1 .. Len(q) + 1 :
                 InsertAt(q, p, t)[i] =
                    IF i < p THEN q[i] ELSE IF i = p THEN t ELSE q[i - 1]
<1> DEFINE a == SubSeq(q, 1, p - 1)
           b == SubSeq(q, p, Len(q))
           c == <<t>>
           r == (a \o c) \o b
<1>1. Len(q) \in Nat /\ p - 1 \in Nat
  OBVIOUS
<1>2. /\ a \in Seq(T)
      /\ Len(a) = p - 1
      /\ \A i \in 1 .. p - 1 : a[i] = q[i]
  OBVIOUS
<1>3. /\ b \in Seq(T)
      /\ Len(b) = Len(q) + 1 - p
      /\ \A i \in 1 .. Len(q) + 1 - p : b[i] = q[p + i - 1]
  OBVIOUS
<1>4. c \in Seq(T) /\ Len(c) = 1 /\ c[1] = t
  OBVIOUS
<1> HIDE DEF a, b, c
<1>5. /\ a \o c \in Seq(T)
      /\ Len(a \o c) = p
      /\ \A i \in 1 .. p - 1 : (a \o c)[i] = a[i]
      /\ (a \o c)[p] = t
  <2>1. /\ a \o c \in Seq(T)
        /\ Len(a \o c) = Len(a) + Len(c)
        /\ \A i \in 1 .. Len(a) : (a \o c)[i] = a[i]
        /\ \A i \in 1 .. Len(c) : (a \o c)[Len(a) + i] = c[i]
    <3>1. a \in Seq(T) /\ c \in Seq(T)
      BY <1>2, <1>4
    <3> QED
      BY <3>1, ConcatElements
  <2>2. (a \o c)[Len(a) + 1] = t
    BY <2>1, <1>4
  <2>3. Len(a) + 1 = p /\ Len(a) + Len(c) = p
    BY <1>2, <1>4
  <2> QED
    BY <1>2, <2>1, <2>2, <2>3
<1>6. /\ r \in Seq(T)
      /\ Len(r) = p + Len(b)
      /\ \A i \in 1 .. p : r[i] = (a \o c)[i]
      /\ \A i \in 1 .. Len(b) : r[p + i] = b[i]
  <2>1. a \o c \in Seq(T) /\ b \in Seq(T)
    BY <1>3, <1>5
  <2>2. /\ r \in Seq(T)
        /\ Len(r) = Len(a \o c) + Len(b)
        /\ \A i \in 1 .. Len(a \o c) : r[i] = (a \o c)[i]
        /\ \A i \in 1 .. Len(b) : r[Len(a \o c) + i] = b[i]
    BY <2>1, ConcatElements
  <2> QED
    BY <1>5, <2>2
<1> HIDE DEF r
<1>7. ASSUME NEW i \in 1 .. Len(q) + 1
      PROVE  r[i] = IF i < p THEN q[i] ELSE IF i = p THEN t ELSE q[i - 1]
  <2>1. CASE i <= p
    BY <2>1, <1>1, <1>2, <1>5, <1>6
  <2>2. CASE i > p
    <3>1. i - p \in 1 .. Len(b) /\ p + (i - p) = i /\ p + (i - p) - 1 = i - 1
      BY <2>2, <1>1, <1>3
    <3>2. r[p + (i - p)] = b[i - p] /\ b[i - p] = q[p + (i - p) - 1]
      BY <3>1, <1>3, <1>6
    <3>3. r[i] = q[i - 1]
      BY <3>1, <3>2
    <3> QED
      BY <2>2, <3>3
  <2> QED
    BY <2>1, <2>2
<1>8. InsertAt(q, p, t) = r
  BY DEF InsertAt, a, b, c, r
<1>9. Len(r) = Len(q) + 1
  BY <1>1, <1>3, <1>6
<1> QED
  BY <1>6, <1>7, <1>8, <1>9

(***************************************************************************)
(* RemoveAt keeps what precedes position p and moves the rest by one.      *)
(***************************************************************************)
LEMMA RemoveAtElements ==
    ASSUME NEW T, NEW q \in Seq(T), NEW p \in 1 .. Len(q)
    PROVE  /\ RemoveAt(q, p) \in Seq(T)
           /\ Len(RemoveAt(q, p)) = Len(q) - 1
           /\ \A i \in 1 .. Len(q) - 1 :
                 RemoveAt(q, p)[i] = IF i < p THEN q[i] ELSE q[i + 1]
<1> DEFINE a == SubSeq(q, 1, p - 1)
           b == SubSeq(q, p + 1, Len(q))
           r == a \o b
<1>1. Len(q) \in Nat /\ p - 1 \in Nat
  OBVIOUS
<1>2. /\ a \in Seq(T)
      /\ Len(a) = p - 1
      /\ \A i \in 1 .. p - 1 : a[i] = q[i]
  OBVIOUS
<1>3. /\ b \in Seq(T)
      /\ Len(b) = Len(q) - p
      /\ \A i \in 1 .. Len(q) - p : b[i] = q[p + i]
  OBVIOUS
<1> HIDE DEF a, b
<1>4. /\ r \in Seq(T)
      /\ Len(r) = (p - 1) + Len(b)
      /\ \A i \in 1 .. p - 1 : r[i] = a[i]
      /\ \A i \in 1 .. Len(b) : r[(p - 1) + i] = b[i]
  <2>1. a \in Seq(T) /\ b \in Seq(T)
    BY <1>2, <1>3
  <2>2. /\ r \in Seq(T)
        /\ Len(r) = Len(a) + Len(b)
        /\ \A i \in 1 .. Len(a) : r[i] = a[i]
        /\ \A i \in 1 .. Len(b) : r[Len(a) + i] = b[i]
    BY <2>1, ConcatElements
  <2> QED
    BY <1>2, <2>2
<1> HIDE DEF r
<1>5. ASSUME NEW i \in 1 .. Len(q) - 1
      PROVE  r[i] = IF i < p THEN q[i] ELSE q[i + 1]
  <2>1. CASE i < p
    BY <2>1, <1>1, <1>2, <1>4
  <2>2. CASE i >= p
    <3>1. /\ i - p + 1 \in 1 .. Len(b)
          /\ (p - 1) + (i - p + 1) = i
          /\ p + (i - p + 1) = i + 1
      BY <2>2, <1>1, <1>3
    <3>2. /\ r[(p - 1) + (i - p + 1)] = b[i - p + 1]
          /\ b[i - p + 1] = q[p + (i - p + 1)]
      BY <3>1, <1>3, <1>4
    <3>3. r[i] = q[i + 1]
      BY <3>1, <3>2
    <3> QED
      BY <2>2, <3>3
  <2> QED
    BY <2>1, <2>2
<1>6. RemoveAt(q, p) = r
  BY DEF RemoveAt, a, b, r
<1>7. Len(r) = Len(q) - 1
  BY <1>1, <1>3, <1>4
<1> QED
  BY <1>4, <1>5, <1>6, <1>7

-----------------------------------------------------------------------------
\* The walk of an insertion ends in front of the first stop, or at the end.
LEMMA StopAtProperties ==
    ASSUME NEW T, NEW q \in Seq(T), NEW stops \in SUBSET DOMAIN q
    PROVE  /\ StopAt(q, stops) \in 1 .. Len(q) + 1
           /\ \A i \in stops : StopAt(q, stops) <= i
           /\ StopAt(q, stops) # Len(q) + 1 => StopAt(q, stops) \in stops
<1>1. DOMAIN q = 1 .. Len(q) /\ Len(q) \in Nat
  OBVIOUS
<1>2. CASE stops = {}
  BY <1>1, <1>2 DEF StopAt
<1>3. CASE stops # {}
  <2>1. stops \in SUBSET Nat
    BY <1>1
  <2>2. Min(stops) \in stops /\ \A x \in stops : Min(stops) <= x
    BY <1>3, <2>1, MinProperties
  <2> QED
    BY <1>1, <1>3, <2>2 DEF StopAt
<1> QED
  BY <1>2, <1>3

(***************************************************************************)
(* A list r that is q with t in front of its p-th element: its members,    *)
(* and whether one of them is there twice.                                 *)
(***************************************************************************)
LEMMA SpliceMembers ==
    ASSUME NEW T, NEW q \in Seq(T), NEW r \in Seq(T), NEW t \in T,
           NEW p \in 1 .. Len(q) + 1,
           Len(r) = Len(q) + 1,
           \A i \in 1 .. Len(q) + 1 :
               r[i] = IF i < p THEN q[i] ELSE IF i = p THEN t ELSE q[i - 1]
    PROVE  /\ ToSet(r) = ToSet(q) \cup {t}
           /\ Distinct(q) /\ t \notin ToSet(q) => Distinct(r)
<1>1. /\ DOMAIN q = 1 .. Len(q) /\ DOMAIN r = 1 .. Len(q) + 1
      /\ Len(q) \in Nat
  OBVIOUS
<1>2. ASSUME NEW i \in 1 .. Len(q) PROVE q[i] \in ToSet(r)
  <2>1. CASE i < p
    <3>1. r[i] = q[i]
      BY <2>1, <1>1
    <3> QED BY <3>1, <1>1 DEF ToSet
  <2>2. CASE ~(i < p)
    <3>1. i + 1 \in 1 .. Len(q) + 1 /\ ~(i + 1 < p) /\ i + 1 # p /\ (i + 1) - 1 = i
      BY <2>2, <1>1
    <3>2. r[i + 1] = q[i]
      BY <3>1
    <3> QED BY <3>1, <3>2, <1>1 DEF ToSet
  <2> QED BY <2>1, <2>2
<1>3. t \in ToSet(r)
  <2>1. r[p] = t
    OBVIOUS
  <2> QED BY <2>1, <1>1 DEF ToSet
<1>4. ASSUME NEW i \in 1 .. Len(q) + 1 PROVE r[i] \in ToSet(q) \cup {t}
  <2>1. CASE i < p
    BY <2>1, <1>1 DEF ToSet
  <2>2. CASE i = p
    BY <2>2
  <2>3. CASE i > p
    <3>1. i - 1 \in 1 .. Len(q) /\ r[i] = q[i - 1]
      BY <2>3, <1>1
    <3> QED BY <3>1, <1>1 DEF ToSet
  <2> QED BY <2>1, <2>2, <2>3
<1>5. ToSet(r) = ToSet(q) \cup {t}
  <2>1. \A x \in ToSet(q) : x \in ToSet(r)
    BY <1>1, <1>2 DEF ToSet
  <2>2. \A x \in ToSet(r) : x \in ToSet(q) \cup {t}
    BY <1>1, <1>4 DEF ToSet
  <2> QED BY <2>1, <2>2, <1>3
<1>6. ASSUME NEW i \in 1 .. Len(q) + 1, i # p
      PROVE  \E m \in 1 .. Len(q) :
               r[i] = q[m] /\ ((i < p /\ m = i) \/ (i > p /\ m = i - 1))
  <2>1. CASE i < p
    <3>1. i \in 1 .. Len(q) /\ r[i] = q[i]
      BY <2>1, <1>1
    <3> QED BY <3>1, <2>1
  <2>2. CASE i > p
    <3>1. i - 1 \in 1 .. Len(q) /\ r[i] = q[i - 1]
      BY <2>2, <1>1
    <3> QED BY <3>1, <2>2
  <2> QED BY <2>1, <2>2, <1>6, <1>1
<1>7. Distinct(q) /\ t \notin ToSet(q) => Distinct(r)
  <2> SUFFICES ASSUME Distinct(q), t \notin ToSet(q),
                      NEW i \in 1 .. Len(q) + 1, NEW j \in 1 .. Len(q) + 1, r[i] = r[j]
               PROVE  i = j
    BY <1>1 DEF Distinct
  <2>1. \A m \in 1 .. Len(q) : q[m] # t
    BY <1>1 DEF ToSet
  <2>2. \A m, n \in 1 .. Len(q) : q[m] = q[n] => m = n
    BY <1>1 DEF Distinct
  <2>3. r[p] = t
    OBVIOUS
  <2>4. CASE i = p \/ j = p
    BY <2>4, <2>3, <2>1, <1>6
  <2>5. CASE i # p /\ j # p
    <3>1. PICK m \in 1 .. Len(q) :
               r[i] = q[m] /\ ((i < p /\ m = i) \/ (i > p /\ m = i - 1))
      BY <2>5, <1>6
    <3>2. PICK n \in 1 .. Len(q) :
               r[j] = q[n] /\ ((j < p /\ n = j) \/ (j > p /\ n = j - 1))
      BY <2>5, <1>6
    <3>3. q[m] = q[n]
      BY <3>1, <3>2, Zenon
    <3>4. m = n
      BY <3>3, <2>2, Zenon
    <3> QED BY <3>1, <3>2, <3>4, <1>1
  <2> QED BY <2>4, <2>5
<1> QED BY <1>5, <1>7

(***************************************************************************)
(* The order of that list r, by any key: it rises if q does and t is not   *)
(* below what comes before it nor above what comes behind it.              *)
(***************************************************************************)
LEMMA SpliceRising ==
    ASSUME NEW T, NEW q \in Seq(T), NEW r \in Seq(T), NEW t \in T,
           NEW key \in [T -> Int],
           NEW p \in 1 .. Len(q) + 1,
           Len(r) = Len(q) + 1,
           \A i \in 1 .. Len(q) + 1 :
               r[i] = IF i < p THEN q[i] ELSE IF i = p THEN t ELSE q[i - 1],
           Rising(q, key),
           \A i \in 1 .. Len(q) : i < p => key[q[i]] <= key[t],
           p # Len(q) + 1 => key[t] <= key[q[p]]
    PROVE  Rising(r, key)
<1>1. /\ DOMAIN q = 1 .. Len(q) /\ DOMAIN r = 1 .. Len(q) + 1
      /\ Len(q) \in Nat
  OBVIOUS
<1>2. \A m, n \in 1 .. Len(q) : m < n => key[q[m]] <= key[q[n]]
  BY <1>1 DEF Rising
<1>3. \A m \in 1 .. Len(q) : key[q[m]] \in Int
  OBVIOUS
<1>4. ASSUME NEW m \in 1 .. Len(q), m >= p PROVE key[t] <= key[q[m]]
  <2>1. p \in 1 .. Len(q) /\ key[t] <= key[q[p]]
    BY <1>1, <1>4
  <2>2. CASE m = p
    BY <2>1, <2>2
  <2>3. CASE p < m
    <3>1. key[q[p]] <= key[q[m]]
      BY <2>1, <2>3, <1>2
    <3>2. key[q[p]] \in Int /\ key[q[m]] \in Int /\ key[t] \in Int
      BY <2>1, <1>3
    <3> QED BY <2>1, <3>1, <3>2, SMTT(30)
  <2> QED BY <1>4, <2>1, <2>2, <2>3
<1>10. ASSUME NEW m \in 1 .. Len(q) + 1, m < p
       PROVE  m \in 1 .. Len(q) /\ r[m] = q[m]
  BY <1>1, <1>10
<1>11. ASSUME NEW m \in 1 .. Len(q) + 1, p < m
       PROVE  m - 1 \in 1 .. Len(q) /\ r[m] = q[m - 1]
  BY <1>1, <1>11
<1> SUFFICES ASSUME NEW i \in 1 .. Len(q) + 1, NEW j \in 1 .. Len(q) + 1, i < j
             PROVE  key[r[i]] <= key[r[j]]
  BY <1>1 DEF Rising
<1>5. CASE j < p
  <2>1. i \in 1 .. Len(q) /\ j \in 1 .. Len(q) /\ r[i] = q[i] /\ r[j] = q[j]
    BY <1>5, <1>1
  <2> QED BY <2>1, <1>2
<1>6. CASE j = p
  <2>1. i \in 1 .. Len(q) /\ r[i] = q[i] /\ r[j] = t
    BY <1>6, <1>1
  <2> QED BY <2>1, <1>6
<1>7. CASE i = p
  <2>1. j - 1 \in 1 .. Len(q) /\ j - 1 >= p /\ r[j] = q[j - 1] /\ r[i] = t
    BY <1>7, <1>1
  <2> QED BY <2>1, <1>4
<1>8. CASE i < p /\ p < j
  <2>1. /\ i \in 1 .. Len(q) /\ r[i] = q[i]
        /\ j - 1 \in 1 .. Len(q) /\ r[j] = q[j - 1] /\ i < j - 1
    <3>1. i \in 1 .. Len(q) /\ r[i] = q[i]
      BY <1>8, <1>10
    <3>2. j - 1 \in 1 .. Len(q) /\ r[j] = q[j - 1]
      BY <1>8, <1>11
    <3>3. i < j - 1
      BY <1>8, <1>1
    <3> QED BY <3>1, <3>2, <3>3
  <2> QED BY <2>1, <1>2
<1>9. CASE p < i
  <2>1. /\ i - 1 \in 1 .. Len(q) /\ r[i] = q[i - 1]
        /\ j - 1 \in 1 .. Len(q) /\ r[j] = q[j - 1] /\ i - 1 < j - 1
    <3>0. i \in Int /\ j \in Int /\ p \in Int /\ i < j
      BY <1>1
    <3>1. p < j /\ i - 1 < j - 1
      BY ONLY <3>0, <1>9, Z3
    <3>2. i - 1 \in 1 .. Len(q) /\ r[i] = q[i - 1]
      BY <1>9, <1>11
    <3>3. j - 1 \in 1 .. Len(q) /\ r[j] = q[j - 1]
      BY <3>1, <1>11
    <3> QED BY <3>1, <3>2, <3>3
  <2> QED BY <2>1, <1>2
<1> QED BY <1>5, <1>6, <1>7, <1>8, <1>9, <1>1

-----------------------------------------------------------------------------
\* A list ordered by priority rises by the negated priority.
LEMMA OrderedIsRising ==
    ASSUME NEW T, NEW q \in Seq(T), NEW prio \in [T -> Nat],
           NEW key \in [T -> Int], \A x \in T : key[x] = 0 - prio[x]
    PROVE  Ordered(q, prio) <=> Rising(q, key)
<1>1. \A i \in DOMAIN q : q[i] \in T
  OBVIOUS
<1>2. \A i, j \in DOMAIN q : prio[q[i]] >= prio[q[j]] <=> key[q[i]] <= key[q[j]]
  BY <1>1
<1> QED BY <1>2 DEF Ordered, Rising

(***************************************************************************)
(* rt_put_prio: the thread is added, once, and the order is kept.          *)
(***************************************************************************)
THEOREM PutPrioCorrect ==
    ASSUME NEW T, NEW q \in Seq(T), NEW t \in T, NEW prio \in [T -> Nat]
    PROVE  /\ PutPrio(q, t, prio) \in Seq(T)
           /\ ToSet(PutPrio(q, t, prio)) = ToSet(q) \cup {t}
           /\ Ordered(q, prio) => Ordered(PutPrio(q, t, prio), prio)
           /\ Distinct(q) /\ t \notin ToSet(q) => Distinct(PutPrio(q, t, prio))
<1> DEFINE stops == {i \in DOMAIN q : prio[q[i]] < prio[t]}
           p == StopAt(q, stops)
           r == InsertAt(q, p, t)
           key == [x \in T |-> 0 - prio[x]]
<1>1. PutPrio(q, t, prio) = r
  BY DEF PutPrio, InsertBefore
<1>2. stops \in SUBSET DOMAIN q /\ DOMAIN q = 1 .. Len(q) /\ Len(q) \in Nat
  OBVIOUS
<1>3. \A i \in 1 .. Len(q) : i \in stops <=> prio[q[i]] < prio[t]
  BY <1>2
<1>4. key \in [T -> Int] /\ \A x \in T : key[x] = 0 - prio[x]
  OBVIOUS
<1> HIDE DEF stops, key
<1>5. /\ p \in 1 .. Len(q) + 1
      /\ \A i \in stops : p <= i
      /\ p # Len(q) + 1 => p \in stops
  BY <1>2, StopAtProperties
<1> HIDE DEF p
<1>6. /\ r \in Seq(T)
      /\ Len(r) = Len(q) + 1
      /\ \A i \in 1 .. Len(q) + 1 :
            r[i] = IF i < p THEN q[i] ELSE IF i = p THEN t ELSE q[i - 1]
  BY <1>5, InsertAtElements
<1> HIDE DEF r
<1>7. /\ ToSet(r) = ToSet(q) \cup {t}
      /\ Distinct(q) /\ t \notin ToSet(q) => Distinct(r)
  BY <1>5, <1>6, SpliceMembers
<1>8. \A i \in 1 .. Len(q) : i < p => key[q[i]] <= key[t]
  <2> SUFFICES ASSUME NEW i \in 1 .. Len(q), i < p PROVE key[q[i]] <= key[t]
    OBVIOUS
  <2>1. ~(prio[q[i]] < prio[t])
    BY <1>2, <1>3, <1>5
  <2>2. q[i] \in T
    OBVIOUS
  <2> QED BY <2>1, <2>2, <1>4
<1>9. p # Len(q) + 1 => key[t] <= key[q[p]]
  <2> SUFFICES ASSUME p # Len(q) + 1 PROVE key[t] <= key[q[p]]
    OBVIOUS
  <2>1. p \in 1 .. Len(q) /\ prio[q[p]] < prio[t]
    BY <1>2, <1>3, <1>5
  <2>2. q[p] \in T
    BY <2>1
  <2> QED BY <2>1, <2>2, <1>4
<1>10. Rising(q, key) => Rising(r, key)
  BY <1>4, <1>5, <1>6, <1>8, <1>9, SpliceRising
<1>11. Ordered(q, prio) => Ordered(r, prio)
  <2>1. Ordered(q, prio) <=> Rising(q, key)
    BY <1>4, OrderedIsRising
  <2>2. Ordered(r, prio) <=> Rising(r, key)
    BY <1>4, <1>6, OrderedIsRising
  <2> QED BY <2>1, <2>2, <1>10
<1> QED BY <1>1, <1>6, <1>7, <1>11

(***************************************************************************)
(* rt_put_dly: the thread is added, once, where it is due.                 *)
(***************************************************************************)
THEOREM PutDlyCorrect ==
    ASSUME NEW T, NEW q \in Seq(T), NEW t \in T, t \notin ToSet(q),
           NEW rem \in [T -> Nat], NEW key \in [T -> Nat],
           \A x \in T : x # t => key[x] = rem[x]
    PROVE  /\ PutDly(q, t, key[t], rem) \in Seq(T)
           /\ ToSet(PutDly(q, t, key[t], rem)) = ToSet(q) \cup {t}
           /\ Distinct(q) => Distinct(PutDly(q, t, key[t], rem))
           /\ Rising(q, rem) => Rising(PutDly(q, t, key[t], rem), key)
<1> DEFINE n == key[t]
           stops == {i \in DOMAIN q : rem[q[i]] >= n}
           p == StopAt(q, stops)
           r == InsertAt(q, p, t)
<1>1. PutDly(q, t, key[t], rem) = r
  BY DEF PutDly, InsertBefore
<1>2. stops \in SUBSET DOMAIN q /\ DOMAIN q = 1 .. Len(q) /\ Len(q) \in Nat
  OBVIOUS
<1>3. \A i \in 1 .. Len(q) : i \in stops <=> rem[q[i]] >= n
  BY <1>2
<1>4. \A i \in 1 .. Len(q) : q[i] \in T /\ q[i] # t
  BY <1>2 DEF ToSet
<1> HIDE DEF stops
<1>6. /\ p \in 1 .. Len(q) + 1
      /\ \A i \in stops : p <= i
      /\ p # Len(q) + 1 => p \in stops
  BY <1>2, StopAtProperties
<1> HIDE DEF p
<1>7. /\ r \in Seq(T)
      /\ Len(r) = Len(q) + 1
      /\ \A i \in 1 .. Len(q) + 1 :
            r[i] = IF i < p THEN q[i] ELSE IF i = p THEN t ELSE q[i - 1]
  BY <1>6, InsertAtElements
<1> HIDE DEF r
<1>8. /\ ToSet(r) = ToSet(q) \cup {t}
      /\ Distinct(q) /\ t \notin ToSet(q) => Distinct(r)
  BY <1>6, <1>7, SpliceMembers
<1>9. ASSUME Rising(q, rem) PROVE Rising(r, key)
  <2>1. \A i \in 1 .. Len(q) : i < p => key[q[i]] <= key[t]
    <3> SUFFICES ASSUME NEW i \in 1 .. Len(q), i < p PROVE key[q[i]] <= key[t]
      OBVIOUS
    <3>1. ~(rem[q[i]] >= n)
      BY <1>2, <1>3, <1>6
    <3> QED BY <3>1, <1>4, <1>9
  <2>2. p # Len(q) + 1 => key[t] <= key[q[p]]
    <3> SUFFICES ASSUME p # Len(q) + 1 PROVE key[t] <= key[q[p]]
      OBVIOUS
    <3>1. p \in 1 .. Len(q) /\ rem[q[p]] >= n
      BY <1>2, <1>3, <1>6
    <3> QED BY <3>1, <1>4, <1>9
  <2>3. Rising(q, key)
    BY <1>2, <1>4, <1>9 DEF Rising
  <2>4. key \in [T -> Int]
    OBVIOUS
  <2> QED BY <1>6, <1>7, <2>1, <2>2, <2>3, <2>4, SpliceRising
<1> QED BY <1>1, <1>7, <1>8, <1>9

(***************************************************************************)
(* rt_rmv_list, rt_rmv_dly: the thread is gone, the others keep their      *)
(* order.                                                                  *)
(***************************************************************************)
THEOREM UnlinkCorrect ==
    ASSUME NEW T, NEW q \in Seq(T), NEW t \in T, Distinct(q)
    PROVE  /\ Unlink(q, t) \in Seq(T)
           /\ ToSet(Unlink(q, t)) = ToSet(q) \ {t}
           /\ Distinct(Unlink(q, t))
           /\ \A prio \in [T -> Nat] :
                 Ordered(q, prio) => Ordered(Unlink(q, t), prio)
           /\ \A rem \in [T -> Nat] :
                 Rising(q, rem) => Rising(Unlink(q, t), rem)
<1>1. DOMAIN q = 1 .. Len(q) /\ Len(q) \in Nat
  OBVIOUS
<1>2. CASE PositionsOf(q, t) = {}
  <2>1. Unlink(q, t) = q
    BY <1>2 DEF Unlink
  <2>2. t \notin ToSet(q)
    BY <1>2 DEF PositionsOf, ToSet
  <2> QED BY <2>1, <2>2
<1>3. CASE PositionsOf(q, t) # {}
  <2> DEFINE p == Min(PositionsOf(q, t))
             r == RemoveAt(q, p)
  <2>1. PositionsOf(q, t) \in SUBSET Nat
    BY <1>1 DEF PositionsOf
  <2>2. p \in PositionsOf(q, t)
    BY <2>1, <1>3, MinProperties
  <2> HIDE DEF p
  <2>3. p \in 1 .. Len(q) /\ q[p] = t
    BY <2>2, <1>1 DEF PositionsOf
  <2>4. /\ r \in Seq(T)
        /\ Len(r) = Len(q) - 1
        /\ \A i \in 1 .. Len(q) - 1 : r[i] = IF i < p THEN q[i] ELSE q[i + 1]
    BY <2>3, RemoveAtElements
  <2>5. Unlink(q, t) = r
    BY <1>3 DEF Unlink, p
  <2> HIDE DEF r
  <2>6. DOMAIN r = 1 .. Len(q) - 1
    BY <2>4
  <2>7. ASSUME NEW i \in 1 .. Len(q) - 1, i < p
        PROVE  i \in 1 .. Len(q) /\ r[i] = q[i]
    BY <2>7, <2>4, <1>1
  <2>8. ASSUME NEW i \in 1 .. Len(q) - 1, ~(i < p)
        PROVE  i + 1 \in 1 .. Len(q) /\ r[i] = q[i + 1]
    BY <2>8, <2>4, <1>1
  <2>9. \A i, j \in 1 .. Len(q) : q[i] = q[j] => i = j
    BY <1>1 DEF Distinct
  <2>10. ASSUME NEW i \in 1 .. Len(q) - 1
         PROVE  \E m \in 1 .. Len(q) :
                   r[i] = q[m] /\ m # p /\ ((i < p /\ m = i) \/ (~(i < p) /\ m = i + 1))
    <3>1. CASE i < p
      <4>1. i \in 1 .. Len(q) /\ r[i] = q[i] /\ i # p
        BY <3>1, <2>7, <2>3
      <4> QED BY <4>1, <3>1
    <3>2. CASE ~(i < p)
      <4>1. i + 1 \in 1 .. Len(q) /\ r[i] = q[i + 1]
        BY <3>2, <2>8
      <4>2. i + 1 # p
        BY <3>2, <2>3, <1>1
      <4> QED BY <4>1, <4>2, <3>2
    <3> QED BY <3>1, <3>2
  <2>11. ToSet(r) = ToSet(q) \ {t}
    <3>1. ASSUME NEW i \in 1 .. Len(q) - 1 PROVE r[i] \in ToSet(q) \ {t}
      <4>1. PICK m \in 1 .. Len(q) : r[i] = q[m] /\ m # p
        BY <2>10
      <4>2. q[m] # t
        BY <4>1, <2>3, <2>9
      <4> QED BY <4>1, <4>2, <1>1 DEF ToSet
    <3>2. ASSUME NEW m \in 1 .. Len(q), q[m] # t PROVE q[m] \in ToSet(r)
      <4>1. CASE m < p
        <5>1. m \in 1 .. Len(q) - 1
          BY <4>1, <2>3, <1>1
        <5>2. r[m] = q[m]
          BY <5>1, <4>1, <2>7
        <5> QED BY <5>1, <5>2, <2>6 DEF ToSet
      <4>2. CASE m > p
        <5>1. m - 1 \in 1 .. Len(q) - 1 /\ ~(m - 1 < p) /\ (m - 1) + 1 = m
          BY <4>2, <2>3, <1>1
        <5>2. r[m - 1] = q[m]
          BY <5>1, <2>8
        <5> QED BY <5>1, <5>2, <2>6 DEF ToSet
      <4>3. m # p
        BY <3>2, <2>3
      <4> QED BY <4>1, <4>2, <4>3, <2>3
    <3>3. \A x \in ToSet(r) : x \in ToSet(q) \ {t}
      BY <3>1, <2>6 DEF ToSet
    <3>4. \A x \in ToSet(q) \ {t} : x \in ToSet(r)
      BY <3>2, <1>1 DEF ToSet
    <3> QED BY <3>3, <3>4
  <2>12. Distinct(r)
    <3> SUFFICES ASSUME NEW i \in 1 .. Len(q) - 1, NEW j \in 1 .. Len(q) - 1, r[i] = r[j]
                 PROVE  i = j
      BY <2>6 DEF Distinct
    <3>1. PICK m \in 1 .. Len(q) :
              r[i] = q[m] /\ m # p /\ ((i < p /\ m = i) \/ (~(i < p) /\ m = i + 1))
      BY <2>10
    <3>2. PICK n \in 1 .. Len(q) :
              r[j] = q[n] /\ n # p /\ ((j < p /\ n = j) \/ (~(j < p) /\ n = j + 1))
      BY <2>10
    <3>3. m = n
      BY <3>1, <3>2, <2>9
    <3> QED BY <3>1, <3>2, <3>3, <1>1, <2>3
  <2>13. ASSUME NEW key \in [T -> Int], Rising(q, key)
         PROVE  Rising(r, key)
    <3> SUFFICES ASSUME NEW i \in 1 .. Len(q) - 1, NEW j \in 1 .. Len(q) - 1, i < j
                 PROVE  key[r[i]] <= key[r[j]]
      BY <2>6 DEF Rising
    <3>1. PICK m \in 1 .. Len(q) :
              r[i] = q[m] /\ m # p /\ ((i < p /\ m = i) \/ (~(i < p) /\ m = i + 1))
      BY <2>10
    <3>2. PICK n \in 1 .. Len(q) :
              r[j] = q[n] /\ n # p /\ ((j < p /\ n = j) \/ (~(j < p) /\ n = j + 1))
      BY <2>10
    <3>3. m < n
      BY <3>1, <3>2, <1>1, <2>3
    <3>4. key[q[m]] <= key[q[n]]
      BY <3>3, <2>13, <1>1 DEF Rising
    <3> QED BY <3>1, <3>2, <3>4
  <2>14. ASSUME NEW prio \in [T -> Nat], Ordered(q, prio)
         PROVE  Ordered(r, prio)
    <3> DEFINE key == [x \in T |-> 0 - prio[x]]
    <3>1. key \in [T -> Int] /\ \A x \in T : key[x] = 0 - prio[x]
      OBVIOUS
    <3> HIDE DEF key
    <3>2. Rising(q, key)
      BY <3>1, <2>14, OrderedIsRising
    <3>3. Rising(r, key)
      BY <3>1, <3>2, <2>13
    <3> QED BY <3>1, <3>3, <2>4, OrderedIsRising
  <2>15. \A rem \in [T -> Nat] : Rising(q, rem) => Rising(r, rem)
    <3> SUFFICES ASSUME NEW rem \in [T -> Nat], Rising(q, rem) PROVE Rising(r, rem)
      OBVIOUS
    <3>1. rem \in [T -> Int]
      OBVIOUS
    <3> QED BY <3>1, <2>13
  <2> QED BY <2>4, <2>5, <2>11, <2>12, <2>14, <2>15
<1> QED BY <1>2, <1>3

(***************************************************************************)
(* rt_get_first: the head is taken, the others stay as they are.           *)
(***************************************************************************)
THEOREM TakeFirstCorrect ==
    ASSUME NEW T, NEW q \in Seq(T), q # <<>>
    PROVE  /\ Head(q) \in T /\ Tail(q) \in Seq(T)
           /\ Head(q) \in ToSet(q)
           /\ Distinct(q) => /\ ToSet(Tail(q)) = ToSet(q) \ {Head(q)}
                             /\ Distinct(Tail(q))
           /\ \A prio \in [T -> Nat] : Ordered(q, prio) =>
                 /\ Ordered(Tail(q), prio)
                 /\ \A x \in ToSet(q) : prio[Head(q)] >= prio[x]
           /\ \A rem \in [T -> Nat] : Rising(q, rem) =>
                 /\ Rising(Tail(q), rem)
                 /\ \A x \in ToSet(q) : rem[Head(q)] <= rem[x]
<1> DEFINE n == Len(q)
           r == Tail(q)
<1>1. /\ n \in Nat /\ n >= 1 /\ DOMAIN q = 1 .. n
      /\ Head(q) = q[1] /\ q[1] \in T
  OBVIOUS
<1>2. /\ r \in Seq(T) /\ Len(r) = n - 1 /\ DOMAIN r = 1 .. n - 1
      /\ \A i \in 1 .. n - 1 : r[i] = q[i + 1]
  BY HeadTailProperties
<1> HIDE DEF n, r
<1>3. ASSUME NEW i \in 1 .. n - 1
      PROVE  i \in Nat /\ i >= 1 /\ i + 1 \in 1 .. n /\ r[i] = q[i + 1]
  BY <1>1, <1>2
<1>4. ASSUME NEW i \in 2 .. n PROVE i - 1 \in 1 .. n - 1 /\ r[i - 1] = q[i]
  <2>1. i - 1 \in 1 .. n - 1 /\ (i - 1) + 1 = i
    BY <1>1
  <2> QED BY <2>1, <1>2
<1>5. Head(q) \in ToSet(q)
  <2>1. 1 \in 1 .. n
    BY <1>1
  <2> QED BY <2>1, <1>1 DEF ToSet
<1>6. ASSUME Distinct(q) PROVE ToSet(r) = ToSet(q) \ {Head(q)} /\ Distinct(r)
  <2>1. \A i, j \in 1 .. n : q[i] = q[j] => i = j
    BY <1>1, <1>6 DEF Distinct
  <2>2. ASSUME NEW i \in 1 .. n - 1 PROVE r[i] \in ToSet(q) \ {Head(q)}
    <3>1. i + 1 \in 1 .. n /\ r[i] = q[i + 1] /\ i + 1 # 1 /\ 1 \in 1 .. n
      BY <1>1, <1>3
    <3>2. q[i + 1] # q[1]
      BY <3>1, <2>1
    <3> QED BY <3>1, <3>2, <1>1 DEF ToSet
  <2>3. ASSUME NEW i \in 1 .. n, q[i] # Head(q) PROVE q[i] \in ToSet(r)
    <3>1. i \in 2 .. n
      BY <1>1, <2>3
    <3>2. i - 1 \in 1 .. n - 1 /\ r[i - 1] = q[i]
      BY <3>1, <1>4
    <3> QED BY <3>2, <1>2 DEF ToSet
  <2>4. \A x \in ToSet(r) : x \in ToSet(q) \ {Head(q)}
    BY <2>2, <1>2 DEF ToSet
  <2>5. \A x \in ToSet(q) \ {Head(q)} : x \in ToSet(r)
    BY <2>3, <1>1 DEF ToSet
  <2>6. ASSUME NEW i \in 1 .. n - 1, NEW j \in 1 .. n - 1, r[i] = r[j]
        PROVE  i = j
    <3>1. i + 1 \in 1 .. n /\ j + 1 \in 1 .. n /\ q[i + 1] = q[j + 1]
      BY <1>3, <2>6
    <3>2. i + 1 = j + 1
      BY <3>1, <2>1
    <3> QED BY <3>2, <1>3
  <2>7. Distinct(r)
    BY <2>6, <1>2 DEF Distinct
  <2> QED BY <2>4, <2>5, <2>7
<1>7. ASSUME NEW key \in [T -> Int], Rising(q, key)
      PROVE  Rising(r, key) /\ \A x \in ToSet(q) : key[q[1]] <= key[x]
  <2>1. \A i, j \in 1 .. n : i < j => key[q[i]] <= key[q[j]]
    BY <1>1, <1>7 DEF Rising
  <2>2. ASSUME NEW i \in 1 .. n - 1, NEW j \in 1 .. n - 1, i < j
        PROVE  key[r[i]] <= key[r[j]]
    <3>1. i + 1 \in 1 .. n /\ j + 1 \in 1 .. n /\ i + 1 < j + 1
      BY <1>3, <2>2
    <3>2. r[i] = q[i + 1] /\ r[j] = q[j + 1]
      BY <1>3
    <3> QED BY <3>1, <3>2, <2>1
  <2>3. ASSUME NEW i \in 1 .. n PROVE key[q[1]] <= key[q[i]]
    <3>1. 1 \in 1 .. n /\ q[i] \in T
      BY <1>1
    <3>2. CASE i = 1
      BY <3>1, <3>2, <1>1
    <3>3. CASE 1 < i
      BY <3>1, <3>3, <2>1
    <3> QED BY <3>2, <3>3, <1>1
  <2> QED BY <2>2, <2>3, <1>1, <1>2 DEF Rising, ToSet
<1>8. ASSUME NEW prio \in [T -> Nat], Ordered(q, prio)
      PROVE  Ordered(r, prio) /\ \A x \in ToSet(q) : prio[q[1]] >= prio[x]
  <2> DEFINE key == [x \in T |-> 0 - prio[x]]
  <2>1. key \in [T -> Int] /\ \A x \in T : key[x] = 0 - prio[x]
    OBVIOUS
  <2> HIDE DEF key
  <2>2. Rising(q, key)
    BY <2>1, <1>8, OrderedIsRising
  <2>3. Rising(r, key) /\ \A x \in ToSet(q) : key[q[1]] <= key[x]
    BY <2>1, <2>2, <1>7
  <2>4. Ordered(r, prio)
    BY <2>1, <2>3, <1>2, OrderedIsRising
  <2>5. \A x \in ToSet(q) : x \in T
    BY DEF ToSet
  <2>6. \A x \in ToSet(q) : prio[q[1]] >= prio[x]
    BY <2>1, <2>3, <2>5, <1>1
  <2> QED BY <2>4, <2>6
<1>9. \A rem \in [T -> Nat] : Rising(q, rem) =>
           Rising(r, rem) /\ \A x \in ToSet(q) : rem[q[1]] <= rem[x]
  <2> SUFFICES ASSUME NEW rem \in [T -> Nat], Rising(q, rem)
               PROVE  Rising(r, rem) /\ \A x \in ToSet(q) : rem[q[1]] <= rem[x]
    OBVIOUS
  <2>1. rem \in [T -> Int]
    OBVIOUS
  <2> QED BY <2>1, <1>7
<1> QED BY <1>1, <1>2, <1>5, <1>6, <1>8, <1>9 DEF r

(***************************************************************************)
(* rt_put_rdy_first: the thread is added in front, where it fits when none *)
(* of the others is above it.                                              *)
(***************************************************************************)
THEOREM PutFirstCorrect ==
    ASSUME NEW T, NEW q \in Seq(T), NEW t \in T, NEW prio \in [T -> Nat]
    PROVE  /\ Cons(t, q) \in Seq(T) /\ Cons(t, q) # <<>>
           /\ Head(Cons(t, q)) = t /\ Tail(Cons(t, q)) = q
           /\ ToSet(Cons(t, q)) = ToSet(q) \cup {t}
           /\ Distinct(q) /\ t \notin ToSet(q) => Distinct(Cons(t, q))
           /\ Ordered(q, prio) /\ (\A x \in ToSet(q) : prio[t] >= prio[x])
              => Ordered(Cons(t, q), prio)
<1> DEFINE r == Cons(t, q)
           key == [x \in T |-> 0 - prio[x]]
           p == 1
<1>1. <<t>> \in Seq(T) /\ Len(<<t>>) = 1 /\ <<t>>[1] = t /\ Len(q) \in Nat
  OBVIOUS
<1>2. /\ r \in Seq(T) /\ Len(r) = Len(q) + 1
      /\ r[1] = t /\ \A i \in 1 .. Len(q) : r[1 + i] = q[i]
  <2> DEFINE c == <<t>>
  <2>1. c \in Seq(T) /\ Len(c) = 1 /\ c[1] = t
    BY <1>1
  <2> HIDE DEF c
  <2>2. /\ c \o q \in Seq(T) /\ Len(c \o q) = Len(c) + Len(q)
        /\ \A i \in 1 .. Len(c) : (c \o q)[i] = c[i]
        /\ \A i \in 1 .. Len(q) : (c \o q)[Len(c) + i] = q[i]
    <3> HIDE DEF r, key
    <3>1. c \in Seq(T) /\ q \in Seq(T)
      BY <2>1
    <3> QED BY <3>1, ConcatElements
  <2>3. r = c \o q
    BY DEF Cons, c
  <2>4. (c \o q)[1] = t
    BY <2>1, <2>2
  <2>5. Len(c) + Len(q) = Len(q) + 1
    BY <2>1, <1>1
  <2> QED BY <2>1, <2>2, <2>3, <2>4, <2>5
<1> HIDE DEF r, key, p
<1>3. ASSUME NEW i \in 1 .. Len(q) + 1
      PROVE  r[i] = IF i < p THEN q[i] ELSE IF i = p THEN t ELSE q[i - 1]
  <2>0. p = 1
    BY DEF p
  <2>1. CASE i = 1
    BY <2>0, <2>1, <1>2
  <2>2. CASE i # 1
    <3>1. i - 1 \in 1 .. Len(q) /\ 1 + (i - 1) = i /\ ~(i < 1)
      BY <2>2, <1>1
    <3>2. r[1 + (i - 1)] = q[i - 1]
      BY <3>1, <1>2
    <3> QED BY <2>0, <3>1, <3>2, <2>2
  <2> QED BY <2>1, <2>2
<1>4. p \in 1 .. Len(q) + 1
  BY <1>1 DEF p
<1>5. /\ ToSet(r) = ToSet(q) \cup {t}
      /\ Distinct(q) /\ t \notin ToSet(q) => Distinct(r)
  <2>1. /\ r \in Seq(T) /\ Len(r) = Len(q) + 1
        /\ \A i \in 1 .. Len(q) + 1 :
              r[i] = IF i < p THEN q[i] ELSE IF i = p THEN t ELSE q[i - 1]
    BY <1>2, <1>3
  <2> QED BY <2>1, <1>4, SpliceMembers
<1>6. ASSUME Ordered(q, prio), \A x \in ToSet(q) : prio[t] >= prio[x]
      PROVE  Ordered(r, prio)
  <2>1. key \in [T -> Int] /\ \A x \in T : key[x] = 0 - prio[x]
    BY DEF key
  <2>2. Rising(q, key)
    BY <2>1, <1>6, OrderedIsRising
  <2>3. \A i \in 1 .. Len(q) : i < p => key[q[i]] <= key[t]
    BY <1>1 DEF p
  <2>4. p # Len(q) + 1 => key[t] <= key[q[p]]
    <3> SUFFICES ASSUME 1 # Len(q) + 1 PROVE key[t] <= key[q[1]]
      BY DEF p
    <3>1. 1 \in 1 .. Len(q) /\ q[1] \in T
      BY <1>1
    <3>2. q[1] \in ToSet(q)
      BY <3>1 DEF ToSet
    <3>3. prio[t] >= prio[q[1]]
      BY <3>2, <1>6
    <3> QED BY <2>1, <3>1, <3>3
  <2>5. Rising(r, key)
    BY <2>1, <2>2, <2>3, <2>4, <1>2, <1>3, <1>4, SpliceRising, ZenonT(30)
  <2> QED BY <2>1, <2>5, <1>2, OrderedIsRising
<1>7. r # <<>> /\ Head(r) = t
  BY <1>1, <1>2
<1>8. Tail(r) = q
  <2>1. Tail(r) \in Seq(T) /\ Len(Tail(r)) = Len(q)
    BY <1>1, <1>2, <1>7
  <2>2. ASSUME NEW i \in 1 .. Len(q) PROVE Tail(r)[i] = q[i]
    <3>1. Tail(r)[i] = r[i + 1] /\ r[1 + i] = q[i] /\ 1 + i = i + 1
      BY <1>1, <1>2, <1>7, HeadTailProperties
    <3> QED BY <3>1
  <2> QED BY <2>1, <2>2, SeqEqual
<1> QED BY <1>2, <1>5, <1>6, <1>7, <1>8 DEF r

-----------------------------------------------------------------------------
(***************************************************************************)
(* The order of a list depends on the priorities of its members only.      *)
(***************************************************************************)
LEMMA OrderedSame ==
    ASSUME NEW T, NEW q \in Seq(T), NEW f \in [T -> Nat], NEW g \in [T -> Nat],
           \A x \in ToSet(q) : f[x] = g[x]
    PROVE  /\ Ordered(q, f) => Ordered(q, g)
           /\ Rising(q, f) => Rising(q, g)
<1>1. \A i \in DOMAIN q : f[q[i]] = g[q[i]]
  BY DEF ToSet
<1> QED BY <1>1 DEF Ordered, Rising
-----------------------------------------------------------------------------
(***************************************************************************)
(* Counting modulo the size of a ring or the width of a counter.           *)
(***************************************************************************)
LEMMA Modulo ==
    ASSUME NEW n \in Nat \ {0}, NEW a \in Nat
    PROVE  /\ a % n \in 0 .. n - 1
           /\ a < n => a % n = a
           /\ n <= a /\ a < 2 * n => a % n = a - n
  BY SMT

LEMMA WholeTurn ==
    ASSUME NEW n \in Nat \ {0}, NEW a \in 0 .. n - 1, NEW d \in 0 .. n
    PROVE  /\ (a + d) % n = IF a + d < n THEN a + d ELSE a + d - n
           /\ (a + d) % n \in 0 .. n - 1
<1> DEFINE x == a + d
<1>1. x \in Nat /\ x < 2 * n
  OBVIOUS
<1> HIDE DEF x
<1>2. /\ x % n \in 0 .. n - 1
      /\ x < n => x % n = x
      /\ n <= x => x % n = x - n
  BY <1>1, Modulo
<1> QED BY <1>1, <1>2 DEF x

\* A position is met again only after a whole turn.
LEMMA Ahead ==
    ASSUME NEW n \in Nat \ {0}, NEW a \in 0 .. n - 1, NEW d \in 0 .. n
    PROVE  /\ (a + d) % n = a => d = 0 \/ d = n
           /\ d = 0 => (a + d) % n = a
<1>1. (a + d) % n = IF a + d < n THEN a + d ELSE a + d - n
  BY WholeTurn
<1> QED BY <1>1

\* One step ahead of the next position is one more ahead of this one.
LEMMA OneNearer ==
    ASSUME NEW n \in Nat \ {0}, NEW a \in 0 .. n - 1, NEW d \in 1 .. n
    PROVE  (((a + 1) % n) + (d - 1)) % n = (a + d) % n
<1> DEFINE b == (a + 1) % n
           c == d - 1
<1>1. (a + d) % n = IF a + d < n THEN a + d ELSE a + d - n
  <2>1. d \in 0 .. n
    OBVIOUS
  <2> QED BY <2>1, WholeTurn
<1>2. b \in 0 .. n - 1 /\ b = IF a + 1 < n THEN a + 1 ELSE a + 1 - n
  <2>1. 1 \in 0 .. n
    OBVIOUS
  <2> QED BY <2>1, WholeTurn
<1>3. c \in 0 .. n /\ c + 1 = d
  OBVIOUS
<1> HIDE DEF b, c
<1>4. (b + c) % n = IF b + c < n THEN b + c ELSE b + c - n
  BY <1>2, <1>3, WholeTurn
<1>5. (b + c) % n = (a + d) % n
  BY <1>1, <1>2, <1>3, <1>4
<1> QED BY <1>5 DEF b, c
=============================================================================
