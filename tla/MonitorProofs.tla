---------------------------- MODULE MonitorProofs ---------------------------
(***************************************************************************)
(* Proofs about module Monitor, for any threads and priorities: no signal  *)
(* of a condition variable is lost, and a signal wakes the waiter it       *)
(* should.                                                                 *)
(***************************************************************************)
EXTENDS Monitor, TLAPS

INSTANCE WellFoundedInduction
INSTANCE SequenceTheorems

Places == {"out", "in", "down", "asleep", "back", "broadcast"}

Types ==
    /\ holder \in Threads \cup {NONE} /\ waiters \in Seq(Threads) /\ value \in [Threads -> Nat]
    /\ pc \in [Threads -> Places] /\ waits \in Nat

(* The lock's holder alone is inside the monitor. *)
Inside == \A t \in Threads : pc[t] \in {"in", "broadcast"} => holder = t

MInv == Types /\ Inside /\ WaitersExact

-----------------------------------------------------------------------------
(* A set of naturals has a least element. *)
LEMMA LeastElement ==
    ASSUME NEW S \in SUBSET Nat, S # {}
    PROVE  \E x \in S : \A y \in S : x <= y
  <1>1. OpToRel(<, Nat) = {ss \in Nat \X Nat : ss[1] < ss[2]}
    BY Zenon DEF OpToRel
  <1>2. IsWellFoundedOn({ss \in Nat \X Nat : ss[1] < ss[2]}, Nat)
    BY Zenon, <1>1, NatLessThanWellFounded
  <1>3. PICK x \in S : \A y \in S : ~ (<<y, x>> \in {ss \in Nat \X Nat : ss[1] < ss[2]})
    BY Zenon, <1>2, WFMin
  <1>4. ASSUME NEW y \in S PROVE x <= y
    <2>1. x \in Nat /\ y \in Nat
      OBVIOUS
    <2>2. <<y, x>> \in Nat \X Nat /\ <<y, x>>[1] = y /\ <<y, x>>[2] = x
      BY <2>1
    <2>3. ~ (y < x)
      BY Zenon, <1>3, <2>2
    <2> QED
      BY <2>1, <2>3
  <1> QED
    BY Zenon, <1>4

(* list_max finds an element when there is one: one that no other exceeds, *)
(* and the first of those.                                                 *)
LEMMA MaxFound ==
    ASSUME waiters \in Seq(Threads), waiters # <<>>, NEW p \in [Range(waiters) -> Ints]
    PROVE  /\ list_max(p) \in 1 .. Len(waiters)
           /\ \A j \in 1 .. Len(waiters) :
                 \/ p[waiters[j]] < p[waiters[list_max(p)]]
                 \/ p[waiters[j]] = p[waiters[list_max(p)]] /\ list_max(p) <= j
  <1> DEFINE n == Len(waiters)
             f(i) == p[waiters[i]]
             V == {k \in Nat : \E i \in 1 .. n : k = INT_MAX - f(i)}
  <1>0. INT_MAX \in Nat
    BY SMT DEF INT_MAX
  <1>1. n \in Nat /\ n > 0 /\ DOMAIN waiters = 1 .. n
    OBVIOUS
  <1>2. \A i \in 1 .. n : f(i) \in Ints
    BY <1>1 DEF Range
  <1> HIDE DEF f, n
  <1>3. \A i \in 1 .. n : f(i) \in Int /\ INT_MAX - f(i) \in Nat
    BY <1>0, <1>2 DEF Ints
  <1>4. V # {} /\ V \in SUBSET Nat
    <2>1. 1 \in 1 .. n
      BY <1>1
    <2> QED
      BY <1>3, <2>1
  <1>5. PICK k \in V : \A l \in V : k <= l
    BY Zenon, <1>4, LeastElement
  <1> DEFINE I == {i \in 1 .. n : INT_MAX - f(i) = k}
  <1>6. I # {} /\ I \in SUBSET Nat
    BY <1>5, <1>1
  <1>7. PICK m \in I : \A i \in I : m <= i
    BY Zenon, <1>6, LeastElement
  <1>8. m \in 1 .. n /\ INT_MAX \in Int /\ INT_MAX - f(m) = k /\ f(m) \in Int
    BY <1>0, <1>3, <1>7
  <1>9. ASSUME NEW j \in 1 .. n PROVE f(j) < f(m) \/ (f(j) = f(m) /\ m <= j)
    <2>1. k <= INT_MAX - f(j) /\ f(j) \in Int
      BY <1>3, <1>5
    <2>2. CASE f(j) < f(m)
      BY <2>2
    <2>3. CASE f(j) = f(m)
      BY <1>7, <1>8, <2>3
    <2> QED
      BY <1>8, <2>1, <2>2, <2>3
  <1>10. \E i \in 1 .. n : \A j \in 1 .. n : f(j) < f(i) \/ (f(j) = f(i) /\ i <= j)
    BY <1>8, <1>9
  <1>11. list_max(p) = CHOOSE i \in 1 .. n : \A j \in 1 .. n : f(j) < f(i) \/ (f(j) = f(i) /\ i <= j)
    BY <1>1 DEF list_max, f
  <1>12. /\ list_max(p) \in 1 .. n
         /\ \A j \in 1 .. n : f(j) < f(list_max(p)) \/ (f(j) = f(list_max(p)) /\ list_max(p) <= j)
    BY Zenon, <1>10, <1>11
  <1> QED
    BY <1>12 DEF f, n

(* list_remove takes one element out and leaves the order of the others. *)
LEMMA Removed ==
    ASSUME NEW T, NEW s \in Seq(T), NEW i \in 1 .. Len(s)
    PROVE  /\ list_remove(s, i) \in Seq(T) /\ Len(list_remove(s, i)) = Len(s) - 1
           /\ \A j \in 1 .. Len(s) - 1 : list_remove(s, i)[j] = IF j < i THEN s[j] ELSE s[j + 1]
  <1> DEFINE a == SubSeq(s, 1, i - 1)
             b == SubSeq(s, i + 1, Len(s))
  <1>1. Len(s) \in Nat /\ i \in Int
    OBVIOUS
  <1>2. a \in Seq(T) /\ Len(a) = i - 1 /\ \A j \in 1 .. i - 1 : a[j] = s[j]
    BY <1>1
  <1>3. b \in Seq(T) /\ Len(b) = Len(s) - i /\ \A j \in 1 .. Len(s) - i : b[j] = s[j + i]
    BY <1>1
  <1> DEFINE c == a \o b
  <1> HIDE DEF a, b
  <1>4. c \in Seq(T) /\ Len(c) = Len(a) + Len(b)
        /\ \A j \in 1 .. Len(a) + Len(b) : c[j] = IF j <= Len(a) THEN a[j] ELSE b[j - Len(a)]
    BY Zenon, <1>2, <1>3, ConcatProperties
  <1>5. list_remove(s, i) = c
    BY DEF list_remove, a, b
  <1> HIDE DEF c
  <1>6. Len(c) = Len(s) - 1
    BY <1>1, <1>2, <1>3, <1>4
  <1>7. ASSUME NEW j \in 1 .. Len(s) - 1 PROVE c[j] = IF j < i THEN s[j] ELSE s[j + 1]
    <2>1. j \in 1 .. Len(a) + Len(b) /\ (j <= Len(a) <=> j < i)
      BY <1>1, <1>2, <1>3
    <2>2. CASE j < i
      <3>1. j \in 1 .. i - 1 /\ c[j] = a[j]
        BY <1>1, <1>4, <2>1, <2>2
      <3> QED
        BY <1>2, <2>2, <3>1
    <2>3. CASE ~ (j < i)
      <3>1. j - Len(a) \in 1 .. Len(s) - i /\ (j - Len(a)) + i = j + 1 /\ c[j] = b[j - Len(a)]
        BY <1>1, <1>2, <1>4, <2>1, <2>3
      <3>2. b[j - Len(a)] = s[(j - Len(a)) + i]
        BY <1>3, <3>1
      <3> QED
        BY <2>3, <3>1, <3>2
    <2> QED
      BY <2>2, <2>3
  <1> QED
    BY <1>4, <1>5, <1>6, <1>7

(* With no element twice, list_remove leaves the others, none twice. *)
LEMMA RemovedOne ==
    ASSUME NEW T, NEW s \in Seq(T), NEW i \in 1 .. Len(s), IsInjective(s)
    PROVE  Range(list_remove(s, i)) = Range(s) \ {s[i]} /\ IsInjective(list_remove(s, i))
  <1> DEFINE r == list_remove(s, i)
  <1>1. /\ r \in Seq(T) /\ Len(r) = Len(s) - 1
        /\ \A j \in 1 .. Len(s) - 1 : r[j] = IF j < i THEN s[j] ELSE s[j + 1]
    BY Removed
  <1> HIDE DEF r
  <1>2. DOMAIN r = 1 .. Len(s) - 1 /\ DOMAIN s = 1 .. Len(s) /\ Len(s) \in Nat /\ i \in Int
    BY <1>1
  <1>3. \A j, k \in 1 .. Len(s) : s[j] = s[k] => j = k
    BY <1>2 DEF IsInjective
  <1> DEFINE at(j) == IF j < i THEN j ELSE j + 1
  <1>4. \A j \in 1 .. Len(s) - 1 : at(j) \in 1 .. Len(s) /\ at(j) # i /\ r[j] = s[at(j)]
    BY <1>1, <1>2
  <1>5. \A j, k \in 1 .. Len(s) - 1 : at(j) = at(k) => j = k
    BY <1>2
  <1>6. \A k \in 1 .. Len(s) : k # i => \E j \in 1 .. Len(s) - 1 : at(j) = k
    <2> SUFFICES ASSUME NEW k \in 1 .. Len(s), k # i PROVE \E j \in 1 .. Len(s) - 1 : at(j) = k
      OBVIOUS
    <2>1. CASE k < i
      <3>1. k \in 1 .. Len(s) - 1 /\ at(k) = k
        BY <1>2, <2>1
      <3> QED
        BY <3>1
    <2>2. CASE k > i
      <3>1. k - 1 \in 1 .. Len(s) - 1 /\ at(k - 1) = k
        BY <1>2, <2>2
      <3> QED
        BY <3>1
    <2> QED
      BY <1>2, <2>1, <2>2
  <1> HIDE DEF at
  <1>7. IsInjective(r)
    BY <1>2, <1>3, <1>4, <1>5 DEF IsInjective
  <1>8. ASSUME NEW x PROVE x \in Range(r) <=> x \in Range(s) \ {s[i]}
    <2>1. ASSUME x \in Range(r) PROVE x \in Range(s) \ {s[i]}
      <3>1. PICK j \in 1 .. Len(s) - 1 : x = r[j]
        BY <1>2, <2>1 DEF Range
      <3>2. x = s[at(j)] /\ at(j) \in 1 .. Len(s) /\ at(j) # i
        BY <1>4, <3>1
      <3> QED
        BY <1>2, <1>3, <3>2 DEF Range
    <2>2. ASSUME x \in Range(s) \ {s[i]} PROVE x \in Range(r)
      <3>1. PICK k \in 1 .. Len(s) : x = s[k]
        BY <1>2, <2>2 DEF Range
      <3>2. k # i
        BY <2>2, <3>1
      <3>3. PICK j \in 1 .. Len(s) - 1 : at(j) = k
        BY <1>6, <3>2
      <3>4. x = r[j]
        BY <1>4, <3>1, <3>3
      <3> QED
        BY <1>2, <3>4 DEF Range
    <2> QED
      BY <2>1, <2>2
  <1> QED
    BY <1>7, <1>8 DEF r

(* list_push_back of a thread that is not in the list. *)
LEMMA Pushed ==
    ASSUME NEW T, NEW s \in Seq(T), NEW x \in T, IsInjective(s), x \notin Range(s)
    PROVE  /\ Append(s, x) \in Seq(T) /\ Range(Append(s, x)) = Range(s) \cup {x}
           /\ IsInjective(Append(s, x))
  <1> DEFINE r == Append(s, x)
  <1>1. /\ r \in Seq(T) /\ Len(r) = Len(s) + 1 /\ r[Len(s) + 1] = x
        /\ \A j \in 1 .. Len(s) : r[j] = s[j]
    OBVIOUS
  <1> HIDE DEF r
  <1>2. DOMAIN r = 1 .. Len(s) + 1 /\ DOMAIN s = 1 .. Len(s) /\ Len(s) \in Nat
    BY <1>1
  <1>3. \A j \in 1 .. Len(s) + 1 : j = Len(s) + 1 \/ j \in 1 .. Len(s)
    BY <1>2
  <1>4. \A j \in 1 .. Len(s) : j \in 1 .. Len(s) + 1 /\ s[j] # x
    BY <1>2 DEF Range
  <1>5. IsInjective(r)
    BY <1>1, <1>2, <1>3, <1>4 DEF IsInjective
  <1>6. Len(s) + 1 \in 1 .. Len(s) + 1
    BY <1>2
  <1>7. Range(r) = Range(s) \cup {x}
    BY <1>1, <1>2, <1>3, <1>4, <1>6 DEF Range
  <1> QED
    BY <1>1, <1>5, <1>7 DEF r

-----------------------------------------------------------------------------
(* The steps *)

(* Nobody waits at first (cond_init). *)
LEMMA InitMInv == Init => MInv
  <1> SUFFICES ASSUME Init PROVE MInv
    OBVIOUS
  <1>1. waiters = <<>> /\ Range(waiters) = {}
    BY DEF Init, Range
  <1>2. Types
    BY DEF Init, Types, Places
  <1>3. Inside
    BY DEF Init, Inside
  <1>4. WaitersExact
    BY <1>1 DEF Init, WaitersExact, IsInjective
  <1> QED
    BY <1>2, <1>3, <1>4 DEF MInv

(* Entering and leaving the monitor, and the ends of a broadcast, leave    *)
(* the list alone (lock_acquire, lock_release, cond_broadcast).            *)
LEMMA OutsideStep ==
    ASSUME MonitorConstants, MInv, NEW t \in Threads,
           lock_acquire(t) \/ lock_release(t) \/ cond_broadcast(t)
    PROVE  MInv' /\ SignalStep
  <1>1. waiters' = waiters /\ value' = value /\ waits' = waits
    BY DEF lock_acquire, lock_release, cond_broadcast
  <1>2. PICK x \in {"in", "out", "broadcast"} :
           /\ pc' = [pc EXCEPT ![t] = x]
           /\ x \in {"in", "broadcast"} => holder' = t
    BY DEF lock_acquire, lock_release, cond_broadcast, MInv, Inside
  <1>3. Types /\ NONE \notin Threads
    BY DEF MInv, MonitorConstants
  <1>4. pc' \in [Threads -> Places] /\ pc'[t] = x /\ \A u \in Threads \ {t} : pc'[u] = pc[u]
    BY <1>2, <1>3 DEF Types, Places
  <1>5. pc[t] \in {"in", "out", "back", "broadcast"} /\ holder' \in {holder, t, NONE}
    BY DEF lock_acquire, lock_release, cond_broadcast
  <1>6. Types'
    BY <1>1, <1>3, <1>4, <1>5 DEF Types
  <1>7. Inside'
    <2>1. \A u \in Threads \ {t} : pc[u] \in {"in", "broadcast"} => holder' = holder
      BY <1>3 DEF lock_acquire, lock_release, cond_broadcast, MInv, Inside
    <2> QED
      BY <1>2, <1>4, <2>1 DEF MInv, Inside
  <1>8. WaitersExact'
    <2>1. value[t] = 0 /\ t \notin Range(waiters)
      BY <1>3, <1>5 DEF MInv, WaitersExact, Types
    <2> QED
      BY <1>1, <1>2, <1>4, <2>1 DEF MInv, WaitersExact
  <1>9. SignalStep
    BY <1>1 DEF SignalStep
  <1> QED
    BY <1>6, <1>7, <1>8, <1>9 DEF MInv

(* cond_wait puts its thread on the list, with an empty semaphore. *)
LEMMA WaitStep ==
    ASSUME MonitorConstants, MInv, NEW t \in Threads, cond_wait(t) PROVE MInv' /\ SignalStep
  <1>1. /\ Types /\ NONE \notin Threads /\ pc[t] = "in" /\ holder' = NONE /\ waits' = waits + 1
        /\ value' = [value EXCEPT ![t] = 0] /\ waiters' = Append(waiters, t)
        /\ pc' = [pc EXCEPT ![t] = "down"]
    BY DEF cond_wait, MInv, MonitorConstants
  <1>2. /\ pc' \in [Threads -> Places] /\ pc'[t] = "down" /\ \A u \in Threads \ {t} : pc'[u] = pc[u]
        /\ value' \in [Threads -> Nat] /\ value'[t] = 0
        /\ \A u \in Threads \ {t} : value'[u] = value[u]
    BY <1>1 DEF Types, Places
  <1>3. waiters \in Seq(Threads) /\ IsInjective(waiters) /\ t \notin Range(waiters)
    BY Zenon, <1>1 DEF Types, MInv, WaitersExact
  <1>4. /\ waiters' \in Seq(Threads) /\ Range(waiters') = Range(waiters) \cup {t}
        /\ IsInjective(waiters')
    BY <1>1, <1>3, Pushed
  <1>5. Types'
    BY <1>1, <1>2, <1>4 DEF Types
  <1>6. \A u \in Threads \ {t} : pc[u] \notin {"in", "broadcast"}
    BY <1>1 DEF MInv, Inside
  <1>7. Inside'
    BY <1>2, <1>6 DEF Inside
  <1>8. WaitersExact'
    BY <1>2, <1>4 DEF MInv, WaitersExact
  <1>9. SignalStep
    BY <1>1, <1>4, <1>6 DEF SignalStep
  <1> QED
    BY <1>5, <1>7, <1>8, <1>9 DEF MInv

(* A thread tests its semaphore: with its unit it goes on, else it sleeps. *)
LEMMA DownStep ==
    ASSUME MonitorConstants, MInv, NEW t \in Threads, sema_down(t) PROVE MInv' /\ SignalStep
  <1> DEFINE x == IF value[t] > 0 THEN "back" ELSE "asleep"
  <1>1. /\ Types /\ pc[t] = "down" /\ value' = [value EXCEPT ![t] = 0] /\ pc' = [pc EXCEPT ![t] = x]
        /\ UNCHANGED <<holder, waiters, waits>>
    BY DEF sema_down, MInv
  <1>2. x \in {"back", "asleep"} /\ (x = "asleep" <=> value[t] = 0)
    BY <1>1 DEF Types
  <1> HIDE DEF x
  <1>3. /\ pc' \in [Threads -> Places] /\ pc'[t] = x /\ \A u \in Threads \ {t} : pc'[u] = pc[u]
        /\ value' \in [Threads -> Nat] /\ value'[t] = 0
        /\ \A u \in Threads \ {t} : value'[u] = value[u]
    BY <1>1, <1>2 DEF Types, Places
  <1>4. Types'
    BY <1>1, <1>3 DEF Types
  <1>5. Inside'
    BY <1>1, <1>2, <1>3 DEF MInv, Inside
  <1>6. WaitersExact'
    BY <1>1, <1>2, <1>3 DEF MInv, WaitersExact
  <1>7. SignalStep
    BY <1>1 DEF SignalStep
  <1> QED
    BY <1>4, <1>5, <1>6, <1>7 DEF MInv

(* cond_signal takes the first of the highest waiters off the list and     *)
(* gives it its unit.                                                      *)
LEMMA SignalledStep ==
    ASSUME MonitorConstants, MInv, NEW t \in Threads, cond_signal(t) PROVE MInv' /\ SignalStep
  <1>1. PICK p \in Seen : waiters' = list_remove(waiters, list_max(p)) /\ sema_up(waiters[list_max(p)])
    BY DEF cond_signal
  <1> DEFINE m == list_max(p)
             w == waiters[m]
  <1>2. /\ Types /\ NONE \notin Threads /\ holder = t /\ pc[t] \in {"in", "broadcast"} /\ waiters # <<>>
        /\ UNCHANGED <<holder, waits>>
    BY DEF cond_signal, MInv, MonitorConstants
  <1>3. /\ p \in [Range(waiters) -> Ints]
        /\ \A u \in Range(waiters) : pc[u] = "asleep" => p[u] = priority[u]
    <2>1. Range(priority) \cup Garbage \subseteq Ints
      BY DEF MonitorConstants, Range
    <2> QED
      BY <2>1 DEF Seen
  <1>4. /\ m \in 1 .. Len(waiters)
        /\ \A j \in 1 .. Len(waiters) :
              p[waiters[j]] < p[waiters[m]] \/ (p[waiters[j]] = p[waiters[m]] /\ m <= j)
    BY <1>2, <1>3, MaxFound DEF Types
  <1>5. waiters' = list_remove(waiters, m) /\ sema_up(w)
    BY <1>1
  <1> HIDE DEF m
  <1>6. /\ waiters \in Seq(Threads) /\ DOMAIN waiters = 1 .. Len(waiters) /\ w \in Threads
        /\ IsInjective(waiters) /\ w \in Range(waiters)
    BY <1>2, <1>4 DEF Types, MInv, WaitersExact, Range
  <1>7. /\ waiters' \in Seq(Threads) /\ Range(waiters') = Range(waiters) \ {w}
        /\ IsInjective(waiters')
    BY <1>4, <1>5, <1>6, Removed, RemovedOne
  <1> HIDE DEF w
  <1>8. value[w] = 0 /\ pc[w] \in {"down", "asleep"}
    BY <1>6 DEF MInv, WaitersExact
  <1>9. /\ value' = [value EXCEPT ![w] = @ + 1]
        /\ pc' = IF pc[w] = "asleep" THEN [pc EXCEPT ![w] = "down"] ELSE pc
    BY <1>5 DEF sema_up
  <1>10. /\ value' \in [Threads -> Nat] /\ value'[w] = 1
         /\ \A u \in Threads \ {w} : value'[u] = value[u]
    BY <1>2, <1>6, <1>8, <1>9 DEF Types
  <1>11. /\ pc' \in [Threads -> Places] /\ pc'[w] = "down"
         /\ \A u \in Threads \ {w} : pc'[u] = pc[u]
    BY <1>2, <1>6, <1>8, <1>9 DEF Types, Places
  <1>12. Types'
    BY <1>2, <1>7, <1>10, <1>11 DEF Types
  <1>13. Inside'
    BY <1>2, <1>8, <1>11 DEF MInv, Inside
  <1>14. WaitersExact'
    BY <1>7, <1>8, <1>10, <1>11 DEF MInv, WaitersExact
  <1>15. SignalStep
    <2>1. Range(waiters) \ Range(waiters') = {w}
      BY <1>6, <1>7
    <2>2. \A j \in 1 .. Len(waiters) : Place(waiters[j]) = j
      BY <1>6 DEF Place, IsInjective
    <2>3. ASSUME NEW u \in Range(waiters), \A v \in Range(waiters) : pc[v] = "asleep"
          PROVE  /\ priority[u] <= priority[w]
                 /\ priority[u] = priority[w] => Place(w) <= Place(u)
      <3>1. PICK j \in 1 .. Len(waiters) : u = waiters[j]
        BY <1>6 DEF Range
      <3>2. p[u] = priority[u] /\ p[w] = priority[w] /\ u \in Threads
        BY <1>3, <1>6, <2>3, <3>1
      <3>3. p[u] < p[w] \/ (p[u] = p[w] /\ m <= j)
        BY <1>4, <3>1 DEF w
      <3>4. Place(w) = m /\ Place(u) = j
        BY <1>4, <2>2, <3>1 DEF w
      <3>5. priority[u] \in Int /\ priority[w] \in Int
        BY <1>6, <3>2 DEF MonitorConstants, Ints
      <3> QED
        BY <3>2, <3>3, <3>4, <3>5
    <2> QED
      BY <1>2, <1>7, <2>1, <2>3 DEF SignalStep
  <1> QED
    BY <1>12, <1>13, <1>14, <1>15 DEF MInv

(* Every step of the monitor's threads. *)
LEMMA NextMInv == ASSUME MonitorConstants, MInv, [Next]_vars PROVE MInv' /\ SignalStep
  <1>1. CASE Next
    BY <1>1, OutsideStep, WaitStep, DownStep, SignalledStep DEF Next
  <1>2. CASE UNCHANGED vars
    <2>1. UNCHANGED <<holder, waiters, value, pc, waits>>
      BY <1>2 DEF vars
    <2>2. MInv'
      BY <2>1 DEF MInv, Types, Inside, WaitersExact
    <2>3. SignalStep
      BY <2>1 DEF SignalStep
    <2> QED
      BY <2>2, <2>3
  <1> QED
    BY <1>1, <1>2

(* In every run a thread is on a condition's list exactly as long as it    *)
(* waits and was not signalled (cond_wait, cond_signal), and a signal      *)
(* takes one waiter off the list, the first of the highest if all sleep.   *)
THEOREM NoSignalLost == ASSUME MonitorConstants PROVE Spec => []WaitersExact /\ SignalsKept
  <1>1. Init => MInv
    BY InitMInv
  <1>2. MInv /\ [Next]_vars => MInv' /\ SignalStep
    BY NextMInv
  <1>3. MInv => WaitersExact
    BY DEF MInv
  <1>4. MInv /\ [Next]_vars => (WaitersExact' /\ SignalStep)
    BY <1>2 DEF MInv
  <1> QED
    BY <1>1, <1>2, <1>3, <1>4, PTL DEF Spec, SignalsKept

=============================================================================
