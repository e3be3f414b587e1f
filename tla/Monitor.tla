------------------------------ MODULE Monitor -------------------------------
(***************************************************************************)
(* Condition variables (threads/synch.c): cond_wait, cond_signal and       *)
(* cond_broadcast on one condition and its lock.  The lock and the         *)
(* semaphores are those of Synch, taken at what they promise; a thread may *)
(* lose the processor anywhere.                                            *)
(***************************************************************************)
EXTENDS Integers, Sequences, Functions

CONSTANTS
    Threads,
    priority,       (* thread -> its priority *)
    Garbage,        (* what a priority may seem to be that is read where there is none *)
    MaxWaits        (* bound on calls of cond_wait *)

NONE == "none"

VARIABLES
    holder,         (* of the lock *)
    waiters,        (* cond->waiters: whose semaphore_elem it is, in order *)
    value,          (* thread -> value of the semaphore in its semaphore_elem *)
    pc,
    waits

vars == <<holder, waiters, value, pc, waits>>

-----------------------------------------------------------------------------
(* Also the last step of cond_wait. *)
lock_acquire(t) ==
    /\ pc[t] \in {"out", "back"} /\ holder = NONE
    /\ holder' = t /\ pc' = [pc EXCEPT ![t] = "in"]
    /\ UNCHANGED <<waiters, value, waits>>

lock_release(t) ==
    /\ pc[t] = "in"
    /\ holder' = NONE /\ pc' = [pc EXCEPT ![t] = "out"]
    /\ UNCHANGED <<waiters, value, waits>>

(* cond_wait up to the end of its lock_release. *)
cond_wait(t) ==
    /\ pc[t] = "in" /\ waits < MaxWaits
    /\ value' = [value EXCEPT ![t] = 0]
    /\ waiters' = Append(waiters, t)
    /\ holder' = NONE /\ pc' = [pc EXCEPT ![t] = "down"]
    /\ waits' = waits + 1

(* A turn of the loop of sema_down in cond_wait, with interrupts off. *)
sema_down(t) ==
    /\ pc[t] = "down"
    /\ value' = [value EXCEPT ![t] = 0]
    /\ pc' = [pc EXCEPT ![t] = IF value[t] > 0 THEN "back" ELSE "asleep"]
    /\ UNCHANGED <<holder, waiters, waits>>

-----------------------------------------------------------------------------
(* The priorities condvar_queue_compare may see: the first waiter of a     *)
(* semaphore_elem's semaphore is its thread, once it sleeps; before that   *)
(* there is no list element where list_front looks.                        *)
Seen ==
    {p \in [Range(waiters) -> Range(priority) \cup Garbage] :
        \A t \in Range(waiters) : pc[t] = "asleep" => p[t] = priority[t]}

list_remove(list, i) == SubSeq(list, 1, i - 1) \o SubSeq(list, i + 1, Len(list))

(* list_max with condvar_queue_compare: where the first of the largest is. *)
list_max(p) ==
    CHOOSE i \in DOMAIN waiters : \A j \in DOMAIN waiters :
       p[waiters[j]] < p[waiters[i]] \/ (p[waiters[j]] = p[waiters[i]] /\ i <= j)

(* Faulty variant: the sleeping thread is woken without its unit. *)
UpUncounted(t) ==
    /\ value' = IF pc[t] = "asleep" THEN value ELSE [value EXCEPT ![t] = @ + 1]
    /\ pc' = IF pc[t] = "asleep" THEN [pc EXCEPT ![t] = "down"] ELSE pc

(* sema_up: a thread that sleeps becomes ready and tests the value again. *)
sema_up(t) ==
    /\ value' = [value EXCEPT ![t] = @ + 1]
    /\ pc' = IF pc[t] = "asleep" THEN [pc EXCEPT ![t] = "down"] ELSE pc

(* cond_signal with a waiter, alone or as a turn of cond_broadcast, whose  *)
(* caller keeps the lock over its thread_yield.                            *)
cond_signal(t) ==
    /\ holder = t /\ pc[t] \in {"in", "broadcast"} /\ waiters # <<>>
    /\ \E p \in Seen :
          waiters' = list_remove(waiters, list_max(p)) /\ sema_up(waiters[list_max(p)])
    /\ UNCHANGED <<holder, waits>>

cond_broadcast(t) ==
    /\ \/ pc[t] = "in" /\ waiters # <<>> /\ pc' = [pc EXCEPT ![t] = "broadcast"]
       \/ pc[t] = "broadcast" /\ waiters = <<>> /\ pc' = [pc EXCEPT ![t] = "in"]
    /\ UNCHANGED <<holder, waiters, value, waits>>

Init ==
    /\ holder = NONE /\ waiters = <<>> /\ waits = 0
    /\ value = [t \in Threads |-> 0] /\ pc = [t \in Threads |-> "out"]

Next ==
    \E t \in Threads :
       \/ lock_acquire(t) \/ lock_release(t) \/ cond_wait(t) \/ sema_down(t)
       \/ cond_signal(t) \/ cond_broadcast(t)

Spec == Init /\ [][Next]_vars

-----------------------------------------------------------------------------
(* Properties *)

(* No signal is lost: a thread between the push and the wake-up of its     *)
(* cond_wait is in the list exactly as long as nobody has signalled it,    *)
(* after that it has the unit to go on with, and it never sleeps with one, *)
(* wherever it was when the signal came.                                   *)
WaitersExact ==
    /\ IsInjective(waiters)
    /\ \A t \in Threads :
          /\ (t \in Range(waiters)) = (pc[t] \in {"down", "asleep"} /\ value[t] = 0)
          /\ value[t] > 0 => pc[t] = "down" /\ value[t] = 1

Place(t) == CHOOSE i \in DOMAIN waiters : waiters[i] = t

(* A signal takes one waiter off the list, and nothing else does; when     *)
(* all of them sleep it is the first of those of the highest priority.     *)
(* Nobody starts to wait during a broadcast, so it wakes those that waited *)
(* when it began, and ends.                                                *)
SignalStep ==
    LET gone == Range(waiters) \ Range(waiters')
    IN  /\ \A t \in gone :
             /\ gone = {t} /\ holder # NONE
             /\ \A u \in Range(waiters) :
                   (\A w \in Range(waiters) : pc[w] = "asleep") =>
                      /\ priority[u] <= priority[t]
                      /\ priority[u] = priority[t] =>
                            Place(t) <= Place(u)
        /\ (\E t \in Threads : pc[t] = "broadcast") => Range(waiters') \subseteq Range(waiters)

SignalsKept == [][WaitersExact' /\ SignalStep]_vars

(* Threads have names of their own, and a priority is an int, also where   *)
(* it is only what some memory holds.                                      *)
INT_MAX == 2147483647
Ints == -INT_MAX - 1 .. INT_MAX
MonitorConstants ==
    NONE \notin Threads /\ priority \in [Threads -> Ints] /\ Garbage \subseteq Ints

=============================================================================
