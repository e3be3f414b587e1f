------------------------------- MODULE Mutex --------------------------------
(***************************************************************************)
(* What the locks of threads/synch.c promise: a thread gets a lock that no *)
(* thread has, and only the thread that has a lock gives it back.          *)
(***************************************************************************)
CONSTANTS Threads, Locks

VARIABLE owns       (* the locks each thread has *)

Init == owns = [t \in Threads |-> {}]

(* A lock_acquire, or a lock_try_acquire that succeeds, gets the lock. *)
Acquire(t, l) ==
    /\ \A u \in Threads : l \notin owns[u]
    /\ owns' = [owns EXCEPT ![t] = @ \cup {l}]

(* lock_release, called by the thread or for it by thread_exit. *)
Release(t, l) ==
    /\ l \in owns[t]
    /\ owns' = [owns EXCEPT ![t] = @ \ {l}]

Next == \E t \in Threads, l \in Locks : Acquire(t, l) \/ Release(t, l)

Spec == Init /\ [][Next]_owns
=============================================================================
