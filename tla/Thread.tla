------------------------------- MODULE Thread -------------------------------
(***************************************************************************)
(* The scheduler of threads/thread.c on one processor.  Code that runs     *)
(* with interrupts off is atomic up to the next call of schedule(), so the *)
(* functions of this module are operators from a kernel state k to the     *)
(* kernel state they leave; module Synch turns them into actions.          *)
(*                                                                         *)
(* A kernel state is a record with one field for each variable of Synch.   *)
(* A thread that is switched out inside the kernel keeps the rest of its   *)
(* work in k.frame[t]: the function it is in and the objects it holds in   *)
(* local variables.                                                        *)
(***************************************************************************)
EXTENDS Integers, Sequences

CONSTANTS
    NULL,
    Threads,         (* threads that can exist, other than the idle thread *)
    Idle,            (* idle_thread *)
    Main,            (* initial_thread *)
    Semas,           (* free-standing semaphores *)
    Locks,           (* locks; a lock also names its own semaphore *)
    InitPriority,    (* the priority each thread is created with *)
    Priorities,      (* priorities thread_set_priority is called with *)
    InitValue,       (* initial value of the free-standing semaphores *)
    TIME_SLICE,      (* timer ticks a thread may run before it is preempted *)
    DONATION_DEPTH,  (* longest chain of locks a donation travels *)
    MaxSleep,        (* bound: longest sleep, in ticks *)
    MaxValue,        (* bound: largest semaphore value a client produces *)
    Calls            (* bound: the kernel functions the threads call *)

ASSUME ThreadAssumption ==
    /\ Main \in Threads
    /\ Idle \notin Threads
    /\ NULL \notin Threads \cup Locks \cup Semas \cup {Idle}
    /\ Threads \cap Locks = {} /\ Threads \cap Semas = {} /\ Locks \cap Semas = {}
    /\ InitPriority \in [Threads -> Nat]
    /\ InitValue \in [Semas -> Nat]
    /\ Priorities \subseteq Nat
    /\ TIME_SLICE \in Nat \ {0}
    /\ DONATION_DEPTH \in Nat \ {0}
    /\ MaxSleep \in Nat /\ MaxValue \in Nat

(* The lists of this part of the kernel: the run queue, the waiters of     *)
(* each semaphore (free or of a lock) and, for each thread, its locks.     *)
(* The elements are the threads' elem and the locks' elem members.         *)
AllThreads  == Threads \cup {Idle}
AllSemas    == Semas \cup Locks
ready_list  == "ready"
waiters(s)  == s
locks(t)    == t

INSTANCE KernelList WITH Items <- Threads \cup Locks,
                         Lists <- {ready_list} \cup AllSemas \cup Threads

(* Where a thread goes on when it gets the processor: in its own code, or  *)
(* in a kernel function after a point where it can lose the processor.     *)
(* obj is the semaphore, lock or thread the function is about, nxt the     *)
(* element a list walk has saved.                                          *)
IntrOnOps == {"user", "try_taken", "try_push", "thread_create"}
Frames == [op  : IntrOnOps \cup {"sema_down", "lock_acquire", "lock_release",
                                 "exit_loop", "exit_release", "exit_remove"},
           obj : AllSemas \cup Threads \cup {NULL},
           nxt : Elems \cup {NULL}]

InUser == [op |-> "user", obj |-> NULL, nxt |-> NULL]

Frame(op, obj) == [op |-> op, obj |-> obj, nxt |-> NULL]

(* A failed ASSERT, a PANIC or a walk over a damaged list: the kernel      *)
(* stops there, and the model claims nothing of what follows.              *)
Panic(k, why) == [k EXCEPT !.panic = why]

Ok(k) == k.panic = "none"

ListOk(k, L, K) == WellFormed(k.heap, L, K)

-----------------------------------------------------------------------------
(* Faulty variant: the run queue is ordered without donations. *)
thread_get_ready_base(k) == list_max(k.heap, ready_list, k.priority_org)

thread_get_ready_max(k) == list_max(k.heap, ready_list, k.priority)

(* schedule() with next_thread_to_run() and thread_schedule_tail(): the    *)
(* first of the ready threads of the highest priority leaves the run queue *)
(* and starts a new time slice; idle_thread runs if there is none.         *)
schedule(k) ==
    IF list_empty(k.heap, ready_list)
    THEN [k EXCEPT !.cur = Idle, !.status[Idle] = "RUNNING", !.thread_ticks = 0]
    ELSE IF ~ ListOk(k, ready_list, Threads) THEN Panic(k, "list")
    ELSE LET next == thread_get_ready_max(k)
         IN  [k EXCEPT !.heap = list_remove(k.heap, next),
                       !.cur = next,
                       !.status[next] = "RUNNING",
                       !.thread_ticks = 0]

thread_block(k, frame) ==
    schedule([k EXCEPT !.status[k.cur] = "BLOCKED", !.frame[k.cur] = frame])

thread_unblock(k, t) ==
    IF k.status[t] # "BLOCKED" THEN Panic(k, "thread_unblock")
    ELSE [k EXCEPT !.heap = list_push_back(k.heap, ready_list, t),
                   !.status[t] = "READY"]

(* frame is what the caller still has to do when thread_yield returns. *)
thread_yield(k, frame) ==
    schedule([k EXCEPT !.heap = IF k.cur = Idle THEN k.heap
                                ELSE list_push_back(k.heap, ready_list, k.cur),
                       !.status[k.cur] = "READY",
                       !.frame[k.cur] = frame])

(* Outside an interrupt: yield to a ready thread of a strictly higher      *)
(* priority, if there is one.                                              *)
thread_defer_to_max_priority(k, frame) ==
    IF ~ Ok(k) \/ list_empty(k.heap, ready_list) THEN [k EXCEPT !.frame[k.cur] = frame]
    ELSE IF ~ ListOk(k, ready_list, Threads) THEN Panic(k, "list")
    ELSE IF k.priority[thread_get_ready_max(k)] > k.priority[k.cur]
         THEN thread_yield(k, frame)
         ELSE [k EXCEPT !.frame[k.cur] = frame]

-----------------------------------------------------------------------------
(* The largest of t's own priority and those of the threads waiting for    *)
(* the locks on its list.                                                  *)
EffectivePriority(k, t) ==
    LET held == Entries(k.heap, locks(t))
        pool == {k.priority_org[t]} \cup
                UNION {{k.priority[Entries(k.heap, waiters(held[i]))[j]] :
                          j \in DOMAIN Entries(k.heap, waiters(held[i]))} :
                         i \in DOMAIN held}
    IN  CHOOSE p \in pool : \A q \in pool : q <= p

DonorListsOk(k, t) ==
    /\ ListOk(k, locks(t), Locks)
    /\ \A i \in DOMAIN Entries(k.heap, locks(t)) :
         ListOk(k, waiters(Entries(k.heap, locks(t))[i]), Threads)

(* The recursion of recalculate_priority(t, 0) is in tail position, so it  *)
(* is the iteration of one step along blocked_lock and holder, at most     *)
(* DONATION_DEPTH times.  hop[d] is, after d steps, the priorities, the    *)
(* thread the next step is about (NULL: none) and whether the lists held.  *)
donation(k, t) ==
    LET hop[d \in 0 .. DONATION_DEPTH] ==
            IF d = 0 THEN [pri |-> k.priority, at |-> t, ok |-> t # NULL]
            ELSE LET c == hop[d - 1]
                     u == c.at
                 IN  IF u = NULL \/ ~ c.ok THEN c
                     ELSE IF ~ DonorListsOk(k, u) THEN [c EXCEPT !.ok = FALSE]
                     ELSE [pri |-> [c.pri EXCEPT
                                      ![u] = EffectivePriority([k EXCEPT !.priority = c.pri], u)],
                           at  |-> IF k.blocked_lock[u] = NULL THEN NULL
                                   ELSE k.holder[k.blocked_lock[u]],
                           ok  |-> TRUE]
    IN  hop[DONATION_DEPTH]

(* Faulty variant: the donation stops at the first holder. *)
recalculate_once(k, t) ==
    IF t = NULL THEN Panic(k, "is_thread")
    ELSE IF ~ DonorListsOk(k, t) THEN Panic(k, "list")
    ELSE [k EXCEPT !.priority[t] = EffectivePriority(k, t)]

(* t = NULL fails ASSERT(is_thread(t)). *)
recalculate_priority(k, t) ==
    [k EXCEPT !.priority = donation(k, t).pri,
              !.panic = IF donation(k, t).ok THEN k.panic
                        ELSE IF t = NULL THEN "is_thread" ELSE "list"]

(* Faulty variant: a thread that lowers its priority keeps the processor. *)
set_priority_keep(k, new_priority, frame) ==
    [recalculate_priority([k EXCEPT !.priority_org[k.cur] = new_priority], k.cur)
       EXCEPT !.frame[k.cur] = frame]

(* thread_set_priority with thread_mlfqs off. *)
thread_set_priority(k, new_priority, frame) ==
    LET k1 == recalculate_priority(
                 [k EXCEPT !.priority_org[k.cur] = new_priority], k.cur)
    IN  IF ~ Ok(k1) THEN k1
        ELSE IF new_priority < k.priority[k.cur]
             THEN thread_defer_to_max_priority(k1, frame)
             ELSE [k1 EXCEPT !.frame[k.cur] = frame]
=============================================================================
