------------------------------- MODULE Synch --------------------------------
(***************************************************************************)
(* Semaphores, locks and priority donation (threads/synch.c) over the      *)
(* scheduler of module Thread, with the timer interrupt of devices/timer.c *)
(* as the source of preemption and of wake-ups.  The kernel runs with      *)
(* thread_mlfqs off.                                                       *)
(*                                                                         *)
(* Threads call the functions of Calls in any order the functions'         *)
(* contracts allow (a lock is released only by its holder and is not       *)
(* acquired twice).  One action is one stretch of code without a point     *)
(* where the processor can go to another thread.                           *)
(***************************************************************************)
EXTENDS Thread, FiniteSets

VARIABLES
    heap,          (* prev and next of every list element *)
    status,        (* thread->status; "NONE" before thread_create *)
    priority,      (* thread->priority, donations included *)
    priority_org,  (* thread->priority_org *)
    blocked_lock,  (* thread->blocked_lock *)
    sleep,         (* thread->awake_time - ticks; 0 when not asleep *)
    all_list,      (* all_list, front to back, without the idle thread *)
    value,         (* semaphore->value *)
    holder,        (* lock->holder *)
    cur,           (* the running thread *)
    thread_ticks,  (* ticks since the last switch *)
    frame,         (* where each thread continues in the kernel *)
    panic,         (* "none", or which check stopped the kernel *)
    owns           (* history: locks each thread acquired and did not release *)

vars == <<heap, status, priority, priority_org, blocked_lock, sleep, all_list,
          value, holder, cur, thread_ticks, frame, panic, owns>>

Kernel == [heap |-> heap, status |-> status, priority |-> priority,
           priority_org |-> priority_org, blocked_lock |-> blocked_lock,
           sleep |-> sleep, all_list |-> all_list, value |-> value,
           holder |-> holder, cur |-> cur, thread_ticks |-> thread_ticks,
           frame |-> frame, panic |-> panic, owns |-> owns]

Becomes(k) ==
    /\ heap' = k.heap                 /\ status' = k.status
    /\ priority' = k.priority         /\ priority_org' = k.priority_org
    /\ blocked_lock' = k.blocked_lock /\ sleep' = k.sleep
    /\ value' = k.value               /\ holder' = k.holder
    /\ cur' = k.cur                   /\ thread_ticks' = k.thread_ticks
    /\ frame' = k.frame               /\ panic' = k.panic
    /\ all_list' = k.all_list         /\ owns' = k.owns

(* The state thread_start() leaves: main runs, having waited once for the  *)
(* idle thread, so that its elem still points into the empty run queue.    *)
Init ==
    /\ heap = [next |-> [list_init.next EXCEPT ![Main] = list_end(ready_list)],
               prev |-> [list_init.prev EXCEPT ![Main] = list_head(ready_list)]]
    /\ status = [t \in AllThreads |-> IF t = Main THEN "RUNNING"
                                      ELSE IF t = Idle THEN "READY" ELSE "NONE"]
    /\ priority = [t \in AllThreads |-> IF t = Idle THEN 0 ELSE InitPriority[t]]
    /\ priority_org = priority
    /\ blocked_lock = [t \in AllThreads |-> NULL]
    /\ sleep = [t \in Threads |-> 0]
    /\ all_list = <<Main>>
    /\ value = [s \in AllSemas |-> IF s \in Locks THEN 1 ELSE InitValue[s]]
    /\ holder = [l \in Locks |-> NULL]
    /\ cur = Main
    /\ thread_ticks = 0
    /\ frame = [t \in AllThreads |-> InUser]
    /\ panic = "none"
    /\ owns = [t \in Threads |-> {}]

-----------------------------------------------------------------------------
(* Semaphores *)

(* One turn of the loop of sema_down: decrement, or queue up and block.    *)
(* An elem with both pointers set is removed before it is queued, whether  *)
(* or not it is on a list.  done is the frame to go on with afterwards.    *)
sema_down(k, s, waiting, done) ==
    IF k.value[s] > 0
    THEN [k EXCEPT !.value[s] = @ - 1, !.frame[k.cur] = done]
    ELSE LET h == IF is_interior(k.heap, k.cur) THEN list_remove(k.heap, k.cur) ELSE k.heap
         IN  thread_block([k EXCEPT !.heap = list_push_back(h, waiters(s), k.cur)], waiting)

(* Faulty variant: only a waiter that would preempt is woken. *)
wake_waiter_higher(k, s) ==
    IF list_empty(k.heap, waiters(s)) THEN k
    ELSE IF ~ ListOk(k, waiters(s), Threads) THEN Panic(k, "list")
    ELSE LET max == list_max(k.heap, waiters(s), k.priority)
         IN  IF k.priority[max] <= k.priority[k.cur] THEN k
             ELSE thread_unblock([k EXCEPT !.heap = list_remove(k.heap, max)], max)

(* Faulty variant: the thread is unblocked again after it was woken. *)
wake_waiter_twice(k, s) ==
    IF list_empty(k.heap, waiters(s)) THEN k
    ELSE IF ~ ListOk(k, waiters(s), Threads) THEN Panic(k, "list")
    ELSE LET max == list_max(k.heap, waiters(s), k.priority)
         IN  thread_unblock(thread_unblock([k EXCEPT !.heap = list_remove(k.heap, max)], max), max)

(* sema_up up to its call of thread_defer_to_max_priority. *)
wake_waiter(k, s) ==
    IF list_empty(k.heap, waiters(s)) THEN k
    ELSE IF ~ ListOk(k, waiters(s), Threads) THEN Panic(k, "list")
    ELSE LET max == list_max(k.heap, waiters(s), k.priority)
         IN  thread_unblock([k EXCEPT !.heap = list_remove(k.heap, max)], max)

sema_up(k, s, done) ==
    LET k1 == wake_waiter(k, s)
    IN  IF ~ Ok(k1) THEN k1
        ELSE thread_defer_to_max_priority([k1 EXCEPT !.value[s] = @ + 1], done)

-----------------------------------------------------------------------------
(* Locks *)

(* Faulty variant: the holder is not recorded. *)
lock_taken_unnamed(k, l) ==
    [k EXCEPT !.blocked_lock[k.cur] = NULL,
              !.heap = list_push_back(k.heap, locks(k.cur), l),
              !.frame[k.cur] = InUser,
              !.owns[k.cur] = @ \cup {l}]

(* The end of lock_acquire, once the semaphore is down. *)
lock_taken(k, l) ==
    [k EXCEPT !.holder[l] = k.cur,
              !.blocked_lock[k.cur] = NULL,
              !.heap = list_push_back(k.heap, locks(k.cur), l),
              !.frame[k.cur] = InUser,
              !.owns[k.cur] = @ \cup {l}]

(* Faulty variant: the ASSERT asks that nobody holds the lock. *)
lock_acquire_free(k, l) ==
    IF k.holder[l] # NULL THEN Panic(k, "lock_acquire")
    ELSE IF k.value[l] > 0 THEN lock_taken([k EXCEPT !.value[l] = @ - 1], l)
    ELSE sema_down([k EXCEPT !.heap = list_push_back(k.heap, waiters(l), k.cur),
                             !.blocked_lock[k.cur] = l], l, Frame("lock_acquire", l), InUser)

(* lock_acquire from its start: a thread that does not get the lock queues *)
(* up, donates its priority to the holder, and enters sema_down.           *)
lock_acquire(k, l) ==
    IF k.holder[l] = k.cur THEN Panic(k, "lock_acquire")
    ELSE IF k.value[l] > 0
         THEN lock_taken([k EXCEPT !.value[l] = @ - 1], l)
         ELSE LET k1 == recalculate_priority(
                          [k EXCEPT !.heap = list_push_back(k.heap, waiters(l), k.cur),
                                    !.blocked_lock[k.cur] = l], k.holder[l])
              IN  IF ~ Ok(k1) THEN k1
                  ELSE sema_down(k1, l, Frame("lock_acquire", l), InUser)

(* Faulty variant: the woken thread does not look at the value again. *)
lock_acquire_resumed_if(k, l) == lock_taken([k EXCEPT !.value[l] = @ - 1], l)

(* The rest of lock_acquire when thread_block returns in sema_down. *)
lock_acquire_resumed(k, l) ==
    IF k.value[l] > 0
    THEN lock_taken([k EXCEPT !.value[l] = @ - 1], l)
    ELSE sema_down(k, l, Frame("lock_acquire", l), InUser)

(* Faulty variant: the lock stays on the list of the releasing thread. *)
lock_release_tail_listed(k, l, done) == thread_set_priority(k, k.priority_org[k.cur], done)

(* Faulty variant: the donated priority is kept. *)
lock_release_tail_keep(k, l, done) ==
    thread_defer_to_max_priority([k EXCEPT !.heap = list_remove(k.heap, l)], done)

(* The part of lock_release after sema_up, with interrupts still off. *)
lock_release_tail(k, l, done) ==
    IF ~ is_interior(k.heap, l) THEN Panic(k, "list_remove")
    ELSE thread_set_priority([k EXCEPT !.heap = list_remove(k.heap, l)],
                             k.priority_org[k.cur], done)

(* lock_release from its start.  sema_up may hand the processor to another *)
(* thread before the lock has left the releasing thread's list.            *)
lock_release(k, l, tail, done) ==
    IF k.holder[l] # k.cur THEN Panic(k, "lock_release")
    ELSE LET k1 == sema_up([k EXCEPT !.holder[l] = NULL,
                                    !.owns[k.cur] = @ \ {l}], l, tail)
         IN  IF ~ Ok(k1) \/ k1.cur # k.cur THEN k1
             ELSE lock_release_tail(k1, l, done)

-----------------------------------------------------------------------------
(* The beginning and the end of a thread *)

(* The fields that init_thread zeroes or sets have these values in Init. *)
init_thread(k, t) == [k EXCEPT !.status[t] = "BLOCKED", !.all_list = Append(@, t)]

(* One turn of the loop of thread_exit that releases the locks on the      *)
(* thread's list: e is the element reached, its successor is read first.   *)
(* Interrupts stay off, but each lock_release can give the processor away. *)
thread_exit_loop(k, e) ==
    IF e = list_end(locks(k.cur))
    THEN IF ~ list_empty(k.heap, locks(k.cur)) THEN Panic(k, "thread_exit")
         ELSE schedule([k EXCEPT !.status[k.cur] = "DYING", !.frame[k.cur] = InUser])
    ELSE IF e \notin Locks \/ k.heap.next[e] = NULL THEN Panic(k, "list")
    ELSE IF k.holder[e] # k.cur THEN Panic(k, "exit_holder")
    ELSE lock_release(k, e, [op |-> "exit_release", obj |-> e, nxt |-> k.heap.next[e]],
                            [op |-> "exit_remove", obj |-> e, nxt |-> k.heap.next[e]])

-----------------------------------------------------------------------------
(* The timer *)

(* thread_wake for every thread of all_list, in that order: the due        *)
(* sleepers go to the end of the run queue.                                *)
Due(k) == {t \in Threads : k.sleep[t] = 1}

woken_queue(k) ==
    LET woken == SelectSeq(k.all_list, LAMBDA t : t \in Due(k))
        push[n \in 0 .. Len(woken)] ==
            IF n = 0 THEN k.heap ELSE list_push_back(push[n - 1], ready_list, woken[n])
    IN  push[Len(woken)]

(* The woken threads do not preempt the running one. *)
thread_tick(k) ==
    IF \E t \in Threads : k.sleep[t] > 0 /\ k.status[t] # "BLOCKED"
    THEN Panic(k, "thread_wake")
    ELSE [k EXCEPT !.thread_ticks = @ + 1,
                   !.sleep = [t \in Threads |-> IF @[t] > 0 THEN @[t] - 1 ELSE 0],
                   !.status = [t \in AllThreads |-> IF t \in Due(k) THEN "READY" ELSE @[t]],
                   !.heap = woken_queue(k)]

(* timer_interrupt, and the yield on return from the interrupt when the    *)
(* time slice is used up.                                                  *)
timer_interrupt(k) ==
    LET k1 == thread_tick(k)
    IN  IF Ok(k1) /\ k1.thread_ticks >= TIME_SLICE
        THEN thread_yield(k1, k.frame[k.cur]) ELSE k1

-----------------------------------------------------------------------------
(* Actions *)

Running(t) == panic = "none" /\ cur = t

(* The running thread t is in its own code, with interrupts on. *)
AtUser(t) == Running(t) /\ frame[t] = InUser

(* t continues in the kernel function op. *)
In(t, op) == Running(t) /\ frame[t].op = op

SemaDown(t, s) == "sema" \in Calls /\ AtUser(t) /\
    Becomes(sema_down(Kernel, s, Frame("sema_down", s), InUser))

SemaDownResumed(t) == In(t, "sema_down") /\
    Becomes(sema_down(Kernel, frame[t].obj, frame[t], InUser))

SemaUp(t, s) == "sema" \in Calls /\ AtUser(t) /\ value[s] < MaxValue /\
    Becomes(sema_up(Kernel, s, InUser))

(* Contract: "The lock must not already be held by the current thread." *)
LockAcquire(t, l) == "lock" \in Calls /\ AtUser(t) /\ l \notin owns[t] /\
    Becomes(lock_acquire(Kernel, l))

LockAcquireResumed(t) == In(t, "lock_acquire") /\
    Becomes(lock_acquire_resumed(Kernel, frame[t].obj))

(* Contract: "LOCK, which must be owned by the current thread." *)
LockRelease(t, l) == AtUser(t) /\ l \in owns[t] /\
    Becomes(lock_release(Kernel, l, Frame("lock_release", l), InUser))

LockReleaseResumed(t) == In(t, "lock_release") /\
    Becomes(lock_release_tail(Kernel, frame[t].obj, InUser))

(* lock_try_acquire runs with interrupts on: sema_try_down, the store to   *)
(* holder and the insertion are three steps.  The insertion is outside the *)
(* if and is made whether the lock was taken or not.                       *)
LockTryAcquire(t, l) == "try" \in Calls /\ AtUser(t) /\ l \notin owns[t] /\
    Becomes(IF holder[l] = t THEN Panic(Kernel, "lock_try_acquire")
            ELSE IF value[l] > 0
            THEN [Kernel EXCEPT !.value[l] = @ - 1, !.frame[t] = Frame("try_taken", l)]
            ELSE [Kernel EXCEPT !.frame[t] = Frame("try_push", l)])

LockTryTaken(t) == In(t, "try_taken") /\
    Becomes([Kernel EXCEPT !.holder[frame[t].obj] = t,
                           !.owns[t] = @ \cup {frame[t].obj},
                           !.frame[t] = Frame("try_push", frame[t].obj)])

LockTryPush(t) == In(t, "try_push") /\
    Becomes([Kernel EXCEPT !.heap = list_push_back(heap, locks(t), frame[t].obj),
                           !.frame[t] = InUser])

SetPriority(t, p) == "set_priority" \in Calls /\ AtUser(t) /\
    Becomes(thread_set_priority(Kernel, p, InUser))

TimerSleep(t, n) == "sleep" \in Calls /\ AtUser(t) /\ n > 0 /\
    Becomes(thread_block([Kernel EXCEPT !.sleep[t] = n], InUser))

(* The new thread is ready before its creator compares priorities, with    *)
(* interrupts on in between.  The locks thread_create takes and gives back *)
(* on the way (of the tids, of the allocators) are left out.               *)
ThreadCreate(t, u) == AtUser(t) /\ status[u] = "NONE" /\
    Becomes([thread_unblock(init_thread(Kernel, u), u)
               EXCEPT !.frame[t] = Frame("thread_create", u)])

ThreadCreated(t) == In(t, "thread_create") /\
    Becomes(IF InitPriority[frame[t].obj] >= priority[t] THEN thread_yield(Kernel, InUser)
            ELSE [Kernel EXCEPT !.frame[t] = InUser])

Without(s, t) == SelectSeq(s, LAMBDA u : u # t)

ThreadExit(t) == "exit" \in Calls /\ AtUser(t) /\
    Becomes([Kernel EXCEPT !.all_list = Without(all_list, t),
                           !.frame[t] = [op  |-> "exit_loop", obj |-> NULL,
                                         nxt |-> list_begin(heap, locks(t))]])

ExitLoop(t) == In(t, "exit_loop") /\ Becomes(thread_exit_loop(Kernel, frame[t].nxt))

ExitRelease(t) == In(t, "exit_release") /\
    Becomes(lock_release_tail(Kernel, frame[t].obj, [frame[t] EXCEPT !.op = "exit_remove"]))

ExitRemove(t) == In(t, "exit_remove") /\
    Becomes(IF ~ is_interior(heap, frame[t].obj) THEN Panic(Kernel, "list_remove")
            ELSE [Kernel EXCEPT !.heap = list_remove(heap, frame[t].obj),
                                !.frame[t] = [@ EXCEPT !.op = "exit_loop", !.obj = NULL]])

(* The loop of the idle thread. *)
idle == Running(Idle) /\ Becomes(thread_block(Kernel, InUser))

(* Interrupts are on exactly while the running thread is in IntrOnOps. *)
TimerInterrupt ==
    /\ panic = "none"
    /\ frame[cur].op \in IntrOnOps
    /\ Becomes(timer_interrupt(Kernel))

(* A thread finishes the kernel function it was switched out in. *)
Resume(t) ==
    \/ SemaDownResumed(t) \/ LockAcquireResumed(t) \/ LockReleaseResumed(t)
    \/ LockTryTaken(t) \/ LockTryPush(t) \/ ThreadCreated(t)
    \/ ExitLoop(t) \/ ExitRelease(t) \/ ExitRemove(t)

(* A thread calls the kernel. *)
Call(t) ==
    \/ \E s \in Semas : SemaDown(t, s) \/ SemaUp(t, s)
    \/ \E l \in Locks : LockAcquire(t, l) \/ LockRelease(t, l) \/ LockTryAcquire(t, l)
    \/ \E p \in Priorities : SetPriority(t, p)
    \/ \E n \in 0 .. MaxSleep : TimerSleep(t, n)
    \/ \E u \in Threads : ThreadCreate(t, u)
    \/ ThreadExit(t)

Next == (\E t \in Threads : Call(t) \/ Resume(t)) \/ idle \/ TimerInterrupt

Spec == Init /\ [][Next]_vars

(* A running thread goes on executing.  In the kernel it finishes its      *)
(* function; in its own code, if it keeps the processor and holds a lock,  *)
(* it comes to the end of the critical section.  Nothing is assumed of a   *)
(* thread that is not running: who runs is the scheduler's choice.  These  *)
(* are WF_vars(Resume(t)) and WF_vars(LockRelease(t, l)) with ENABLED      *)
(* written out as the guard of the action.                                 *)
FairSpec ==
    /\ Spec
    /\ \A t \in Threads :
         []<>~(Running(t) /\ frame[t].op # "user") \/ []<><<Resume(t)>>_vars
    /\ \A t \in Threads, l \in Locks :
         []<>~(AtUser(t) /\ l \in owns[t]) \/ []<><<LockRelease(t, l)>>_vars

-----------------------------------------------------------------------------
(* Properties *)

(* The variables have the types of the C fields they stand for. *)
TypeOK ==
    /\ heap \in Heaps
    /\ status \in [AllThreads -> {"NONE", "RUNNING", "READY", "BLOCKED", "DYING"}]
    /\ priority \in [AllThreads -> Nat]
    /\ priority_org \in [AllThreads -> Nat]
    /\ blocked_lock \in [AllThreads -> Locks \cup {NULL}]
    /\ sleep \in [Threads -> 0 .. MaxSleep]
    /\ all_list \in Seq(Threads)
    /\ value \in [AllSemas -> Nat]
    /\ holder \in [Locks -> Threads \cup {NULL}]
    /\ cur \in AllThreads
    /\ thread_ticks \in 0 .. TIME_SLICE
    /\ frame \in [AllThreads -> Frames]
    /\ panic \in STRING
    /\ owns \in [Threads -> SUBSET Locks]

(* "A lock can be held by at most a single thread at any given time": no   *)
(* two threads are both between the return of lock_acquire (or of a        *)
(* successful lock_try_acquire) and their lock_release of the same lock.   *)
MutualExclusion ==
    \A t, u \in Threads : t # u => owns[t] \cap owns[u] = {}

Abstract == INSTANCE Mutex

(* The locks of synch.c, seen only through who has which, are locks: a     *)
(* thread gets one only while no thread has it, one lock at a time, and    *)
(* nobody but the thread that has it gives it back.                        *)
LocksExclude == Abstract!Spec

(* t is between sema_try_down and the store to holder for lock l. *)
Taking(t, l) == frame[t] = Frame("try_taken", l)

(* The semaphore of a lock, its holder field and the threads that took it  *)
(* tell the same story: the lock is free with value 1, or it has value 0   *)
(* and one thread holds it or is just taking it.                           *)
LockConservation ==
    panic = "none" =>
    \A l \in Locks :
       /\ \A t \in Threads : holder[l] = t <=> l \in owns[t]
       /\ value[l] = IF holder[l] # NULL \/ \E t \in Threads : Taking(t, l) THEN 0 ELSE 1
       /\ holder[l] # NULL => \A t \in Threads : ~ Taking(t, l)
       /\ \A t, u \in Threads : Taking(t, l) /\ Taking(u, l) => t = u

(* No thread that keeps to the contracts of the lock functions fails one   *)
(* of their ASSERTs on the holder of a lock.                               *)
HolderAssertsHold ==
    panic \notin {"lock_acquire", "lock_release", "lock_try_acquire"}

(* L holds exactly the elements of S, once each. *)
Holds(L, S) ==
    /\ WellFormed(heap, L, Threads \cup Locks)
    /\ list_size(heap, L) = Cardinality(S)
    /\ {Entries(heap, L)[i] : i \in 1 .. list_size(heap, L)} = S

(* t sleeps in the sema_down of s, called directly or by lock_acquire. *)
Waiting(t, s) ==
    status[t] = "BLOCKED" /\ frame[t].op \in {"sema_down", "lock_acquire"} /\ frame[t].obj = s

(* The comment of ready_list: it lists the processes in THREAD_READY       *)
(* state, "that is, processes that are ready to run but not actually       *)
(* running".  A thread missing from it never runs again.                   *)
ReadyExact ==
    panic = "none" => Holds(ready_list, {t \in Threads : status[t] = "READY"})

(* Each list of waiters has exactly the threads asleep on that semaphore,  *)
(* although lock_acquire queues a thread twice and sema_down removes it by *)
(* pointers that may be stale.                                             *)
WaitersExact ==
    panic = "none" => \A s \in AllSemas : Holds(waiters(s), {t \in Threads : Waiting(t, s)})

(* "Locks which thread owns": outside lock_release and thread_exit, the    *)
(* locks list that donation walks has exactly the locks the thread took.   *)
OwnedExact ==
    panic = "none" =>
    \A t \in Threads : frame[t].op \in {"user", "sema_down", "lock_acquire", "thread_create"}
                       => Holds(locks(t), owns[t])

(* No ASSERT of the thread and lock code fails and no walk meets a damaged *)
(* list.                                                                   *)
NoPanic == panic = "none"

(* t has been woken from the sema_down of s and has not run yet. *)
Woken(t, s) ==
    /\ status[t] \in {"READY", "RUNNING"}
    /\ frame[t].op \in {"sema_down", "lock_acquire"} /\ frame[t].obj = s

(* No wake-up is lost: while threads sleep on a semaphore, every unit of   *)
(* its value has a thread on its way to fetch it.  sema_up wakes one       *)
(* waiter but leaves the unit for anyone to take; the woken thread goes    *)
(* back to sleep if it comes too late.                                     *)
NoLostWakeup ==
    panic = "none" =>
    \A s \in AllSemas : (\E t \in Threads : Waiting(t, s))
                        => Cardinality({t \in Threads : Woken(t, s)}) >= value[s]

(* Strict priority scheduling: whenever a thread runs its own code, no     *)
(* ready thread has a higher priority, and the processor idles only when   *)
(* no thread is ready.                                                     *)
PriorityScheduled ==
    panic = "none" /\ frame[cur] = InUser =>
    \A t \in Threads : status[t] = "READY" => cur # Idle /\ priority[t] <= priority[cur]

(* What thread_get_priority should return: the thread's own priority or,   *)
(* if larger, the largest of those of the threads that wait for its locks. *)
DonatedTo(t) ==
    {priority_org[t]} \cup {priority[u] : u \in {w \in Threads : \E l \in owns[t] : Waiting(w, l)}}

(* Donations are given when a thread starts to wait, follow the waiter's   *)
(* own priority, and are taken back when the lock is released.             *)
DonationExact ==
    panic = "none" =>
    \A t \in Threads : priority[t] \in DonatedTo(t) /\ \A p \in DonatedTo(t) : p <= priority[t]

(* A thread that queues up for a lock raises the holder, the holder of the *)
(* lock which that one waits for, and so on: "If couldn't get lock, that   *)
(* means that someone else is holding it. As such, we elevate them to our  *)
(* priority."                                                              *)
Elevates(t) ==
    LET chain[n \in 0 .. Cardinality(Threads)] ==
            IF n = 0 THEN {t}
            ELSE {holder[blocked_lock[u]] : u \in {v \in chain[n - 1] \ {NULL} :
                                                    blocked_lock[v] # NULL}}
    IN  \A n \in 1 .. Cardinality(Threads) : \A u \in chain[n] \ {NULL} : priority[u] >= priority[t]

ElevatesInStep ==
    \A t \in Threads : frame[t] = InUser /\ frame'[t].op = "lock_acquire" /\ panic' = "none" => Elevates(t)'

ElevatesHolders == [][ElevatesInStep]_vars

(* The same at any later time: while a thread waits for a lock, its holder *)
(* has at least its priority.                                              *)
HolderElevated ==
    panic = "none" =>
    \A t \in Threads, l \in Locks :
       Waiting(t, l) /\ holder[l] # NULL => priority[holder[l]] >= priority[t]

(* t has the highest priority of all threads, all others having less. *)
Highest(t) == \A u \in Threads \ {t} : InitPriority[u] < InitPriority[t]

(* What donation is for: the thread of the highest priority does not wait  *)
(* for ever behind threads of middle priority that never give up the       *)
(* processor.  The holder of its lock runs with the donated priority,      *)
(* releases the lock, and the waiting thread gets it.                      *)
NoPriorityInversion ==
    \A t \in Threads, l \in Locks :
       Highest(t) /\ Waiting(t, l) ~> l \in owns[t]

=============================================================================
