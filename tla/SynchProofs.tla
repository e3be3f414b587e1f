---------------------------- MODULE SynchProofs -----------------------------
(***************************************************************************)
(* Proofs about module Synch, for any number of threads, locks and         *)
(* semaphores, any priorities and any bounds: mutual exclusion, the        *)
(* agreement of a lock's semaphore with its holder, and the ASSERTs on the *)
(* holder.  First what the functions do to the values of semaphores, to    *)
(* the holders of locks and to the frames of threads, whatever they do to  *)
(* lists and priorities; then the inductive invariant IInv, the kinds of   *)
(* steps that preserve it, the actions, and the theorems.                  *)
(***************************************************************************)
EXTENDS Synch, TLAPS

(* Zenon proves most steps; the others, with arithmetic or records, name SMT. *)
USE Zenon

(* A kernel state is a record with these fields. *)
IsKernel(k) ==
    DOMAIN k = {"heap", "status", "priority", "priority_org", "blocked_lock", "sleep",
                "all_list", "value", "holder", "cur", "thread_ticks", "frame", "panic", "owns"}

(* The panics of list walks and of the scheduler, as opposed to those of   *)
(* the ASSERTs on the holder of a lock.                                    *)
OtherPanics == {"list", "list_remove", "thread_unblock", "is_thread", "thread_wake",
                "thread_exit", "exit_holder"}

SameLocks(a, b) == a.value = b.value /\ a.holder = b.holder /\ a.owns = b.owns

(* a comes from b by code that may panic but that touches no lock. *)
Quiet(a, b) ==
    /\ IsKernel(a)
    /\ SameLocks(a, b)
    /\ a.panic = b.panic \/ a.panic \in OtherPanics

-----------------------------------------------------------------------------
(* What the functions of the scheduler leave alone. *)

(* schedule() changes the running thread, and no lock or frame. *)
LEMMA ScheduleQuiet ==
    ASSUME NEW k, IsKernel(k)
    PROVE  Quiet(schedule(k), k) /\ schedule(k).frame = k.frame
  BY DEF schedule, IsKernel, SameLocks, Quiet, Panic, OtherPanics

(* thread_block() leaves the thread with the frame it is given. *)
LEMMA BlockQuiet ==
    ASSUME NEW k, NEW f, IsKernel(k)
    PROVE  /\ Quiet(thread_block(k, f), k)
           /\ thread_block(k, f).frame = [k.frame EXCEPT ![k.cur] = f]
  <1> DEFINE b == [k EXCEPT !.status[k.cur] = "BLOCKED", !.frame[k.cur] = f]
  <1>1. IsKernel(b) /\ SameLocks(b, k) /\ b.panic = k.panic
        /\ b.frame = [k.frame EXCEPT ![k.cur] = f]
    BY DEF IsKernel, SameLocks
  <1>2. Quiet(schedule(b), b) /\ schedule(b).frame = b.frame
    BY <1>1, ScheduleQuiet
  <1> QED
    BY <1>1, <1>2 DEF thread_block, Quiet, SameLocks

(* So does thread_yield(). *)
LEMMA YieldQuiet ==
    ASSUME NEW k, NEW f, IsKernel(k)
    PROVE  /\ Quiet(thread_yield(k, f), k)
           /\ thread_yield(k, f).frame = [k.frame EXCEPT ![k.cur] = f]
  <1> DEFINE h == IF k.cur = Idle THEN k.heap ELSE list_push_back(k.heap, ready_list, k.cur)
             y == [k EXCEPT !.heap = h, !.status[k.cur] = "READY", !.frame[k.cur] = f]
  <1>1. IsKernel(y) /\ SameLocks(y, k) /\ y.panic = k.panic
        /\ y.frame = [k.frame EXCEPT ![k.cur] = f]
    BY DEF IsKernel, SameLocks
  <1>2. Quiet(schedule(y), y) /\ schedule(y).frame = y.frame
    BY <1>1, ScheduleQuiet
  <1>3. thread_yield(k, f) = schedule(y)
    BY DEF thread_yield
  <1> QED
    BY <1>1, <1>2, <1>3 DEF Quiet, SameLocks

(* thread_unblock() queues a thread and switches to none. *)
LEMMA UnblockQuiet ==
    ASSUME NEW k, NEW t, IsKernel(k)
    PROVE  /\ Quiet(thread_unblock(k, t), k)
           /\ thread_unblock(k, t).frame = k.frame
           /\ thread_unblock(k, t).cur = k.cur
  BY DEF thread_unblock, IsKernel, SameLocks, Quiet, Panic, OtherPanics

(* thread_defer_to_max_priority() yields or returns at once. *)
LEMMA DeferQuiet ==
    ASSUME NEW k, NEW f, IsKernel(k)
    PROVE  /\ Quiet(thread_defer_to_max_priority(k, f), k)
           /\ \/ thread_defer_to_max_priority(k, f).frame = [k.frame EXCEPT ![k.cur] = f]
              \/ thread_defer_to_max_priority(k, f).panic \in OtherPanics
  <1> DEFINE d == thread_defer_to_max_priority(k, f)
  <1>1. \/ d = [k EXCEPT !.frame[k.cur] = f]
        \/ d = Panic(k, "list")
        \/ d = thread_yield(k, f)
    BY DEF thread_defer_to_max_priority
  <1>2. CASE d = [k EXCEPT !.frame[k.cur] = f]
    BY <1>2 DEF IsKernel, SameLocks, Quiet
  <1>3. CASE d = Panic(k, "list")
    BY <1>3 DEF IsKernel, SameLocks, Quiet, Panic, OtherPanics
  <1>4. CASE d = thread_yield(k, f)
    BY SMT, <1>4, YieldQuiet
  <1> QED
    BY <1>1, <1>2, <1>3, <1>4

(* recalculate_priority() changes priorities only. *)
LEMMA RecalculateQuiet ==
    ASSUME NEW k, NEW t, IsKernel(k)
    PROVE  /\ Quiet(recalculate_priority(k, t), k)
           /\ recalculate_priority(k, t).frame = k.frame
           /\ recalculate_priority(k, t).cur = k.cur
  BY DEF recalculate_priority, IsKernel, SameLocks, Quiet, OtherPanics

(* thread_set_priority() changes priorities, and may yield. *)
LEMMA SetPriorityQuiet ==
    ASSUME NEW k, NEW p, NEW f, IsKernel(k), Ok(k)
    PROVE  /\ Quiet(thread_set_priority(k, p, f), k)
           /\ \/ thread_set_priority(k, p, f).frame = [k.frame EXCEPT ![k.cur] = f]
              \/ thread_set_priority(k, p, f).panic \in OtherPanics
  <1> DEFINE k0 == [k EXCEPT !.priority_org[k.cur] = p]
             k1 == recalculate_priority(k0, k.cur)
             d  == thread_set_priority(k, p, f)
  <1>1. IsKernel(k0) /\ SameLocks(k0, k) /\ k0.panic = k.panic /\ k0.frame = k.frame
        /\ k0.cur = k.cur
    BY DEF IsKernel, SameLocks
  <1>2. Quiet(k1, k0) /\ k1.frame = k0.frame /\ k1.cur = k0.cur
    BY <1>1, RecalculateQuiet
  <1>3. Quiet(k1, k) /\ k1.frame = k.frame /\ k1.cur = k.cur
    BY <1>1, <1>2 DEF Quiet, SameLocks
  <1> HIDE DEF k0, k1
  <1>4. \/ ~ Ok(k1) /\ d = k1
        \/ d = thread_defer_to_max_priority(k1, f)
        \/ d = [k1 EXCEPT !.frame[k.cur] = f]
    BY DEF thread_set_priority, k0, k1
  <1>5. CASE ~ Ok(k1) /\ d = k1
    BY <1>3, <1>5 DEF Quiet, Ok
  <1>6. CASE d = thread_defer_to_max_priority(k1, f)
    BY SMT, <1>3, <1>6, DeferQuiet DEF Quiet, SameLocks
  <1>7. CASE d = [k1 EXCEPT !.frame[k.cur] = f]
    BY <1>3, <1>7 DEF IsKernel, SameLocks, Quiet
  <1> QED
    BY <1>4, <1>5, <1>6, <1>7

-----------------------------------------------------------------------------
(* What the functions of synch.c do to values, holders and frames. *)

(* The function a is b except that it maps i to v.  In this form, unlike   *)
(* that of EXCEPT, the fact is about the values of a and b only.           *)
Moves(a, b, i, v) ==
    DOMAIN a = DOMAIN b /\ \A x \in DOMAIN b : a[x] = IF x = i THEN v ELSE b[x]

(* A turn of sema_down() takes one unit of s, or blocks and takes none. *)
LEMMA SemaDownEffect ==
    ASSUME NEW k, NEW s, NEW w, NEW d, IsKernel(k)
    PROVE  LET r == sema_down(k, s, w, d)
           IN  /\ IsKernel(r) /\ r.holder = k.holder /\ r.owns = k.owns
               /\ r.panic = k.panic \/ r.panic \in OtherPanics
               /\ \/ /\ k.value[s] > 0
                     /\ Moves(r.value, k.value, s, k.value[s] - 1)
                     /\ Moves(r.frame, k.frame, k.cur, d)
                  \/ r.value = k.value /\ Moves(r.frame, k.frame, k.cur, w)
  <1> DEFINE r == sema_down(k, s, w, d)
  <1>1. CASE k.value[s] > 0
    <2>1. r = [k EXCEPT !.value[s] = @ - 1, !.frame[k.cur] = d]
      BY <1>1 DEF sema_down
    <2> QED
      BY SMT, <1>1, <2>1 DEF IsKernel, Moves
  <1>2. CASE ~ (k.value[s] > 0)
    <2> DEFINE h  == IF is_interior(k.heap, k.cur) THEN list_remove(k.heap, k.cur) ELSE k.heap
               k1 == [k EXCEPT !.heap = list_push_back(h, waiters(s), k.cur)]
    <2>1. r = thread_block(k1, w)
      BY <1>2 DEF sema_down
    <2>2. IsKernel(k1) /\ SameLocks(k1, k) /\ k1.frame = k.frame /\ k1.cur = k.cur
          /\ k1.panic = k.panic
      BY DEF IsKernel, SameLocks
    <2> HIDE DEF k1
    <2>3. Quiet(r, k1) /\ r.frame = [k1.frame EXCEPT ![k1.cur] = w]
      BY SMT, <2>1, <2>2, BlockQuiet
    <2> QED
      BY <2>2, <2>3 DEF Quiet, SameLocks, Moves
  <1> QED
    BY <1>1, <1>2

(* Waking a waiter changes no value. *)
LEMMA WakeQuiet ==
    ASSUME NEW k, NEW s, IsKernel(k)
    PROVE  /\ Quiet(wake_waiter(k, s), k)
           /\ wake_waiter(k, s).frame = k.frame
           /\ wake_waiter(k, s).cur = k.cur
  <1> DEFINE max == list_max(k.heap, waiters(s), k.priority)
             k1  == [k EXCEPT !.heap = list_remove(k.heap, max)]
             r   == wake_waiter(k, s)
  <1>1. r = k \/ r = Panic(k, "list") \/ r = thread_unblock(k1, max)
    BY DEF wake_waiter
  <1>2. IsKernel(k1) /\ SameLocks(k1, k) /\ k1.frame = k.frame /\ k1.cur = k.cur
        /\ k1.panic = k.panic
    BY DEF IsKernel, SameLocks
  <1> HIDE DEF k1
  <1>3. CASE r = k
    BY <1>3 DEF Quiet, SameLocks
  <1>4. CASE r = Panic(k, "list")
    BY <1>4 DEF Quiet, SameLocks, Panic, IsKernel, OtherPanics
  <1>5. CASE r = thread_unblock(k1, max)
    BY SMT, <1>2, <1>5, UnblockQuiet DEF Quiet, SameLocks
  <1> QED
    BY <1>1, <1>3, <1>4, <1>5

(* sema_up() adds one unit to s, or panics. *)
LEMMA SemaUpEffect ==
    ASSUME NEW k, NEW s, NEW d, IsKernel(k), Ok(k)
    PROVE  LET r == sema_up(k, s, d)
           IN  /\ IsKernel(r) /\ r.holder = k.holder /\ r.owns = k.owns
               /\ \/ r.panic \in OtherPanics
                  \/ /\ r.panic = k.panic
                     /\ Moves(r.value, k.value, s, k.value[s] + 1)
                     /\ Moves(r.frame, k.frame, k.cur, d)
  <1> DEFINE k1 == wake_waiter(k, s)
             k2 == [k1 EXCEPT !.value[s] = @ + 1]
             r  == sema_up(k, s, d)
  <1>1. Quiet(k1, k) /\ k1.frame = k.frame /\ k1.cur = k.cur
    BY WakeQuiet
  <1> HIDE DEF k1
  <1>2. CASE ~ Ok(k1)
    <2>1. r = k1
      BY <1>2 DEF sema_up, k1
    <2> QED
      BY <1>1, <1>2, <2>1 DEF Quiet, SameLocks, Ok
  <1>3. CASE Ok(k1)
    <2>1. r = thread_defer_to_max_priority(k2, d)
      BY <1>3 DEF sema_up, k1
    <2>2. /\ IsKernel(k2) /\ k2.holder = k.holder /\ k2.owns = k.owns
          /\ Moves(k2.value, k.value, s, k.value[s] + 1)
          /\ k2.frame = k.frame /\ k2.cur = k.cur /\ k2.panic = k1.panic
      BY <1>1 DEF IsKernel, Quiet, SameLocks, Moves
    <2> HIDE DEF k2
    <2>3. /\ Quiet(r, k2)
          /\ r.frame = [k2.frame EXCEPT ![k2.cur] = d] \/ r.panic \in OtherPanics
      BY SMT, <2>1, <2>2, DeferQuiet
    <2>4. k2.panic = k.panic
      BY <1>3, <2>2 DEF Ok
    <2> QED
      BY <2>2, <2>3, <2>4 DEF Quiet, SameLocks, Moves
  <1> QED
    BY <1>2, <1>3

(* What lock_release() does after sema_up() touches no value and no holder. *)
LEMMA ReleaseTailEffect ==
    ASSUME NEW k, NEW l, NEW d, IsKernel(k), Ok(k)
    PROVE  LET r == lock_release_tail(k, l, d)
           IN  /\ Quiet(r, k)
               /\ Moves(r.frame, k.frame, k.cur, d) \/ r.panic \in OtherPanics
  <1> DEFINE k1 == [k EXCEPT !.heap = list_remove(k.heap, l)]
             r  == lock_release_tail(k, l, d)
  <1>1. r = Panic(k, "list_remove") \/ r = thread_set_priority(k1, k.priority_org[k.cur], d)
    BY DEF lock_release_tail
  <1>2. IsKernel(k1) /\ SameLocks(k1, k) /\ k1.frame = k.frame /\ k1.cur = k.cur
        /\ k1.panic = k.panic /\ Ok(k1)
    BY DEF IsKernel, SameLocks, Ok
  <1> HIDE DEF k1
  <1>3. CASE r = Panic(k, "list_remove")
    BY <1>3 DEF Quiet, SameLocks, Panic, IsKernel, OtherPanics
  <1>4. CASE r = thread_set_priority(k1, k.priority_org[k.cur], d)
    <2>1. /\ Quiet(r, k1)
          /\ r.frame = [k1.frame EXCEPT ![k1.cur] = d] \/ r.panic \in OtherPanics
      BY SMT, <1>2, <1>4, SetPriorityQuiet
    <2> QED
      BY <1>2, <2>1 DEF Quiet, SameLocks, Moves
  <1> QED
    BY <1>1, <1>3, <1>4

(* lock_release() by the holder gives the lock back exactly once. *)
LEMMA ReleaseEffect ==
    ASSUME NEW k, NEW l, NEW tail, NEW d, IsKernel(k), Ok(k), k.holder[l] = k.cur,
           NEW r, r = lock_release(k, l, tail, d)
    PROVE  /\ IsKernel(r) /\ r.owns = [k.owns EXCEPT ![k.cur] = @ \ {l}]
           /\ \/ r.panic \in OtherPanics
              \/ /\ r.panic = k.panic
                 /\ Moves(r.holder, k.holder, l, NULL)
                 /\ Moves(r.value, k.value, l, k.value[l] + 1)
                 /\ Moves(r.frame, k.frame, k.cur, tail) \/ Moves(r.frame, k.frame, k.cur, d)
  <1> DEFINE k0 == [k EXCEPT !.holder[l] = NULL, !.owns[k.cur] = @ \ {l}]
             k1 == sema_up(k0, l, tail)
  <1>1. /\ IsKernel(k0) /\ k0.owns = [k.owns EXCEPT ![k.cur] = @ \ {l}]
        /\ Moves(k0.holder, k.holder, l, NULL) /\ k0.value = k.value
        /\ k0.frame = k.frame /\ k0.cur = k.cur /\ k0.panic = k.panic /\ Ok(k0)
    BY DEF IsKernel, Ok, Moves
  <1> HIDE DEF k0
  <1>2. /\ IsKernel(k1) /\ k1.holder = k0.holder /\ k1.owns = k0.owns
        /\ \/ k1.panic \in OtherPanics
           \/ /\ k1.panic = k0.panic
              /\ Moves(k1.value, k0.value, l, k0.value[l] + 1)
              /\ Moves(k1.frame, k0.frame, k0.cur, tail)
    BY <1>1, SemaUpEffect
  <1> HIDE DEF k1
  <1>3. CASE ~ Ok(k1) \/ k1.cur # k.cur
    <2>1. r = k1
      BY <1>3 DEF lock_release, k0, k1
    <2> QED
      BY <1>1, <1>2, <2>1
  <1>4. CASE Ok(k1) /\ k1.cur = k.cur
    <2>1. r = lock_release_tail(k1, l, d)
      BY <1>4 DEF lock_release, k0, k1
    <2>2. Quiet(r, k1) /\ (Moves(r.frame, k1.frame, k1.cur, d) \/ r.panic \in OtherPanics)
      BY <1>2, <1>4, <2>1, ReleaseTailEffect
    <2>3. k1.panic \notin OtherPanics
      BY <1>4 DEF Ok, OtherPanics
    <2> QED
      BY SMT, <1>1, <1>2, <1>4, <2>2, <2>3 DEF Quiet, SameLocks, Moves
  <1> QED
    BY <1>3, <1>4

-----------------------------------------------------------------------------
(* The inductive invariant *)

LockOps == {"lock_acquire", "lock_release", "try_taken", "try_push",
            "exit_release", "exit_remove"}

(* A frame that is inside a lock function names a lock, and one inside     *)
(* sema_down names a free-standing semaphore.                              *)
FrameOK(f) ==
    /\ DOMAIN f = {"op", "obj", "nxt"}
    /\ f.op \in LockOps => f.obj \in Locks
    /\ f.op = "sema_down" => f.obj \in Semas
    /\ f.op = "try_taken" => f = Frame("try_taken", f.obj)

(* The types the proofs need. *)
LockTypeOK ==
    /\ DOMAIN value = AllSemas /\ \A s \in AllSemas : value[s] \in Nat
    /\ DOMAIN holder = Locks /\ \A l \in Locks : holder[l] \in Threads \cup {NULL}
    /\ DOMAIN frame = AllThreads /\ \A t \in AllThreads : FrameOK(frame[t])

(* The part of LockConservation about one lock. *)
Conserved(l) ==
    /\ \A t \in Threads : holder[l] = t <=> l \in owns[t]
    /\ value[l] = IF holder[l] # NULL \/ \E t \in Threads : Taking(t, l) THEN 0 ELSE 1
    /\ holder[l] # NULL => \A t \in Threads : ~ Taking(t, l)
    /\ \A t, u \in Threads : Taking(t, l) /\ Taking(u, l) => t = u

OwnsTypeOK == DOMAIN owns = Threads /\ \A t \in Threads : owns[t] \subseteq Locks

(* The inductive invariant.  Mutual exclusion is not inductive by itself:  *)
(* it takes the value of the semaphore to rule out a second holder, and    *)
(* the frames to tell the values while a thread is inside                  *)
(* lock_try_acquire.  A panic stops the kernel in the middle of a          *)
(* function, where only the first three conjuncts hold.                    *)
IInv ==
    /\ OwnsTypeOK
    /\ MutualExclusion
    /\ HolderAssertsHold
    /\ panic = "none" => LockTypeOK /\ \A l \in Locks : Conserved(l)

(* The invariant holds when main starts. *)
LEMMA InitIInv == Init => IInv
  <1> SUFFICES ASSUME Init PROVE IInv
    OBVIOUS
  <1> USE ThreadAssumption
  <1>1. OwnsTypeOK /\ MutualExclusion /\ HolderAssertsHold
    BY DEF Init, OwnsTypeOK, MutualExclusion, HolderAssertsHold
  <1>2. FrameOK(InUser)
    BY DEF FrameOK, InUser, LockOps
  <1>3. LockTypeOK
    BY <1>2 DEF Init, LockTypeOK, AllSemas
  <1>4. ASSUME NEW l \in Locks PROVE Conserved(l)
    <2>1. \A t \in Threads : frame[t] = InUser /\ ~ Taking(t, l)
      BY DEF Init, Taking, InUser, Frame, AllThreads
    <2>2. holder[l] = NULL /\ value[l] = 1 /\ \A t \in Threads : owns[t] = {} /\ t # NULL
      BY DEF Init, AllSemas
    <2> QED
      BY <2>1, <2>2 DEF Conserved
  <1> QED
    BY <1>1, <1>3, <1>4 DEF IInv

(* What a step may do to the locks the threads have: one thread gets one   *)
(* that is free, or gives one of its own back.                             *)
LocksMove == owns' = owns \/ Abstract!Next

(* What is shown of every step. *)
GoodStep == IInv' /\ LocksMove

(* A step that ends in a panic other than those of the holder ASSERTs, and *)
(* that takes no lock, preserves the invariant.                            *)
LEMMA PanicStep ==
    ASSUME IInv, panic' \in OtherPanics,
           DOMAIN owns' = Threads, \A t \in Threads : owns'[t] \subseteq owns[t],
           LocksMove
    PROVE  GoodStep
  BY DEF GoodStep, IInv, OtherPanics, HolderAssertsHold, MutualExclusion, OwnsTypeOK

(* Going on with frame f, the running thread neither starts nor ends the   *)
(* moment between sema_try_down and the store to holder.                   *)
Leaves(f) ==
    \/ f.op # "try_taken" /\ frame[cur].op # "try_taken"
    \/ f = frame[cur]
    \/ cur \notin Threads

(* What the frames of a step say of the threads that are taking a lock. *)
LEMMA TakingUnmoved ==
    ASSUME LockTypeOK, NEW f, Moves(frame', frame, cur, f),
           Leaves(f)
    PROVE  \A t \in Threads, l \in Locks : Taking(t, l)' <=> Taking(t, l)
  BY SMT DEF LockTypeOK, Moves, Taking, Frame, AllThreads, Leaves

(* A step that changes no lock preserves the invariant. *)
LEMMA QuietStep ==
    ASSUME IInv, panic = "none", panic' = panic, holder' = holder, owns' = owns,
           DOMAIN value' = AllSemas, \A s \in AllSemas : value'[s] \in Nat,
           \A l \in Locks : value'[l] = value[l],
           NEW f, FrameOK(f) \/ f = frame[cur], Moves(frame', frame, cur, f),
           Leaves(f)
    PROVE  GoodStep
  <1>1. LockTypeOK /\ \A l \in Locks : Conserved(l)
    BY DEF IInv
  <1>2. LockTypeOK'
    BY <1>1 DEF LockTypeOK, Moves
  <1>3. \A t \in Threads, l \in Locks : Taking(t, l)' <=> Taking(t, l)
    BY <1>1, TakingUnmoved
  <1>4. \A l \in Locks : Conserved(l)'
    BY <1>1, <1>3 DEF Conserved
  <1> QED
    BY <1>2, <1>4 DEF GoodStep, LocksMove, IInv, MutualExclusion, HolderAssertsHold, OwnsTypeOK

(* A thread takes a free lock. *)
LEMMA TakeStep ==
    ASSUME IInv, panic = "none", panic' = panic,
           NEW t \in Threads, cur = t, frame[t].op # "try_taken",
           NEW l \in Locks, value[l] > 0,
           Moves(value', value, l, value[l] - 1),
           Moves(holder', holder, l, t),
           owns' = [owns EXCEPT ![t] = @ \cup {l}],
           Moves(frame', frame, t, InUser)
    PROVE  GoodStep
  <1> Moves(owns', owns, t, owns[t] \cup {l})
    BY DEF Moves
  <1>1. LockTypeOK /\ \A m \in Locks : Conserved(m)
    BY DEF IInv
  <1>2. FrameOK(InUser) /\ InUser.op # "try_taken"
    BY DEF FrameOK, InUser, LockOps
  <1>3. \A u \in Threads, m \in Locks : Taking(u, m)' <=> Taking(u, m)
    BY <1>1, <1>2, TakingUnmoved DEF Leaves
  <1>4. t # NULL /\ \A u \in Threads : u # NULL
    BY ThreadAssumption
  <1>5. holder[l] = NULL /\ value[l] = 1 /\ \A u \in Threads : ~ Taking(u, l) /\ l \notin owns[u]
    BY SMT, <1>1, <1>4 DEF Conserved
  <1>6. LockTypeOK'
    BY SMT, <1>1, <1>2, <1>5 DEF LockTypeOK, Moves, AllSemas
  <1>7. OwnsTypeOK /\ OwnsTypeOK'
    BY SMT DEF IInv, OwnsTypeOK, Moves
  <1>8. ASSUME NEW m \in Locks PROVE Conserved(m)'
    <2>1. CASE m = l
      BY SMT, <1>1, <1>3, <1>4, <1>5, <1>7, <2>1 DEF Conserved, LockTypeOK, AllSemas, Moves, OwnsTypeOK
    <2>2. CASE m # l
      BY SMT, <1>1, <1>3, <1>7, <2>2 DEF Conserved, LockTypeOK, AllSemas, Moves, OwnsTypeOK
    <2> QED
      BY <2>1, <2>2
  <1>9. MutualExclusion'
    BY SMT, <1>5, <1>7 DEF IInv, MutualExclusion, Moves, OwnsTypeOK
  <1>10. LocksMove
    BY <1>5 DEF LocksMove, Abstract!Next, Abstract!Acquire
  <1> QED
    BY <1>6, <1>7, <1>8, <1>9, <1>10 DEF GoodStep, IInv, HolderAssertsHold

(* The holder gives a lock back. *)
LEMMA ReleaseStep ==
    ASSUME IInv, panic = "none", panic' = panic,
           NEW t \in Threads, cur = t, frame[t].op # "try_taken",
           NEW l \in Locks, holder[l] = t,
           Moves(value', value, l, value[l] + 1),
           Moves(holder', holder, l, NULL),
           owns' = [owns EXCEPT ![t] = @ \ {l}],
           NEW f, FrameOK(f), f.op # "try_taken", Moves(frame', frame, t, f)
    PROVE  GoodStep
  <1> Moves(owns', owns, t, owns[t] \ {l})
    BY DEF Moves
  <1>1. LockTypeOK /\ \A m \in Locks : Conserved(m)
    BY DEF IInv
  <1>2. \A u \in Threads, m \in Locks : Taking(u, m)' <=> Taking(u, m)
    BY <1>1, TakingUnmoved DEF Leaves
  <1>3. t # NULL /\ \A u \in Threads : u # NULL
    BY ThreadAssumption
  <1>4. value[l] = 0 /\ \A u \in Threads : ~ Taking(u, l) /\ (l \in owns[u] <=> u = t)
    BY <1>1, <1>3 DEF Conserved
  <1>5. LockTypeOK'
    BY SMT, <1>1, <1>4 DEF LockTypeOK, Moves, AllSemas
  <1>6. OwnsTypeOK /\ OwnsTypeOK'
    BY DEF IInv, OwnsTypeOK, Moves
  <1>7. ASSUME NEW m \in Locks PROVE Conserved(m)'
    <2>1. CASE m = l
      BY SMT, <1>1, <1>2, <1>3, <1>4, <1>6, <2>1 DEF Conserved, LockTypeOK, AllSemas, Moves, OwnsTypeOK
    <2>2. CASE m # l
      BY SMT, <1>1, <1>2, <1>6, <2>2 DEF Conserved, LockTypeOK, AllSemas, Moves, OwnsTypeOK
    <2> QED
      BY <2>1, <2>2
  <1>8. MutualExclusion'
    BY SMT, <1>6 DEF IInv, MutualExclusion, Moves, OwnsTypeOK
  <1>9. LocksMove
    BY <1>4 DEF LocksMove, Abstract!Next, Abstract!Release
  <1> QED
    BY <1>5, <1>6, <1>7, <1>8, <1>9 DEF GoodStep, IInv, HolderAssertsHold

-----------------------------------------------------------------------------
(* The actions on semaphores and those that acquire and release locks. *)

(* v is a map of semaphore values that has the present ones for locks. *)
ValuesKept(v) ==
    /\ DOMAIN v = AllSemas /\ \A s \in AllSemas : v[s] \in Nat
    /\ \A l \in Locks : v[l] = value[l]

(* A step of the kernel to a state k that touches no lock, or that panics  *)
(* outside the holder ASSERTs.                                             *)
LEMMA QuietBecomes ==
    ASSUME IInv, panic = "none", NEW k, Becomes(k), k.owns = owns,
           NEW f, FrameOK(f) \/ f = frame[cur], Leaves(f),
           \/ k.panic \in OtherPanics
           \/ /\ k.panic = panic /\ k.holder = holder
              /\ ValuesKept(k.value)
              /\ Moves(k.frame, frame, cur, f)
    PROVE  GoodStep
  <1>1. CASE k.panic \in OtherPanics
    BY <1>1, PanicStep DEF Becomes, IInv, OwnsTypeOK, LocksMove
  <1>2. CASE /\ k.panic = panic /\ k.holder = holder
             /\ ValuesKept(k.value)
             /\ Moves(k.frame, frame, cur, f)
    BY <1>2, QuietStep DEF Becomes, ValuesKept
  <1> QED
    BY <1>1, <1>2

(* The variables, seen as a kernel state. *)
LEMMA KernelFields ==
    /\ IsKernel(Kernel) /\ Kernel.value = value /\ Kernel.holder = holder
    /\ Kernel.owns = owns /\ Kernel.frame = frame /\ Kernel.cur = cur /\ Kernel.panic = panic
    /\ Kernel.heap = heap
  BY DEF Kernel, IsKernel

(* The frame of a thread that is in its own code. *)
LEMMA InUserOK == FrameOK(InUser) /\ InUser.op # "try_taken"
  BY DEF FrameOK, InUser, LockOps

(* sema_down and sema_up on a semaphore that is not part of a lock. *)
LEMMA SemaphoreSteps ==
    ASSUME IInv, NEW t \in Threads, NEW s \in Semas,
           SemaDown(t, s) \/ SemaUp(t, s) \/ SemaDownResumed(t)
    PROVE  GoodStep
  <1>1. LockTypeOK /\ panic = "none" /\ cur = t /\ Ok(Kernel) /\ t \in AllThreads
    BY KernelFields DEF IInv, SemaDown, SemaUp, SemaDownResumed, AtUser, In, Running, Ok, AllThreads
  <1>2. \A r \in Semas : r \in AllSemas /\ \A l \in Locks : l # r
    BY ThreadAssumption DEF AllSemas
  <1>3. ASSUME NEW r \in Semas, NEW w, FrameOK(w), w.op = "sema_down",
               frame[t].op # "try_taken", Becomes(sema_down(Kernel, r, w, InUser))
        PROVE  GoodStep
    <2> DEFINE k == sema_down(Kernel, r, w, InUser)
    <2>1. /\ k.holder = holder /\ k.owns = owns
          /\ k.panic = panic \/ k.panic \in OtherPanics
          /\ \/ /\ value[r] > 0 /\ Moves(k.value, value, r, value[r] - 1)
                /\ Moves(k.frame, frame, cur, InUser)
             \/ k.value = value /\ Moves(k.frame, frame, cur, w)
      BY SMT, KernelFields, SemaDownEffect
    <2> HIDE DEF k
    <2>2. Leaves(InUser) /\ Leaves(w)
      BY <1>1, <1>3, InUserOK DEF Leaves
    <2>3. ValuesKept(k.value)
      BY SMT, <1>1, <1>2, <2>1 DEF LockTypeOK, AllSemas, ValuesKept, Moves
    <2>4. Becomes(k)
      BY <1>3 DEF k
    <2>5. CASE Moves(k.frame, frame, cur, InUser)
      BY <1>1, <2>1, <2>2, <2>3, <2>4, <2>5, InUserOK, QuietBecomes
    <2>6. CASE Moves(k.frame, frame, cur, w)
      BY <1>1, <1>3, <2>1, <2>2, <2>3, <2>4, <2>6, QuietBecomes
    <2> QED
      BY <2>1, <2>5, <2>6
  <1>4. CASE SemaDown(t, s)
    <2>1. /\ FrameOK(Frame("sema_down", s)) /\ Frame("sema_down", s).op = "sema_down"
          /\ frame[t].op # "try_taken" /\ Becomes(sema_down(Kernel, s, Frame("sema_down", s), InUser))
      BY <1>4, InUserOK DEF FrameOK, Frame, LockOps, SemaDown, AtUser
    <2> QED
      BY <2>1, <1>3
  <1>5. CASE SemaDownResumed(t)
    <2>1. /\ FrameOK(frame[t]) /\ frame[t].op = "sema_down" /\ frame[t].obj \in Semas
          /\ Becomes(sema_down(Kernel, frame[t].obj, frame[t], InUser))
      BY <1>1, <1>5 DEF SemaDownResumed, In, LockTypeOK, FrameOK
    <2> QED
      BY <2>1, <1>3
  <1>6. CASE SemaUp(t, s)
    <2> DEFINE k == sema_up(Kernel, s, InUser)
    <2>1. /\ k.holder = holder /\ k.owns = owns
          /\ \/ k.panic \in OtherPanics
             \/ /\ k.panic = panic /\ Moves(k.value, value, s, value[s] + 1)
                /\ Moves(k.frame, frame, cur, InUser)
      BY SMT, <1>1, KernelFields, SemaUpEffect
    <2> HIDE DEF k
    <2>2. Leaves(InUser) /\ Becomes(k)
      BY <1>1, <1>6, InUserOK DEF Leaves, SemaUp, AtUser, k
    <2>3. k.panic \in OtherPanics \/
          ValuesKept(k.value)
      BY SMT, <1>1, <1>2, <2>1 DEF LockTypeOK, AllSemas, ValuesKept, Moves
    <2> QED
      BY <1>1, <2>1, <2>2, <2>3, InUserOK, QuietBecomes
  <1> QED
    BY <1>4, <1>5, <1>6

(* The tail of lock_acquire, seen from before the semaphore goes down. *)
LEMMA TakenEffect ==
    ASSUME NEW k, NEW l, IsKernel(k)
    PROVE  LET r == lock_taken([k EXCEPT !.value[l] = @ - 1], l)
           IN  /\ Moves(r.value, k.value, l, k.value[l] - 1)
               /\ Moves(r.holder, k.holder, l, k.cur)
               /\ r.owns = [k.owns EXCEPT ![k.cur] = @ \cup {l}]
               /\ Moves(r.frame, k.frame, k.cur, InUser)
               /\ r.panic = k.panic
  <1> DEFINE k0 == [k EXCEPT !.value[l] = @ - 1]
             r  == lock_taken(k0, l)
  <1>1. /\ IsKernel(k0) /\ Moves(k0.value, k.value, l, k.value[l] - 1)
        /\ k0.holder = k.holder /\ k0.owns = k.owns /\ k0.frame = k.frame
        /\ k0.cur = k.cur /\ k0.panic = k.panic
    BY DEF IsKernel, Moves
  <1> HIDE DEF k0
  <1>2. /\ r.value = k0.value /\ r.panic = k0.panic
        /\ Moves(r.holder, k0.holder, l, k0.cur)
        /\ r.owns = [k0.owns EXCEPT ![k0.cur] = @ \cup {l}]
        /\ Moves(r.frame, k0.frame, k0.cur, InUser)
    BY <1>1 DEF lock_taken, IsKernel, Moves
  <1> QED
    BY <1>1, <1>2 DEF k0

(* lock_acquire by a thread that does not hold the lock, and what is left  *)
(* of it after a wait.                                                     *)
LEMMA AcquireSteps ==
    ASSUME IInv, NEW t \in Threads, NEW l \in Locks,
           LockAcquire(t, l) \/ LockAcquireResumed(t)
    PROVE  GoodStep
  <1>1. /\ LockTypeOK /\ panic = "none" /\ cur = t /\ t \in AllThreads
        /\ \A m \in Locks : Conserved(m)
    BY DEF IInv, LockAcquire, LockAcquireResumed, AtUser, In, Running, AllThreads
  <1>2. ASSUME NEW m \in Locks, value[m] > 0, frame[t].op # "try_taken",
               Becomes(lock_taken([Kernel EXCEPT !.value[m] = @ - 1], m))
        PROVE  GoodStep
    <2> DEFINE k == lock_taken([Kernel EXCEPT !.value[m] = @ - 1], m)
    <2>1. /\ Moves(k.value, Kernel.value, m, Kernel.value[m] - 1)
          /\ Moves(k.holder, Kernel.holder, m, Kernel.cur)
          /\ k.owns = [Kernel.owns EXCEPT ![Kernel.cur] = @ \cup {m}]
          /\ Moves(k.frame, Kernel.frame, Kernel.cur, InUser)
          /\ k.panic = Kernel.panic
      BY KernelFields, TakenEffect
    <2> HIDE DEF k
    <2>2. Becomes(k)
      BY <1>2 DEF k
    <2>3. /\ Moves(value', value, m, value[m] - 1) /\ Moves(holder', holder, m, t)
          /\ owns' = [owns EXCEPT ![t] = @ \cup {m}] /\ Moves(frame', frame, t, InUser)
          /\ panic' = panic
      BY <1>1, <2>1, <2>2, KernelFields DEF Becomes
    <2> QED
      BY <1>1, <1>2, <2>3, TakeStep
  <1>3. ASSUME NEW m \in Locks, ~ (value[m] > 0), frame[t].op # "try_taken",
               NEW k1, Quiet(k1, Kernel), Ok(k1), k1.frame = frame, k1.cur = cur,
               Becomes(sema_down(k1, m, Frame("lock_acquire", m), InUser))
        PROVE  GoodStep
    <2> DEFINE w == Frame("lock_acquire", m)
               k == sema_down(k1, m, w, InUser)
    <2>1. /\ k.holder = k1.holder /\ k.owns = k1.owns
          /\ k.panic = k1.panic \/ k.panic \in OtherPanics
          /\ \/ k1.value[m] > 0
             \/ k.value = k1.value /\ Moves(k.frame, k1.frame, k1.cur, w)
      BY SMT, <1>3, SemaDownEffect DEF Quiet
    <2>2. FrameOK(w) /\ w.op # "try_taken"
      BY DEF FrameOK, Frame, LockOps
    <2>3. Becomes(k)
      BY <1>3
    <2> HIDE DEF k, w
    <2>4. /\ k.holder = holder /\ k.owns = owns /\ k.value = value
          /\ k.panic = panic \/ k.panic \in OtherPanics
          /\ Moves(k.frame, frame, cur, w)
      BY <1>1, <1>3, <2>1, KernelFields DEF Quiet, SameLocks, Ok
    <2>5. Leaves(w) /\ ValuesKept(value)
      BY <1>1, <1>3, <2>2 DEF Leaves, ValuesKept, LockTypeOK
    <2> QED
      BY <1>1, <2>2, <2>3, <2>4, <2>5, QuietBecomes
  <1>4. CASE LockAcquire(t, l)
    <2> DEFINE k0 == [Kernel EXCEPT !.heap = list_push_back(Kernel.heap, waiters(l), Kernel.cur),
                                    !.blocked_lock[Kernel.cur] = l]
               k1 == recalculate_priority(k0, Kernel.holder[l])
    <2>1. frame[t].op # "try_taken" /\ Becomes(lock_acquire(Kernel, l)) /\ Kernel.holder[l] # Kernel.cur
      BY SMT, <1>1, <1>4, KernelFields, InUserOK DEF LockAcquire, AtUser, Conserved
    <2>2. CASE value[l] > 0
      <3>1. Becomes(lock_taken([Kernel EXCEPT !.value[l] = @ - 1], l))
        BY <2>1, <2>2, KernelFields DEF lock_acquire
      <3> QED
        BY <2>1, <2>2, <3>1, <1>2
    <2>3. CASE ~ (value[l] > 0)
      <3>1. IsKernel(k0) /\ SameLocks(k0, Kernel) /\ k0.panic = Kernel.panic
            /\ k0.frame = Kernel.frame /\ k0.cur = Kernel.cur
        BY KernelFields DEF IsKernel, SameLocks
      <3>2. lock_acquire(Kernel, l) =
              IF ~ Ok(k1) THEN k1 ELSE sema_down(k1, l, Frame("lock_acquire", l), InUser)
        BY <2>1, <2>3, KernelFields DEF lock_acquire
      <3> HIDE DEF k0
      <3>3. Quiet(k1, k0) /\ k1.frame = k0.frame /\ k1.cur = k0.cur
        BY <3>1, RecalculateQuiet
      <3> HIDE DEF k1
      <3>4. Quiet(k1, Kernel) /\ k1.frame = frame /\ k1.cur = cur
        BY <3>1, <3>3, KernelFields DEF Quiet, SameLocks
      <3>5. CASE Ok(k1)
        BY <2>1, <2>3, <3>2, <3>4, <3>5, <1>3
      <3>6. CASE ~ Ok(k1)
        <4>1. Becomes(k1) /\ k1.panic \in OtherPanics /\ k1.owns = owns
          BY <1>1, <2>1, <3>2, <3>4, <3>6, KernelFields DEF Quiet, SameLocks, Ok
        <4>2. DOMAIN owns = Threads
          BY DEF IInv, OwnsTypeOK
        <4> QED
          BY <4>1, <4>2, PanicStep DEF Becomes, LocksMove
      <3> QED
        BY <3>5, <3>6
    <2> QED
      BY <2>2, <2>3
  <1>5. CASE LockAcquireResumed(t)
    <2> DEFINE m == frame[t].obj
    <2>1. /\ frame[t].op = "lock_acquire" /\ m \in Locks
          /\ Becomes(lock_acquire_resumed(Kernel, m))
      BY <1>1, <1>5 DEF LockAcquireResumed, In, LockTypeOK, FrameOK, LockOps
    <2> HIDE DEF m
    <2>2. CASE value[m] > 0
      <3>1. Becomes(lock_taken([Kernel EXCEPT !.value[m] = @ - 1], m))
        BY <2>1, <2>2, KernelFields DEF lock_acquire_resumed
      <3> QED
        BY <2>1, <2>2, <3>1, <1>2
    <2>3. CASE ~ (value[m] > 0)
      <3>1. Becomes(sema_down(Kernel, m, Frame("lock_acquire", m), InUser))
        BY <2>1, <2>3, KernelFields DEF lock_acquire_resumed
      <3>2. Quiet(Kernel, Kernel) /\ Ok(Kernel)
        BY <1>1, KernelFields DEF Quiet, SameLocks, Ok
      <3> QED
        BY <2>1, <2>3, <3>1, <3>2, <1>3, KernelFields
    <2> QED
      BY <2>2, <2>3
  <1> QED
    BY <1>4, <1>5

(* lock_release, called by the holder or by thread_exit, up to the point   *)
(* where sema_up may give the processor away, and the rest of it.          *)
LEMMA ReleaseSteps ==
    ASSUME IInv, NEW t \in Threads,
           \/ \E l \in Locks : LockRelease(t, l)
           \/ LockReleaseResumed(t) \/ ExitLoop(t) \/ ExitRelease(t)
    PROVE  GoodStep
  <1>1. /\ LockTypeOK /\ OwnsTypeOK /\ panic = "none" /\ cur = t /\ t \in AllThreads
        /\ Ok(Kernel) /\ FrameOK(frame[t]) /\ \A m \in Locks : Conserved(m)
    BY KernelFields DEF IInv, LockRelease, LockReleaseResumed, ExitLoop, ExitRelease, AtUser, In,
                        Running, AllThreads, Ok, LockTypeOK
  <1>2. ASSUME NEW m \in Locks, holder[m] = t, frame[t].op # "try_taken",
               NEW f, FrameOK(f), f.op # "try_taken", NEW g, FrameOK(g), g.op # "try_taken",
               Becomes(lock_release(Kernel, m, f, g))
        PROVE  GoodStep
    <2> DEFINE k == lock_release(Kernel, m, f, g)
    <2>1. /\ k.owns = [Kernel.owns EXCEPT ![Kernel.cur] = @ \ {m}]
          /\ \/ k.panic \in OtherPanics
             \/ /\ k.panic = Kernel.panic
                /\ Moves(k.holder, Kernel.holder, m, NULL)
                /\ Moves(k.value, Kernel.value, m, Kernel.value[m] + 1)
                /\ \/ Moves(k.frame, Kernel.frame, Kernel.cur, f)
                   \/ Moves(k.frame, Kernel.frame, Kernel.cur, g)
      <3>1. IsKernel(Kernel) /\ Ok(Kernel) /\ Kernel.holder[m] = Kernel.cur
        BY <1>1, <1>2, KernelFields
      <3>2. k = lock_release(Kernel, m, f, g)
        OBVIOUS
      <3> HIDE DEF k
      <3> QED
        BY SMT, <3>1, <3>2, ReleaseEffect
    <2>2. Becomes(k)
      BY <1>2
    <2> HIDE DEF k
    <2>3. /\ owns' = [owns EXCEPT ![t] = @ \ {m}]
          /\ \/ panic' \in OtherPanics
             \/ /\ panic' = panic
                /\ Moves(holder', holder, m, NULL)
                /\ Moves(value', value, m, value[m] + 1)
                /\ Moves(frame', frame, t, f) \/ Moves(frame', frame, t, g)
      BY <1>1, <2>1, <2>2, KernelFields DEF Becomes
    <2>4. CASE panic' \in OtherPanics
      <3>1. DOMAIN owns' = Threads /\ \A u \in Threads : owns'[u] \subseteq owns[u]
        BY <1>1, <2>3 DEF OwnsTypeOK
      <3>2. m \in owns[t]
        BY <1>1, <1>2 DEF Conserved
      <3>3. LocksMove
        BY <2>3, <3>2 DEF LocksMove, Abstract!Next, Abstract!Release
      <3> QED
        BY <2>4, <3>1, <3>3, PanicStep
    <2>5. CASE panic' \notin OtherPanics /\ Moves(frame', frame, t, f)
      BY <1>1, <1>2, <2>3, <2>5, ReleaseStep
    <2>6. CASE panic' \notin OtherPanics /\ Moves(frame', frame, t, g)
      BY <1>1, <1>2, <2>3, <2>6, ReleaseStep
    <2> QED
      BY <2>3, <2>4, <2>5, <2>6
  <1>3. ASSUME NEW m, NEW f, FrameOK(f), f.op # "try_taken", frame[t].op # "try_taken",
               Becomes(lock_release_tail(Kernel, m, f))
        PROVE  GoodStep
    <2> DEFINE k == lock_release_tail(Kernel, m, f)
    <2>1. Quiet(k, Kernel) /\ (Moves(k.frame, Kernel.frame, Kernel.cur, f) \/ k.panic \in OtherPanics)
      BY <1>1, KernelFields, ReleaseTailEffect
    <2>2. Becomes(k)
      BY <1>3
    <2> HIDE DEF k
    <2>3. /\ k.holder = holder /\ k.owns = owns /\ k.value = value
          /\ k.panic = panic \/ k.panic \in OtherPanics
          /\ Moves(k.frame, frame, cur, f) \/ k.panic \in OtherPanics
      BY <2>1, KernelFields DEF Quiet, SameLocks
    <2>4. Leaves(f) /\ ValuesKept(value)
      BY <1>1, <1>3 DEF Leaves, ValuesKept, LockTypeOK
    <2> QED
      BY <1>1, <1>3, <2>2, <2>3, <2>4, QuietBecomes
  <1>4. ASSUME NEW l \in Locks, LockRelease(t, l) PROVE GoodStep
    <2>1. /\ holder[l] = t /\ frame[t].op # "try_taken"
          /\ Becomes(lock_release(Kernel, l, Frame("lock_release", l), InUser))
      BY <1>1, <1>4, InUserOK DEF LockRelease, AtUser, Conserved
    <2>2. FrameOK(Frame("lock_release", l)) /\ Frame("lock_release", l).op # "try_taken"
      BY DEF FrameOK, Frame, LockOps
    <2> QED
      BY <1>2, <2>1, <2>2, InUserOK
  <1>5. CASE LockReleaseResumed(t)
    <2>1. frame[t].op # "try_taken" /\ Becomes(lock_release_tail(Kernel, frame[t].obj, InUser))
      BY <1>5 DEF LockReleaseResumed, In
    <2> QED
      BY <1>3, <2>1, InUserOK
  <1>6. CASE ExitRelease(t)
    <2> DEFINE f == [frame[t] EXCEPT !.op = "exit_remove"]
    <2>1. /\ frame[t].op = "exit_release" /\ frame[t].obj \in Locks
          /\ Becomes(lock_release_tail(Kernel, frame[t].obj, f))
      BY <1>1, <1>6 DEF ExitRelease, In, FrameOK, LockOps
    <2>2. FrameOK(f) /\ f.op # "try_taken"
      BY <1>1, <2>1 DEF FrameOK, LockOps
    <2> HIDE DEF f
    <2> QED
      BY <1>3, <2>1, <2>2
  <1>7. CASE ExitLoop(t)
    <2> DEFINE e == frame[t].nxt
               n == Kernel.heap.next[e]
               f == [op |-> "exit_release", obj |-> e, nxt |-> n]
               g == [op |-> "exit_remove", obj |-> e, nxt |-> n]
               d == [Kernel EXCEPT !.status[Kernel.cur] = "DYING", !.frame[Kernel.cur] = InUser]
    <2>1. frame[t].op # "try_taken" /\ Becomes(thread_exit_loop(Kernel, e))
      BY <1>7 DEF ExitLoop, In
    <2>2. \/ \E why \in OtherPanics : thread_exit_loop(Kernel, e) = Panic(Kernel, why)
          \/ thread_exit_loop(Kernel, e) = schedule(d)
          \/ e \in Locks /\ holder[e] = t /\ thread_exit_loop(Kernel, e) = lock_release(Kernel, e, f, g)
      <3>1. {"thread_exit", "list", "exit_holder"} \subseteq OtherPanics
        BY DEF OtherPanics
      <3> QED
        BY <1>1, <3>1, KernelFields DEF thread_exit_loop
    <2>3. CASE \E why \in OtherPanics : thread_exit_loop(Kernel, e) = Panic(Kernel, why)
      <3>1. PICK why \in OtherPanics : Becomes(Panic(Kernel, why))
        BY <2>1, <2>3
      <3>2. panic' \in OtherPanics /\ owns' = owns
        BY <3>1, KernelFields DEF Becomes, Panic, IsKernel
      <3> QED
        BY <1>1, <3>2, PanicStep DEF OwnsTypeOK, LocksMove
    <2>4. CASE thread_exit_loop(Kernel, e) = schedule(d)
      <3>1. IsKernel(d) /\ SameLocks(d, Kernel) /\ d.panic = Kernel.panic
            /\ Moves(d.frame, Kernel.frame, Kernel.cur, InUser)
        BY KernelFields DEF IsKernel, SameLocks, Moves
      <3> HIDE DEF d
      <3> DEFINE k == schedule(d)
      <3>2. Quiet(k, d) /\ k.frame = d.frame
        BY <3>1, ScheduleQuiet
      <3>3. Becomes(k)
        BY <2>1, <2>4
      <3> HIDE DEF k
      <3>4. /\ k.holder = holder /\ k.owns = owns /\ k.value = value
            /\ k.panic = panic \/ k.panic \in OtherPanics
            /\ Moves(k.frame, frame, cur, InUser)
        BY <3>1, <3>2, KernelFields DEF Quiet, SameLocks
      <3>5. Leaves(InUser) /\ ValuesKept(value)
        BY <1>1, <2>1, InUserOK DEF Leaves, ValuesKept, LockTypeOK
      <3> QED
        BY <1>1, <3>3, <3>4, <3>5, InUserOK, QuietBecomes
    <2>5. CASE e \in Locks /\ holder[e] = t
               /\ thread_exit_loop(Kernel, e) = lock_release(Kernel, e, f, g)
      <3>1. FrameOK(f) /\ f.op # "try_taken" /\ FrameOK(g) /\ g.op # "try_taken"
        BY <2>5 DEF FrameOK, LockOps
      <3> HIDE DEF e, f, g
      <3> QED
        BY <1>2, <2>1, <2>5, <3>1
    <2> QED
      BY <2>2, <2>3, <2>4, <2>5
  <1> QED
    BY <1>4, <1>5, <1>6, <1>7

-----------------------------------------------------------------------------
(* The actions left, every step, and the theorems. *)

(* The three steps of lock_try_acquire, which runs with interrupts on. *)
LEMMA TrySteps ==
    ASSUME IInv, NEW t \in Threads, NEW l \in Locks,
           LockTryAcquire(t, l) \/ LockTryTaken(t) \/ LockTryPush(t)
    PROVE  GoodStep
  <1>1. /\ LockTypeOK /\ OwnsTypeOK /\ panic = "none" /\ cur = t /\ t \in AllThreads
        /\ FrameOK(frame[t]) /\ \A m \in Locks : Conserved(m)
        /\ MutualExclusion /\ HolderAssertsHold
    BY DEF IInv, LockTryAcquire, LockTryTaken, LockTryPush, AtUser, In, Running, AllThreads,
           LockTypeOK
  <1>2. t # NULL /\ \A u \in Threads : u # NULL /\ u \in AllThreads
    BY ThreadAssumption DEF AllThreads
  <1>3. CASE LockTryAcquire(t, l)
    <2>1. holder[l] # t /\ frame[t] = InUser
      BY <1>1, <1>3 DEF LockTryAcquire, AtUser, Conserved
    <2>2. CASE value[l] > 0
      <3>1. Becomes([Kernel EXCEPT !.value[l] = @ - 1, !.frame[t] = Frame("try_taken", l)])
        BY <1>3, <2>1, <2>2 DEF LockTryAcquire
      <3>2. /\ Moves(value', value, l, value[l] - 1) /\ holder' = holder /\ owns' = owns
            /\ Moves(frame', frame, t, Frame("try_taken", l)) /\ panic' = panic
        BY <3>1, KernelFields DEF Becomes, IsKernel, Moves
      <3>3. FrameOK(Frame("try_taken", l))
        BY DEF FrameOK, Frame, LockOps
      <3>4. /\ holder[l] = NULL /\ value[l] = 1
            /\ \A u \in Threads : ~ Taking(u, l) /\ l \notin owns[u]
        BY SMT, <1>1, <1>2, <2>2 DEF Conserved
      <3>5. LockTypeOK'
        BY SMT, <1>1, <3>2, <3>3, <3>4 DEF LockTypeOK, Moves, AllSemas
      <3>6. \A u \in Threads, m \in Locks : Taking(u, m)' <=> Taking(u, m) \/ (u = t /\ m = l)
        BY SMT, <1>1, <1>2, <2>1, <3>2, InUserOK DEF Taking, Moves, LockTypeOK, Frame
      <3>7. ASSUME NEW m \in Locks PROVE Conserved(m)'
        <4>1. CASE m = l
          BY SMT, <1>1, <1>2, <3>2, <3>4, <3>6, <4>1 DEF Conserved, LockTypeOK, AllSemas, Moves
        <4>2. CASE m # l
          BY SMT, <1>1, <3>2, <3>6, <4>2 DEF Conserved, LockTypeOK, AllSemas, Moves
        <4> QED
          BY <4>1, <4>2
      <3> QED
        BY <1>1, <3>2, <3>5, <3>7 DEF GoodStep, LocksMove, IInv, OwnsTypeOK, MutualExclusion, HolderAssertsHold
    <2>3. CASE ~ (value[l] > 0)
      <3> DEFINE f == Frame("try_push", l)
                 k == [Kernel EXCEPT !.frame[t] = f]
      <3>1. FrameOK(f) /\ f.op # "try_taken"
        BY DEF FrameOK, Frame, LockOps
      <3>2. Becomes(k)
        BY <1>3, <2>1, <2>3 DEF LockTryAcquire
      <3>3. k.holder = holder /\ k.owns = owns /\ k.value = value /\ k.panic = panic
            /\ Moves(k.frame, frame, cur, f)
        BY <1>1, KernelFields DEF IsKernel, Moves
      <3> HIDE DEF k, f
      <3>4. Leaves(f) /\ ValuesKept(value)
        BY <1>1, <2>1, <3>1, InUserOK DEF Leaves, ValuesKept, LockTypeOK
      <3> QED
        BY <1>1, <3>1, <3>2, <3>3, <3>4, QuietBecomes
    <2> QED
      BY <2>2, <2>3
  <1>4. CASE LockTryTaken(t)
    <2> DEFINE m == frame[t].obj
               f == Frame("try_push", m)
    <2>1. /\ m \in Locks /\ Taking(t, m) /\ frame[t].op = "try_taken"
          /\ Becomes([Kernel EXCEPT !.holder[m] = t, !.owns[t] = @ \cup {m}, !.frame[t] = f])
      BY <1>1, <1>4 DEF LockTryTaken, In, FrameOK, LockOps, Taking
    <2> HIDE DEF m
    <2>2. /\ Moves(holder', holder, m, t) /\ Moves(owns', owns, t, owns[t] \cup {m})
          /\ owns' = [owns EXCEPT ![t] = @ \cup {m}]
          /\ value' = value /\ Moves(frame', frame, t, f) /\ panic' = panic
      BY <2>1, KernelFields DEF Becomes, IsKernel, Moves
    <2>3. FrameOK(f) /\ f.op # "try_taken"
      BY <2>1 DEF FrameOK, Frame, LockOps
    <2> HIDE DEF f
    <2>4. /\ holder[m] = NULL /\ value[m] = 0
          /\ \A u \in Threads : (Taking(u, m) <=> u = t) /\ m \notin owns[u]
      BY SMT, <1>1, <1>2, <2>1 DEF Conserved
    <2>5. LockTypeOK' /\ OwnsTypeOK'
      BY SMT, <1>1, <2>1, <2>2, <2>3 DEF LockTypeOK, Moves, OwnsTypeOK
    <2>6. \A u \in Threads, n \in Locks : Taking(u, n)' <=> Taking(u, n) /\ u # t
      BY SMT, <1>1, <1>2, <2>2, <2>3 DEF Taking, Moves, LockTypeOK, Frame
    <2>7. \A n \in Locks : Taking(t, n) => n = m
      BY SMT, <2>1 DEF Taking, Frame
    <2>8. ASSUME NEW n \in Locks PROVE Conserved(n)'
      <3>1. CASE n = m
        BY SMT, <1>1, <1>2, <2>2, <2>4, <2>6, <3>1 DEF Conserved, LockTypeOK, Moves, OwnsTypeOK
      <3>2. CASE n # m
        BY SMT, <1>1, <2>2, <2>6, <2>7, <3>2 DEF Conserved, LockTypeOK, Moves, OwnsTypeOK
      <3> QED
        BY <3>1, <3>2
    <2>9. MutualExclusion'
      BY SMT, <1>1, <2>2, <2>4 DEF MutualExclusion, Moves, OwnsTypeOK
    <2>10. LocksMove
      BY <2>1, <2>2, <2>4 DEF LocksMove, Abstract!Next, Abstract!Acquire
    <2> QED
      BY <1>1, <2>2, <2>5, <2>8, <2>9, <2>10 DEF GoodStep, IInv, HolderAssertsHold
  <1>5. CASE LockTryPush(t)
    <2> DEFINE k == [Kernel EXCEPT !.heap = list_push_back(heap, locks(t), frame[t].obj),
                                   !.frame[t] = InUser]
    <2>1. Becomes(k) /\ frame[t].op # "try_taken"
      BY <1>5 DEF LockTryPush, In
    <2>2. k.holder = holder /\ k.owns = owns /\ k.value = value /\ k.panic = panic
          /\ Moves(k.frame, frame, cur, InUser)
      BY <1>1, KernelFields DEF IsKernel, Moves
    <2> HIDE DEF k
    <2>3. Leaves(InUser) /\ ValuesKept(value)
      BY <1>1, <2>1, InUserOK DEF Leaves, ValuesKept, LockTypeOK
    <2> QED
      BY <1>1, <2>1, <2>2, <2>3, InUserOK, QuietBecomes
  <1> QED
    BY <1>3, <1>4, <1>5

(* A kernel function that touches no lock and leaves the running thread    *)
(* with frame f, or that panics.                                           *)
LEMMA QuietAction ==
    ASSUME IInv, panic = "none", NEW k, Becomes(k), Quiet(k, Kernel),
           NEW f, FrameOK(f) \/ f = frame[cur], Leaves(f),
           Moves(k.frame, frame, cur, f) \/ k.panic \in OtherPanics
    PROVE  GoodStep
  <1>1. LockTypeOK
    BY DEF IInv
  <1>2. k.holder = holder /\ k.owns = owns /\ k.value = value
        /\ (k.panic = panic \/ k.panic \in OtherPanics)
    BY KernelFields DEF Quiet, SameLocks
  <1>3. ValuesKept(value)
    BY <1>1 DEF ValuesKept, LockTypeOK
  <1> QED
    BY <1>2, <1>3, QuietBecomes

(* The functions of thread.c and timer.c that a thread calls. *)
LEMMA ThreadSteps ==
    ASSUME IInv, NEW t \in Threads,
           \/ \E p \in Priorities : SetPriority(t, p)
           \/ \E n \in 0 .. MaxSleep : TimerSleep(t, n)
           \/ \E u \in Threads : ThreadCreate(t, u)
           \/ ThreadCreated(t) \/ ThreadExit(t) \/ ExitRemove(t)
    PROVE  GoodStep
  <1>1. /\ LockTypeOK /\ panic = "none" /\ cur = t /\ t \in AllThreads
        /\ Ok(Kernel) /\ FrameOK(frame[t]) /\ frame[t].op # "try_taken"
    BY KernelFields, InUserOK DEF IInv, SetPriority, TimerSleep, ThreadCreate, ThreadCreated,
       ThreadExit, ExitRemove, AtUser, In, Running, AllThreads, Ok, LockTypeOK
  <1>2. \A f : f.op # "try_taken" => Leaves(f)
    BY <1>1 DEF Leaves
  <1>3. ASSUME NEW p, Becomes(thread_set_priority(Kernel, p, InUser)) PROVE GoodStep
    <2> DEFINE k == thread_set_priority(Kernel, p, InUser)
    <2>1. Quiet(k, Kernel) /\ (k.frame = [Kernel.frame EXCEPT ![Kernel.cur] = InUser]
                               \/ k.panic \in OtherPanics)
      BY <1>1, KernelFields, SetPriorityQuiet
    <2>2. Becomes(k)
      BY <1>3
    <2> HIDE DEF k
    <2>3. Moves(k.frame, frame, cur, InUser) \/ k.panic \in OtherPanics
      BY <2>1, KernelFields DEF Moves
    <2> QED
      BY <1>1, <1>2, <2>1, <2>2, <2>3, InUserOK, QuietAction
  <1>4. ASSUME NEW n, Becomes(thread_block([Kernel EXCEPT !.sleep[t] = n], InUser)) PROVE GoodStep
    <2> DEFINE k0 == [Kernel EXCEPT !.sleep[t] = n]
               k  == thread_block(k0, InUser)
    <2>1. IsKernel(k0) /\ SameLocks(k0, Kernel) /\ k0.panic = panic /\ k0.frame = frame
          /\ k0.cur = cur
      BY KernelFields DEF IsKernel, SameLocks
    <2>2. Becomes(k)
      BY <1>4
    <2> HIDE DEF k0
    <2>3. Quiet(k, k0) /\ k.frame = [k0.frame EXCEPT ![k0.cur] = InUser]
      BY <2>1, BlockQuiet
    <2> HIDE DEF k
    <2>4. Quiet(k, Kernel) /\ Moves(k.frame, frame, cur, InUser)
      BY <2>1, <2>3, KernelFields DEF Moves, Quiet, SameLocks
    <2> QED
      BY <1>1, <1>2, <2>2, <2>4, InUserOK, QuietAction
  <1>5. ASSUME NEW u \in Threads, ThreadCreate(t, u) PROVE GoodStep
    <2> DEFINE f  == Frame("thread_create", u)
               k0 == init_thread(Kernel, u)
               k1 == thread_unblock(k0, u)
               k  == [k1 EXCEPT !.frame[t] = f]
    <2>1. IsKernel(k0) /\ SameLocks(k0, Kernel) /\ k0.panic = panic /\ k0.frame = frame
          /\ k0.cur = cur
      BY KernelFields DEF IsKernel, SameLocks, init_thread
    <2>2. Becomes(k)
      BY <1>5 DEF ThreadCreate
    <2> HIDE DEF k0
    <2>3. Quiet(k1, k0) /\ k1.frame = k0.frame
      BY <2>1, UnblockQuiet
    <2> HIDE DEF k1
    <2>4. Quiet(k, k1) /\ Moves(k.frame, k1.frame, t, f)
      BY <2>3 DEF Quiet, SameLocks, IsKernel, Moves
    <2> HIDE DEF k
    <2>5. Quiet(k, Kernel) /\ Moves(k.frame, frame, cur, f)
      BY <1>1, <2>1, <2>3, <2>4, KernelFields DEF Quiet, SameLocks
    <2>6. FrameOK(f) /\ f.op # "try_taken"
      BY DEF FrameOK, Frame, LockOps
    <2> HIDE DEF f
    <2> QED
      BY <1>1, <1>2, <2>2, <2>5, <2>6, QuietAction
  <1>6. CASE ThreadCreated(t)
    <2> DEFINE k == thread_yield(Kernel, InUser)
               j == [Kernel EXCEPT !.frame[t] = InUser]
    <2>1. Becomes(k) \/ Becomes(j)
      BY <1>6 DEF ThreadCreated
    <2>2. Quiet(k, Kernel) /\ k.frame = [Kernel.frame EXCEPT ![Kernel.cur] = InUser]
      BY KernelFields, YieldQuiet
    <2>3. Quiet(j, Kernel) /\ Moves(j.frame, frame, cur, InUser)
      BY <1>1, KernelFields DEF Quiet, SameLocks, IsKernel, Moves
    <2> HIDE DEF k, j
    <2>4. Moves(k.frame, frame, cur, InUser)
      BY <2>2, KernelFields DEF Moves
    <2> QED
      BY <1>1, <1>2, <2>1, <2>2, <2>3, <2>4, InUserOK, QuietAction
  <1>7. CASE ThreadExit(t)
    <2> DEFINE f == [op |-> "exit_loop", obj |-> NULL, nxt |-> list_begin(heap, locks(t))]
               k == [Kernel EXCEPT !.all_list = Without(all_list, t), !.frame[t] = f]
    <2>1. Becomes(k)
      BY <1>7 DEF ThreadExit
    <2>2. Quiet(k, Kernel) /\ Moves(k.frame, frame, cur, f)
      BY <1>1, KernelFields DEF Quiet, SameLocks, IsKernel, Moves
    <2>3. FrameOK(f) /\ f.op # "try_taken"
      BY DEF FrameOK, LockOps
    <2> HIDE DEF k, f
    <2> QED
      BY <1>1, <1>2, <2>1, <2>2, <2>3, QuietAction
  <1>8. CASE ExitRemove(t)
    <2> DEFINE f == [frame[t] EXCEPT !.op = "exit_loop", !.obj = NULL]
               j == Panic(Kernel, "list_remove")
               k == [Kernel EXCEPT !.heap = list_remove(heap, frame[t].obj), !.frame[t] = f]
    <2>1. Becomes(j) \/ Becomes(k)
      BY <1>1, <1>8, KernelFields DEF ExitRemove
    <2>2. Quiet(j, Kernel) /\ j.panic \in OtherPanics
      BY KernelFields DEF Quiet, SameLocks, IsKernel, Panic, OtherPanics
    <2>3. Quiet(k, Kernel) /\ Moves(k.frame, frame, cur, f)
      BY <1>1, KernelFields DEF Quiet, SameLocks, IsKernel, Moves
    <2>4. FrameOK(f) /\ f.op # "try_taken"
      BY <1>1 DEF FrameOK, LockOps
    <2> HIDE DEF j, k, f
    <2> QED
      BY <1>1, <1>2, <2>1, <2>2, <2>3, <2>4, QuietAction
  <1> QED
    BY <1>3, <1>4, <1>5, <1>6, <1>7, <1>8 DEF SetPriority, TimerSleep

(* The idle thread and the timer interrupt. *)
LEMMA ProcessorSteps == ASSUME IInv, idle \/ TimerInterrupt PROVE GoodStep
  <1>1. LockTypeOK /\ panic = "none" /\ Ok(Kernel)
    BY KernelFields DEF IInv, idle, TimerInterrupt, Running, Ok
  <1>2. CASE idle
    <2> DEFINE k == thread_block(Kernel, InUser)
    <2>1. Becomes(k) /\ cur = Idle
      BY <1>2 DEF idle, Running
    <2>2. Quiet(k, Kernel) /\ k.frame = [Kernel.frame EXCEPT ![Kernel.cur] = InUser]
      BY KernelFields, BlockQuiet
    <2> HIDE DEF k
    <2>3. Moves(k.frame, frame, cur, InUser)
      BY <2>2, KernelFields DEF Moves
    <2>4. Leaves(InUser)
      BY <2>1, ThreadAssumption DEF Leaves
    <2> QED
      BY <1>1, <2>1, <2>2, <2>3, <2>4, InUserOK, QuietAction
  <1>3. CASE TimerInterrupt
    <2> DEFINE k1 == thread_tick(Kernel)
               k2 == thread_yield(k1, frame[cur])
    <2>1. Becomes(k1) \/ Becomes(k2)
      BY <1>3, KernelFields DEF TimerInterrupt, timer_interrupt
    <2>2. Quiet(k1, Kernel) /\ k1.frame = frame /\ k1.cur = cur
      BY KernelFields DEF thread_tick, Quiet, SameLocks, IsKernel, Panic, OtherPanics
    <2> HIDE DEF k1
    <2>3. Quiet(k2, k1) /\ k2.frame = [k1.frame EXCEPT ![k1.cur] = frame[cur]]
      BY <2>2, YieldQuiet DEF Quiet
    <2> HIDE DEF k2
    <2>4. Quiet(k2, Kernel) /\ Moves(k2.frame, frame, cur, frame[cur])
      BY <2>2, <2>3 DEF Quiet, SameLocks, Moves
    <2>5. Moves(k1.frame, frame, cur, frame[cur]) /\ Leaves(frame[cur])
      BY <2>2 DEF Moves, Leaves
    <2> QED
      BY <1>1, <2>1, <2>2, <2>4, <2>5, QuietAction
  <1> QED
    BY <1>2, <1>3

-----------------------------------------------------------------------------
(* The theorems *)

(* Every step preserves the invariant, and moves at most one lock. *)
LEMMA NextIInv == IInv /\ [Next]_vars => GoodStep
  <1> SUFFICES ASSUME IInv, [Next]_vars PROVE GoodStep
    OBVIOUS
  <1>1. CASE UNCHANGED vars
    BY SMT, <1>1 DEF vars, GoodStep, LocksMove, IInv, OwnsTypeOK, MutualExclusion,
                     HolderAssertsHold, LockTypeOK, Conserved, Taking
  <1>2. ASSUME NEW t \in Threads, Call(t) PROVE GoodStep
    BY <1>2, SemaphoreSteps, AcquireSteps, ReleaseSteps, TrySteps, ThreadSteps DEF Call
  <1>3. ASSUME NEW t \in Threads, Resume(t) PROVE GoodStep
    <2>1. CASE SemaDownResumed(t)
      <3>1. frame[t].obj \in Semas
        BY <2>1 DEF SemaDownResumed, In, Running, IInv, LockTypeOK, FrameOK, AllThreads
      <3> QED
        BY SMT, <2>1, <3>1, SemaphoreSteps
    <2>2. CASE \/ LockAcquireResumed(t) \/ LockReleaseResumed(t) \/ LockTryTaken(t)
               \/ LockTryPush(t) \/ ExitRelease(t)
      <3>1. frame[t].obj \in Locks
        BY <2>2 DEF LockAcquireResumed, LockReleaseResumed, LockTryTaken, LockTryPush, ExitRelease,
                    In, Running, IInv, LockTypeOK, FrameOK, LockOps, AllThreads
      <3> QED
        BY <2>2, <3>1, AcquireSteps, ReleaseSteps, TrySteps
    <2>3. CASE ThreadCreated(t) \/ ExitRemove(t)
      BY <2>3, ThreadSteps
    <2>4. CASE ExitLoop(t)
      BY <2>4, ReleaseSteps
    <2> QED
      BY <1>3, <2>1, <2>2, <2>3, <2>4 DEF Resume
  <1> QED
    BY <1>1, <1>2, <1>3, ProcessorSteps DEF Next

(* The invariant is inductive. *)
LEMMA IInvAlways == Spec => []IInv
  <1>1. GoodStep => IInv'
    BY DEF GoodStep
  <1> QED
    BY InitIInv, NextIInv, <1>1, PTL DEF Spec

(* "A lock can be held by at most a single thread at any given time"       *)
(* (threads/synch.c): whatever the threads call, and wherever the timer    *)
(* preempts them, no two of them own the same lock.                        *)
THEOREM MutualExclusionHolds == Spec => []MutualExclusion
  <1>1. IInv => MutualExclusion
    BY DEF IInv
  <1> QED
    BY IInvAlways, <1>1, PTL

(* Until the kernel panics, the value of a lock's semaphore, its holder    *)
(* field and the threads that took the lock agree.                         *)
THEOREM LockConservationHolds == Spec => []LockConservation
  <1>1. IInv => LockConservation
    BY DEF IInv, LockConservation, Conserved
  <1> QED
    BY IInvAlways, <1>1, PTL

(* Threads that keep to the contracts of lock_acquire, lock_release and    *)
(* lock_try_acquire never fail the ASSERTs of these functions on the       *)
(* holder.                                                                 *)
THEOREM HolderAsserts == Spec => []HolderAssertsHold
  <1>1. IInv => HolderAssertsHold
    BY DEF IInv
  <1> QED
    BY IInvAlways, <1>1, PTL

(* Every step of the kernel is a step of the abstract locks: a thread gets *)
(* a lock that nobody has, the thread that has it gives it back, or no     *)
(* lock moves.                                                             *)
THEOREM LocksAreMutexes == Spec => LocksExclude
  <1>1. Init => Abstract!Init
    BY DEF Init, Abstract!Init
  <1>2. IInv /\ [Next]_vars => [Abstract!Next]_owns
    BY NextIInv DEF GoodStep, LocksMove
  <1> QED
    BY IInvAlways, <1>1, <1>2, PTL DEF Spec, LocksExclude, Abstract!Spec

=============================================================================
