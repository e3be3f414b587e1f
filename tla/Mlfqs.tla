------------------------------- MODULE Mlfqs --------------------------------
(***************************************************************************)
(* The scheduler of threads/thread.c with -mlfqs: priorities that the      *)
(* timer interrupt computes from nice and recent_cpu, in the fixed-point   *)
(* arithmetic of lib/kernel/fixedp.h.  The widths of int and int64_t are   *)
(* left out: the bounds keep every value far below them.                   *)
(***************************************************************************)
EXTENDS Integers, Sequences, FiniteSets, SequencesExt

CONSTANTS
    Threads, Main,
    fp_f,               (* the scale of a fixedp *)
    TIMER_FREQ, LOAD_AVG_PERIOD, PRI_RECALC_PERIOD, TIME_SLICE,
    PRI_MAX, PRI_DEFAULT,
    Nices,              (* values for thread_set_nice *)
    MaxTicks, MaxCalls  (* bounds on timer interrupts, and on calls and other events *)

PRI_MIN == 0
Idle == "idle"

VARIABLES
    ready_list, cur,
    made,               (* all_list, without the idle thread *)
    blocked, nice, recent_cpu, priority,
    load_avg, ticks, thread_ticks, calls

vars == <<ready_list, cur, made, blocked, nice, recent_cpu, priority, load_avg, ticks, thread_ticks, calls>>

-----------------------------------------------------------------------------
(* lib/kernel/fixedp.h *)

(* The quotient of C, rounded towards zero. *)
Quot(a, b) == IF (a >= 0) = (b > 0) THEN (IF a >= 0 THEN a ELSE -a) \div (IF b > 0 THEN b ELSE -b)
              ELSE -((IF a >= 0 THEN a ELSE -a) \div (IF b > 0 THEN b ELSE -b))

fixedp_from_int(n) == n * fp_f
fixedp_to_int_ceiled(x) == IF x % fp_f = 0 THEN Quot(x, fp_f) ELSE Quot(x, fp_f) + 1
fixedp_to_int_nearest(x) == IF x >= 0 THEN Quot(x + fp_f \div 2, fp_f) ELSE Quot(x - fp_f \div 2, fp_f)
fixedp_add_with_int(x, n) == x + n * fp_f
fixedp_multiply(x, y) == Quot(x * y, fp_f)
fixedp_divide(x, y) == Quot(x * fp_f, y)
fixedp_divide_by_int(x, n) == Quot(x, n)

LOAD_AVG_MOMENTUM == fixedp_divide(fixedp_from_int(LOAD_AVG_PERIOD - TIMER_FREQ), fixedp_from_int(LOAD_AVG_PERIOD))
LOAD_AVG_DECAY == fixedp_divide(fixedp_from_int(TIMER_FREQ), fixedp_from_int(LOAD_AVG_PERIOD))

-----------------------------------------------------------------------------
(* The values the timer interrupt computes *)

thread_update_priority_in_mlfqs(cpu, n) ==
    LET p == PRI_MAX - fixedp_to_int_ceiled(fixedp_divide_by_int(cpu, 4)) - n * 2
    IN  CASE p < PRI_MIN -> PRI_MIN [] p > PRI_MAX -> PRI_MAX [] OTHER -> p

thread_update_recent_cpu(load, cpu, n) ==
    fixedp_add_with_int(
        fixedp_multiply(cpu, fixedp_divide(load * 2, fixedp_add_with_int(load * 2, 1))), n)

thread_get_num_ready_and_run == Len(ready_list) + (IF cur = Idle THEN 0 ELSE 1)

-----------------------------------------------------------------------------
(* Scheduling *)

(* thread_get_ready_max: the first of the highest priority in LIST. *)
thread_get_ready_max(list, prio) ==
    list[CHOOSE i \in DOMAIN list : \A j \in DOMAIN list :
            prio[list[j]] < prio[list[i]] \/ (prio[list[j]] = prio[list[i]] /\ i <= j)]

(* schedule with LIST ready. *)
schedule(list, prio) ==
    /\ cur' = IF list = <<>> THEN Idle ELSE thread_get_ready_max(list, prio)
    /\ ready_list' = SelectSeq(list, LAMBDA t : t # cur')
    /\ thread_ticks' = 0

thread_yield(list, prio) == schedule(IF cur = Idle THEN list ELSE Append(list, cur), prio)

(* Faulty variant: the comparison the other way round. *)
DefersToLower(list, prio) ==
    list # <<>> /\ prio[thread_get_ready_max(list, prio)] < (IF cur = Idle THEN PRI_MAX ELSE prio[cur])

(* The condition of thread_defer_to_max_priority; the idle thread has the  *)
(* priority with which it was made.                                        *)
Defers(list, prio) ==
    list # <<>> /\ prio[thread_get_ready_max(list, prio)] > (IF cur = Idle THEN PRI_MAX ELSE prio[cur])

(* thread_tick with thread_update_mlfqs_state, and the yield on the return *)
(* from the interrupt.  Whom it wakes, thread_unblock shows.               *)
thread_tick ==
    LET now == ticks + 1
        run == IF cur = Idle THEN recent_cpu ELSE [recent_cpu EXCEPT ![cur] = fixedp_add_with_int(@, 1)]
        second == now % TIMER_FREQ = 0
        load == IF second
                THEN fixedp_multiply(LOAD_AVG_MOMENTUM, load_avg) + LOAD_AVG_DECAY * thread_get_num_ready_and_run
                ELSE load_avg
        cpu == [t \in Threads |-> IF second /\ t \in made THEN thread_update_recent_cpu(load, run[t], nice[t])
                                  ELSE run[t]]
        recalc == now % PRI_RECALC_PERIOD = 0
        prio == [t \in Threads |-> IF recalc /\ t \in made THEN thread_update_priority_in_mlfqs(cpu[t], nice[t])
                                   ELSE priority[t]]
    IN  /\ ticks < MaxTicks
        /\ ticks' = now /\ load_avg' = load /\ recent_cpu' = cpu /\ priority' = prio
        /\ IF thread_ticks + 1 >= TIME_SLICE \/ (recalc /\ Defers(ready_list, prio))
           THEN thread_yield(ready_list, prio)
           ELSE thread_ticks' = thread_ticks + 1 /\ UNCHANGED <<ready_list, cur>>
        /\ UNCHANGED <<made, blocked, nice, calls>>

Call == calls < MaxCalls /\ calls' = calls + 1

thread_set_nice(n) ==
    LET prio == [priority EXCEPT ![cur] = thread_update_priority_in_mlfqs(recent_cpu[cur], n)]
    IN  /\ Call /\ cur # Idle
        /\ nice' = [nice EXCEPT ![cur] = n] /\ priority' = prio
        /\ IF prio[cur] < priority[cur] /\ Defers(ready_list, prio) THEN thread_yield(ready_list, prio)
           ELSE UNCHANGED <<ready_list, cur, thread_ticks>>
        /\ UNCHANGED <<made, blocked, recent_cpu, load_avg, ticks>>

(* Whether it yields depends on its argument, which is the default. *)
thread_create(t) ==
    LET prio == [priority EXCEPT ![t] = thread_update_priority_in_mlfqs(recent_cpu[cur], nice[cur])]
    IN  /\ Call /\ cur # Idle /\ t \notin made
        /\ made' = made \cup {t}
        /\ nice' = [nice EXCEPT ![t] = nice[cur]] /\ recent_cpu' = [recent_cpu EXCEPT ![t] = recent_cpu[cur]]
        /\ priority' = prio
        /\ IF PRI_DEFAULT >= prio[cur] THEN thread_yield(Append(ready_list, t), prio)
           ELSE ready_list' = Append(ready_list, t) /\ UNCHANGED <<cur, thread_ticks>>
        /\ UNCHANGED <<blocked, load_avg, ticks>>

(* Also the idle thread's, after every interrupt. *)
thread_block ==
    /\ \/ cur = Idle /\ ready_list # <<>> /\ UNCHANGED <<blocked, calls>>
       \/ cur # Idle /\ Call /\ blocked' = blocked \cup {cur}
    /\ schedule(ready_list, priority)
    /\ UNCHANGED <<made, nice, recent_cpu, priority, load_avg, ticks>>

thread_unblock(t) ==
    /\ Call /\ t \in blocked
    /\ blocked' = blocked \ {t} /\ ready_list' = Append(ready_list, t)
    /\ UNCHANGED <<cur, made, nice, recent_cpu, priority, load_avg, ticks, thread_ticks>>

(* thread_init *)
Init ==
    /\ ready_list = <<>> /\ cur = Main /\ made = {Main} /\ blocked = {}
    /\ nice = [t \in Threads |-> 0] /\ recent_cpu = [t \in Threads |-> fixedp_from_int(0)]
    /\ priority = [t \in Threads |-> thread_update_priority_in_mlfqs(fixedp_from_int(0), 0)]
    /\ load_avg = fixedp_from_int(0) /\ ticks = 0 /\ thread_ticks = 0 /\ calls = 0

Next ==
    \/ thread_tick \/ thread_block
    \/ \E n \in Nices : thread_set_nice(n)
    \/ \E t \in Threads : thread_create(t) \/ thread_unblock(t)

Spec == Init /\ [][Next]_vars

-----------------------------------------------------------------------------
(* Properties *)

(* Between recalculations a thread's priority is what its nice and         *)
(* recent_cpu say, or one more, for the ticks it ran since: it is          *)
(* recalculated after every decay of recent_cpu, by thread_set_nice and in *)
(* thread_create.                                                          *)
PriorityFresh ==
    \A t \in made : priority[t] - thread_update_priority_in_mlfqs(recent_cpu[t], nice[t]) \in {0, 1}

(* The load average stays between zero and the number of threads, with     *)
(* both of its factors rounded down, and nobody's recent_cpu is negative   *)
(* without a negative nice.                                                *)
LoadBounded ==
    /\ load_avg \in 0 .. fixedp_from_int(Cardinality(made))
    /\ (\A n \in Nices : n >= 0) => \A t \in made : recent_cpu[t] >= 0

(* A tick that recalculates leaves no ready thread with a higher priority  *)
(* than the one that goes on, unless that is the idle thread on its way to *)
(* thread_block.                                                           *)
TickDefers ==
    (ticks' # ticks /\ ticks' % PRI_RECALC_PERIOD = 0 /\ cur' # Idle) =>
        \A i \in DOMAIN ready_list' : priority'[ready_list'[i]] <= priority'[cur']

(* The conversions round as they say, the ceiling for numbers that are not *)
(* negative, and products and quotients of numbers that represent          *)
(* fractions are off by less than one unit.                                *)
FixedExact ==
    \A x, y \in -3 * fp_f .. 3 * fp_f :
        /\ LET n == fixedp_to_int_nearest(x)
           IN  2 * (n * fp_f - x) \in -fp_f .. fp_f
        /\ x >= 0 => fixedp_to_int_ceiled(x) * fp_f - x \in 0 .. fp_f - 1
        /\ fixedp_multiply(x, y) * fp_f - x * y \in -(fp_f - 1) .. fp_f - 1
        /\ y > 0 => fixedp_divide(x, y) * y - x * fp_f \in -(y - 1) .. y - 1

=============================================================================
