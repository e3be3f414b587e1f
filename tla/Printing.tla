------------------------------ MODULE Printing ------------------------------
(***************************************************************************)
(* Output to the console (lib/kernel/console.c): printf, puts and putbuf   *)
(* under the console lock, calls nested in a call of the same thread,      *)
(* output from interrupt handlers, and debug_panic (lib/kernel/debug.c).   *)
(* The count of characters is a statistic and left out.                    *)
(***************************************************************************)
EXTENDS Integers, Sequences, FiniteSets

CONSTANTS
    Printers,       (* threads that print *)
    NChars,         (* characters of a call *)
    MaxNest,        (* bound on calls nested in each other *)
    MaxCalls, MaxIntr       (* bounds on calls and characters from handlers *)

NONE == "none"

(* Every call prints something. *)
PrintingConstants == NChars \in Nat \ {0} /\ NONE \notin Printers

VARIABLES
    use_console_lock,
    console_lock,   (* the holder *)
    console_lock_depth,
    frames,         (* thread -> its calls, innermost last: [at, left, root] *)
    panicking,      (* the thread in debug_panic *)
    failed,         (* an ASSERT failed *)
    out,            (* history: the outermost call of each character, 0 for handlers *)
    calls           (* history: number of calls *)

vars == <<use_console_lock, console_lock, console_lock_depth, frames, panicking, failed, out, calls>>

Top(t) == frames[t][Len(frames[t])]
At(t, where) == panicking \in {NONE, t} /\ frames[t] # <<>> /\ Top(t).at = where
SetTop(t, f) == frames' = [frames EXCEPT ![t][Len(frames[t])] = f]
Return(t) == frames' = [frames EXCEPT ![t] = SubSeq(@, 1, Len(@) - 1)]

(* console_init, before the first call. *)
console_init == TRUE

(* A thread calls vprintf, puts, putbuf or putchar, or is in the middle of *)
(* one when it does.                                                       *)
Call(t) ==
    /\ panicking = NONE /\ calls < MaxCalls /\ Len(frames[t]) < MaxNest
    /\ frames[t] # <<>> => Top(t).at = "put"
    /\ calls' = calls + 1
    /\ frames' = [frames EXCEPT ![t] =
          Append(@, [at |-> "acquire", left |-> NChars,
                     root |-> IF @ = <<>> THEN calls' ELSE Top(t).root])]
    /\ UNCHANGED <<use_console_lock, console_lock, console_lock_depth, panicking, failed, out>>

(* Faulty variant for the mutation checks. *)
DepthKept(t) == console_lock_depth

(* console_lock_depth after acquire_console in a thread that may hold the lock. *)
Deeper(t) == IF console_lock = t THEN console_lock_depth + 1 ELSE console_lock_depth

acquire_console(t) ==
    /\ At(t, "acquire")
    /\ IF use_console_lock
       THEN /\ console_lock \in {NONE, t}
            /\ console_lock' = t /\ console_lock_depth' = Deeper(t)
       ELSE UNCHANGED <<console_lock, console_lock_depth>>
    /\ SetTop(t, [Top(t) EXCEPT !.at = "put"])
    /\ UNCHANGED <<use_console_lock, panicking, failed, out, calls>>

(* putchar_have_lock: the ASSERT, and the character goes out. *)
putchar_have_lock(t) ==
    /\ At(t, "put")
    /\ failed' = (failed \/ (use_console_lock /\ console_lock # t))
    /\ out' = Append(out, Top(t).root)
    /\ SetTop(t, [Top(t) EXCEPT !.at = IF Top(t).left = 1 THEN "release" ELSE "put", !.left = @ - 1])
    /\ UNCHANGED <<use_console_lock, console_lock, console_lock_depth, panicking, calls>>

(* The lock is given back by the outermost call, with the ASSERT of        *)
(* lock_release.                                                           *)
Release(t) ==
    IF console_lock_depth > 0
    THEN console_lock_depth' = console_lock_depth - 1 /\ UNCHANGED <<console_lock, failed>>
    ELSE console_lock' = NONE /\ failed' = (failed \/ console_lock # t) /\ UNCHANGED console_lock_depth

release_console(t) ==
    /\ At(t, "release")
    /\ IF use_console_lock THEN Release(t) ELSE UNCHANGED <<console_lock, console_lock_depth, failed>>
    /\ IF panicking = t THEN frames' = [frames EXCEPT ![t] = <<>>] ELSE Return(t)  (* a panic halts *)
    /\ UNCHANGED <<use_console_lock, panicking, out, calls>>

(* A character from an interrupt handler, with interrupts off. *)
FromHandler ==
    /\ panicking = NONE /\ Len(SelectSeq(out, LAMBDA c : c = 0)) < MaxIntr
    /\ out' = Append(out, 0)
    /\ UNCHANGED <<use_console_lock, console_lock, console_lock_depth, frames, panicking, failed, calls>>

(* debug_panic with its message, in a call or not: interrupts are off from *)
(* now on, so no other thread runs.                                        *)
debug_panic(t) ==
    /\ panicking = NONE /\ panicking' = t
    /\ use_console_lock' = FALSE
    /\ calls' = calls + 1
    /\ frames' = [frames EXCEPT ![t] =
          Append(@, [at |-> "acquire", left |-> NChars, root |-> calls'])]
    /\ UNCHANGED <<console_lock, console_lock_depth, failed, out>>

Init ==
    /\ use_console_lock = console_init /\ console_lock = NONE /\ console_lock_depth = 0
    /\ frames = [t \in Printers |-> <<>>]
    /\ panicking = NONE /\ failed = FALSE /\ out = <<>> /\ calls = 0

Next ==
    \/ \E t \in Printers :
          \/ Call(t) \/ acquire_console(t) \/ putchar_have_lock(t) \/ release_console(t)
          \/ debug_panic(t)
    \/ FromHandler

Spec == Init /\ [][Next]_vars

-----------------------------------------------------------------------------
(* Properties *)

(* A call's characters come out together: between two of them there are    *)
(* only those of calls nested in it and of interrupt handlers, up to a     *)
(* panic and in its message.                                               *)
PrintsWhole ==
    \A i, j, k \in DOMAIN out :
        i < j /\ j < k /\ out[i] = out[k] /\ out[i] # 0 => out[j] \in {0, out[i]}

(* putchar_have_lock has the lock and release_console gives back a lock    *)
(* that its thread holds, however calls are nested.                        *)
PrintAsserts == ~ failed

(* console_lock_depth is the number of calls nested in the outermost one   *)
(* of the holder, and 0 while the lock is free: the counter, which all     *)
(* threads share, is left as it was found.                                 *)
DepthExact ==
    panicking = NONE =>
        IF console_lock = NONE THEN console_lock_depth = 0
        ELSE LET calling == frames[console_lock]
             IN  console_lock_depth = Cardinality({k \in DOMAIN calling : calling[k].at # "acquire"}) - 1

=============================================================================
