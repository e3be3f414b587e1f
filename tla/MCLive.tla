------------------------------- MODULE MCLive -------------------------------
(***************************************************************************)
(* What must eventually happen, in one run of TLC: threads with donation   *)
(* (Synch), exec and exit (Process) or the shell's pipelines (Shell).  A   *)
(* behaviour is one of them; Synch and Process share the variables that    *)
(* have the same name in both.                                             *)
(***************************************************************************)
EXTENDS Integers, Sequences

CONSTANTS NULL, t1, t2, t3, idle_thread, la, p0, p1, p2, g0, g1, g2, b0, b1

VARIABLES
    scenario,
    heap, status, priority, priority_org, blocked_lock, sleep, all_list, value, holder, cur,
    thread_ticks, frame, panic, owns,
    thread, child, hist,
    pc, history, line, i, last_out_fd, fds, proc, pipe, files, lines, shown, due

vars ==
    <<scenario, heap, status, priority, priority_org, blocked_lock, sleep, all_list, value, holder, cur,
      thread_ticks, frame, panic, owns, thread, child, hist,
      pc, history, line, i, last_out_fd, fds, proc, pipe, files, lines, shown, due>>

(* Three threads of ascending priority and one lock. *)
Threads ==
    INSTANCE Synch WITH Threads <- {t1, t2, t3}, Idle <- idle_thread, Main <- t1, Semas <- {}, Locks <- {la},
        InitPriority <- [t \in {t1, t2, t3} |-> IF t = t1 THEN 1 ELSE IF t = t2 THEN 2 ELSE 3],
        Priorities <- {}, InitValue <- [s \in {} |-> 0], TIME_SLICE <- 1, DONATION_DEPTH <- 8,
        MaxSleep <- 0, MaxValue <- 1, Calls <- {"lock"}

(* A parent that may exit before its children. *)
Processes ==
    INSTANCE Process WITH Procs <- {p0, p1, p2}, Main <- p0, Pages <- {g0, g1, g2}, Blocks <- {b0, b1},
        Statuses <- {}, Clients <- {"orphan"}, MaxWaits <- 0

(* Pipelines with programs that end early or are missing; no built-in is   *)
(* the last of several commands.                                           *)
Chain(progs) ==
    [cmds |-> [n \in DOMAIN progs |-> [prog |-> progs[n], in |-> "none", out |-> "none", app |-> FALSE]]]
Lines ==
    {Chain(<<"gen", "cat">>), Chain(<<"gen", "head", "cat">>), Chain(<<"gen", "missing">>),
     Chain(<<"gen", "cd", "cat">>), Chain(<<"exit">>), Chain(<<"history">>), [bang |-> 1]}
Shell == INSTANCE Shell WITH Lines <- Lines, N <- 2, CAP <- 1, MaxLines <- 2, MayFail <- TRUE

NotSynch ==
    <<scenario, thread, child, hist,
      pc, history, line, i, last_out_fd, fds, proc, pipe, files, lines, shown, due>>
NotProcess ==
    <<scenario, status, priority, priority_org, blocked_lock, sleep, all_list, value, holder, cur,
      thread_ticks, owns, pc, history, line, i, last_out_fd, fds, proc, pipe, files, lines, shown, due>>
NotShell ==
    <<scenario, heap, status, priority, priority_org, blocked_lock, sleep, all_list, value, holder, cur,
      thread_ticks, frame, panic, owns, thread, child, hist>>

(* Pages are interchangeable: one initial page of p0 stands for all. *)
Init ==
    \/ scenario = "threads" /\ Threads!Init
       /\ thread = 0 /\ child = 0 /\ hist = 0 /\ pc = 0 /\ history = 0 /\ line = 0 /\ i = 0
       /\ last_out_fd = 0 /\ fds = 0 /\ proc = 0 /\ pipe = 0 /\ files = 0 /\ lines = 0 /\ shown = 0
       /\ due = 0
    \/ scenario = "processes" /\ Processes!Init /\ thread[p0].page = g0
       /\ status = 0 /\ priority = 0 /\ priority_org = 0 /\ blocked_lock = 0 /\ sleep = 0
       /\ all_list = 0 /\ value = 0 /\ holder = 0 /\ cur = 0 /\ thread_ticks = 0 /\ owns = 0
       /\ pc = 0 /\ history = 0 /\ line = 0 /\ i = 0 /\ last_out_fd = 0 /\ fds = 0 /\ proc = 0
       /\ pipe = 0 /\ files = 0 /\ lines = 0 /\ shown = 0 /\ due = 0
    \/ scenario = "shell" /\ Shell!Init
       /\ heap = 0 /\ status = 0 /\ priority = 0 /\ priority_org = 0 /\ blocked_lock = 0
       /\ sleep = 0 /\ all_list = 0 /\ value = 0 /\ holder = 0 /\ cur = 0 /\ thread_ticks = 0
       /\ frame = 0 /\ panic = 0 /\ owns = 0 /\ thread = 0 /\ child = 0 /\ hist = 0

KernelStep(p) == scenario = "processes" /\ Processes!KernelStep(p) /\ UNCHANGED NotProcess
ShellStep == scenario = "shell" /\ Shell!ShellStep /\ UNCHANGED NotShell
Child(p) == scenario = "shell" /\ Shell!Child(p) /\ UNCHANGED NotShell

Next ==
    \/ scenario = "threads" /\ Threads!Next /\ UNCHANGED NotSynch
    \/ scenario = "processes" /\ Processes!Next /\ UNCHANGED NotProcess
    \/ scenario = "shell" /\ Shell!Next /\ UNCHANGED NotShell

(* The fairness of FairSpec of Synch, FairSpec of Process and LiveSpec of  *)
(* Shell: whoever has the processor and can go on, does.                   *)
LiveSpec ==
    /\ Init /\ [][Next]_vars
    /\ \A t \in {t1, t2, t3} :
         /\ []<>~(scenario = "threads" /\ Threads!Running(t) /\ frame[t].op # "user")
            \/ []<><<scenario = "threads" /\ Threads!Resume(t)>>_vars
         /\ []<>~(scenario = "threads" /\ Threads!AtUser(t) /\ la \in owns[t])
            \/ []<><<scenario = "threads" /\ Threads!LockRelease(t, la)>>_vars
    /\ \A p \in {p0, p1, p2} : WF_vars(KernelStep(p))
    /\ WF_vars(ShellStep) /\ \A p \in 1 .. 3 : WF_vars(Child(p))

-----------------------------------------------------------------------------
(* Properties *)

(* Donations are given when a thread starts to wait, follow the waiter's   *)
(* own priority, and are taken back when the lock is released (synch.c).   *)
DonationExact == scenario = "threads" => Threads!DonationExact

(* The thread of the highest priority, waiting for the lock, gets it: its  *)
(* holder runs with the donated priority (synch.c, thread.c).              *)
NoPriorityInversion ==
    scenario = "threads" /\ Threads!Waiting(t3, la) ~> scenario = "threads" /\ la \in owns[t3]

(* exec returns: the child's load raises load_sema whatever its outcome,   *)
(* and its parent is found (process.c).  p2 is interchangeable with p1.    *)
ExecReturns ==
    \A p \in {p0, p1} :
        scenario = "processes" /\ frame[p].op = "exec_sema"
            ~> scenario = "processes" /\ (frame[p].op # "exec_sema" \/ panic # "none")

(* The shell comes back to its prompt after every line: each end of a pipe *)
(* is closed wherever it is not used, so that every program ends           *)
(* (com_exec.c).                                                           *)
PromptReturns ==
    scenario = "shell" /\ pc # "prompt" ~> scenario = "shell" /\ pc \in {"prompt", "exited"}

=============================================================================
