------------------------------ MODULE Process -------------------------------
(***************************************************************************)
(* Parents and children: exec, wait and exit of userprog/process.c and     *)
(* userprog/syscall.c, with the parts of thread_create and thread_exit     *)
(* that they rest on.                                                      *)
(*                                                                         *)
(* Nearly all of this code runs with interrupts on, and every process has  *)
(* the same priority, so the timer may switch threads between any two      *)
(* accesses to shared memory: one action is one such access, and any       *)
(* process that is not blocked may take the next step.                     *)
(*                                                                         *)
(* A struct thread lies in a page and a struct child in a block, and both  *)
(* are freed and used again.  A pointer is therefore the page or block,    *)
(* and what is found there is whatever occupies it by then.                *)
(***************************************************************************)
EXTENDS Integers, Sequences, FiniteSets, FiniteSetsExt

CONSTANTS
    NULL,
    Procs,      (* tids; a tid is never used twice *)
    Main,       (* initial_thread, which runs the first process *)
    Pages,      (* pages a struct thread can be in *)
    Blocks,     (* blocks a struct child can be in *)
    Statuses,   (* values processes pass to exit *)
    Clients,    (* what the processes do: see Permitted *)
    MaxWaits    (* bound: completed waits for one child *)

all_list == "all"

INSTANCE KernelList WITH Items <- Pages, Lists <- {all_list}

ASSUME ProcessAssumption ==
    /\ Main \in Procs
    /\ NULL \notin Procs \cup Pages \cup Blocks
    /\ NULL \notin [tid : Procs, exit_code : {-1} \cup Statuses, load_success : BOOLEAN]
    /\ {list_head(all_list), list_end(all_list)} \cap (Pages \cup {NULL}) = {}
    /\ Statuses \subseteq Nat
    /\ Clients \subseteq {"parallel", "orphan", "nomem"}
    /\ MaxWaits \in Nat

VARIABLES
    heap,     (* the allelem of each page, and the ends of all_list *)
    thread,   (* struct thread of each process *)
    child,    (* struct child in each block, NULL when the block is free *)
    frame,    (* where each process is in the kernel *)
    panic,    (* "none", or which ASSERT stopped the kernel *)
    hist      (* history: see TypeOK *)

vars == <<heap, thread, child, frame, panic, hist>>

(* A walk along all_list with interrupts on, for each of its callers. *)
Walks == {"find_exit", "find_load", "find_wait", "find_wake"}

Ops == Walks \cup
       {"user", "exec_sema", "exec_check", "load", "load_child", "load_store", "load_sema",
        "start_process",
        "wait_store", "wait_block", "wait_take", "exit_child", "exit_store",
        "process_exit", "exit_wake", "exit_unlink", "exit_free"}

(* The local variables: the tid sought or waited for, the element a walk   *)
(* has reached, the struct thread and struct child found, the status to    *)
(* hand over and the outcome of load.                                      *)
Frames == [op : Ops, tid : Procs \cup {NULL}, at : Elems \cup {NULL},
           thr : Pages \cup {NULL}, cld : Blocks \cup {NULL},
           val : {-1} \cup Statuses, ok : BOOLEAN]

InUser == [op |-> "user", tid |-> NULL, at |-> NULL, thr |-> NULL, cld |-> NULL,
           val |-> -1, ok |-> FALSE]

Frame(op, tid) == [InUser EXCEPT !.op = op, !.tid = tid]

(* The state in which main() calls run_actions. *)
Init ==
    \E g \in Pages :
       /\ heap = list_push_back(list_init, all_list, g)
       /\ thread = [p \in Procs |->
                      [status         |-> IF p = Main THEN "READY" ELSE "NONE",
                       page           |-> IF p = Main THEN g ELSE NULL,
                       parent_tid     |-> Main,
                       parent_waiting |-> FALSE,
                       children       |-> <<>>,
                       success_sema   |-> 0]]
       /\ child = [b \in Blocks |-> NULL]
       /\ frame = [p \in Procs |-> InUser]
       /\ panic = "none"
       /\ hist = [passed   |-> [p \in Procs |-> NULL],
                  returned |-> [p \in Procs |-> <<>>],
                  loaded   |-> [p \in Procs |-> NULL],
                  faulted  |-> {}]

-----------------------------------------------------------------------------
(* Memory *)

FreePages  == {g \in Pages : \A p \in Procs : thread[p].page # g}
FreeBlocks == {b \in Blocks : child[b] = NULL}

(* The process whose struct thread lies in a page that is not free. *)
Owner(g) == CHOOSE p \in Procs : thread[p].page = g

(* The block of the entry for tid, NULL if there is none. *)
thread_get_child_elem(lst, tid) ==
    LET found == {i \in DOMAIN lst : child[lst[i]] # NULL /\ child[lst[i]].tid = tid}
    IN  IF found = {} THEN NULL ELSE lst[Min(found)]

(* Linked in all_list: what thread_get_from_tid finds if nothing moves. *)
Alive(p) == thread[p].status \in {"READY", "BLOCKED"} /\ frame[p].op # "exit_free"

At(p, op) == panic = "none" /\ thread[p].status = "READY" /\ frame[p].op = op

Goto(p, f) == frame' = [frame EXCEPT ![p] = f]

Panic(why) == panic' = why /\ UNCHANGED <<heap, thread, child, frame, hist>>

(* thread_get_from_tid(tid) starts; the walk goes on in Walk steps. *)
Seek(p, op, tid, val) ==
    Goto(p, [Frame(op, tid) EXCEPT !.at = list_begin(heap, all_list), !.val = val])

(* A page fault in the kernel, at a null pointer or in a freed page, which *)
(* palloc_free_multiple has filled with 0xcc: page_fault() calls exit(-1). *)
(* A second process_exit closes the executable again, which frees a struct *)
(* file twice.                                                             *)
page_fault(p) ==
    IF frame[p].op \in {"find_wake", "exit_wake"}
    THEN Panic("file_close")
    ELSE /\ Seek(p, "find_exit", thread[p].parent_tid, -1)
         /\ hist' = [hist EXCEPT !.faulted = @ \cup {p},
                                 !.passed[p] = IF @ = NULL THEN -1 ELSE @]
         /\ UNCHANGED <<heap, thread, child, panic>>

-----------------------------------------------------------------------------
(* thread_get_from_tid *)

(* What each caller does with the struct thread found ... *)
Found(p, g) ==
    /\ Goto(p, [frame[p] EXCEPT !.thr = g, !.at = NULL,
                  !.op = CASE @ = "find_exit" -> "exit_child"
                           [] @ = "find_load" -> "load_child"
                           [] @ = "find_wait" -> "wait_store"
                           [] @ = "find_wake" -> "exit_wake"])
    /\ UNCHANGED <<heap, thread, child, panic, hist>>

(* ... and with a null pointer. *)
NotFound(p) ==
    \/ /\ frame[p].op = "find_load"
       /\ page_fault(p)
    \/ /\ frame[p].op = "find_wake"
       /\ Panic("is_thread")
    \/ /\ frame[p].op \in {"find_exit", "find_wait"}
       /\ Goto(p, Frame(IF frame[p].op = "find_exit" THEN "process_exit" ELSE "wait_take",
                        frame[p].tid))
       /\ UNCHANGED <<heap, thread, child, panic, hist>>

(* One turn of the loop: look at the tid, then follow next.  The element   *)
(* reached may have been unlinked, or its page freed, since next was read. *)
Walk1(p) ==
    \E op \in Walks :
       /\ At(p, op)
       /\ LET e == frame[p].at
          IN  IF e = list_end(all_list) THEN NotFound(p)
              ELSE IF e \in FreePages THEN page_fault(p)
              ELSE IF Owner(e) = frame[p].tid THEN Found(p, e)
              ELSE /\ Goto(p, [frame[p] EXCEPT !.at = heap.next[e]])
                   /\ UNCHANGED <<heap, thread, child, panic, hist>>

-----------------------------------------------------------------------------
(* exec *)

ChildrenAlive(p) == {c \in Procs : c # p /\ thread[c].parent_tid = p /\ Alive(c)}

(* What the client p may do at this point.  Without "parallel" a process   *)
(* starts a child only when none of its children is left; without "orphan" *)
(* a process ends only then; without "nomem" memory never runs out.        *)
Permitted(p, what) ==
    CASE what = "exec" -> "parallel" \in Clients \/ ChildrenAlive(p) = {}
      [] what = "exit" -> "orphan" \in Clients \/ ChildrenAlive(p) = {}

(* thread_create, as far as it is about processes.  load_success is left   *)
(* as malloc returned it.  The new thread has made no step yet, so nobody  *)
(* sees it in an intermediate state.                                       *)
thread_create(p, u, g, b, garbage) ==
    /\ thread[u].status = "NONE" /\ g \in FreePages /\ b \in FreeBlocks
    /\ heap' = list_push_back(heap, all_list, g)
    /\ child' = [child EXCEPT ![b] = [tid |-> u, exit_code |-> -1, load_success |-> garbage]]
    /\ thread' = [thread EXCEPT ![u] = [status         |-> "READY",
                                        page           |-> g,
                                        parent_tid     |-> p,
                                        parent_waiting |-> FALSE,
                                        children       |-> <<>>,
                                        success_sema   |-> 0],
                                ![p].children = Append(@, b)]

(* exec() of a process, or run_task() of the initial thread, up to the     *)
(* return of process_execute.  run_task() goes on to process_wait().       *)
Exec(p) ==
    /\ At(p, "user") /\ Permitted(p, "exec")
    /\ \E u \in Procs, g \in FreePages, b \in FreeBlocks, garbage \in BOOLEAN :
          /\ thread_create(p, u, g, b, garbage)
          /\ frame' = [frame EXCEPT ![p] = IF p = Main
                                           THEN [Frame("find_wait", u) EXCEPT !.at = list_begin(heap, all_list)]
                                           ELSE Frame("exec_sema", u),
                                    ![u] = Frame("load", NULL)]
    /\ UNCHANGED <<panic, hist>>

(* process_execute returns TID_ERROR, which exec() does not look at. *)
ExecNoMemory(p) ==
    /\ At(p, "user") /\ p # Main /\ "nomem" \in Clients
    /\ Goto(p, Frame("exec_sema", NULL))
    /\ UNCHANGED <<heap, thread, child, panic, hist>>

(* Faulty variant: exec() tries the semaphore and returns if it is down. *)
ExecSemaTry(p) ==
    /\ At(p, "exec_sema")
    /\ IF thread[p].success_sema > 0
       THEN /\ thread' = [thread EXCEPT ![p].success_sema = @ - 1]
            /\ Goto(p, [frame[p] EXCEPT !.op = "exec_check"])
       ELSE Goto(p, InUser) /\ UNCHANGED thread
    /\ UNCHANGED <<heap, child, panic, hist>>

(* sema_down(&success_sema), once per turn of its loop. *)
ExecSema(p) ==
    /\ At(p, "exec_sema")
    /\ IF thread[p].success_sema > 0
       THEN /\ thread' = [thread EXCEPT ![p].success_sema = @ - 1]
            /\ Goto(p, [frame[p] EXCEPT !.op = "exec_check"])
       ELSE /\ thread' = [thread EXCEPT ![p].status = "BLOCKED"]
            /\ UNCHANGED frame
    /\ UNCHANGED <<heap, child, panic, hist>>

(* c->load_success decides what exec returns; see ExecReportsLoad. *)
ExecCheck(p) ==
    /\ At(p, "exec_check")
    /\ IF thread_get_child_elem(thread[p].children, frame[p].tid) = NULL
       THEN page_fault(p)
       ELSE Goto(p, InUser) /\ UNCHANGED <<heap, thread, child, panic, hist>>

-----------------------------------------------------------------------------
(* load, and the report to the parent at its end *)

Load(p) ==
    /\ At(p, "load")
    /\ \E ok \in BOOLEAN :
          /\ Goto(p, [Frame("find_load", thread[p].parent_tid) EXCEPT
                        !.at = list_begin(heap, all_list), !.ok = ok])
          /\ hist' = [hist EXCEPT !.loaded[p] = ok]
    /\ UNCHANGED <<heap, thread, child, panic>>

LoadChild(p) ==
    /\ At(p, "load_child")
    /\ LET g == frame[p].thr
           c == IF g \in FreePages THEN NULL
                ELSE thread_get_child_elem(thread[Owner(g)].children, p)
       IN  IF c = NULL THEN page_fault(p)
           ELSE /\ Goto(p, [frame[p] EXCEPT !.op = "load_store", !.cld = c])
                /\ UNCHANGED <<heap, thread, child, panic, hist>>

(* Faulty variant: load_success is stored after sema_up. *)
LoadStoreLate(p) ==
    /\ At(p, "load_store")
    /\ Goto(p, [frame[p] EXCEPT !.op = "load_sema"])
    /\ UNCHANGED <<heap, thread, child, panic, hist>>

LoadStore(p) ==
    /\ At(p, "load_store")
    /\ child' = IF frame[p].cld \in FreeBlocks THEN child
                ELSE [child EXCEPT ![frame[p].cld].load_success = frame[p].ok]
    /\ Goto(p, [frame[p] EXCEPT !.op = "load_sema"])
    /\ UNCHANGED <<heap, thread, panic, hist>>

(* Faulty variant: a process that failed to load does not tell its parent. *)
LoadSemaOnSuccess(p) ==
    /\ At(p, "load_sema")
    /\ LET q == Owner(frame[p].thr)
       IN  thread' = IF ~ frame[p].ok THEN thread
                     ELSE [thread EXCEPT ![q].success_sema = @ + 1, ![q].status = "READY"]
    /\ Goto(p, [frame[p] EXCEPT !.op = "start_process", !.thr = NULL, !.cld = NULL])
    /\ UNCHANGED <<heap, child, panic, hist>>

(* sema_up(&parent->success_sema). *)
LoadSema(p) ==
    /\ At(p, "load_sema")
    /\ IF frame[p].thr \in FreePages THEN page_fault(p)
       ELSE LET q == Owner(frame[p].thr)
            IN  /\ thread' = [thread EXCEPT
                     ![q].success_sema = @ + 1,
                     ![q].status = IF frame[q].op = "exec_sema" THEN "READY" ELSE @]
                /\ Goto(p, [frame[p] EXCEPT !.op = "start_process", !.thr = NULL, !.cld = NULL])
                /\ UNCHANGED <<heap, child, panic, hist>>

(* The process runs, or ends if it could not be loaded. *)
StartProcess(p) ==
    /\ At(p, "start_process")
    /\ Goto(p, IF frame[p].ok THEN InUser ELSE Frame("process_exit", NULL))
    /\ hist' = [hist EXCEPT !.passed[p] = IF frame[p].ok THEN @ ELSE -1]
    /\ UNCHANGED <<heap, thread, child, panic>>

-----------------------------------------------------------------------------
(* wait *)

(* process_wait: a tid that is not in children returns -1 at once and      *)
(* changes nothing.                                                        *)
Wait(p, c) ==
    /\ At(p, "user") /\ p # Main
    /\ Len(hist.returned[c]) < MaxWaits
    /\ thread_get_child_elem(thread[p].children, c) # NULL
    /\ Seek(p, "find_wait", c, -1)
    /\ UNCHANGED <<heap, thread, child, panic, hist>>

(* child->parent_waiting = true, through a pointer to whatever lies in the *)
(* page by now.                                                            *)
WaitStore(p) ==
    /\ At(p, "wait_store")
    /\ thread' = IF frame[p].thr \in FreePages THEN thread
                 ELSE [thread EXCEPT ![Owner(frame[p].thr)].parent_waiting = TRUE]
    /\ Goto(p, [frame[p] EXCEPT !.op = "wait_block"])
    /\ UNCHANGED <<heap, child, panic, hist>>

(* intr_disable and thread_block. *)
WaitBlock(p) ==
    /\ At(p, "wait_block")
    /\ thread' = [thread EXCEPT ![p].status = "BLOCKED"]
    /\ Goto(p, Frame("wait_take", frame[p].tid))
    /\ UNCHANGED <<heap, child, panic, hist>>

(* Faulty variant: the exit code is left in place for a second wait. *)
WaitTakeKeep(p) ==
    /\ At(p, "wait_take")
    /\ LET c == frame[p].tid
           b == thread_get_child_elem(thread[p].children, c)
       IN  hist' = [hist EXCEPT !.returned[c] = Append(@, child[b].exit_code)]
    /\ Goto(p, InUser)
    /\ UNCHANGED <<heap, thread, child, panic>>

(* The exit code is returned and replaced by -1. *)
WaitTake(p) ==
    /\ At(p, "wait_take")
    /\ LET c == frame[p].tid
           b == thread_get_child_elem(thread[p].children, c)
       IN  /\ hist' = [hist EXCEPT !.returned[c] = Append(@, child[b].exit_code)]
           /\ child' = [child EXCEPT ![b].exit_code = -1]
    /\ Goto(p, InUser)
    /\ UNCHANGED <<heap, thread, panic>>

-----------------------------------------------------------------------------
(* exit *)

(* exit(status), by the system call or by page_fault(). *)
Exit(p) ==
    /\ At(p, "user") /\ p # Main /\ Permitted(p, "exit")
    /\ \E s \in Statuses \cup {-1} :
          /\ Seek(p, "find_exit", thread[p].parent_tid, s)
          /\ hist' = [hist EXCEPT !.passed[p] = s]
    /\ UNCHANGED <<heap, thread, child, panic>>

(* thread_exit() for a bad pointer, descriptor or call number, or kill(). *)
Kill(p) ==
    /\ At(p, "user") /\ p # Main /\ Permitted(p, "exit")
    /\ Goto(p, Frame("process_exit", NULL))
    /\ hist' = [hist EXCEPT !.passed[p] = -1]
    /\ UNCHANGED <<heap, thread, child, panic>>

(* Finding the entry in parent->children, and ASSERT(c). *)
ExitChild(p) ==
    /\ At(p, "exit_child")
    /\ IF frame[p].thr \in FreePages THEN page_fault(p)
       ELSE LET c == thread_get_child_elem(thread[Owner(frame[p].thr)].children, p)
            IN  IF c = NULL THEN Panic("exit")
                ELSE /\ Goto(p, [frame[p] EXCEPT !.op = "exit_store", !.cld = c])
                     /\ UNCHANGED <<heap, thread, child, panic, hist>>

(* c->exit_code = status.  In a freed block the store hits the next        *)
(* pointer of malloc's free list: harmless, or fatal to a later malloc.    *)
ExitStore(p) ==
    /\ At(p, "exit_store")
    /\ IF frame[p].cld \in FreeBlocks
       THEN \/ Panic("malloc")
            \/ /\ Goto(p, Frame("process_exit", NULL))
               /\ UNCHANGED <<heap, thread, child, panic, hist>>
       ELSE /\ child' = [child EXCEPT ![frame[p].cld].exit_code = frame[p].val]
            /\ Goto(p, Frame("process_exit", NULL))
            /\ UNCHANGED <<heap, thread, panic, hist>>

(* process_exit: wake the parent if it waits for this process. *)
ProcessExit(p) ==
    /\ At(p, "process_exit")
    /\ IF thread[p].parent_waiting
       THEN Seek(p, "find_wake", thread[p].parent_tid, -1)
       ELSE Goto(p, Frame("exit_unlink", NULL))
    /\ UNCHANGED <<heap, thread, child, panic, hist>>

(* thread_unblock of the parent. *)
ExitWake(p) ==
    /\ At(p, "exit_wake")
    /\ LET q == Owner(frame[p].thr)
       IN  IF frame[p].thr \in FreePages \/ thread[q].status # "BLOCKED"
           THEN Panic("thread_unblock")
           ELSE /\ thread' = [thread EXCEPT ![q].status = "READY"]
                /\ Goto(p, Frame("exit_unlink", NULL))
                /\ UNCHANGED <<heap, child, panic, hist>>

(* thread_exit from intr_disable: leave all_list.  Releasing locks and     *)
(* closing files can give the processor away before the rest is done.      *)
ExitUnlink(p) ==
    /\ At(p, "exit_unlink")
    /\ heap' = list_remove(heap, thread[p].page)
    /\ Goto(p, Frame("exit_free", NULL))
    /\ UNCHANGED <<thread, child, panic, hist>>

(* Free the children's entries, die, and have the page freed by the next   *)
(* thread in thread_schedule_tail.                                         *)
ExitFree(p) ==
    /\ At(p, "exit_free")
    /\ child' = [b \in Blocks |-> IF b \in Range(thread[p].children) THEN NULL ELSE child[b]]
    /\ thread' = [thread EXCEPT ![p].status = "DYING", ![p].page = NULL, ![p].children = <<>>]
    /\ Goto(p, InUser)
    /\ UNCHANGED <<heap, panic, hist>>

-----------------------------------------------------------------------------
(* The steps a process makes in the kernel, as opposed to its calls. *)
KernelStep(p) ==
    \/ Walk1(p)
    \/ ExecSema(p) \/ ExecCheck(p)
    \/ Load(p) \/ LoadChild(p) \/ LoadStore(p) \/ LoadSema(p) \/ StartProcess(p)
    \/ WaitStore(p) \/ WaitBlock(p) \/ WaitTake(p)
    \/ ExitChild(p) \/ ExitStore(p) \/ ProcessExit(p) \/ ExitWake(p)
    \/ ExitUnlink(p) \/ ExitFree(p)

Next ==
    \E p \in Procs :
       \/ KernelStep(p)
       \/ Exec(p) \/ ExecNoMemory(p)
       \/ \E c \in Procs : Wait(p, c)
       \/ Exit(p) \/ Kill(p)

Spec == Init /\ [][Next]_vars

(* Equal priorities and time slices: a process that is not blocked runs    *)
(* again and again.  Nothing makes a process call the kernel.              *)
FairSpec == Spec /\ \A p \in Procs : WF_vars(KernelStep(p))
-----------------------------------------------------------------------------
(* Properties *)

(* Threads, children and frames have their types, and the history records  *)
(* what each process passed to exit (-1 if the kernel ended it), what each *)
(* wait for it returned, whether it loaded, and who faulted in the kernel. *)
TypeOK ==
    /\ heap \in Heaps
    /\ thread \in [Procs -> [status : {"NONE", "READY", "BLOCKED", "DYING"},
                             page : Pages \cup {NULL}, parent_tid : Procs,
                             parent_waiting : BOOLEAN, children : Seq(Blocks),
                             success_sema : 0 .. Cardinality(Procs)]]
    /\ child \in [Blocks -> [tid : Procs, exit_code : {-1} \cup Statuses,
                             load_success : BOOLEAN] \cup {NULL}]
    /\ frame \in [Procs -> Frames]
    /\ panic \in {"none", "exit", "malloc", "is_thread", "file_close", "thread_unblock"}
    /\ hist.passed \in [Procs -> {-1, NULL} \cup Statuses]
    /\ hist.returned \in [Procs -> Seq({-1} \cup Statuses)]

(* When exec() reads c->load_success, its own child has finished load(),   *)
(* and the flag is the outcome of that load and not what malloc left there *)
(* or the report of another child.                                         *)
ExecReportsLoad ==
    \A p \in Procs :
       frame[p].op = "exec_check" =>
          LET b == thread_get_child_elem(thread[p].children, frame[p].tid)
          IN  b # NULL /\ child[b].load_success = hist.loaded[frame[p].tid]

(* A process that is loading has a parent: load() uses parent and c        *)
(* without looking whether they are null.                                  *)
LoadHasParent ==
    \A p \in Procs :
       /\ thread[p].status = "READY"
       /\ frame[p].op \in {"load", "find_load", "load_child", "load_store", "load_sema"}
       => LET q == thread[p].parent_tid
          IN  Alive(q) /\ thread_get_child_elem(thread[q].children, p) # NULL

(* What wait promises: the mailbox of each child.                          *)
Mailbox == INSTANCE ExitMailbox WITH Children <- Procs,
                                     exited <- hist.passed, returned <- hist.returned

(* process_wait() implements the mailbox: the first wait for a child that  *)
(* returns does so after the child's end with the status it passed to      *)
(* exit(), or -1 if the kernel ended it; later ones return -1.             *)
WaitDelivers == Mailbox!Spec

(* thread_unblock() is called only for a thread that is blocked.           *)
UnblocksBlocked == panic # "thread_unblock"

(* Kernel code throws no page faults of its own.                           *)
NoKernelFault == hist.faulted = {}

(* A wait for a child whose exit status was already returned does not      *)
(* block.                                                                  *)
SecondWaitImmediate ==
    \A p \in Procs : thread[p].status = "BLOCKED" /\ frame[p].op = "wait_take" =>
                     hist.returned[frame[p].tid] = <<>>

(* wait() returns once the child has ended.                                *)
WaitReturns ==
    \A p, c \in Procs :
       frame[p].op = "wait_take" /\ frame[p].tid = c /\ thread[c].status = "DYING"
         ~> frame[p].op # "wait_take" \/ panic # "none"

(* exec() returns.                                                         *)
ExecReturns ==
    \A p \in Procs : frame[p].op = "exec_sema" ~> frame[p].op # "exec_sema" \/ panic # "none"
=============================================================================
