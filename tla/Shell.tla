------------------------------- MODULE Shell --------------------------------
(***************************************************************************)
(* The command shell: the main loop with its history (shell/mysh.c), the   *)
(* built-in commands (shell/com_int.c) and the execution of a pipeline     *)
(* (shell/com_exec.c) with the processes, pipes and descriptors it makes.  *)
(* A line is the chain of commands its parser returns (ShellParse), or     *)
(* [bang |-> n] for !n.  A command is [prog, in, out, app]; PROG is a      *)
(* built-in or one of three kinds of program: "gen" writes N items, "cat"  *)
(* copies its input until its end, "head" ends at once; a "missing" one    *)
(* cannot be executed.  Data are counted in items, a pipe holds CAP.       *)
(***************************************************************************)
EXTENDS Integers, Sequences, FiniteSets, SequencesExt

CONSTANTS
    Lines,          (* what the user types *)
    N, CAP,
    MaxLines,       (* bound on the lines typed *)
    MayFail         (* whether pipe and fork may fail *)

NONE == "none"
Builtins == {"cd", "history", "exit"}

VARIABLES
    pc,             (* the shell: "prompt", "loop", "fork", "parent", "wait", "exited" *)
    history,        (* the history list of readline *)
    line,           (* the commands being executed *)
    i,              (* cmd: position in line *)
    last_out_fd,    (* read end of the last pipe, or NoFd *)
    fds,            (* pipe ends the shell holds *)
    proc,           (* the children of this line: [st, cmd, in, out, fds, last, next, left] *)
    pipe,           (* pipe number -> items in it *)
    files,          (* file -> items in it, -1 if there is none *)
    lines,
    shown, due      (* history: items written to the terminal, and those that should be *)

vars == <<pc, history, line, i, last_out_fd, fds, proc, pipe, files, lines, shown, due>>

(* Descriptors: the ends of pipe K, the terminal, a file, none. *)
R(k) == <<"r", k>>
Wr(k) == <<"w", k>>
TTY == <<"tty", 0>>
FILE == <<"file", 0>>
NoFd == <<"none", 0>>

Children == DOMAIN proc
Alive == {p \in Children : proc[p].st \notin {"dead", "reaped"}}

(* Whether some process, or the shell, has END open. *)
Held(p) == proc[p].fds \cup {proc[p].in, proc[p].out}
Open(end) == end \in fds \/ \E p \in Alive : end \in Held(p)

-----------------------------------------------------------------------------
(* shell/mysh.c *)

(* history_n: no line for a number out of range. *)
history_n(n) == IF n < 1 \/ n > Len(history) THEN <<>> ELSE history[n]

(* What chain L should write to the terminal: the items that come out of   *)
(* its last command when each passes on what it gets.                      *)
Runs(c) ==
    /\ c.prog # "missing"
    /\ c.in # NONE => files[c.in] # -1
    /\ c.app => files[c.out] # -1

Flow(l) ==
    LET flow[k \in 0 .. Len(l)] ==
            IF k = 0 \/ l[k].prog \in Builtins \cup {"head"} \/ ~ Runs(l[k]) THEN 0
            ELSE IF l[k].prog = "gen" THEN N
            ELSE IF l[k].in # NONE THEN files[l[k].in]
            ELSE IF k = 1 \/ l[k - 1].out # NONE THEN 0
            ELSE flow[k - 1]
    IN  IF Last(l).out # NONE THEN 0 ELSE flow[Len(l)]

(* A turn of the loop up to fork_and_exec_commands.  A line of !n is       *)
(* replaced by the line it names before it enters the history.             *)
main(typed) ==
    LET l == IF "bang" \in DOMAIN typed THEN history_n(typed.bang) ELSE typed.cmds
    IN  /\ pc = "prompt" /\ lines < MaxLines /\ lines' = lines + 1
        /\ IF l = <<>> THEN UNCHANGED <<pc, history, line, i, due>>
           ELSE /\ history' = Append(history, l)
                /\ line' = l /\ i' = 1 /\ pc' = "loop" /\ due' = due + Flow(l)
        /\ last_out_fd' = NoFd
        /\ UNCHANGED <<fds, proc, pipe, files, shown>>

-----------------------------------------------------------------------------
(* fork_and_exec_commands in the shell *)

HasNext == i < Len(line)

(* Faulty variant for the mutation checks. *)
KeepRead == fds

(* The descriptors after the read end of the last pipe is closed. *)
CloseLast == fds \ {last_out_fd}

(* The top of the loop: a built-in is handled; the command after it, or    *)
(* the command itself if it is none, gets a pipe if another follows.       *)
Loop ==
    LET builtin == line[i].prog \in Builtins
        only == Len(line) = 1                       (* no next, no previous *)
        k == Cardinality(DOMAIN pipe) + 1
        j == IF builtin THEN i + 1 ELSE i
        ends == IF j < Len(line) THEN {R(k), Wr(k)} ELSE {}
    IN  /\ pc = "loop"
        /\ IF builtin /\ ~ HasNext
           THEN /\ pc' = IF line[i].prog = "exit" /\ only THEN "exited" ELSE "wait"
                /\ UNCHANGED <<i, last_out_fd, fds, pipe>>
           ELSE /\ i' = j
                /\ last_out_fd' = IF builtin THEN NoFd ELSE last_out_fd
                /\ \/ /\ pc' = "fork"
                      /\ fds' = (IF builtin THEN CloseLast ELSE fds) \cup ends
                      /\ pipe' = IF ends = {} THEN pipe ELSE Append(pipe, 0)
                   \/ MayFail /\ ends # {} /\ pc' = "exited" /\ fds' = {} /\ UNCHANGED pipe
        /\ UNCHANGED <<history, line, proc, files, lines, shown, due>>

Top == Cardinality(DOMAIN pipe)                     (* the pipe made last *)

fork ==
    /\ pc = "fork"
    /\ \/ /\ pc' = "parent"
          /\ proc' = Append(proc, [st |-> "setup", cmd |-> line[i], in |-> TTY, out |-> TTY,
                                   fds |-> fds, last |-> last_out_fd,
                                   next |-> IF HasNext THEN Top ELSE 0, left |-> 0])
          /\ UNCHANGED fds
       \/ MayFail /\ pc' = "exited" /\ fds' = {} /\ UNCHANGED proc
    /\ UNCHANGED <<history, line, i, last_out_fd, pipe, files, lines, shown, due>>

(* Faulty variant for the mutation checks. *)
ParentKeepsWrite ==
    /\ pc = "parent"
    /\ fds' = CloseLast
    /\ last_out_fd' = IF HasNext THEN R(Top) ELSE last_out_fd
    /\ pc' = IF HasNext THEN "loop" ELSE "wait"
    /\ i' = IF HasNext THEN i + 1 ELSE i
    /\ UNCHANGED <<history, line, proc, pipe, files, lines, shown, due>>

Parent ==
    /\ pc = "parent"
    /\ fds' = CloseLast \ (IF HasNext THEN {Wr(Top)} ELSE {})
    /\ last_out_fd' = IF HasNext THEN R(Top) ELSE last_out_fd
    /\ pc' = IF HasNext THEN "loop" ELSE "wait"
    /\ i' = IF HasNext THEN i + 1 ELSE i
    /\ UNCHANGED <<history, line, proc, pipe, files, lines, shown, due>>

(* wait has returned every child. *)
NoChildren == \A p \in Children : proc[p].st = "reaped"

wait_for_children ==
    /\ pc = "wait"
    /\ \/ /\ \E p \in Children : proc[p].st = "dead" /\ proc' = [proc EXCEPT ![p].st = "reaped"]
          /\ UNCHANGED <<pc, pipe>>
       \/ NoChildren /\ pc' = "prompt" /\ proc' = <<>> /\ UNCHANGED pipe
    /\ UNCHANGED <<history, line, i, last_out_fd, fds, files, lines, shown, due>>

-----------------------------------------------------------------------------
(* A child: its descriptors, then execute_command *)

Setup(p) ==
    LET c == proc[p]
    IN  /\ p \in Children /\ c.st = "setup"
        /\ proc' = [proc EXCEPT ![p] = [c EXCEPT !.st = "exec",
                      !.in = IF c.last # NoFd THEN c.last ELSE TTY,
                      !.out = IF c.next # 0 THEN Wr(c.next) ELSE TTY,
                      !.fds = c.fds \ ({c.last} \cup (IF c.next # 0 THEN {R(c.next), Wr(c.next)} ELSE {}))]]
        /\ UNCHANGED <<pc, history, line, i, last_out_fd, fds, pipe, files, lines, shown, due>>

Exit(p) == [proc EXCEPT ![p].st = "dead"]

(* The redirections: a missing input file ends the child before the output *)
(* file is made, and appending does not make one.                          *)
execute_command(p) ==
    LET c == proc[p].cmd
        noin == c.in # NONE /\ files[c.in] = -1
        noout == c.app /\ files[c.out] = -1
    IN  /\ p \in Children /\ proc[p].st = "exec"
        /\ files' = IF c.out = NONE \/ c.app \/ noin THEN files ELSE [files EXCEPT ![c.out] = 0]
        /\ proc' = IF noin \/ noout \/ c.prog \in Builtins \cup {"missing"} THEN Exit(p)
                   ELSE [proc EXCEPT ![p].st = "run",
                                     ![p].in = IF c.in # NONE THEN FILE ELSE @,
                                     ![p].out = IF c.out # NONE THEN FILE ELSE @,
                                     ![p].left = IF c.prog = "gen" THEN N
                                                 ELSE IF c.prog = "cat" /\ c.in # NONE THEN files[c.in]
                                                 ELSE 0]
        /\ UNCHANGED <<pc, history, line, i, last_out_fd, fds, pipe, lines, shown, due>>

-----------------------------------------------------------------------------
(* The programs and the pipes are external *)

IsPipe(end) == end[1] \in {"r", "w"}

(* Writing an item: to the terminal or a file, or to a pipe with room; a   *)
(* pipe that nobody can read kills the writer.                             *)
Write(p) ==
    LET c == proc[p]
        k == c.out[2]
    IN  /\ p \in Children /\ c.st = "run" /\ c.left > 0
        /\ IF ~ IsPipe(c.out)
           THEN /\ proc' = [proc EXCEPT ![p].left = @ - 1]
                /\ shown' = IF c.out = TTY THEN shown + 1 ELSE shown
                /\ files' = IF c.out = FILE THEN [files EXCEPT ![c.cmd.out] = @ + 1] ELSE files
                /\ UNCHANGED pipe
           ELSE /\ Open(R(k)) => pipe[k] < CAP
                /\ proc' = IF Open(R(k)) THEN [proc EXCEPT ![p].left = @ - 1] ELSE Exit(p)
                /\ pipe' = IF Open(R(k)) THEN [pipe EXCEPT ![k] = @ + 1] ELSE pipe
                /\ UNCHANGED <<shown, files>>
        /\ UNCHANGED <<pc, history, line, i, last_out_fd, fds, lines, due>>

(* "cat" reads the next item, or meets the end of its input and exits; the *)
(* other programs exit when they have written everything.                  *)
ReadOrExit(p) ==
    LET c == proc[p]
        k == c.in[2]
        reads == c.cmd.prog = "cat" /\ IsPipe(c.in)
    IN  /\ p \in Children /\ c.st = "run" /\ c.left = 0
        /\ reads => pipe[k] > 0 \/ ~ Open(Wr(k))
        /\ proc' = IF reads /\ pipe[k] > 0 THEN [proc EXCEPT ![p].left = 1] ELSE Exit(p)
        /\ pipe' = IF reads /\ pipe[k] > 0 THEN [pipe EXCEPT ![k] = @ - 1] ELSE pipe
        /\ UNCHANGED <<pc, history, line, i, last_out_fd, fds, files, lines, shown, due>>

Init ==
    /\ pc = "prompt" /\ history = <<>> /\ line = <<>> /\ i = 1 /\ last_out_fd = NoFd /\ fds = {}
    /\ proc = <<>> /\ pipe = <<>> /\ files = [f \in {"f", "g"} |-> IF f = "f" THEN 1 ELSE -1]
    /\ lines = 0 /\ shown = 0 /\ due = 0

ShellStep == Loop \/ fork \/ Parent \/ wait_for_children
Child(p) == Setup(p) \/ execute_command(p) \/ Write(p) \/ ReadOrExit(p)

Next ==
    \/ \E typed \in Lines : main(typed)
    \/ ShellStep
    \/ \E p \in 1 .. 3 : Child(p)

Spec == Init /\ [][Next]_vars

(* The system schedules the shell and every process that can run. *)
LiveSpec == Spec /\ WF_vars(ShellStep) /\ \A p \in 1 .. 3 : WF_vars(Child(p))

-----------------------------------------------------------------------------
(* Properties *)

TypeOK ==
    /\ pc \in {"prompt", "loop", "fork", "parent", "wait", "exited"}
    /\ \A p \in Children : proc[p].st \in {"setup", "exec", "run", "dead", "reaped"}
    /\ \A k \in DOMAIN pipe : pipe[k] \in 0 .. CAP

(* At the prompt every process of the last line is gone and everything it  *)
(* should write is on the terminal: items pass through every pipe, none    *)
(* lost to an end closed too early.                                        *)
DataThrough == pc = "prompt" => shown = due

(* At the prompt the shell holds no end of a pipe. *)
NoLeak == pc = "prompt" => fds = {}

(* A process reads the pipe before it and writes the pipe behind it, and   *)
(* keeps no other end open once it runs.                                   *)
OwnEnds ==
    \A p \in Children : proc[p].st = "run" =>
        /\ proc[p].fds = {}
        /\ \A q \in Children : p # q /\ proc[q].st = "run" =>
              ~ (IsPipe(proc[p].in) /\ proc[p].in = proc[q].in)

(* The shell comes back to its prompt after every line. *)
PromptReturns == pc # "prompt" ~> pc \in {"prompt", "exited"}

=============================================================================
