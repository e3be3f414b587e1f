----------------------------- MODULE FileStore ------------------------------
(***************************************************************************)
(* What the file system calls promise a process: directories with one file *)
(* per name, files that hold what was last written at each position,       *)
(* descriptors with positions of their own, a removed file that lives      *)
(* until it is closed, a program that is not written while it runs, and    *)
(* names that outlive a restart of the machine.                            *)
(***************************************************************************)
EXTENDS Integers, Sequences, FiniteSets, SequencesExt

CONSTANTS Ids, Names, Sizes, Units, Root, Absent, Blank

VARIABLES
    entry,          (* set of <<directory, name, file>> *)
    dirs,           (* the files that are directories *)
    content,        (* what each file that is named or open holds *)
    fds,            (* sequence of [fd, file, pos] *)
    cwd,            (* the current directory *)
    prog,           (* the file that is running, or Absent *)
    pinned          (* the files whose last close does not come; set elsewhere *)

vars == <<entry, dirs, content, fds, cwd, prog>>

Named(E) == {e[3] : e \in E} \cup {Root}
Held(F, p) == {d.file : d \in ToSet(F)} \cup ({p} \ {Absent})

(* Files that are neither named nor open are gone. *)
Keep(E, F, p) == [x \in DOMAIN content \cap (Named(E) \cup Held(F, p)) |-> content[x]]

Blanks(n) == [k \in 1 .. n |-> Blank]

Init ==
    /\ entry = {} /\ dirs = {Root} /\ content = <<>>
    /\ fds = <<>> /\ cwd = Root /\ prog = Absent

(* A new file or directory, under a name its directory does not have. *)
Create ==
    \E d \in dirs \cap Named(entry), n \in Names,
       x \in Ids \ (Named(entry) \cup Held(fds, prog) \cup {cwd}) :
        /\ \A e \in entry : e[1] # d \/ e[2] # n
        /\ entry' = entry \cup {<<d, n, x>>}
        /\ \/ dirs' = dirs \cup {x} /\ content' = content
           \/ \E size \in Sizes : dirs' = dirs /\ content' = (x :> Blanks(size)) @@ content
        /\ UNCHANGED <<fds, cwd, prog>>

(* A directory is removed only when it is empty. *)
Unlink ==
    \E e \in entry :
        /\ \A o \in entry : o[1] # e[3]
        /\ entry' = entry \ {e} /\ dirs' = dirs \ {e[3]}
        /\ content' = Keep(entry', fds, prog)
        /\ UNCHANGED <<fds, cwd, prog>>

Open ==
    \E x \in Named(entry) :
        /\ Len(fds') = Len(fds) + 1
        /\ fds' = Append(fds, [fd |-> fds'[Len(fds) + 1].fd, file |-> x, pos |-> 0])
        /\ \A d \in ToSet(fds) : d.fd < fds'[Len(fds) + 1].fd
        /\ UNCHANGED <<entry, dirs, content, cwd, prog>>

Close ==
    \E i \in 1 .. Len(fds) :
        /\ fds' = RemoveAt(fds, i)
        /\ content' = Keep(entry, fds', prog)
        /\ UNCHANGED <<entry, dirs, cwd, prog>>

(* Units from the position to the end; positions in directories are not    *)
(* modelled.                                                               *)
Left(d) == IF d.file \in DOMAIN content THEN Max({0, Len(content[d.file]) - d.pos}) ELSE 0

Read ==
    \E i \in 1 .. Len(fds), n \in Sizes :
        /\ fds' = [fds EXCEPT ![i].pos = @ + Min({n, Left(fds[i])})]
        /\ UNCHANGED <<entry, dirs, content, cwd, prog>>

Seek ==
    \E i \in 1 .. Len(fds), n \in Sizes :
        /\ fds' = [fds EXCEPT ![i].pos = n]
        /\ UNCHANGED <<entry, dirs, content, cwd, prog>>

(* The gap between the old end and the position reads as blanks. *)
Overwrite(c, pos, n, u) ==
    [k \in 1 .. Max({Len(c), pos + n}) |->
        IF k \in pos + 1 .. pos + n THEN u ELSE IF k <= Len(c) THEN c[k] ELSE Blank]

(* When the disk is full what fits below the old end is written. *)
Write ==
    \E i \in 1 .. Len(fds), size \in Sizes, u \in Units :
        LET x == fds[i].file
        IN  /\ x \in DOMAIN content /\ x # prog
            /\ \E n \in {size, Min({size, Left(fds[i])})} :
                  /\ n > 0 \/ n = size
                  /\ content' = [content EXCEPT ![x] = Overwrite(@, fds[i].pos, n, u)]
                  /\ fds' = [fds EXCEPT ![i].pos = @ + n]
            /\ UNCHANGED <<entry, dirs, cwd, prog>>

Enter ==
    /\ cwd' \in dirs \cap Named(entry)
    /\ UNCHANGED <<entry, dirs, content, fds, prog>>

Run ==
    /\ prog = Absent /\ prog' \in DOMAIN content \cap Named(entry)
    /\ UNCHANGED <<entry, dirs, content, fds, cwd>>

Exit ==
    /\ fds' = <<>> /\ cwd' = Root /\ prog' = Absent
    /\ content' = Keep(entry, <<>>, Absent)
    /\ UNCHANGED <<entry, dirs>>

(* What was written past the end of a file that was not closed may be      *)
(* lost; files that were closed are kept.                                  *)
Restart ==
    /\ fds' = <<>> /\ cwd' = Root /\ prog' = Absent
    /\ DOMAIN content' = DOMAIN Keep(entry, <<>>, Absent)
    /\ \A x \in DOMAIN content' :
          IF x \in Held(fds, prog) \cup pinned THEN IsPrefix(content'[x], content[x])
          ELSE content'[x] = content[x]
    /\ UNCHANGED <<entry, dirs>>

Next ==
    \/ Create \/ Unlink \/ Open \/ Close \/ Read \/ Seek \/ Write
    \/ Enter \/ Run \/ Exit \/ Restart

Spec == Init /\ [][Next]_vars
=============================================================================
