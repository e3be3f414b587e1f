------------------------------ MODULE Filesys -------------------------------
(***************************************************************************)
(* The file system calls of userprog/syscall.c and filesys/file.c over     *)
(* modules Inode and Directory, for one process at a time: it is loaded    *)
(* from a file, calls, exits, and the next one is loaded; the machine may  *)
(* be shut down between calls and started again.  Calls are atomic here.   *)
(***************************************************************************)
EXTENDS Directory

CONSTANTS
    FilePaths,      (* paths given to create, open, remove, exec *)
    DirPaths,       (* paths given to mkdir, chdir, open, remove *)
    Sizes,          (* sizes given to create, read and write, positions of seek *)
    Bytes,          (* values written *)
    Clients,        (* what processes may do beyond the guarded calls, see May *)
    MaxCalls,       (* bound on calls that change the disk or open something *)
    MaxFds,         (* bound on descriptors open at once *)
    MaxBoots        (* bound on restarts of the machine *)

VARIABLES
    f,              (* the file system, see Inode *)
    fds,            (* t->fds: [fd, inode, pos, dir_pos] with dir_pos -1 for a file *)
    cwd,            (* t->cur_directory *)
    binary,         (* sector of the inode of t->binary, or NoSector *)
    leaked,         (* history: files on which a call left a reference behind *)
    calls, boots

vars == <<f, fds, cwd, binary, leaked, calls, boots>>

Up == f.panic = "none"

Call == Up /\ calls < MaxCalls /\ calls' = calls + 1

-----------------------------------------------------------------------------
(* What the code does not guard against; each is excluded unless Clients   *)
(* has its name.                                                           *)

Resolve(path) ==
    LET absolute == path # <<>> /\ path[1] = "/"
        start == IF absolute THEN ROOT_DIR_SECTOR ELSE cwd
    IN  dir_lookup(inode_open(f, start), start, IF absolute THEN Tail(path) ELSE path)

DiskInode(g, s) == IF IsOpen(g, s) THEN g.open_inodes[s].data ELSE g.disk[s]

Entries(g, d) == {o \in 0 .. inode_length(g, d) - 1 : IsListed(Entry(g, d, o))}

(* file_count is the number of files in the directory. *)
Counted(s) ==
    LET g == inode_open(f, s)
    IN  DiskInode(f, s).is_directory => g.open_inodes[s].file_count = Cardinality(Entries(g, s))

(* "missing": a path that is not there below its first name; the last      *)
(* directory found is taken instead.  "file": a file used as a directory.  *)
(* "root": the path of the root, which is opened without a reference.      *)
(* "count": removals after a start, when file_count is 0.                  *)
May(path) ==
    LET r == Resolve(path)
    IN  /\ ~ r.ok /\ r.inode # NoSector => "missing" \in Clients
        /\ path = <<"/">> => "root" \in Clients

MayUnder(path) ==
    LET r == Resolve(Parent(path))
    IN  /\ ~ r.ok /\ r.inode # NoSector => "missing" \in Clients
        /\ r.ok /\ r.dir = NoSector => "file" \in Clients
        /\ Parent(path) = <<"/">> /\ ~ IsOpen(f, ROOT_DIR_SECTOR) => "root" \in Clients

-----------------------------------------------------------------------------
Init ==
    /\ f = Formatted
    /\ fds = <<>> /\ cwd = ROOT_DIR_SECTOR /\ binary = NoSector
    /\ leaked = {} /\ calls = 0 /\ boots = 0

(* A name that exists leaves its inode open. *)
Leaks(path) == LET r == Resolve(path) IN IF r.ok THEN {r.inode} ELSE {}

create(path, size, is_directory) ==
    /\ Call /\ MayUnder(path)
    /\ f' = filesys_create(f, cwd, path, size, is_directory).f
    /\ leaked' = leaked \cup Leaks(path)
    /\ UNCHANGED <<fds, cwd, binary, boots>>

Create(path) == \E size \in Sizes : create(path, size, FALSE)

mkdir(path) == create(path, MAX_FILES_PER_DIR, TRUE)

remove(path) ==
    /\ Call /\ MayUnder(path) /\ May(path)
    /\ Resolve(path).ok /\ "count" \notin Clients =>
         Counted(Resolve(path).inode) /\ Counted(Resolve(Parent(path)).inode)
    /\ f' = filesys_remove(f, cwd, path).f
    /\ leaked' = leaked \cup Leaks(path)
    /\ UNCHANGED <<fds, cwd, binary, boots>>

(* One above the last descriptor, which is the highest. *)
NextFd == IF fds = <<>> THEN 2 ELSE Max({2, Last(fds).fd + 1})

(* A directory's descriptor holds its inode twice. *)
open(path) ==
    /\ Call /\ May(path) /\ Len(fds) < MaxFds
    /\ LET o == filesys_open(f, cwd, path)
           is_dir == o.f.open_inodes[o.inode].data.is_directory
           g == file_get_inode(o.f, o.inode)
       IN  IF o.inode = NoSector THEN f' = o.f /\ fds' = fds
           ELSE /\ f' = IF is_dir THEN g ELSE inode_close(g, o.inode)
                /\ fds' = Append(fds, [fd |-> NextFd, inode |-> o.inode, pos |-> 0,
                                       dir_pos |-> IF is_dir THEN 0 ELSE -1])
    /\ UNCHANGED <<cwd, binary, leaked, boots>>

(* Faulty variant: the directory is closed also when there is none. *)
CloseBoth(i) ==
    /\ Up
    /\ f' = inode_close(inode_close(f, fds[i].inode), fds[i].inode)
    /\ fds' = RemoveAt(fds, i)
    /\ UNCHANGED <<cwd, binary, leaked, calls, boots>>

(* The directory first, then the file; descriptors are found by number. *)
close(i) ==
    /\ Up
    /\ LET d == fds[i]
           g == IF d.dir_pos >= 0 THEN inode_close(f, d.inode) ELSE f
       IN  f' = file_close(g, d.inode, FALSE)
    /\ fds' = RemoveAt(fds, i)
    /\ UNCHANGED <<cwd, binary, leaked, calls, boots>>

read(i, size) ==
    /\ Up
    /\ fds' = [fds EXCEPT ![i].pos = @ + file_read(f, fds[i].inode, size, @)]
    /\ UNCHANGED <<f, cwd, binary, leaked, calls, boots>>

(* Faulty variant: the position moves by what was asked for. *)
WriteBlind(i, size, b) ==
    /\ Call
    /\ ~ f.open_inodes[fds[i].inode].data.is_directory
    /\ f' = inode_write_at(f, fds[i].inode, [k \in 1 .. size |-> <<b>>], fds[i].pos).f
    /\ fds' = [fds EXCEPT ![i].pos = @ + size]
    /\ UNCHANGED <<cwd, binary, leaked, boots>>

write(i, size, b) ==
    /\ Call
    /\ LET w == file_write(f, fds[i].inode, [k \in 1 .. size |-> <<b>>], fds[i].pos)
       IN  f' = w.f /\ fds' = [fds EXCEPT ![i].pos = @ + Max({0, w.n})]
    /\ UNCHANGED <<cwd, binary, leaked, boots>>

seek(i, position) ==
    /\ Up
    /\ fds' = [fds EXCEPT ![i].pos = position]
    /\ UNCHANGED <<f, cwd, binary, leaked, calls, boots>>

(* Both references of the directory stay, and it need not be one. *)
chdir(path) ==
    /\ Call /\ May(path)
    /\ LET o == filesys_open(f, cwd, path)
       IN  /\ o.inode # NoSector /\ "file" \notin Clients => o.f.open_inodes[o.inode].data.is_directory
           /\ IF o.inode = NoSector THEN f' = o.f /\ cwd' = cwd
              ELSE f' = file_get_inode(o.f, o.inode) /\ cwd' = o.inode
    /\ UNCHANGED <<fds, binary, leaked, boots>>

readdir(i) ==
    /\ Up /\ fds[i].dir_pos >= 0
    /\ fds' = [fds EXCEPT ![i].dir_pos = dir_readdir(f, fds[i].inode, @)]
    /\ UNCHANGED <<f, cwd, binary, leaked, calls, boots>>

inumber(i) ==
    /\ Call
    /\ f' = file_get_inode(f, fds[i].inode)
    /\ leaked' = leaked \cup {fds[i].inode}
    /\ UNCHANGED <<fds, cwd, binary, boots>>

(* load: the program stays open and is not written while it runs. *)
load(path) ==
    /\ Call /\ binary = NoSector /\ fds = <<>> /\ May(path)
    /\ LET o == filesys_open(f, cwd, path)
       IN  /\ o.inode # NoSector => ~ o.f.open_inodes[o.inode].data.is_directory
           /\ f' = IF o.inode = NoSector THEN o.f ELSE file_deny_write(o.f, o.inode)
           /\ binary' = o.inode
    /\ UNCHANGED <<fds, cwd, leaked, boots>>

(* thread_exit closes the program and the files, not the directories of    *)
(* the descriptors, and releases the locks.  The next process starts where *)
(* the initial thread is.                                                  *)
exit ==
    /\ Up
    /\ LET g == IF binary = NoSector THEN f
                ELSE file_close(f, binary, TRUE)
           h == [g EXCEPT !.open_inodes = [s \in DOMAIN @ |-> [@[s] EXCEPT !.dir_lock = FALSE]]]
       IN  f' = FoldLeft(LAMBDA x, d : file_close(x, d.inode, FALSE), h, fds)
    /\ fds' = <<>> /\ cwd' = ROOT_DIR_SECTOR /\ binary' = NoSector
    /\ UNCHANGED <<leaked, calls, boots>>

(* halt, or the end of the initial thread's actions, and the next start. *)
Reboot ==
    /\ Up /\ boots < MaxBoots /\ boots' = boots + 1
    /\ f' = Rebooted(f)
    /\ fds' = <<>> /\ cwd' = ROOT_DIR_SECTOR /\ binary' = NoSector /\ leaked' = {}
    /\ UNCHANGED calls

Next ==
    \/ \E path \in FilePaths : Create(path) \/ load(path)
    \/ \E path \in DirPaths : mkdir(path) \/ chdir(path)
    \/ \E path \in FilePaths \cup DirPaths : open(path) \/ remove(path)
    \/ \E i \in 1 .. Len(fds) : \/ close(i) \/ readdir(i) \/ inumber(i)
                                \/ \E n \in Sizes : read(i, n) \/ seek(i, n)
                                \/ \E n \in Sizes, b \in Bytes : write(i, n, b)
    \/ exit
    \/ Reboot

Spec == Init /\ [][Next]_vars

-----------------------------------------------------------------------------
(* Correctness *)

Directories(g, S) == {s \in S : DiskInode(g, s).is_directory}

Listed(g, d) == LET h == inode_open(g, d) IN {Entry(h, d, o)[1] : o \in Entries(h, d)}

(* The free map's inode, the root, and what the root leads to. *)
NamedInodes(g) ==
    FoldLeft(LAMBDA S, n : S \cup UNION {{e[2] : e \in Listed(g, d)} : d \in Directories(g, S)},
             {FREE_MAP_SECTOR, ROOT_DIR_SECTOR}, <<1, 2, 3>>)

NonZero(index) == SelectSeq([k \in 1 .. NUM_ENTRIES_IN_INDIRECT |-> index[k - 1]], LAMBDA x : x # 0)

(* An inode's own sector, its index blocks and its data. *)
SectorsOf(g, s) ==
    LET d == DiskInode(g, s).double_indirect
        inds == NonZero(g.disk[d])
    IN  <<s, d>> \o inds \o FlattenSeq([k \in 1 .. Len(inds) |-> NonZero(g.disk[inds[k]])])

(* The whole of a file. *)
Contents(g, s) == LET h == inode_open(g, s) IN inode_read_at(h, s, inode_length(h, s), 0)

(* f has the sets and records of the code; a panic freezes it. *)
TypeOK ==
    /\ f.free_map \subseteq Sectors /\ f.map_file \subseteq Sectors
    /\ DOMAIN f.disk = Sectors /\ DOMAIN f.open_inodes \subseteq Sectors
    /\ \A s \in DOMAIN f.open_inodes : f.open_inodes[s].open_cnt \in Nat \ {0}
    /\ \A i \in 1 .. Len(fds) : fds[i].inode \in Sectors /\ fds[i].fd >= 2 /\ fds[i].pos \in Nat
    /\ cwd \in Sectors /\ binary \in Sectors \cup {NoSector}
    /\ leaked \subseteq Sectors /\ calls \in 0 .. MaxCalls /\ boots \in 0 .. MaxBoots

(* No two files, directories, index blocks or inodes share a sector, and   *)
(* every sector in use is marked in the free map and in its file           *)
(* (free_map_allocate_single, inode_extend_file, inode_close).             *)
SectorsDisjoint ==
    LET all == Ascending(NamedInodes(f) \cup DOMAIN f.open_inodes)
        used == FlattenSeq([k \in 1 .. Len(all) |-> SectorsOf(f, all[k])])
    IN  Up => /\ Cardinality(ToSet(used)) = Len(used)
              /\ ToSet(used) \subseteq f.free_map /\ f.free_map = f.map_file

(* None of the ASSERTs of inode.c, free-map.c and cache.c fails, whatever  *)
(* references the calls leave behind.                                      *)
NoPanic == Up

(* Every descriptor, the program and the current directory keep their      *)
(* inode: it is open, or named and still the directory it was, so no later *)
(* file takes its sector (inode_close against the references leaked).      *)
HoldersKeep ==
    Up => /\ \A i \in 1 .. Len(fds) :
                /\ IsOpen(f, fds[i].inode)
                /\ f.open_inodes[fds[i].inode].open_cnt >=
                     Cardinality({j \in 1 .. Len(fds) : fds[j].inode = fds[i].inode})
          /\ binary # NoSector => IsOpen(f, binary) /\ f.open_inodes[binary].deny_write_cnt = 1
          /\ cwd \in f.free_map /\ DiskInode(f, cwd).is_directory

(* A name that is not there can be created in a directory that is,         *)
(* whenever there are sectors for it.                                      *)
CreateWorks ==
    Up => \A path \in FilePaths :
            LET r == Resolve(Parent(path))
                g == inode_open(f, r.inode)
            IN  r.ok /\ r.dir # NoSector /\ Parent(path) # <<"/">> /\ Cardinality(FreeSectors(f)) > 5
                  /\ lookup(g, r.inode, Name(path)) < 0
                => filesys_create(f, cwd, path, 0, FALSE).ok
=============================================================================
