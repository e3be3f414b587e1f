----------------------------- MODULE Directory ------------------------------
(***************************************************************************)
(* Directories and paths: filesys/directory.c and filesys/filesys.c, as    *)
(* operators on the file system state of module Inode.  A struct dir or    *)
(* struct file is the sector of its inode with a position, which the       *)
(* callers keep.  A path is a sequence of names, with "/" in front when it *)
(* is absolute; splitting a string at its slashes is left out.             *)
(***************************************************************************)
EXTENDS Inode

CONSTANT MAX_FILES_PER_DIR

(* One entry; empty at the end of the file. *)
Entry(f, d, ofs) == inode_read_at(f, d, 1, ofs)

IsNamed(e, name) == Len(e) = 1 /\ Len(e[1]) = 3 /\ e[1][1] = name /\ e[1][3]

FirstOf(S, default) == IF S = {} THEN default ELSE Min(S)

(* The offset of the entry in use with this name, or -1. *)
lookup(f, d, name) ==
    FirstOf({o \in 0 .. inode_length(f, d) - 1 : IsNamed(Entry(f, d, o), name)}, -1)

LookupSector(f, d, name) == Entry(f, d, lookup(f, d, name))[1][2]

(* A directory is searched further, a file is not. *)
Step(f, s) ==
    LET g == inode_open(f, s)
    IN  [ok |-> TRUE, f |-> g, inode |-> s,
         dir |-> IF g.open_inodes[s].data.is_directory THEN s ELSE NoSector]

(* One name of a path.  st.dir is the directory reached, NoSector once a   *)
(* file was found; every inode on the way is opened and none closed, and   *)
(* st.inode keeps the last one when the search fails.                      *)
LookupName(st, name) ==
    IF ~ st.ok THEN st
    ELSE IF st.dir = NoSector \/ lookup(st.f, st.dir, name) < 0 THEN [st EXCEPT !.ok = FALSE]
    ELSE Step(st.f, LookupSector(st.f, st.dir, name))

Reached(st) == IF st.ok /\ st.dir # NoSector THEN [st EXCEPT !.inode = st.dir] ELSE st

dir_lookup(f, d, path) ==
    Reached(FoldLeft(LookupName, [ok |-> TRUE, f |-> f, inode |-> NoSector, dir |-> d], path))

(* The first free slot, or the end of the directory. *)
FreeSlot(f, d) ==
    LET isFree(e) == e # <<>> /\ (Len(e[1]) # 3 \/ ~ e[1][3])
    IN  FirstOf({o \in 0 .. inode_length(f, d) - 1 : isFree(Entry(f, d, o))}, inode_length(f, d))

dir_add(f, d, name, sector) ==
    LET w == inode_write_at(f, d, << <<name, sector, TRUE>> >>, FreeSlot(f, d))
    IN  IF lookup(f, d, name) >= 0 THEN [ok |-> FALSE, f |-> f]
        ELSE [ok |-> w.n = 1, f |-> w.f]

(* The end of dir_remove, after write w of the entry. *)
Removed(w, s) ==
    [ok |-> w.n = 1, f |-> inode_close(IF w.n = 1 THEN inode_remove(w.f, s) ELSE w.f, s)]

RemoveEntry(f, d, name, ofs, s) ==
    Removed(inode_write_at(inode_open(f, s), d, << <<name, s, FALSE>> >>, ofs), s)

(* The entry is cleared and the inode marked; its last close frees it. *)
dir_remove(f, d, name) ==
    IF lookup(f, d, name) < 0 THEN [ok |-> FALSE, f |-> f]
    ELSE RemoveEntry(f, d, name, lookup(f, d, name), LookupSector(f, d, name))

(* An entry in use other than the two links. *)
IsListed(e) == Len(e) = 1 /\ Len(e[1]) = 3 /\ e[1][3] /\ e[1][1] \notin {".", ".."}

(* The position after the next entry listed, or the end of the directory. *)
dir_readdir(f, d, pos) ==
    FirstOf({o + 1 : o \in {o \in pos .. inode_length(f, d) - 1 : IsListed(Entry(f, d, o))}},
            Max({pos, inode_length(f, d)}))

-----------------------------------------------------------------------------
(* file.c *)

file_get_inode(f, s) == inode_reopen(f, s)

file_deny_write(f, s) == inode_deny_write(f, s)

(* deny: file_deny_write was called on the file. *)
file_close(f, s, deny) == inode_close(IF deny THEN inode_allow_write(f, s) ELSE f, s)

file_read(f, s, size, pos) == Len(inode_read_at(f, s, size, pos))

(* Directories are not written. *)
file_write(f, s, units, pos) ==
    IF f.open_inodes[s].data.is_directory THEN [n |-> -1, f |-> f] ELSE inode_write_at(f, s, units, pos)

-----------------------------------------------------------------------------
(* filesys.c *)

(* The sector of the inode of the file opened, NoSector if there is none.  *)
(* What dir_lookup returns is not looked at, only what it left in inode.   *)
filesys_open(f, cwd, path) ==
    LET absolute == path # <<>> /\ path[1] = "/"
        start == IF absolute THEN ROOT_DIR_SECTOR ELSE cwd
        close(r) == [f |-> inode_close(r.f, start), inode |-> r.inode]
    IN  IF path = <<>> THEN [f |-> inode_open(f, cwd), inode |-> cwd]
        ELSE close(dir_lookup(inode_open(f, start), start, IF absolute THEN Tail(path) ELSE path))

Name(path) == Last(path)
Parent(path) == Front(path)

(* The links of a new directory to its parent and to itself. *)
AddLinks(f, s, parent) ==
    LET f1 == inode_open(f, s)
        f2 == dir_add(f1, s, "..", parent).f
        f3 == dir_add(f2, s, ".", s).f
    IN  inode_close(f3, s)

(* filesys_create, from the entry's addition d to directory p back to its  *)
(* start: each step goes on with what the one before it left.              *)
CountFile(d, p, s, is_directory) ==
    IF ~ d.ok THEN [ok |-> FALSE, f |-> free_map_release_single(d.f, s)]
    ELSE [ok |-> TRUE, f |-> inode_incr_count(IF is_directory THEN AddLinks(d.f, s, p) ELSE d.f, p)]

EnterFile(c, p, name, s, is_directory) ==
    IF ~ c.ok THEN [ok |-> FALSE, f |-> free_map_release_single(c.f, s)]
    ELSE CountFile(dir_add(c.f, p, name, s), p, s, is_directory)

MakeFile(a, p, name, size, is_directory) ==
    IF ~ a.ok THEN [ok |-> FALSE, f |-> a.f]
    ELSE EnterFile(inode_create(a.f, a.s, size, is_directory), p, name, a.s, is_directory)

LeaveDirectory(r, p) == [ok |-> r.ok, f |-> directory_release(inode_close(r.f, p), p)]

(* The directory stays locked, and the inodes opened stay open, when the   *)
(* name exists.                                                            *)
CreateNew(l, p, name, size, is_directory) ==
    IF l.ok THEN [ok |-> FALSE, f |-> l.f]
    ELSE LeaveDirectory(MakeFile(free_map_allocate_single(l.f), p, name, size, is_directory), p)

CreateIn(o, name, size, is_directory) ==
    LET p == o.inode
        g == file_get_inode(o.f, p)
    IN  IF p = NoSector THEN [ok |-> FALSE, f |-> o.f]
        ELSE IF g.open_inodes[p].removed THEN [ok |-> FALSE, f |-> g]
        ELSE CreateNew(dir_lookup(directory_lock(g, p), p, << name >>), p, name, size, is_directory)

(* The file opened for the parent is never closed. *)
filesys_create(f, cwd, path, size, is_directory) ==
    CreateIn(filesys_open(f, cwd, Parent(path)), Name(path), size, is_directory)

(* filesys_remove, from the entry's removal d back to its start.  A        *)
(* removed directory's link to its parent marks the parent as removed too, *)
(* and a directory loses a file even if there was none to remove.          *)
RemoveLinks(d, p, child) ==
    LET e == inode_decr_count(inode_close(d.f, p), p)
        e1 == dir_remove(e, child, ".").f
        e2 == dir_remove(e1, child, "..").f
    IN  IF e.panic # "none" THEN [ok |-> FALSE, f |-> e]
        ELSE [ok |-> d.ok, f |-> directory_release(inode_remove(inode_close(e2, child), child), p)]

RemoveChild(r, p, name) ==
    LET h == file_get_inode(r.f, r.inode)
    IN  IF h.open_inodes[r.inode].file_count > 0 THEN [ok |-> FALSE, f |-> h]
        ELSE RemoveLinks(dir_remove(h, p, name), p, r.inode)

RemoveFound(q, p, cwd, path) ==
    IF q.inode = NoSector THEN [ok |-> FALSE, f |-> q.f]
    ELSE RemoveChild(filesys_open(directory_lock(file_get_inode(q.f, p), p), cwd, path), p, Name(path))

RemoveIn(o, cwd, path) ==
    IF o.inode = NoSector THEN [ok |-> FALSE, f |-> o.f]
    ELSE RemoveFound(filesys_open(o.f, cwd, path), o.inode, cwd, path)

(* Three opens of the file and two of its directory are never closed. *)
filesys_remove(f, cwd, path) == RemoveIn(filesys_open(f, cwd, Parent(path)), cwd, path)

free_map_create(f) ==
    inode_open(inode_create(f, FREE_MAP_SECTOR, 1, FALSE).f, FREE_MAP_SECTOR)

free_map_close(f) == inode_close(f, FREE_MAP_SECTOR)

free_map_open(f) == [inode_open(f, FREE_MAP_SECTOR) EXCEPT !.free_map = f.map_file]

(* do_format and free_map_open: the map's own file, and the root directory *)
(* with its links, which is left open.                                     *)
Formatted ==
    LET marked == {FREE_MAP_SECTOR, ROOT_DIR_SECTOR}
        f0 == [free_map |-> marked, map_file |-> marked,
               disk |-> [s \in Sectors |-> ZeroData], open_inodes |-> <<>>, panic |-> "none"]
        f1 == inode_create(free_map_create(f0), ROOT_DIR_SECTOR, MAX_FILES_PER_DIR, TRUE).f
        f2 == inode_open(free_map_close(f1), ROOT_DIR_SECTOR)
        f3 == dir_add(f2, ROOT_DIR_SECTOR, "..", ROOT_DIR_SECTOR).f
    IN  free_map_open(dir_add(f3, ROOT_DIR_SECTOR, ".", ROOT_DIR_SECTOR).f)

(* filesys_done, power off, and filesys_init without formatting: what is   *)
(* in the cache reaches the disk, the inodes that are open do not, and the *)
(* free map is read from its file.                                         *)
Rebooted(f) ==
    free_map_open([f EXCEPT !.open_inodes = <<>>])
=============================================================================
