----------------------------- MODULE MCFilesys ------------------------------
(***************************************************************************)
(* Instances of Filesys for TLC, and the refinement of FileStore.  The     *)
(* refinement mapping is kept in a variable, a function of the others, so  *)
(* that TLC computes it once per state.                                    *)
(***************************************************************************)
EXTENDS Filesys

VARIABLE view

MCFilePaths == {<<"a">>, <<"d", "b">>}
MCDirPaths == {<<"d">>}

FileOnly(g, S) == {s \in S : s # FREE_MAP_SECTOR /\ ~ DiskInode(g, s).is_directory}

(* Names and contents as the directories and the index blocks give them. *)
View(g) ==
    LET named == NamedInodes(g)
        dirs == Directories(g, named)
    IN  [entry   |-> UNION {{<<d, e[1], e[2]>> : e \in Listed(g, d)} : d \in dirs},
         named   |-> FileOnly(g, named),
         dirs    |-> dirs,
         content |-> [s \in FileOnly(g, named \cup DOMAIN g.open_inodes) |-> Contents(g, s)]]

(* A new disk, and one on which calls made a directory and a file in it. *)
Prepared ==
    LET g == filesys_create(Formatted, ROOT_DIR_SECTOR, <<"d">>, MAX_FILES_PER_DIR, TRUE).f
    IN  filesys_create(g, ROOT_DIR_SECTOR, <<"d", "b">>, 0, FALSE).f

MCInit ==
    /\ f \in {Formatted, Prepared}
    /\ fds = <<>> /\ cwd = ROOT_DIR_SECTOR /\ binary = NoSector
    /\ leaked = {} /\ calls = 0 /\ boots = 0
    /\ view = View(f)

MCNext == Next /\ view' = IF f' = f THEN view ELSE View(f')
MCSpec == MCInit /\ [][MCNext]_<<vars, view>>

Held == view.named \cup {fds[i].inode : i \in 1 .. Len(fds)} \cup {binary}

Store ==
    INSTANCE FileStore WITH
        Ids <- Sectors, Names <- {Last(p) : p \in FilePaths \cup DirPaths},
        Units <- {<<b>> : b \in Bytes}, Root <- ROOT_DIR_SECTOR, Absent <- NoSector, Blank <- Zero,
        entry <- view.entry, dirs <- view.dirs,
        content <- [s \in Held \cap DOMAIN view.content |-> view.content[s]],
        fds <- [i \in 1 .. Len(fds) |->
                  [fd |-> fds[i].fd, file |-> fds[i].inode,
                   pos |-> IF fds[i].dir_pos >= 0 THEN 0 ELSE fds[i].pos]],
        prog <- binary, pinned <- leaked

(* Every call, and a restart, does what FileStore says or nothing: the     *)
(* calls of syscall.c down to index blocks, directory entries and the free *)
(* map.                                                                    *)
StoreSpec == (f = Formatted => Store!Init) /\ [][Store!Next]_(Store!vars)
=============================================================================
