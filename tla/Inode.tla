------------------------------- MODULE Inode --------------------------------
(***************************************************************************)
(* Inodes and the free map: filesys/inode.c, filesys/free-map.c.  A file   *)
(* system state f is a record, and every function of the code is an        *)
(* operator from f to f, or to a record [ok, f, ...] when it returns       *)
(* something.  The buffer cache is a register per sector here; that is     *)
(* what module Cache is about.  malloc never fails.                        *)
(***************************************************************************)
EXTENDS Integers, Sequences, FiniteSets, SequencesExt

CONSTANTS
    NSectors,                   (* size of the file system device *)
    BLOCK_SECTOR_SIZE,          (* units of data in a sector *)
    NUM_ENTRIES_IN_INDIRECT     (* sector numbers in an index block *)

ASSUME InodeAssumption ==
    /\ NSectors \in Nat /\ NSectors > 2
    /\ BLOCK_SECTOR_SIZE \in Nat \ {0}
    /\ NUM_ENTRIES_IN_INDIRECT \in Nat \ {0}

Sectors == 0 .. NSectors - 1
FREE_MAP_SECTOR == 0
ROOT_DIR_SECTOR == 1
NoSector == -1

(* A unit of data is a tuple: empty after zeroing, <<b>> for a byte, and   *)
(* <<name, sector, in_use>> for an entry of a directory.                   *)
Zero == <<>>
ZeroData == [i \in 0 .. BLOCK_SECTOR_SIZE - 1 |-> Zero]
ZeroIndex == [i \in 0 .. NUM_ENTRIES_IN_INDIRECT - 1 |-> 0]

(* f.free_map: the sectors marked in memory; f.map_file: in the free map's *)
(* file; f.disk: contents of sectors; f.open_inodes: the struct inode of   *)
(* each sector that is open; f.panic: which ASSERT failed.                 *)
Panic(f, why) == [f EXCEPT !.panic = IF @ = "none" THEN why ELSE @]

cache_write(f, s, block) ==
    IF s \in Sectors THEN [f EXCEPT !.disk[s] = block] ELSE Panic(f, "check_sector")

-----------------------------------------------------------------------------
(* The free map *)

FreeSectors(f) == Sectors \ f.free_map

Ascending(S) == SelectSeq([k \in 1 .. NSectors |-> k - 1], LAMBDA s : s \in S)

(* The lowest free sector; the map's file is written as well. *)
free_map_allocate_single(f) ==
    IF FreeSectors(f) = {} THEN [ok |-> FALSE, f |-> f, s |-> 0]
    ELSE LET s == Min(FreeSectors(f))
             map == f.free_map \cup {s}
         IN  [ok |-> TRUE, f |-> [f EXCEPT !.free_map = map, !.map_file = map], s |-> s]

(* Faulty variant: the map's file keeps the sector. *)
ReleaseInMemory(f, s) ==
    IF s \notin f.free_map THEN Panic(f, "free_map_release")
    ELSE [f EXCEPT !.free_map = @ \ {s}]

free_map_release_single(f, s) ==
    IF s \notin f.free_map THEN Panic(f, "free_map_release")
    ELSE LET map == f.free_map \ {s} IN [f EXCEPT !.free_map = map, !.map_file = map]

-----------------------------------------------------------------------------
(* Index blocks *)

(* C division: -1 / BLOCK_SECTOR_SIZE is 0. *)
SectorOf(pos) == IF pos < 0 THEN 0 ELSE pos \div BLOCK_SECTOR_SIZE
ind_idx(pos) == SectorOf(pos) \div NUM_ENTRIES_IN_INDIRECT
dir_idx(pos) == SectorOf(pos) % NUM_ENTRIES_IN_INDIRECT

byte_to_sector(f, data, pos) ==
    LET ind == f.disk[data.double_indirect][ind_idx(pos)]
    IN  IF ind = 0 THEN NoSector
        ELSE IF f.disk[ind][dir_idx(pos)] = 0 THEN NoSector
        ELSE f.disk[ind][dir_idx(pos)]

(* One turn of the loop that links new sectors: the next one becomes an    *)
(* index block when the current one is full, and zeroed data otherwise.    *)
LinkSector(st, s) ==
    IF st.dir_idx = NUM_ENTRIES_IN_INDIRECT - 1
    THEN [f       |-> cache_write(st.f, st.ind[st.ind_idx], st.dir),
          dir_idx |-> -1,
          ind_idx |-> st.ind_idx + 1,
          ind     |-> [st.ind EXCEPT ![st.ind_idx + 1] = s],
          dir     |-> ZeroIndex]
    ELSE [st EXCEPT !.f       = cache_write(st.f, s, ZeroData),
                    !.dir_idx = @ + 1,
                    !.dir     = [@ EXCEPT ![st.dir_idx + 1] = s]]

(* The bytes whose indices bound what is allocated. *)
LastByte(data, cnt) == [from |-> data.length - 1, to |-> data.length + cnt - 1]

NewSectors(b) ==
    LET inds == ind_idx(b.to) - ind_idx(b.from)
    IN  inds * NUM_ENTRIES_IN_INDIRECT + (dir_idx(b.to) - dir_idx(b.from)) + inds

(* The last index block and the block above it. *)
WriteIndex(st, data) ==
    cache_write(cache_write(st.f, st.ind[st.ind_idx], st.dir), data.double_indirect, st.ind)

(* The sectors AVAILABLE are marked, linked from byte LAST on and zeroed. *)
Extended(f, data, last, available) ==
    LET map == f.free_map \cup ToSet(available)
        ind == f.disk[data.double_indirect]
    IN  WriteIndex(FoldLeft(LinkSector,
                            [f |-> [f EXCEPT !.free_map = map, !.map_file = map],
                             dir_idx |-> dir_idx(last), ind_idx |-> ind_idx(last),
                             ind |-> ind, dir |-> f.disk[ind[ind_idx(last)]]],
                            available), data)

(* The length grows first; then sectors are marked, linked and zeroed.     *)
(* The count of free sectors was checked, so the search finds them all.    *)
inode_extend_file(f, data, cnt) ==
    LET b == LastByte(data, cnt)
        new_sectors == NewSectors(b)
        longer == [data EXCEPT !.length = @ + cnt]
    IN  IF Cardinality(FreeSectors(f)) < new_sectors THEN [ok |-> FALSE, f |-> f, data |-> data]
        ELSE IF new_sectors = 0 THEN [ok |-> TRUE, f |-> f, data |-> longer]
        ELSE [ok   |-> TRUE,
              f    |-> Extended(f, data, b.from, SubSeq(Ascending(FreeSectors(f)), 1, new_sectors)),
              data |-> longer]

(* The rest of inode_create, once its three sectors are allocated (a is    *)
(* the upper index block, b the lower one, c the first sector of data),    *)
(* linked, and extended as in x.  When the rest does not fit, the first    *)
(* sector of data stays marked.                                            *)
LinkFirst(f, a, b, c) ==
    cache_write(cache_write(cache_write(f, c, ZeroData), b, [ZeroIndex EXCEPT ![0] = c]),
                a, [ZeroIndex EXCEPT ![0] = b])

FinishInode(x, sector, a, b) ==
    IF x.ok THEN [ok |-> TRUE, f |-> cache_write(x.f, sector, x.data)]
    ELSE [ok |-> FALSE, f |-> free_map_release_single(free_map_release_single(x.f, b), a)]

(* An inode whose blocks could not be allocated is written all the same. *)
inode_create(f, sector, length, is_directory) ==
    LET a == free_map_allocate_single(f)
        b == free_map_allocate_single(a.f)
        c == free_map_allocate_single(b.f)
        data == [length |-> 0, is_directory |-> is_directory, double_indirect |-> a.s]
        fail(g) == [ok |-> FALSE, f |-> cache_write(g, sector, data)]
    IN  IF ~ a.ok THEN fail(f)
        ELSE IF ~ b.ok THEN fail(free_map_release_single(a.f, a.s))
        ELSE IF ~ c.ok THEN fail(free_map_release_single(free_map_release_single(b.f, a.s), b.s))
        ELSE FinishInode(inode_extend_file(LinkFirst(c.f, a.s, b.s, c.s), data, length), sector, a.s, b.s)

-----------------------------------------------------------------------------
(* Open inodes *)

IsOpen(f, s) == s \in DOMAIN f.open_inodes

inode_reopen(f, s) ==
    IF IsOpen(f, s) THEN [f EXCEPT !.open_inodes[s].open_cnt = @ + 1] ELSE Panic(f, "inode_reopen")

(* An inode that is not open is read from the disk; its count of files     *)
(* starts at 0 whatever the directory holds.                               *)
inode_open(f, s) ==
    IF IsOpen(f, s) THEN inode_reopen(f, s)
    ELSE [f EXCEPT !.open_inodes =
            (s :> [open_cnt |-> 1, removed |-> FALSE, deny_write_cnt |-> 0,
                   data |-> f.disk[s], file_count |-> 0, dir_lock |-> FALSE]) @@ @]

(* The loop of inode_close stops at the first entry that is in use.  The   *)
(* first entry of a file's first index block always is, so that block is   *)
(* given back and nothing else; an unused entry would release sector 0.    *)
ReleaseBlocks(f, data) ==
    LET first == f.disk[data.double_indirect][0]
    IN  IF first = 0 THEN f
        ELSE IF f.disk[first][0] = 0 THEN Panic(f, "inode_close")
        ELSE free_map_release_single(f, first)

inode_close(f, s) ==
    IF ~ IsOpen(f, s) THEN Panic(f, "inode_close")
    ELSE LET i == f.open_inodes[s]
             saved == cache_write([f EXCEPT !.open_inodes = [x \in DOMAIN @ \ {s} |-> @[x]]],
                                  s, i.data)
         IN  IF i.open_cnt > 1 THEN [f EXCEPT !.open_inodes[s].open_cnt = @ - 1]
             ELSE IF ~ i.removed THEN saved
             ELSE free_map_release_single(
                      free_map_release_single(ReleaseBlocks(saved, i.data), i.data.double_indirect), s)

inode_remove(f, s) == [f EXCEPT !.open_inodes[s].removed = TRUE]

inode_length(f, s) == f.open_inodes[s].data.length

(* Up to size units from offset; a hole is passed over and not counted. *)
inode_read_at(f, s, size, offset) ==
    LET data == f.open_inodes[s].data
        upto == Min({offset + size, data.length})
        unit(o) == LET sec == byte_to_sector(f, data, o)
                   IN  IF sec = NoSector THEN <<>>
                       ELSE << f.disk[sec][o % BLOCK_SECTOR_SIZE] >>
    IN  IF upto <= offset THEN <<>>
        ELSE FlattenSeq([k \in 1 .. upto - offset |-> unit(offset + k - 1)])

(* Writes the sequence units at offset of inode s, as extended in x;       *)
(* returns how many were written.                                          *)
WriteUnits(x, s, units, offset) ==
    LET n == Max({0, Min({Len(units), x.data.length - offset})})
        put(g, k) == LET sec == byte_to_sector(g, x.data, offset + k - 1)
                     IN  IF sec = NoSector THEN Panic(g, "check_sector")
                         ELSE [g EXCEPT !.disk[sec][(offset + k - 1) % BLOCK_SECTOR_SIZE] = units[k]]
    IN  [n |-> n,
         f |-> FoldLeft(put, [x.f EXCEPT !.open_inodes[s].data = x.data], [k \in 1 .. n |-> k])]

inode_write_at(f, s, units, offset) ==
    LET i == f.open_inodes[s]
        end == offset + Len(units)
    IN  IF i.deny_write_cnt > 0 THEN [n |-> 0, f |-> f]
        ELSE WriteUnits(IF end > i.data.length THEN inode_extend_file(f, i.data, end - i.data.length)
                        ELSE [ok |-> TRUE, f |-> f, data |-> i.data], s, units, offset)

(* Faulty variant: writes are not denied. *)
DenyNothing(f, s) == f

(* The ASSERTs compare the count with the number of openers. *)
inode_deny_write(f, s) ==
    IF f.open_inodes[s].deny_write_cnt < f.open_inodes[s].open_cnt
    THEN [f EXCEPT !.open_inodes[s].deny_write_cnt = @ + 1]
    ELSE Panic(f, "inode_deny_write")

inode_allow_write(f, s) ==
    IF f.open_inodes[s].deny_write_cnt \in 1 .. f.open_inodes[s].open_cnt
    THEN [f EXCEPT !.open_inodes[s].deny_write_cnt = @ - 1]
    ELSE Panic(f, "inode_allow_write")

inode_incr_count(f, s) == [f EXCEPT !.open_inodes[s].file_count = @ + 1]

inode_decr_count(f, s) ==
    IF f.open_inodes[s].file_count = 0 THEN Panic(f, "file_count")
    ELSE [f EXCEPT !.open_inodes[s].file_count = @ - 1]

directory_lock(f, s) == [f EXCEPT !.open_inodes[s].dir_lock = TRUE]

directory_release(f, s) ==
    IF IsOpen(f, s) THEN [f EXCEPT !.open_inodes[s].dir_lock = FALSE]
    ELSE Panic(f, "directory_release")
=============================================================================
