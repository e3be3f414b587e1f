------------------------------- MODULE Block --------------------------------
(***************************************************************************)
(* The block layer of devices/block.c on one disk: the scan of its         *)
(* partition tables (devices/partition.c), the choice of a device for each *)
(* role (locate_block_devices of threads/init.c), and reads and writes     *)
(* through a partition down to the disk.                                   *)
(***************************************************************************)
EXTENDS Integers, Sequences

CONSTANTS
    Size,           (* sectors of the disk *)
    W,              (* width of block_sector_t *)
    Tables,         (* partition tables: [valid, entries], an entry is [type, offset, size] *)
    Names,          (* names for a role on the command line; NoName for none *)
    MaxDepth        (* bound on nested calls of read_partition_table *)

(* Sectors are numbered in W bits, and the entries of a partition table    *)
(* hold any such numbers and any type.                                     *)
Words == 0 .. 2^W - 1
Types == {"kernel", "filesys", "scratch", "swap", "foreign", "extended", "empty"}
Entries == [type : Types, offset : Words, size : Words]
AnyTable == [valid : BOOLEAN, entries : Seq(Entries)]

BlockConstants == 2^W \in Nat /\ Size \in 1 .. 2^W /\ Tables \subseteq AnyTable

NoName == <<>>
Raw == <<"hda">>
NULL == 0
Roles == {"filesys", "scratch", "swap"}
Sector(x) == x % 2^W

VARIABLES
    table,          (* sector -> the partition table in it *)
    disk,           (* sector -> who wrote it last *)
    stack,          (* the calls of read_partition_table under way, innermost last *)
    part_nr,
    all_blocks,     (* [name, type, size, start] in the order of registration *)
    bdev_name,      (* role -> name given on the command line *)
    block_by_role,  (* role -> index into all_blocks, or NULL *)
    pc, panic

vars == <<table, disk, stack, part_nr, all_blocks, bdev_name, block_by_role, pc, panic>>

Up == panic = "none"

-----------------------------------------------------------------------------
(* devices/block.c *)

block_register(name, type, size, start) ==
    Append(all_blocks, [name |-> name, type |-> type, size |-> size, start |-> start])

block_get_by_name(name) ==
    LET S == {i \in DOMAIN all_blocks : all_blocks[i].name = name}
    IN  IF S = {} THEN NULL ELSE CHOOSE i \in S : \A j \in S : i <= j

(* The check of check_sector, for partition B and then for the disk. *)
check_sector(b, sector) == sector < b.size /\ (b.name # Raw => Sector(b.start + sector) < Size)

-----------------------------------------------------------------------------
(* devices/partition.c *)

Extended == "extended"
Entry(type, offset, size) == [type |-> type, offset |-> offset, size |-> size]
NoTable == [valid |-> FALSE, entries |-> <<>>]

Frame(sector, primary) == [sector |-> sector, primary |-> primary, pt |-> NoTable, i |-> 0]

partition_scan ==
    /\ Up /\ pc = "scan"
    /\ pc' = "table" /\ stack' = <<Frame(0, 0)>> /\ part_nr' = 0
    /\ UNCHANGED <<table, disk, all_blocks, bdev_name, block_by_role, panic>>

(* Faulty variant for the mutation checks. *)
EndUnwrapped(start, size) == Sector(start + size) > Size

(* Whether a partition ends past the end of the disk. *)
PastEnd(start, size) == Sector(start + size) < start \/ Sector(start + size) > Size

(* found_partition, with the new list of devices. *)
found_partition(type, start, size, nr) ==
    IF start >= Size \/ PastEnd(start, size) THEN all_blocks
    ELSE block_register(Append(Raw, nr), type, size, start)

(* The call under way, and those that wait for it. *)
Innermost == stack[Len(stack)]
Outer == SubSeq(stack, 1, Len(stack) - 1)

(* The start of read_partition_table: the table it reads is the one in     *)
(* sector 0.                                                               *)
ReadTable ==
    LET f == Innermost
    IN  /\ Up /\ pc = "table" /\ stack # <<>> /\ f.i = 0
        /\ stack' = IF f.sector >= Size \/ ~ table[0].valid THEN Outer
                    ELSE Append(Outer, [f EXCEPT !.pt = table[0], !.i = 1])
        /\ UNCHANGED <<table, disk, part_nr, all_blocks, bdev_name, block_by_role, pc, panic>>

(* One turn of its loop, or its return. *)
read_partition_table ==
    LET f == Innermost
        e == f.pt.entries[f.i]
        next == Append(Outer, [f EXCEPT !.i = @ + 1])
    IN  /\ Up /\ pc = "table" /\ stack # <<>> /\ f.i > 0
        /\ CASE f.i > Len(f.pt.entries) ->
                  stack' = Outer /\ UNCHANGED <<part_nr, all_blocks>>
             [] f.i <= Len(f.pt.entries) /\ (e.size = 0 \/ e.type = "empty") ->
                  stack' = next /\ UNCHANGED <<part_nr, all_blocks>>
             [] f.i <= Len(f.pt.entries) /\ e.size # 0 /\ e.type = Extended ->
                  /\ Len(stack) < MaxDepth
                  /\ stack' = Append(next, IF f.sector = 0 THEN Frame(e.offset, e.offset)
                                           ELSE Frame(Sector(e.offset + f.primary), f.primary))
                  /\ UNCHANGED <<part_nr, all_blocks>>
             [] f.i <= Len(f.pt.entries) /\ e.size # 0 /\ e.type \notin {"empty", Extended} ->
                  /\ stack' = next /\ part_nr' = part_nr + 1
                  /\ all_blocks' = found_partition(e.type, Sector(e.offset + f.sector), e.size, part_nr')
        /\ UNCHANGED <<table, disk, bdev_name, block_by_role, pc, panic>>

-----------------------------------------------------------------------------
(* threads/init.c *)

(* The device for ROLE: the named one, or the first of its type. *)
locate_block_device(role) ==
    IF bdev_name[role] # NoName THEN block_get_by_name(bdev_name[role])
    ELSE LET S == {i \in DOMAIN all_blocks : all_blocks[i].type = role}
         IN  IF S = {} THEN NULL ELSE CHOOSE i \in S : \A j \in S : i <= j

locate_block_devices ==
    /\ Up /\ pc = "table" /\ stack = <<>>
    /\ IF \E role \in Roles : bdev_name[role] # NoName /\ locate_block_device(role) = NULL
       THEN panic' = "no such device" /\ UNCHANGED <<pc, block_by_role>>
       ELSE /\ block_by_role' = [role \in Roles |-> locate_block_device(role)]
            /\ pc' = "run" /\ UNCHANGED panic
    /\ UNCHANGED <<table, disk, stack, part_nr, all_blocks, bdev_name>>

-----------------------------------------------------------------------------
(* block_write and partition_write of a sector inside the device; the      *)
(* block layer's readers differ only in the direction.                     *)

(* The sector of the disk that SECTOR of device B is. *)
OnDisk(b, sector) == Sector(b.start + sector)

block_write(role, sector) ==
    LET b == all_blocks[block_by_role[role]]
    IN  /\ Up /\ pc = "run" /\ block_by_role[role] # NULL /\ sector < b.size
        /\ panic' = CASE ~ check_sector(b, sector) -> "access past end"
                      [] check_sector(b, sector) /\ b.type = "foreign" -> "foreign"
                      [] OTHER -> panic
        /\ disk' = IF panic' = "none" THEN [disk EXCEPT ![OnDisk(b, sector)] = role] ELSE disk
        /\ UNCHANGED <<table, stack, part_nr, all_blocks, bdev_name, block_by_role, pc>>

Init ==
    /\ \E t, other \in Tables :          (* the others matter to an extended partition only *)
          /\ (\A i \in DOMAIN t.entries : t.entries[i].type # Extended) => other = NoTable
          /\ table = [s \in 0 .. Size - 1 |-> IF s = 0 THEN t ELSE other]
    /\ disk = [s \in 0 .. Size - 1 |-> "none"]
    /\ stack = <<>> /\ part_nr = 0 /\ pc = "scan" /\ panic = "none"
    /\ all_blocks = <<[name |-> Raw, type |-> "raw", size |-> Size, start |-> 0]>>
    /\ \E role \in Roles, name \in Names : bdev_name = [r \in Roles |-> IF r = role THEN name ELSE NoName]
    /\ block_by_role = [role \in Roles |-> NULL]

Next ==
    \/ partition_scan \/ ReadTable \/ read_partition_table \/ locate_block_devices
    \/ \E role \in Roles, sector \in 0 .. Size - 1 : block_write(role, sector)

Spec == Init /\ [][Next]_vars

-----------------------------------------------------------------------------
(* Properties *)

(* Every partition lies inside the disk, with the sums of its table taken  *)
(* in the width of block_sector_t, so a sector below its size never makes  *)
(* the disk's own check_sector panic.                                      *)
InsideDisk ==
    /\ \A i \in DOMAIN all_blocks : all_blocks[i].start + all_blocks[i].size <= Size
    /\ panic # "access past end"

(* A write through a role changes only sectors of a device that is named   *)
(* for the role on the command line or has its type.                       *)
WriteInside ==
    \A s \in DOMAIN disk : disk'[s] # disk[s] =>
        \E i \in DOMAIN all_blocks :
            /\ s \in all_blocks[i].start .. all_blocks[i].start + all_blocks[i].size - 1
            /\ all_blocks[i].type = disk'[s] \/ all_blocks[i].name = bdev_name[disk'[s]]

(* Partitions stay inside the disk, and writes inside their partition. *)
OwnPartition == [][InsideDisk' /\ WriteInside]_vars

(* read_partition_table works on the table in its sector. *)
OwnTable == \A k \in DOMAIN stack : stack[k].i > 0 => stack[k].pt = table[stack[k].sector]
=============================================================================
