---------------------------- MODULE BlockProofs -----------------------------
(***************************************************************************)
(* That partitions lie inside the disk and writes inside their partition,  *)
(* for every size of the disk, every content of the partition tables and   *)
(* every depth of the calls of read_partition_table.                       *)
(***************************************************************************)
EXTENDS Block, TLAPS

(* Zenon proves most steps; the others, with arithmetic or records, name SMT. *)
USE Zenon

-----------------------------------------------------------------------------
(* The invariant *)

DeviceNames == {Raw} \cup {Append(Raw, n) : n \in Nat}
Devices == [name : DeviceNames, type : Types \cup {"raw"}, size : Nat, start : Nat]
Frames == [sector : Words, primary : Words, pt : AnyTable, i : Nat]

TypeOK ==
    /\ table \in [0 .. Size - 1 -> AnyTable]
    /\ disk \in [0 .. Size - 1 -> Roles \cup {"none"}]
    /\ stack \in Seq(Frames)
    /\ part_nr \in Nat
    /\ all_blocks \in Seq(Devices)
    /\ block_by_role \in [Roles -> Nat]
    /\ pc \in {"scan", "table", "run"}

(* A registered device ends at the disk's end at the latest. *)
Fits == \A i \in DOMAIN all_blocks : all_blocks[i].start + all_blocks[i].size <= Size

(* A role has a device that was named for it or is of its type. *)
Assigned ==
    \A role \in Roles : block_by_role[role] # NULL =>
        /\ block_by_role[role] \in DOMAIN all_blocks
        /\ \/ all_blocks[block_by_role[role]].type = role
           \/ all_blocks[block_by_role[role]].name = bdev_name[role]

(* No role has a device before locate_block_devices gives it one. *)
Unassigned == pc # "run" => block_by_role = [role \in Roles |-> NULL]

BInv == TypeOK /\ Fits /\ Assigned /\ Unassigned /\ panic # "access past end"

-----------------------------------------------------------------------------
(* Arithmetic of sectors *)

(* What % is on a number less than twice the modulus. *)
LEMMA Wrap ==
    ASSUME NEW M \in Nat, M > 0, NEW x \in Nat, x < M + M
    PROVE  (x < M => x % M = x) /\ (~ (x < M) => x % M = x - M)
  BY SMT

(* A sum taken in the width of block_sector_t is a sector number. *)
LEMMA SectorWord ==
    ASSUME BlockConstants, NEW x \in Nat
    PROVE  Sector(x) \in Words
  <1> DEFINE M == 2^W
  <1>1. M \in Nat /\ M > 0
    BY SMT DEF BlockConstants
  <1>2. ASSUME NEW N \in Nat, N > 0 PROVE x % N \in 0 .. N - 1
    BY SMT, <1>2
  <1> QED  BY <1>1, <1>2 DEF Sector, Words

(* Up to its end, a partition's sectors do not wrap around. *)
LEMMA SectorBelow ==
    ASSUME BlockConstants, NEW x \in Nat, x < Size
    PROVE  Sector(x) = x
  <1> DEFINE M == 2^W
  <1>1. M \in Nat /\ M > 0 /\ Size <= M
    BY SMT DEF BlockConstants
  <1>2. x < M /\ x < M + M
    BY SMT, <1>1 DEF BlockConstants
  <1>3. x % M = x
    BY <1>1, <1>2, Wrap
  <1> QED  BY <1>3 DEF Sector

(* What found_partition does not refuse ends inside the disk: an end that  *)
(* wraps around comes out below the start.                                 *)
LEMMA NotPastEnd ==
    ASSUME BlockConstants, NEW start \in Words, NEW size \in Words, ~ PastEnd(start, size)
    PROVE  start + size <= Size
  <1> DEFINE M == 2^W
             end == (start + size) % M
  <1>1. M \in Nat /\ M > 0
    BY SMT DEF BlockConstants
  <1>2. start \in Nat /\ size \in Nat /\ start < M /\ size < M
    BY SMT, <1>1 DEF Words
  <1>3. start + size \in Nat /\ start + size < M + M
    BY SMT, <1>1, <1>2
  <1>4. PICK x \in Nat : x = start + size
    BY <1>3
  <1>5. x < M + M /\ end = x % M
    BY <1>3, <1>4
  <1>6. (x < M => end = x) /\ (~ (x < M) => end = x - M)
    BY <1>1, <1>5, Wrap
  <1>7. ~ (end < start) /\ ~ (end > Size)
    BY DEF PastEnd, Sector
  <1>8. Size \in Nat
    BY SMT DEF BlockConstants
  <1> HIDE DEF M, end
  <1> QED  BY SMT, <1>1, <1>2, <1>4, <1>6, <1>7, <1>8

-----------------------------------------------------------------------------
(* The list of devices *)

(* Appending keeps the earlier elements in their places. *)
LEMMA Appended ==
    ASSUME NEW S, NEW s \in Seq(S), NEW e \in S
    PROVE  /\ Append(s, e) \in Seq(S)
           /\ DOMAIN Append(s, e) = DOMAIN s \cup {Len(s) + 1}
           /\ \A i \in DOMAIN s : Append(s, e)[i] = s[i]
           /\ Append(s, e)[Len(s) + 1] = e
  BY SMT

(* found_partition keeps the list of devices typed, its devices inside the *)
(* disk and the earlier ones in their places.                              *)
LEMMA Found ==
    ASSUME BlockConstants, TypeOK, Fits, NEW type \in Types, NEW start \in Words,
           NEW size \in Words, NEW nr \in Nat
    PROVE  LET new == found_partition(type, start, size, nr)
           IN  /\ new \in Seq(Devices)
               /\ \A i \in DOMAIN new : new[i].start + new[i].size <= Size
  <1> DEFINE new == found_partition(type, start, size, nr)
             d == [name |-> Append(Raw, nr), type |-> type, size |-> size, start |-> start]
  <1>1. all_blocks \in Seq(Devices)
        /\ \A i \in DOMAIN all_blocks : all_blocks[i].start + all_blocks[i].size <= Size
    BY DEF TypeOK, Fits
  <1>2. CASE new = all_blocks
    BY <1>1, <1>2
  <1>3. CASE new = Append(all_blocks, d) /\ ~ PastEnd(start, size)
    <2>1. start \in Nat /\ size \in Nat
      BY SMT DEF Words, BlockConstants
    <2>2. d \in Devices
      BY <2>1 DEF Devices, DeviceNames
    <2>3. d.start = start /\ d.size = size
      OBVIOUS
    <2>4. d.start + d.size <= Size
      BY <1>3, <2>3, NotPastEnd
    <2> HIDE DEF d, new
    <2>5. new \in Seq(Devices) /\ \A i \in DOMAIN new : new[i].start + new[i].size <= Size
      <3>1. /\ Append(all_blocks, d) \in Seq(Devices)
            /\ DOMAIN Append(all_blocks, d) = DOMAIN all_blocks \cup {Len(all_blocks) + 1}
            /\ \A i \in DOMAIN all_blocks : Append(all_blocks, d)[i] = all_blocks[i]
            /\ Append(all_blocks, d)[Len(all_blocks) + 1] = d
        BY ZenonT(40), <1>1, <2>2, Appended
      <3> QED  BY <1>1, <1>3, <2>4, <3>1
    <2> QED  BY <2>5 DEF new
  <1>4. new = all_blocks \/ (new = Append(all_blocks, d) /\ ~ PastEnd(start, size))
    BY DEF found_partition, block_register
  <1> QED  BY <1>2, <1>3, <1>4

-----------------------------------------------------------------------------
(* The stack of calls *)

(* The innermost call of read_partition_table and the calls around it. *)
LEMMA Calls ==
    ASSUME TypeOK, stack # <<>>
    PROVE  Innermost \in Frames /\ Outer \in Seq(Frames)
  BY SMT DEF TypeOK, Innermost, Outer

(* The frame of a call of read_partition_table that has not read yet. *)
LEMMA NewFrame ==
    ASSUME NEW sector \in Words, NEW primary \in Words
    PROVE  Frame(sector, primary) \in Frames
  <1>1. NoTable \in AnyTable
    BY SMT DEF NoTable, AnyTable
  <1> QED  BY SMT, <1>1 DEF Frame, Frames

(* Reading a table leaves the frame of the call a frame. *)
LEMMA FirstEntry ==
    ASSUME NEW f \in Frames, NEW t \in AnyTable
    PROVE  [f EXCEPT !.pt = t, !.i = 1] \in Frames
  <1>1. [f EXCEPT !.pt = t] \in Frames
    BY SMT DEF Frames
  <1>2. ASSUME NEW g \in Frames PROVE [g EXCEPT !.i = 1] \in Frames
    BY SMT DEF Frames
  <1>3. [f EXCEPT !.pt = t, !.i = 1] = [[f EXCEPT !.pt = t] EXCEPT !.i = 1]
    OBVIOUS
  <1> QED  BY <1>1, <1>2, <1>3

(* A turn of the loop of read_partition_table leaves its frame a frame. *)
LEMMA NextEntry ==
    ASSUME NEW f \in Frames
    PROVE  [f EXCEPT !.i = @ + 1] \in Frames
  BY SMT DEF Frames

(* The entry that a turn of the loop looks at. *)
LEMMA EntryTyped ==
    ASSUME NEW f \in Frames, f.i > 0, f.i <= Len(f.pt.entries)
    PROVE  f.pt.entries[f.i] \in Entries
  <1>1. f.pt.entries \in Seq(Entries) /\ f.i \in Nat
    BY DEF Frames, AnyTable
  <1> QED  BY SMT, <1>1

-----------------------------------------------------------------------------
(* The initial states and the steps *)

(* The disk alone is registered and no role has a device. *)
LEMMA InitBInv ==
    ASSUME BlockConstants, Init
    PROVE  BInv
  <1> DEFINE raw == [name |-> Raw, type |-> "raw", size |-> Size, start |-> 0]
  <1>1. Size \in Nat /\ 0 \in Words
    BY SMT DEF BlockConstants, Words
  <1>2. raw \in Devices
    <2>1. Raw \in DeviceNames
      BY DEF DeviceNames
    <2>2. 0 \in Nat
      BY SMT
    <2> QED  BY <1>1, <2>1, <2>2 DEF Devices
  <1>3. all_blocks = <<raw>>
    BY DEF Init
  <1>4. raw.start + raw.size <= Size
    BY SMT, <1>1
  <1>5. all_blocks \in Seq(Devices) /\ Fits
    <2> HIDE DEF raw
    <2> QED  BY SMT, <1>2, <1>3, <1>4 DEF Fits
  <1>6. table \in [0 .. Size - 1 -> AnyTable]
    <2>1. PICK t \in Tables, other \in Tables : table = [s \in 0 .. Size - 1 |-> IF s = 0 THEN t ELSE other]
      BY DEF Init
    <2> QED  BY <2>1 DEF BlockConstants
  <1>7. disk \in [0 .. Size - 1 -> Roles \cup {"none"}] /\ block_by_role \in [Roles -> Nat]
    BY SMT DEF Init, NULL
  <1>8. stack \in Seq(Frames) /\ part_nr \in Nat
    BY SMT DEF Init
  <1>9. TypeOK
    BY <1>5, <1>6, <1>7, <1>8 DEF TypeOK, Init
  <1>10. Assigned /\ Unassigned
    BY DEF Init, Assigned, Unassigned
  <1> QED  BY <1>5, <1>9, <1>10 DEF BInv, Init

(* partition_scan starts with the table in sector 0. *)
LEMMA ScanStep ==
    ASSUME BlockConstants, BInv, partition_scan
    PROVE  BInv'
  <1>1. 0 \in Words
    BY SMT DEF BlockConstants, Words
  <1>2. stack' \in Seq(Frames)
    <2>1. Frame(0, 0) \in Frames
      BY <1>1, NewFrame
    <2> QED  BY SMT, <2>1 DEF partition_scan
  <1>3. TypeOK'
    BY <1>2 DEF BInv, TypeOK, partition_scan
  <1>4. Fits' /\ Assigned' /\ Unassigned' /\ panic' # "access past end"
    BY DEF BInv, Fits, Assigned, Unassigned, partition_scan
  <1> QED  BY <1>3, <1>4 DEF BInv

(* Reading a table changes only the frame of the call. *)
LEMMA ReadStep ==
    ASSUME BlockConstants, BInv, ReadTable
    PROVE  BInv'
  <1>1. TypeOK /\ stack # <<>>
    BY DEF BInv, ReadTable
  <1>2. Innermost \in Frames /\ Outer \in Seq(Frames)
    BY <1>1, Calls
  <1>3. table[0] \in AnyTable
    <2>1. 0 \in 0 .. Size - 1
      BY SMT DEF BlockConstants
    <2> QED  BY <1>1, <2>1 DEF TypeOK
  <1> DEFINE g == [Innermost EXCEPT !.pt = table[0], !.i = 1]
  <1>4. g \in Frames
    BY <1>2, <1>3, FirstEntry
  <1>5. stack' = Outer \/ stack' = Append(Outer, g)
    BY DEF ReadTable
  <1>6. stack' \in Seq(Frames)
    <2> HIDE DEF g
    <2> QED  BY ZenonT(40), <1>2, <1>4, <1>5, Appended
  <1>7. TypeOK'
    BY <1>1, <1>6 DEF TypeOK, ReadTable
  <1>8. Fits' /\ Assigned' /\ Unassigned' /\ panic' # "access past end"
    BY DEF BInv, Fits, Assigned, Unassigned, ReadTable
  <1> QED  BY <1>7, <1>8 DEF BInv

(* A turn of the loop registers at most a device inside the disk. *)
LEMMA TurnStep ==
    ASSUME BlockConstants, BInv, read_partition_table
    PROVE  BInv'
  <1> DEFINE f == Innermost
             e == f.pt.entries[f.i]
             next == Append(Outer, [f EXCEPT !.i = @ + 1])
  <1>1. TypeOK /\ Fits /\ stack # <<>> /\ f.i > 0
    BY DEF BInv, read_partition_table
  <1>2. f \in Frames /\ Outer \in Seq(Frames)
    BY <1>1, Calls
  <1>3. next \in Seq(Frames)
    <2>1. [f EXCEPT !.i = @ + 1] \in Frames
      BY <1>2, NextEntry
    <2> QED  BY <1>2, <2>1, Appended
  <1>4. f.sector \in Words /\ f.primary \in Words
    BY <1>2 DEF Frames
  <1>5. ASSUME f.i <= Len(f.pt.entries)
        PROVE  e.type \in Types /\ e.offset \in Words /\ e.size \in Words
    BY <1>1, <1>2, <1>5, EntryTyped DEF Entries
  <1>6. UNCHANGED <<table, disk, bdev_name, block_by_role, pc, panic>>
    BY DEF read_partition_table
  <1>7. ASSUME NEW x \in Words, NEW y \in Words PROVE Sector(x + y) \in Words
    <2>1. x + y \in Nat
      BY SMT DEF Words, BlockConstants
    <2> QED  BY <2>1, SectorWord
  <1>8. stack' \in Seq(Frames) /\ part_nr' \in Nat /\ all_blocks' \in Seq(Devices) /\ Fits'
    <2>1. CASE stack' = Outer /\ UNCHANGED <<part_nr, all_blocks>>
      BY <1>1, <1>2, <2>1 DEF TypeOK, Fits
    <2>2. CASE stack' = next /\ UNCHANGED <<part_nr, all_blocks>>
      BY <1>1, <1>3, <2>2 DEF TypeOK, Fits
    <2>3. CASE /\ f.i <= Len(f.pt.entries)
               /\ stack' = Append(next, IF f.sector = 0 THEN Frame(e.offset, e.offset)
                                        ELSE Frame(Sector(e.offset + f.primary), f.primary))
               /\ UNCHANGED <<part_nr, all_blocks>>
      <3>1. e.offset \in Words /\ Sector(e.offset + f.primary) \in Words
        BY <1>4, <1>5, <1>7, <2>3
      <3>2. Frame(e.offset, e.offset) \in Frames /\ Frame(Sector(e.offset + f.primary), f.primary) \in Frames
        BY <1>4, <3>1, NewFrame
      <3>3. PICK g \in Frames : stack' = Append(next, g)
        BY <2>3, <3>2
      <3>4. stack' \in Seq(Frames)
        <4> HIDE DEF next
        <4> QED  BY <1>3, <3>3, Appended
      <3> QED  BY <1>1, <2>3, <3>4 DEF TypeOK, Fits
    <2>4. CASE /\ f.i <= Len(f.pt.entries)
               /\ stack' = next /\ part_nr' = part_nr + 1
               /\ all_blocks' = found_partition(e.type, Sector(e.offset + f.sector), e.size, part_nr')
      <3>1. part_nr' \in Nat
        BY SMT, <1>1, <2>4 DEF TypeOK
      <3>2. Sector(e.offset + f.sector) \in Words /\ e.type \in Types /\ e.size \in Words
        BY <1>4, <1>5, <1>7, <2>4
      <3>3. all_blocks' \in Seq(Devices)
            /\ \A i \in DOMAIN all_blocks' : all_blocks'[i].start + all_blocks'[i].size <= Size
        BY ZenonT(40), <1>1, <2>4, <3>1, <3>2, Found
      <3> QED  BY <1>3, <2>4, <3>1, <3>3 DEF Fits
    <2>5. f.i > Len(f.pt.entries) \/ f.i <= Len(f.pt.entries)
      <3>1. f.i \in Nat /\ f.pt.entries \in Seq(Entries)
        BY <1>2 DEF Frames, AnyTable
      <3> HIDE DEF f
      <3> QED  BY SMT, <3>1
    <2> QED  BY <2>1, <2>2, <2>3, <2>4, <2>5 DEF read_partition_table
  <1>9. TypeOK'
    BY <1>1, <1>6, <1>8 DEF TypeOK
  <1>10. Unassigned' /\ Assigned' /\ panic' # "access past end"
    <2>1. block_by_role' = [role \in Roles |-> NULL]
      BY <1>6 DEF BInv, Unassigned, read_partition_table
    <2> QED  BY <1>6, <2>1 DEF BInv, Assigned, Unassigned
  <1> QED  BY <1>8, <1>9, <1>10 DEF BInv

(* A write below the size of a device passes both checks of check_sector   *)
(* and reaches the sector of the disk that START and it add up to.         *)
LEMMA WriteReaches ==
    ASSUME BlockConstants, BInv, NEW role \in Roles, NEW sector \in 0 .. Size - 1, block_write(role, sector)
    PROVE  LET i == block_by_role[role]
               b == all_blocks[i]
           IN  /\ i \in DOMAIN all_blocks
               /\ b.type = role \/ b.name = bdev_name[role]
               /\ check_sector(b, sector)
               /\ OnDisk(b, sector) \in b.start .. b.start + b.size - 1
  <1> DEFINE i == block_by_role[role]
             b == all_blocks[i]
  <1>1. i \in DOMAIN all_blocks /\ (b.type = role \/ b.name = bdev_name[role])
    BY DEF BInv, Assigned, block_write
  <1>2. b \in Devices
    <2>1. all_blocks \in Seq(Devices)
      BY DEF BInv, TypeOK
    <2> HIDE DEF i
    <2> QED  BY SMT, <1>1, <2>1
  <1>3. b.start \in Nat /\ b.size \in Nat /\ b.start + b.size <= Size /\ sector < b.size
    BY <1>1, <1>2 DEF Devices, BInv, Fits, block_write
  <1>4. Size \in Nat /\ sector \in Nat
    BY SMT DEF BlockConstants
  <1> HIDE DEF b
  <1>5. /\ b.start + sector \in Nat /\ b.start + sector < Size
        /\ b.start + sector \in b.start .. b.start + b.size - 1
    BY SMT, <1>3, <1>4
  <1>6. Sector(b.start + sector) = b.start + sector
    BY <1>5, SectorBelow
  <1> QED  BY <1>1, <1>3, <1>5, <1>6 DEF check_sector, OnDisk, b

(* So a write changes the sector it reaches and cannot make the disk panic. *)
LEMMA WriteStep ==
    ASSUME BlockConstants, BInv, NEW role \in Roles, NEW sector \in 0 .. Size - 1, block_write(role, sector)
    PROVE  BInv' /\ WriteInside
  <1> DEFINE i == block_by_role[role]
             b == all_blocks[i]
             t == OnDisk(b, sector)
  <1>1. /\ i \in DOMAIN all_blocks
        /\ b.type = role \/ b.name = bdev_name[role]
        /\ check_sector(b, sector)
        /\ t \in b.start .. b.start + b.size - 1
    BY WriteReaches
  <1>2. disk' = [disk EXCEPT ![t] = role] \/ disk' = disk
    BY DEF block_write
  <1>3. disk \in [0 .. Size - 1 -> Roles \cup {"none"}]
    BY DEF BInv, TypeOK
  <1>4. panic' # "access past end"
    BY <1>1 DEF block_write, BInv
  <1>5. disk' \in [0 .. Size - 1 -> Roles \cup {"none"}]
    <2> HIDE DEF t
    <2> QED  BY <1>2, <1>3
  <1>6. BInv'
    BY <1>4, <1>5 DEF BInv, TypeOK, Fits, Assigned, Unassigned, block_write
  <1>7. ASSUME NEW s \in DOMAIN disk, disk'[s] # disk[s]
        PROVE  s = t /\ disk'[s] = role
    <2> HIDE DEF t
    <2> QED  BY <1>2, <1>3, <1>7
  <1>8. WriteInside
    <2> HIDE DEF t
    <2> QED  BY <1>1, <1>7 DEF WriteInside
  <1> QED  BY <1>6, <1>8

(* The devices are numbered. *)
LEMMA Indices ==
    ASSUME TypeOK
    PROVE  DOMAIN all_blocks \subseteq Nat
  <1>1. all_blocks \in Seq(Devices)
    BY DEF TypeOK
  <1>2. DOMAIN all_blocks = 1 .. Len(all_blocks) /\ Len(all_blocks) \in Nat
    BY SMT, <1>1
  <1> QED  BY SMT, <1>2

INSTANCE WellFoundedInduction

(* A set of indices has a least one, the one a walk along all_blocks meets *)
(* first.                                                                  *)
LEMMA First ==
    ASSUME NEW S \in SUBSET Nat, S # {}
    PROVE  (CHOOSE i \in S : \A j \in S : i <= j) \in S
  <1> DEFINE R == {ss \in Nat \X Nat : ss[1] < ss[2]}
  <1>1. OpToRel(<, Nat) = R
    BY DEF OpToRel
  <1>2. IsWellFoundedOn(R, Nat)
    BY <1>1, NatLessThanWellFounded
  <1>3. PICK x \in S : \A y \in S : ~ (<<y, x>> \in R)
    BY <1>2, WFMin
  <1>4. ASSUME NEW y \in S PROVE x <= y
    <2>1. x \in Nat /\ y \in Nat
      OBVIOUS
    <2>2. <<y, x>> \in Nat \X Nat /\ <<y, x>>[1] = y /\ <<y, x>>[2] = x
      BY <2>1
    <2>3. ~ (y < x)
      BY <1>3, <2>2
    <2> QED  BY SMT, <2>1, <2>3
  <1> QED  BY <1>4

(* The device that locate_block_device finds is registered, and was named  *)
(* for the role or is of its type.                                         *)
LEMMA Located ==
    ASSUME BInv, NEW role \in Roles
    PROVE  LET i == locate_block_device(role)
           IN  i = NULL \/ /\ i \in DOMAIN all_blocks
                           /\ all_blocks[i].type = role \/ all_blocks[i].name = bdev_name[role]
  <1> DEFINE named == {i \in DOMAIN all_blocks : all_blocks[i].name = bdev_name[role]}
             typed == {i \in DOMAIN all_blocks : all_blocks[i].type = role}
  <1>1. DOMAIN all_blocks \subseteq Nat
    BY Indices DEF BInv
  <1>2. named \in SUBSET Nat /\ typed \in SUBSET Nat
    BY <1>1
  <1>3. CASE bdev_name[role] # NoName
    <2>1. locate_block_device(role) = IF named = {} THEN NULL ELSE CHOOSE i \in named : \A j \in named : i <= j
      BY <1>3 DEF locate_block_device, block_get_by_name
    <2>2. named # {} => (CHOOSE i \in named : \A j \in named : i <= j) \in named
      BY <1>2, First
    <2>3. locate_block_device(role) = NULL \/ locate_block_device(role) \in named
      <3> HIDE DEF named
      <3> QED  BY <2>1, <2>2
    <2> QED  BY <2>3
  <1>4. CASE bdev_name[role] = NoName
    <2>1. locate_block_device(role) = IF typed = {} THEN NULL ELSE CHOOSE i \in typed : \A j \in typed : i <= j
      BY <1>4 DEF locate_block_device
    <2>2. typed # {} => (CHOOSE i \in typed : \A j \in typed : i <= j) \in typed
      BY <1>2, First
    <2>3. locate_block_device(role) = NULL \/ locate_block_device(role) \in typed
      <3> HIDE DEF typed
      <3> QED  BY <2>1, <2>2
    <2> QED  BY <2>3
  <1> QED  BY <1>3, <1>4

(* locate_block_devices gives the roles their devices. *)
LEMMA LocateStep ==
    ASSUME BlockConstants, BInv, locate_block_devices
    PROVE  BInv'
  <1>1. UNCHANGED <<table, disk, stack, part_nr, all_blocks, bdev_name>>
    BY DEF locate_block_devices
  <1>2. CASE panic' = "no such device" /\ UNCHANGED <<pc, block_by_role>>
    BY <1>1, <1>2 DEF BInv, TypeOK, Fits, Assigned, Unassigned
  <1>3. CASE block_by_role' = [role \in Roles |-> locate_block_device(role)] /\ pc' = "run" /\ UNCHANGED panic
    <2>1. ASSUME NEW role \in Roles
          PROVE  LET i == block_by_role'[role]
                 IN  i = NULL \/ /\ i \in DOMAIN all_blocks
                                 /\ all_blocks[i].type = role \/ all_blocks[i].name = bdev_name[role]
      BY <1>3, Located
    <2>2. Assigned'
      BY <1>1, <2>1 DEF Assigned
    <2>3. NULL \in Nat
      BY SMT DEF NULL
    <2>4. block_by_role' \in [Roles -> Nat]
      BY <1>3, <2>1, <2>3, Indices DEF BInv
    <2>5. TypeOK'
      BY <1>1, <1>3, <2>4 DEF BInv, TypeOK
    <2> QED  BY <1>1, <1>3, <2>2, <2>5 DEF BInv, Fits, Unassigned
  <1> QED  BY <1>2, <1>3 DEF locate_block_devices

(* Every step keeps the invariant and writes inside a partition only. *)
LEMMA NextBInv ==
    ASSUME BlockConstants, BInv, [Next]_vars
    PROVE  BInv' /\ (WriteInside \/ UNCHANGED vars)
  <1>1. CASE partition_scan
    BY <1>1, ScanStep DEF WriteInside, partition_scan
  <1>2. CASE ReadTable
    BY <1>2, ReadStep DEF WriteInside, ReadTable
  <1>3. CASE read_partition_table
    BY <1>3, TurnStep DEF WriteInside, read_partition_table
  <1>4. CASE locate_block_devices
    BY <1>4, LocateStep DEF WriteInside, locate_block_devices
  <1>5. CASE \E role \in Roles, sector \in 0 .. Size - 1 : block_write(role, sector)
    BY <1>5, WriteStep
  <1>6. CASE UNCHANGED vars
    BY <1>6 DEF vars, BInv, TypeOK, Fits, Assigned, Unassigned
  <1> QED  BY <1>1, <1>2, <1>3, <1>4, <1>5, <1>6 DEF Next

-----------------------------------------------------------------------------
(* The theorem *)

(* Whatever the partition tables hold, a registered partition lies inside  *)
(* the disk, the disk's check_sector never panics on a sector that a       *)
(* partition let through, and a write through a role changes only sectors  *)
(* of a device with that role's name or type.                              *)
THEOREM PartitionsKeepTo ==
    ASSUME BlockConstants
    PROVE  Spec => []InsideDisk /\ OwnPartition
  <1>1. Init => BInv
    BY InitBInv
  <1>2. BInv /\ [Next]_vars => BInv' /\ [InsideDisk' /\ WriteInside]_vars
    BY NextBInv DEF BInv, Fits, InsideDisk
  <1>3. BInv => InsideDisk
    BY DEF BInv, Fits, InsideDisk
  <1> QED  BY <1>1, <1>2, <1>3, PTL DEF Spec, OwnPartition
=============================================================================
