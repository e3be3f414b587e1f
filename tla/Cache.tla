------------------------------- MODULE Cache --------------------------------
(***************************************************************************)
(* The buffer cache of filesys/cache.c: client threads in cache_read and   *)
(* cache_write, the read-ahead and write-behind threads, and flush_cache.  *)
(*                                                                         *)
(* Locks are taken as what Synch shows them to be: at most one holder, and *)
(* a thread that cannot have the lock waits.  One action is the code from  *)
(* one lock operation or disk transfer to the next; the fields an action   *)
(* touches are under a lock its thread holds, except for the dirty flags   *)
(* and sectors that write_behind and flush_cache look at without one.      *)
(***************************************************************************)
EXTENDS Integers, Sequences, FiniteSets, FiniteSetsExt

CONSTANTS
    NULL,
    Clients,      (* threads that call cache_read and cache_write *)
    Daemons,      (* of read_ahead, write_behind and flush, those that run *)
    CACHE_SIZE,   (* entries of the cache and of the read-ahead ring *)
    NSectors,     (* block_size(fs_device) *)
    Parts,        (* parts of a sector that can be written separately *)
    Vals,         (* contents of a part; 0 at first *)
    Partial       (* whether clients write less than a sector *)

CACHE_SECTOR_EMPTY == -1

Slots   == 0 .. CACHE_SIZE - 1
Sectors == 0 .. NSectors - 1
Data    == [Parts -> Vals]
Zeros   == [h \in Parts |-> 0]
Threads == Clients \cup Daemons

ASSUME CacheAssumption ==
    /\ CACHE_SIZE \in Nat \ {0} /\ NSectors \in Nat /\ NSectors >= CACHE_SIZE
    /\ IsFiniteSet(Clients)
    /\ Daemons \subseteq {"read_ahead", "write_behind", "flush"}
    /\ Clients \cap {"read_ahead", "write_behind", "flush"} = {}
    /\ NULL \notin Threads /\ NULL \notin Slots
    /\ 0 \in Vals /\ Partial \in BOOLEAN

VARIABLES
    table_lock,   (* holder of cache_table_lock *)
    cache,        (* sector_cache; lock is the holder of cache_entry_lock *)
    lru,          (* cache_lru: sectors, the next victim first *)
    ring,         (* read_ahead_buffer, read_ahead_head, read_ahead_tail *)
    disk,         (* the sectors on the device *)
    frame,        (* where each thread is *)
    panic,        (* "none", or which ASSERT stopped the kernel *)
    hist          (* history: mem, the last contents written to each sector, *)
                  (* and fresh, the sectors written since flush_cache began  *)

vars == <<table_lock, cache, lru, ring, disk, frame, panic, hist>>

(* The sector asked for, the parts to write and the value (none: a read),  *)
(* the slot worked on, the sector it had before, and the loop index i.     *)
Idle == [op |-> "idle", sector |-> 0, parts |-> {}, val |-> 0, slot |-> 0,
         old |-> CACHE_SECTOR_EMPTY, i |-> 0]

(* What every thread finds at the start. *)
cache_init ==
    /\ table_lock = NULL
    /\ cache = [i \in Slots |-> [sector |-> CACHE_SECTOR_EMPTY, access |-> FALSE,
                                 dirty |-> FALSE, data |-> Zeros, lock |-> NULL,
                                 mode |-> "UNLOCK"]]
    /\ lru = <<>>
    /\ ring = [buffer |-> [i \in Slots |-> CACHE_SECTOR_EMPTY], head |-> 0, tail |-> 0]
    /\ disk = [s \in Sectors |-> Zeros]
    /\ panic = "none"
    /\ hist = [mem |-> [s \in Sectors |-> Zeros], fresh |-> {}]

Init == cache_init /\ frame = [t \in Threads |-> Idle]

-----------------------------------------------------------------------------
At(t, op) == panic = "none" /\ frame[t].op = op

Goto(t, op) == frame' = [frame EXCEPT ![t].op = op]

Panic(why) == panic' = why /\ UNCHANGED <<table_lock, cache, lru, ring, disk, frame, hist>>

Writing(t) == frame[t].parts # {}

(* The first entry for a sector, NULL if there is none. *)
sector_to_cache(s) ==
    LET found == {i \in Slots : cache[i].sector = s}
    IN  IF found = {} THEN NULL ELSE Min(found)

(* Where a thread goes on with the lock of a loaded entry. *)
Loaded(t) == IF t = "read_ahead" THEN "ra_release" ELSE "verify"

(* A call of cache_read or cache_write. *)
Call(t) ==
    /\ At(t, "idle")
    /\ \E s \in Sectors, parts \in {{}} \cup (IF Partial THEN SUBSET Parts ELSE {Parts}), v \in Vals :
          /\ parts = {} => v = 0
          /\ frame' = [frame EXCEPT ![t] = [Idle EXCEPT !.op = "lookup", !.sector = s,
                                                        !.parts = parts, !.val = v]]
    /\ UNCHANGED <<table_lock, cache, lru, ring, disk, panic, hist>>

(* The table lock is taken for the look-up only. *)
Lookup(t) ==
    /\ At(t, "lookup") /\ table_lock = NULL
    /\ LET i == sector_to_cache(frame[t].sector)
       IN  frame' = [frame EXCEPT ![t].op = IF i = NULL THEN "load" ELSE "enter",
                                  ![t].slot = IF i = NULL THEN 0 ELSE i]
    /\ UNCHANGED <<table_lock, cache, lru, ring, disk, panic, hist>>

(* lock_acquire of the entry found. *)
Enter(t) ==
    /\ At(t, "enter") /\ cache[frame[t].slot].lock = NULL
    /\ cache' = [cache EXCEPT ![frame[t].slot].lock = t]
    /\ Goto(t, Loaded(t))
    /\ UNCHANGED <<table_lock, lru, ring, disk, panic, hist>>

(* Faulty variant: the sector is not compared again under the entry lock. *)
VerifyNot(t) ==
    /\ At(t, "verify")
    /\ Goto(t, "begin")
    /\ UNCHANGED <<table_lock, cache, lru, ring, disk, panic, hist>>

(* Is it still the right sector? *)
Verify(t) ==
    /\ At(t, "verify")
    /\ IF cache[frame[t].slot].sector = frame[t].sector
       THEN Goto(t, "begin") /\ UNCHANGED cache
       ELSE /\ cache' = [cache EXCEPT ![frame[t].slot].lock = NULL]
            /\ Goto(t, "lookup")
    /\ UNCHANGED <<table_lock, lru, ring, disk, panic, hist>>

-----------------------------------------------------------------------------
(* get_free_cache and cache_evict, for the sector frame[t].sector *)

EmptySlots == {i \in Slots : cache[i].sector = CACHE_SECTOR_EMPTY}

(* With the table lock held, which it releases.  The first empty entry is  *)
(* taken and marked; only if there is none a victim leaves the queue.      *)
(* lru_update returns at once, since the table lock is held.               *)
get_free_cache(t) ==
    IF EmptySlots # {}
    THEN LET i == Min(EmptySlots)
         IN  IF cache[i].lock # NULL THEN Panic("lock_try_acquire")
             ELSE IF cache[i].mode # "UNLOCK" THEN Panic("mode")
             ELSE IF Len(lru) >= CACHE_SIZE THEN Panic("lru_enqueue")
             ELSE /\ lru' = Append(lru, frame[t].sector)
                  /\ cache' = [cache EXCEPT ![i].lock = t, ![i].sector = frame[t].sector]
                  /\ frame' = [frame EXCEPT ![t].slot = i,
                                            ![t].op = IF Writing(t) THEN Loaded(t) ELSE "fill"]
                  /\ table_lock' = NULL
                  /\ UNCHANGED <<ring, disk, panic, hist>>
    ELSE IF lru = <<>>
    THEN /\ IF t = "read_ahead" THEN Panic("read_ahead")
            ELSE /\ Goto(t, "lookup")
                 /\ table_lock' = NULL
                 /\ UNCHANGED <<cache, lru, ring, disk, panic, hist>>
    ELSE IF sector_to_cache(Head(lru)) = NULL THEN Panic("lru_evict")
    ELSE /\ frame' = [frame EXCEPT ![t].op = "evict", ![t].slot = sector_to_cache(Head(lru))]
         /\ lru' = Tail(lru)
         /\ table_lock' = NULL
         /\ UNCHANGED <<cache, ring, disk, panic, hist>>

(* A client that missed takes the table lock again; it does not look up    *)
(* the sector a second time.                                               *)
Load(t) ==
    /\ At(t, "load") /\ table_lock = NULL
    /\ get_free_cache(t)

(* The victim's lock ... *)
Evict(t) ==
    /\ At(t, "evict") /\ cache[frame[t].slot].lock = NULL
    /\ cache' = [cache EXCEPT ![frame[t].slot].lock = t]
    /\ Goto(t, "evict_table")
    /\ UNCHANGED <<table_lock, lru, ring, disk, panic, hist>>

(* Faulty variant: a victim that is not needed is not queued again. *)
EvictTableDrop(t) ==
    /\ At(t, "evict_table") /\ table_lock = NULL
    /\ LET v == frame[t].slot
           i == sector_to_cache(frame[t].sector)
       IN  IF i # NULL
           THEN /\ cache' = [cache EXCEPT ![v].lock = NULL]
                /\ frame' = [frame EXCEPT ![t].op = "enter", ![t].slot = i]
                /\ UNCHANGED lru
           ELSE /\ lru' = Append(lru, frame[t].sector)
                /\ cache' = [cache EXCEPT ![v].sector = frame[t].sector]
                /\ frame' = [frame EXCEPT ![t].op = "write_back", ![t].old = cache[v].sector]
    /\ UNCHANGED <<table_lock, ring, disk, panic, hist>>

(* ... and then the table lock: if another thread has loaded the sector    *)
(* the victim is queued again, else the victim becomes the sector's entry. *)
EvictTable(t) ==
    /\ At(t, "evict_table") /\ table_lock = NULL
    /\ LET v == frame[t].slot
           i == sector_to_cache(frame[t].sector)
       IN  IF Len(lru) >= CACHE_SIZE THEN Panic("lru_enqueue")
           ELSE IF i # NULL
           THEN /\ lru' = Append(lru, cache[v].sector)
                /\ cache' = [cache EXCEPT ![v].lock = NULL]
                /\ frame' = [frame EXCEPT ![t].op = "enter", ![t].slot = i]
                /\ UNCHANGED <<table_lock, ring, disk, panic, hist>>
           ELSE /\ lru' = Append(lru, frame[t].sector)
                /\ cache' = [cache EXCEPT ![v].sector = frame[t].sector]
                /\ frame' = [frame EXCEPT ![t].op = "write_back", ![t].old = cache[v].sector]
                /\ UNCHANGED <<table_lock, ring, disk, panic, hist>>

(* The old contents go to the disk if they are dirty. *)
WriteBack(t) ==
    /\ At(t, "write_back")
    /\ LET v == frame[t].slot
       IN  /\ disk' = IF cache[v].dirty THEN [disk EXCEPT ![frame[t].old] = cache[v].data]
                      ELSE disk
           /\ cache' = [cache EXCEPT ![v].dirty = FALSE, ![v].access = FALSE,
                                     ![v].mode = "UNLOCK"]
    /\ Goto(t, IF Writing(t) THEN Loaded(t) ELSE "fill")
    /\ UNCHANGED <<table_lock, lru, ring, panic, hist>>

(* Faulty variant: the entry keeps the contents of the old sector. *)
FillNot(t) ==
    /\ At(t, "fill")
    /\ Goto(t, Loaded(t))
    /\ UNCHANGED <<table_lock, cache, lru, ring, disk, panic, hist>>

(* block_read of the new contents, unless the caller is going to write. *)
Fill(t) ==
    /\ At(t, "fill")
    /\ cache' = [cache EXCEPT ![frame[t].slot].data = disk[frame[t].sector]]
    /\ Goto(t, Loaded(t))
    /\ UNCHANGED <<table_lock, lru, ring, disk, panic, hist>>

-----------------------------------------------------------------------------
(* The access itself, with the entry lock held *)

(* The counters of waiting threads stay 0: a thread that would have to     *)
(* wait stops the model, and NoCondWait says that there is none.           *)
Begin(t) ==
    /\ At(t, "begin")
    /\ LET i == frame[t].slot
       IN  IF cache[i].mode = "UNLOCK" \/ (cache[i].mode = "READ_LOCK" /\ ~ Writing(t))
           THEN /\ cache' = [cache EXCEPT ![i].mode = IF Writing(t) THEN "WRITE_LOCK"
                                                      ELSE "READ_LOCK"]
                /\ Goto(t, "access")
                /\ UNCHANGED <<table_lock, lru, ring, disk, panic, hist>>
           ELSE Panic("cond_wait")

Written(t, data) == [h \in Parts |-> IF h \in frame[t].parts THEN frame[t].val ELSE data[h]]

(* The request for the next sector.  Only read_ahead looks at the ring:    *)
(* in an instance without that thread its contents are left out.           *)
Ahead(s) ==
    IF "read_ahead" \in Daemons
    THEN [ring EXCEPT !.buffer[ring.tail] = (s + 1) % NSectors,
                      !.tail = (ring.tail + 1) % CACHE_SIZE]
    ELSE ring

(* What the history notes while flush_cache runs. *)
Fresh(t) ==
    IF Writing(t) /\ \E f \in Daemons \cap {"flush"} : frame[f].op # "idle"
    THEN {frame[t].sector} ELSE {}

(* memcpy, the flags, the read-ahead request, mode, and the release. *)
Access(t) ==
    /\ At(t, "access")
    /\ LET i == frame[t].slot
           s == frame[t].sector
       IN  /\ cache' = [cache EXCEPT ![i].data = Written(t, @), ![i].access = TRUE,
                                     ![i].dirty = @ \/ Writing(t), ![i].lock = NULL,
                                     ![i].mode = "UNLOCK"]
           /\ ring' = Ahead(s)
           /\ hist' = [hist EXCEPT !.mem[s] = Written(t, @),
                                   !.fresh = @ \cup Fresh(t)]
    /\ frame' = [frame EXCEPT ![t] = Idle]
    /\ UNCHANGED <<table_lock, lru, disk, panic>>

-----------------------------------------------------------------------------
(* read_ahead *)

ReadAheadStart(t) ==
    /\ t = "read_ahead" /\ At(t, "idle") /\ table_lock = NULL
    /\ table_lock' = t
    /\ frame' = [frame EXCEPT ![t].op = "ra_scan", ![t].i = ring.head]
    /\ UNCHANGED <<cache, lru, ring, disk, panic, hist>>

(* One turn of the loop.  A sector that is not cached makes get_free_cache *)
(* load the sector whose number is the index in the ring.                  *)
ReadAheadScan(t) ==
    /\ At(t, "ra_scan")
    /\ LET i == frame[t].i
       IN  \/ /\ i = ring.tail
              /\ ring' = [ring EXCEPT !.head = ring.tail]
              /\ table_lock' = NULL
              /\ frame' = [frame EXCEPT ![t] = Idle]
              /\ UNCHANGED <<cache, lru, disk, panic, hist>>
           \/ /\ i # ring.tail /\ sector_to_cache(ring.buffer[i]) # NULL
              /\ frame' = [frame EXCEPT ![t].i = (i + 1) % CACHE_SIZE]
              /\ UNCHANGED <<table_lock, cache, lru, ring, disk, panic, hist>>
           \/ /\ i # ring.tail /\ sector_to_cache(ring.buffer[i]) = NULL
              /\ frame' = [frame EXCEPT ![t].op = "ra_load", ![t].sector = i]
              /\ UNCHANGED <<table_lock, cache, lru, ring, disk, panic, hist>>

ReadAheadLoad(t) ==
    /\ At(t, "ra_load")
    /\ get_free_cache(t)

ReadAheadRelease(t) ==
    /\ At(t, "ra_release")
    /\ cache' = [cache EXCEPT ![frame[t].slot].lock = NULL]
    /\ Goto(t, "ra_next")
    /\ UNCHANGED <<table_lock, lru, ring, disk, panic, hist>>

ReadAheadNext(t) ==
    /\ At(t, "ra_next") /\ table_lock = NULL
    /\ table_lock' = t
    /\ frame' = [frame EXCEPT ![t] = [Idle EXCEPT !.op = "ra_scan",
                                                  !.i = (frame[t].i + 1) % CACHE_SIZE]]
    /\ UNCHANGED <<cache, lru, ring, disk, panic, hist>>

-----------------------------------------------------------------------------
(* write_behind and flush_cache *)

WriteBehindStart(t) ==
    /\ t = "write_behind" /\ At(t, "idle") /\ table_lock = NULL
    /\ table_lock' = t
    /\ Goto(t, "scan")
    /\ UNCHANGED <<cache, lru, ring, disk, panic, hist>>

(* flush_cache does not take the table lock. *)
FlushStart(t) ==
    /\ t = "flush" /\ At(t, "idle")
    /\ Goto(t, "scan")
    /\ UNCHANGED <<table_lock, cache, lru, ring, disk, panic, hist>>

(* One turn of either loop, up to lock_acquire: the dirty flag is read     *)
(* without the entry's lock.                                               *)
Scan(t) ==
    /\ At(t, "scan") /\ frame[t].i < CACHE_SIZE
    /\ IF /\ cache[frame[t].i].dirty
          /\ t = "flush" => cache[frame[t].i].sector # CACHE_SECTOR_EMPTY
       THEN Goto(t, "clean")
       ELSE frame' = [frame EXCEPT ![t].i = @ + 1]
    /\ UNCHANGED <<table_lock, cache, lru, ring, disk, panic, hist>>

(* The entry's lock, block_write of whatever sector it holds by now, the   *)
(* flag, and the release.                                                  *)
Clean(t) ==
    /\ At(t, "clean") /\ cache[frame[t].i].lock = NULL
    /\ disk' = [disk EXCEPT ![cache[frame[t].i].sector] = cache[frame[t].i].data]
    /\ cache' = [cache EXCEPT ![frame[t].i].dirty = FALSE]
    /\ frame' = [frame EXCEPT ![t].op = "scan", ![t].i = @ + 1]
    /\ UNCHANGED <<table_lock, lru, ring, panic, hist>>

(* Faulty variant: the last entry is left out. *)
ScanEndEarly(t) ==
    /\ At(t, "scan") /\ frame[t].i >= CACHE_SIZE - 1
    /\ table_lock' = IF t = "write_behind" THEN NULL ELSE table_lock
    /\ frame' = [frame EXCEPT ![t] = Idle]
    /\ hist' = IF t = "flush" THEN [hist EXCEPT !.fresh = {}] ELSE hist
    /\ UNCHANGED <<cache, lru, ring, disk, panic>>

ScanEnd(t) ==
    /\ At(t, "scan") /\ frame[t].i = CACHE_SIZE
    /\ table_lock' = IF t = "write_behind" THEN NULL ELSE table_lock
    /\ frame' = [frame EXCEPT ![t] = Idle]
    /\ hist' = IF t = "flush" THEN [hist EXCEPT !.fresh = {}] ELSE hist
    /\ UNCHANGED <<cache, lru, ring, disk, panic>>

-----------------------------------------------------------------------------
(* Steps inside the cache, as opposed to the start of a call or of a       *)
(* periodic pass.                                                          *)
Step(t) ==
    \/ Lookup(t) \/ Enter(t) \/ Verify(t) \/ Load(t)
    \/ Evict(t) \/ EvictTable(t) \/ WriteBack(t) \/ Fill(t)
    \/ Begin(t) \/ Access(t)
    \/ ReadAheadScan(t) \/ ReadAheadLoad(t) \/ ReadAheadRelease(t) \/ ReadAheadNext(t)
    \/ Scan(t) \/ Clean(t) \/ ScanEnd(t)

Next ==
    \/ \E t \in Clients : Call(t)
    \/ \E t \in Daemons : ReadAheadStart(t) \/ WriteBehindStart(t) \/ FlushStart(t)
    \/ \E t \in Threads : Step(t)

Spec == Init /\ [][Next]_vars

(* Every thread inside the cache goes on when it can: the scheduler gives  *)
(* threads of equal priority turns, and a released lock wakes a waiter.    *)
FairSpec == Spec /\ \A t \in Threads : WF_vars(Step(t))
-----------------------------------------------------------------------------
(* Properties *)

(* Entries, queue, ring and frames have their types. *)
TypeOK ==
    /\ table_lock \in Threads \cup {NULL}
    /\ cache \in [Slots -> [sector : Sectors \cup {CACHE_SECTOR_EMPTY}, access : BOOLEAN,
                            dirty : BOOLEAN, data : Data, lock : Threads \cup {NULL},
                            mode : {"UNLOCK", "READ_LOCK", "WRITE_LOCK"}]]
    /\ lru \in Seq(Sectors)
    /\ ring \in [buffer : [Slots -> Sectors \cup {CACHE_SECTOR_EMPTY}],
                 head : Slots, tail : Slots]
    /\ disk \in [Sectors -> Data]
    /\ hist \in [mem : [Sectors -> Data], fresh : SUBSET Sectors]
    /\ \A t \in Threads : frame[t].slot \in Slots /\ frame[t].sector \in Sectors

(* A cache_read copies what was last written to the sector, whatever was   *)
(* evicted, written back and loaded again in between.                      *)
ReadsLatest ==
    \A t \in Clients :
       frame[t].op = "access" /\ ~ Writing(t) =>
          cache[frame[t].slot].data = hist.mem[frame[t].sector]

(* A sector that is held clean or not at all, and that no eviction has     *)
(* still to write back, is up to date on the disk: nothing is lost when a  *)
(* clean entry is given to another sector.                                 *)
CleanOnDisk ==
    \A s \in Sectors :
       /\ \A t \in Threads : frame[t].op = "write_back" => frame[t].old # s
       /\ \A i \in Slots : cache[i].sector = s => ~ cache[i].dirty
       => disk[s] = hist.mem[s]

(* Both: every read gets the latest contents, and the disk has them when   *)
(* no entry does (cache_read, cache_write, cache_evict).                   *)
ContentsExact == ReadsLatest /\ CleanOnDisk

(* During the eviction of a block no other thread reads the block: a       *)
(* sector is not read from the disk while a dirty copy of it has still to  *)
(* be written there.                                                       *)
WriteBackFirst ==
    \A t, u \in Threads :
       frame[t].op = "fill" /\ frame[u].op = "write_back" /\ cache[frame[u].slot].dirty =>
          frame[t].sector # frame[u].old

(* The queue holds sectors that are cached: lru_evict's ASSERT holds.      *)
QueueValid == panic # "lru_evict"

(* When flush_cache returns, every sector not written since it began is up *)
(* to date on the disk.                                                    *)
FlushDurable ==
    [][ \A t \in Daemons :
          t = "flush" /\ frame[t].op = "scan" /\ frame'[t].op = "idle" =>
             \A s \in Sectors \ hist.fresh : disk[s] = hist.mem[s] ]_vars

(* A sector is in at most one entry.                                       *)
LoadedOnce ==
    \A i, j \in Slots :
       cache[i].sector = cache[j].sector /\ cache[i].sector # CACHE_SECTOR_EMPTY => i = j

(* A thread copies data only from or to an entry whose lock it holds and   *)
(* that holds the sector it was called for, although the entry was found   *)
(* under another lock and may have been evicted in between.  So no two     *)
(* threads copy in one entry, and no eviction changes it meanwhile.        *)
AccessesOwnSector ==
    \A t \in Threads :
       frame[t].op \in {"begin", "access"} =>
          /\ cache[frame[t].slot].lock = t
          /\ cache[frame[t].slot].sector = frame[t].sector

(* The queue is in step with the table: it has one element for every entry *)
(* in use except the victims of evictions under way.  So lru_enqueue and   *)
(* get_free_cache never fail their ASSERTs on its size.                    *)
Victims == {t \in Threads : frame[t].op \in {"evict", "evict_table"}}

LruInStep == Len(lru) + Cardinality(Victims) = Cardinality(Slots \ EmptySlots)

(* Nobody holds the lock of an empty entry, and an entry whose lock is     *)
(* free is in mode UNLOCK: get_free_cache can have the lock at once, and   *)
(* no reader or writer ever has to wait on the condition variables.        *)
NoCondWait ==
    /\ panic \notin {"cond_wait", "mode", "lock_try_acquire", "lru_enqueue"}
    /\ \A i \in EmptySlots : cache[i].lock = NULL
    /\ \A i \in Slots : cache[i].lock = NULL => cache[i].mode = "UNLOCK"

(* Entries, their locks and the queue stay in step, and keep their types.  *)
(* So the ASSERTs of get_free_cache hold, and none of the threads waits on *)
(* a condition variable.                                                   *)
EntriesInStep == TypeOK /\ LruInStep /\ NoCondWait

(* An entry that was accessed since it was loaded is not evicted while     *)
(* there is one that was not.                                              *)
LeastRecentlyUsed ==
    \A t \in Threads :
       frame[t].op = "evict_table" /\ cache[frame[t].slot].access =>
          \A i \in Slots : cache[i].access \/ cache[i].lock # NULL

(* A sector the read-ahead thread finds missing is the one it loads.       *)
ReadAheadLoads ==
    \A t \in Daemons :
       frame[t].op = "ra_load" => frame[t].sector = ring.buffer[frame[t].i]

(* write_behind goes through the whole table and releases the table lock.  *)
WriteBehindFinishes ==
    table_lock = "write_behind" ~> table_lock # "write_behind" \/ panic # "none"
=============================================================================
