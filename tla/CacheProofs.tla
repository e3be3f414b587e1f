---------------------------- MODULE CacheProofs -----------------------------
(***************************************************************************)
(* Proofs about module Cache, for any number of clients, entries and       *)
(* sectors and with or without each of the daemons: a thread copies only   *)
(* in an entry it has locked and that holds its sector, and the queue, the *)
(* modes and the locks of the entries stay in step, so that no ASSERT of   *)
(* get_free_cache fails and no condition variable is waited on.            *)
(***************************************************************************)
EXTENDS Cache, TLAPS, FiniteSetTheorems

(* Zenon proves most steps; the others, with arithmetic or records, name SMT. *)
USE Zenon

-----------------------------------------------------------------------------
(* The inductive invariant *)

Ops == {"idle", "lookup", "enter", "verify", "load", "evict", "evict_table", "write_back",
        "fill", "begin", "access", "ra_scan", "ra_load", "ra_release", "ra_next", "scan",
        "clean"}

(* Where a thread holds the lock of the entry in its frame, ... *)
Locked == {"verify", "evict_table", "write_back", "fill", "begin", "access", "ra_release"}

(* ... where that entry is in use, and where it holds the thread's sector. *)
Using == Locked \cup {"enter", "evict"}
Own == {"write_back", "fill", "begin", "access"}

Entries == [sector : Sectors \cup {CACHE_SECTOR_EMPTY}, access : BOOLEAN, dirty : BOOLEAN,
            data : Data, lock : Threads \cup {NULL},
            mode : {"UNLOCK", "READ_LOCK", "WRITE_LOCK"}]

Frames == [op : Ops, sector : Sectors, parts : SUBSET Parts, val : Vals, slot : Slots,
           old : Sectors \cup {CACHE_SECTOR_EMPTY}, i : 0 .. CACHE_SIZE]

(* Types of what decides where threads are and what they hold. *)
ControlOK ==
    /\ table_lock \in Threads \cup {NULL}
    /\ cache \in [Slots -> Entries]
    /\ frame \in [Threads -> Frames]
    /\ \A t \in Threads : frame[t].op # "scan" => frame[t].i \in Slots
    /\ lru \in Seq(Sectors)
    /\ ring \in [buffer : [Slots -> Sectors \cup {CACHE_SECTOR_EMPTY}],
                 head : Slots, tail : Slots]

(* A thread that holds a lock of an entry is at the entry, and the other   *)
(* way round; an entry in use keeps being in use; mode leaves UNLOCK only  *)
(* inside an access.                                                       *)
Locking ==
    /\ \A t \in Threads :
          /\ frame[t].op \in Locked => cache[frame[t].slot].lock = t
          /\ frame[t].op \in Using => cache[frame[t].slot].sector # CACHE_SECTOR_EMPTY
          /\ frame[t].op \in Own => cache[frame[t].slot].sector = frame[t].sector
    /\ \A i \in Slots :
          /\ cache[i].lock # NULL =>
                frame[cache[i].lock].op \in Locked /\ frame[cache[i].lock].slot = i
          /\ cache[i].mode # "UNLOCK" =>
                cache[i].lock # NULL /\ frame[cache[i].lock].op = "access"

(* The ASSERTs on the size of the queue, the lock and the mode hold. *)
NoAssert == panic \notin {"cond_wait", "mode", "lock_try_acquire", "lru_enqueue"}

(* The control part of the invariant ... *)
CInv == ControlOK /\ Locking /\ LruInStep /\ NoAssert

(* ... and what the contents are made of. *)
DataOK ==
    /\ disk \in [Sectors -> Data]
    /\ hist \in [mem : [Sectors -> Data], fresh : SUBSET Sectors]

IInv == CInv /\ DataOK

-----------------------------------------------------------------------------
(* Facts about the operators *)

(* The frame of an idle thread. *)
LEMMA IdleOK == Idle \in Frames /\ Idle.op = "idle" /\ Idle.i \in Slots
  BY SMT, CacheAssumption DEF Idle, Frames, Ops, Slots, Sectors

(* A frame in which op has changed, or op and slot. *)
To(g, o) == [g EXCEPT !.op = o]
ToSlot(g, o, k) == [g EXCEPT !.op = o, !.slot = k]

(* A move within a function keeps the rest of the frame. *)
LEMMA FrameOp ==
    ASSUME NEW g \in Frames, NEW o \in Ops
    PROVE  /\ To(g, o) \in Frames /\ To(g, o).op = o
           /\ To(g, o).sector = g.sector /\ To(g, o).parts = g.parts
           /\ To(g, o).slot = g.slot /\ To(g, o).i = g.i
  BY DEF Frames, To

(* So does a move to another entry, but for the slot. *)
LEMMA FrameSlot ==
    ASSUME NEW g \in Frames, NEW o \in Ops, NEW k \in Slots
    PROVE  /\ ToSlot(g, o, k) \in Frames /\ ToSlot(g, o, k).op = o
           /\ ToSlot(g, o, k).sector = g.sector /\ ToSlot(g, o, k).parts = g.parts
           /\ ToSlot(g, o, k).slot = k /\ ToSlot(g, o, k).i = g.i
  BY DEF Frames, ToSlot

(* The least element of a set of slots is one of them. *)
LEMMA MinSlot ==
    ASSUME NEW S \in SUBSET Slots, S # {}
    PROVE  Min(S) \in S
  <1>1. S \subseteq Nat
    BY SMT, CacheAssumption DEF Slots
  <1>2. OpToRel(<, Nat) = {ss \in Nat \X Nat : ss[1] < ss[2]}
    BY DEF OpToRel
  <1>3. IsWellFoundedOn({ss \in Nat \X Nat : ss[1] < ss[2]}, Nat)
    BY <1>2, NatLessThanWellFounded
  <1>4. PICK x \in S : \A y \in S : ~ (<<y, x>> \in {ss \in Nat \X Nat : ss[1] < ss[2]})
    BY <1>1, <1>3, WFMin
  <1>5. ASSUME NEW y \in S PROVE x <= y
    <2>1. x \in Nat /\ y \in Nat
      BY <1>1
    <2>2. <<y, x>> \in Nat \X Nat /\ <<y, x>>[1] = y /\ <<y, x>>[2] = x
      BY <2>1
    <2>3. ~ (y < x)
      BY <1>4, <2>2
    <2> QED
      BY SMT, <2>1, <2>3
  <1> QED
    BY <1>5 DEF Min

(* sector_to_cache finds an entry that holds the sector. *)
LEMMA LookupFinds ==
    ASSUME NEW s
    PROVE  \/ sector_to_cache(s) = NULL /\ \A i \in Slots : cache[i].sector # s
           \/ /\ sector_to_cache(s) \in Slots /\ sector_to_cache(s) # NULL
              /\ cache[sector_to_cache(s)].sector = s
  <1> DEFINE found == {i \in Slots : cache[i].sector = s}
  <1>1. CASE found = {}
    BY <1>1 DEF sector_to_cache
  <1>2. CASE found # {}
    <2>1. Min(found) \in found
      BY <1>2, MinSlot
    <2> QED
      BY <1>2, <2>1, CacheAssumption DEF sector_to_cache
  <1> QED
    BY <1>1, <1>2

-----------------------------------------------------------------------------
(* Control and locks *)

VictimOps == {"evict", "evict_table"}

(* The frame a thread may have, given the entry of its slot. *)
FrameFits(t, f, e) ==
    /\ f \in Frames /\ (f.op # "scan" => f.i \in Slots)
    /\ f.op \in Locked => e.lock = t
    /\ f.op \in Using => e.sector # CACHE_SECTOR_EMPTY
    /\ f.op \in Own => e.sector = f.sector

(* A thread goes on without touching an entry or its lock. *)
FrameStep(t, f) ==
    /\ frame' = [frame EXCEPT ![t] = f] /\ cache' = cache
    /\ FrameFits(t, f, cache[f.slot])
    /\ f.op \in Locked <=> frame[t].op \in Locked
    /\ f.op \in Locked => f.slot = frame[t].slot
    /\ frame[t].op # "access"

(* A thread goes on and takes, changes or gives back one entry, whose lock *)
(* nobody else holds.                                                      *)
EntryStep(t, i, f, e) ==
    /\ frame' = [frame EXCEPT ![t] = f] /\ cache' = [cache EXCEPT ![i] = e]
    /\ i \in Slots /\ e \in Entries
    /\ FrameFits(t, f, cache'[f.slot])
    /\ cache[i].lock \in {NULL, t}
    /\ frame[t].op \in Locked => frame[t].slot = i
    /\ f.op \in Locked => f.slot = i
    /\ f.op \notin Locked => e.lock = NULL
    /\ e.sector = cache[i].sector \/ e.sector # CACHE_SECTOR_EMPTY
    /\ e.mode # "UNLOCK" => f.op = "access"

(* A step of a frame alone keeps frames and locks matched. *)
LEMMA FrameMoves ==
    ASSUME ControlOK, Locking, NEW t \in Threads, NEW f, FrameStep(t, f)
    PROVE  /\ Locking' /\ frame' \in [Threads -> Frames]
           /\ \A u \in Threads : frame'[u].op # "scan" => frame'[u].i \in Slots
  <1>1. /\ frame' \in [Threads -> Frames] /\ frame'[t] = f
        /\ \A u \in Threads : u # t => frame'[u] = frame[u]
    BY DEF ControlOK, FrameFits, FrameStep
  <1>2. ASSUME NEW u \in Threads
        PROVE  /\ frame'[u].op # "scan" => frame'[u].i \in Slots
               /\ frame'[u].op \in Locked => cache'[frame'[u].slot].lock = u
               /\ frame'[u].op \in Using => cache'[frame'[u].slot].sector # CACHE_SECTOR_EMPTY
               /\ frame'[u].op \in Own => cache'[frame'[u].slot].sector = frame'[u].sector
    BY SMT, <1>1 DEF ControlOK, Locking, FrameFits, FrameStep
  <1>3. ASSUME NEW i \in Slots
        PROVE  /\ cache'[i].lock # NULL =>
                     frame'[cache'[i].lock].op \in Locked /\ frame'[cache'[i].lock].slot = i
               /\ cache'[i].mode # "UNLOCK" =>
                     cache'[i].lock # NULL /\ frame'[cache'[i].lock].op = "access"
    <2>1. cache[i].lock \in Threads \cup {NULL}
      BY DEF ControlOK, Entries
    <2> QED
      BY SMT, <1>1, <2>1 DEF Locking, FrameStep
  <1> QED
    BY <1>1, <1>2, <1>3 DEF Locking

(* So does a step on an entry. *)
LEMMA EntryMoves ==
    ASSUME ControlOK, Locking, NEW t \in Threads, NEW i, NEW f, NEW e, EntryStep(t, i, f, e)
    PROVE  /\ Locking' /\ cache' \in [Slots -> Entries] /\ frame' \in [Threads -> Frames]
           /\ \A u \in Threads : frame'[u].op # "scan" => frame'[u].i \in Slots
  <1>1. /\ frame' \in [Threads -> Frames] /\ frame'[t] = f
        /\ \A u \in Threads : u # t => frame'[u] = frame[u]
        /\ cache' \in [Slots -> Entries] /\ cache'[i] = e
        /\ \A j \in Slots : j # i => cache'[j] = cache[j]
    BY DEF ControlOK, FrameFits, EntryStep
  <1>2. NULL \notin Threads
    BY CacheAssumption
  <1>3. ASSUME NEW u \in Threads
        PROVE  /\ frame'[u].op # "scan" => frame'[u].i \in Slots
               /\ frame'[u].op \in Locked => cache'[frame'[u].slot].lock = u
               /\ frame'[u].op \in Using => cache'[frame'[u].slot].sector # CACHE_SECTOR_EMPTY
               /\ frame'[u].op \in Own => cache'[frame'[u].slot].sector = frame'[u].sector
    <2>1. CASE u = t
      BY <1>1, <2>1 DEF FrameFits, EntryStep
    <2>2. CASE u # t
      <3>1. frame'[u] = frame[u] /\ frame[u].slot \in Slots
        BY <1>1, <2>2 DEF ControlOK, Frames
      <3>2. frame[u].op \in Locked => frame[u].slot # i
        BY SMT, <1>2, <2>2, <3>1 DEF Locking, EntryStep
      <3>3. Own \subseteq Locked
        BY DEF Own, Locked
      <3> QED
        BY SMT, <1>1, <2>2, <3>1, <3>2, <3>3 DEF ControlOK, Locking, EntryStep
    <2> QED
      BY <2>1, <2>2
  <1>4. ASSUME NEW j \in Slots
        PROVE  /\ cache'[j].lock # NULL =>
                     frame'[cache'[j].lock].op \in Locked /\ frame'[cache'[j].lock].slot = j
               /\ cache'[j].mode # "UNLOCK" =>
                     cache'[j].lock # NULL /\ frame'[cache'[j].lock].op = "access"
    <2>1. "access" \in Locked
      BY DEF Locked
    <2>2. CASE j = i
      BY SMT, <1>1, <1>2, <2>1, <2>2 DEF FrameFits, EntryStep
    <2>3. CASE j # i
      <3>1. cache'[j] = cache[j] /\ cache[j].lock \in Threads \cup {NULL}
        BY <1>1, <2>3 DEF ControlOK, Entries
      <3>2. cache[j].lock # t
        BY SMT, <1>2, <2>3 DEF Locking, EntryStep
      <3> QED
        BY SMT, <1>1, <3>1, <3>2 DEF Locking
    <2> QED
      BY <2>2, <2>3
  <1> QED
    BY <1>1, <1>3, <1>4 DEF Locking, EntryStep

-----------------------------------------------------------------------------
(* The queue *)

(* The sets that are counted are finite. *)
LEMMA Finiteness ==
    /\ IsFiniteSet(Threads) /\ IsFiniteSet(Victims)
    /\ IsFiniteSet(Slots) /\ Cardinality(Slots) = CACHE_SIZE
    /\ IsFiniteSet(EmptySlots) /\ EmptySlots \subseteq Slots
  <1>1. IsFiniteSet({"read_ahead", "write_behind", "flush"})
    <2>1. IsFiniteSet({"read_ahead"})
      BY FS_Singleton
    <2>2. IsFiniteSet({"read_ahead"} \cup {"write_behind"})
      BY <2>1, FS_AddElement
    <2>3. IsFiniteSet(({"read_ahead"} \cup {"write_behind"}) \cup {"flush"})
      BY <2>2, FS_AddElement
    <2>4. {"read_ahead", "write_behind", "flush"}
             = ({"read_ahead"} \cup {"write_behind"}) \cup {"flush"}
      OBVIOUS
    <2> QED
      BY <2>3, <2>4
  <1>2. IsFiniteSet(Daemons)
    BY <1>1, FS_Subset, CacheAssumption
  <1>3. IsFiniteSet(Threads)
    BY <1>2, FS_Union, CacheAssumption DEF Threads
  <1>4. IsFiniteSet(Slots) /\ Cardinality(Slots) = CACHE_SIZE
    BY SMT, FS_Interval, CacheAssumption DEF Slots
  <1>5. Victims \subseteq Threads /\ EmptySlots \subseteq Slots
    BY DEF Victims, EmptySlots
  <1> QED
    BY <1>3, <1>4, <1>5, FS_Subset

(* The set of victims after a step of one thread, and its size. *)
LEMMA VictimsMove ==
    ASSUME ControlOK, NEW t \in Threads, NEW f, frame' = [frame EXCEPT ![t] = f]
    PROVE  /\ Cardinality(Victims) \in Nat /\ Cardinality(Victims') \in Nat
           /\ (f.op \in VictimOps <=> frame[t].op \in VictimOps) => Victims' = Victims
           /\ f.op \in VictimOps /\ frame[t].op \notin VictimOps =>
                 Cardinality(Victims') = Cardinality(Victims) + 1
           /\ f.op \notin VictimOps /\ frame[t].op \in VictimOps =>
                 Cardinality(Victims') = Cardinality(Victims) - 1
  <1>1. frame'[t] = f /\ \A u \in Threads : u # t => frame'[u] = frame[u]
    BY DEF ControlOK
  <1>2. \A u \in Threads : u \in Victims' <=> frame'[u].op \in VictimOps
    BY DEF Victims, VictimOps
  <1>3. \A u \in Threads : u \in Victims <=> frame[u].op \in VictimOps
    BY DEF Victims, VictimOps
  <1>4. Victims \subseteq Threads /\ Victims' \subseteq Threads
    BY DEF Victims
  <1>5. Victims' = IF f.op \in VictimOps THEN Victims \cup {t} ELSE Victims \ {t}
    BY <1>1, <1>2, <1>3, <1>4
  <1>6. IsFiniteSet(Victims)
    BY Finiteness
  <1>7. Cardinality(Victims) \in Nat
    BY <1>6, FS_CardinalityType
  <1>8. IsFiniteSet(Victims')
    BY <1>4, Finiteness, FS_Subset
  <1>9. Cardinality(Victims') \in Nat
    BY <1>8, FS_CardinalityType
  <1>10. t \in Victims <=> frame[t].op \in VictimOps
    BY <1>3
  <1>11. ASSUME f.op \in VictimOps, frame[t].op \notin VictimOps
         PROVE  Cardinality(Victims') = Cardinality(Victims) + 1
    BY <1>5, <1>6, <1>10, <1>11, FS_AddElement
  <1>12. ASSUME f.op \notin VictimOps, frame[t].op \in VictimOps
         PROVE  Cardinality(Victims') = Cardinality(Victims) - 1
    BY <1>5, <1>6, <1>10, <1>12, FS_RemoveElement
  <1>13. (f.op \in VictimOps <=> frame[t].op \in VictimOps) => Victims' = Victims
    BY <1>5, <1>10
  <1> QED
    BY <1>7, <1>9, <1>11, <1>12, <1>13

(* The entries in use after a step on one entry, and their number. *)
LEMMA UsedMoves ==
    ASSUME ControlOK, NEW i \in Slots, NEW e, cache' = [cache EXCEPT ![i] = e]
    PROVE  /\ Cardinality(Slots \ EmptySlots) \in 0 .. CACHE_SIZE
           /\ (e.sector = CACHE_SECTOR_EMPTY <=> cache[i].sector = CACHE_SECTOR_EMPTY) =>
                 EmptySlots' = EmptySlots
           /\ i \in EmptySlots /\ e.sector # CACHE_SECTOR_EMPTY =>
                 /\ Cardinality((Slots \ EmptySlots)') = Cardinality(Slots \ EmptySlots) + 1
                 /\ Cardinality(Slots \ EmptySlots) < CACHE_SIZE
  <1>1. cache'[i] = e /\ \A j \in Slots : j # i => cache'[j] = cache[j]
    BY DEF ControlOK
  <1>2. \A j \in Slots : j \in EmptySlots' <=> cache'[j].sector = CACHE_SECTOR_EMPTY
    BY DEF EmptySlots
  <1>3. \A j \in Slots : j \in EmptySlots <=> cache[j].sector = CACHE_SECTOR_EMPTY
    BY DEF EmptySlots
  <1>4. EmptySlots \subseteq Slots /\ EmptySlots' \subseteq Slots
    BY DEF EmptySlots
  <1>5. IsFiniteSet(Slots \ EmptySlots)
    BY Finiteness, FS_Subset
  <1>6. /\ Cardinality(Slots \ EmptySlots) \in Nat
        /\ Cardinality(Slots \ EmptySlots) <= CACHE_SIZE
        /\ Cardinality(Slots \ EmptySlots) = CACHE_SIZE => Slots = Slots \ EmptySlots
    BY <1>5, Finiteness, FS_Subset, FS_CardinalityType
  <1>7. (e.sector = CACHE_SECTOR_EMPTY <=> cache[i].sector = CACHE_SECTOR_EMPTY) =>
           EmptySlots' = EmptySlots
    BY ZenonT(40), <1>1, <1>2, <1>3, <1>4
  <1>8. ASSUME i \in EmptySlots, e.sector # CACHE_SECTOR_EMPTY
        PROVE  /\ Cardinality((Slots \ EmptySlots)') = Cardinality(Slots \ EmptySlots) + 1
               /\ Cardinality(Slots \ EmptySlots) < CACHE_SIZE
    <2>1. (Slots \ EmptySlots)' = (Slots \ EmptySlots) \cup {i}
      BY SMT, <1>1, <1>2, <1>3, <1>4, <1>8 DEF Slots
    <2>2. i \notin Slots \ EmptySlots
      BY <1>8
    <2>3. Cardinality((Slots \ EmptySlots) \cup {i}) = Cardinality(Slots \ EmptySlots) + 1
      BY <1>5, <2>2, FS_AddElement
    <2>4. Cardinality(Slots \ EmptySlots) # CACHE_SIZE
      BY <1>6, <2>2
    <2>5. CACHE_SIZE \in Nat
      BY CacheAssumption
    <2> QED
      BY SMT, <1>6, <2>1, <2>3, <2>4, <2>5
  <1>9. CACHE_SIZE \in Nat
    BY CacheAssumption
  <1> QED
    BY SMT, <1>6, <1>7, <1>8, <1>9

-----------------------------------------------------------------------------
(* The two kinds of steps preserve the control part of the invariant *)

RingOK ==
    ring \in [buffer : [Slots -> Sectors \cup {CACHE_SECTOR_EMPTY}], head : Slots, tail : Slots]

(* A step of a frame that takes no victim keeps the control part. *)
LEMMA FrameStepKeeps ==
    ASSUME CInv, NEW t \in Threads, NEW f, FrameStep(t, f),
           frame[t].op \notin VictimOps, f.op \notin VictimOps,
           lru' = lru, panic' = panic, table_lock' \in Threads \cup {NULL}, RingOK'
    PROVE  CInv'
  <1>1. ControlOK /\ Locking /\ LruInStep /\ NoAssert
    BY DEF CInv
  <1>2. /\ Locking' /\ frame' \in [Threads -> Frames]
        /\ \A u \in Threads : frame'[u].op # "scan" => frame'[u].i \in Slots
    BY <1>1, FrameMoves
  <1>3. ControlOK'
    BY <1>1, <1>2 DEF ControlOK, FrameStep, RingOK
  <1>4. Victims' = Victims
    BY <1>1, VictimsMove DEF FrameStep
  <1>5. EmptySlots' = EmptySlots
    BY DEF EmptySlots, FrameStep
  <1>6. LruInStep' /\ NoAssert'
    BY <1>1, <1>4, <1>5 DEF LruInStep, NoAssert
  <1> QED
    BY <1>2, <1>3, <1>6 DEF CInv

(* So does a step on an entry that keeps its sector. *)
LEMMA EntryStepKeeps ==
    ASSUME CInv, NEW t \in Threads, NEW i, NEW f, NEW e, EntryStep(t, i, f, e),
           e.sector = cache[i].sector,
           f.op \in VictimOps <=> frame[t].op \in VictimOps,
           lru' = lru, panic' = panic, table_lock' = table_lock, RingOK'
    PROVE  CInv'
  <1>1. ControlOK /\ Locking /\ LruInStep /\ NoAssert
    BY DEF CInv
  <1>2. /\ Locking' /\ cache' \in [Slots -> Entries] /\ frame' \in [Threads -> Frames]
        /\ \A u \in Threads : frame'[u].op # "scan" => frame'[u].i \in Slots
    BY <1>1, EntryMoves
  <1>3. ControlOK'
    BY <1>1, <1>2 DEF ControlOK, RingOK
  <1>4. Victims' = Victims
    BY <1>1, VictimsMove DEF EntryStep
  <1>5. EmptySlots' = EmptySlots
    BY ZenonT(40), <1>1, UsedMoves DEF EntryStep
  <1>6. LruInStep' /\ NoAssert'
    BY <1>1, <1>4, <1>5 DEF LruInStep, NoAssert
  <1> QED
    BY <1>2, <1>3, <1>6 DEF CInv

-----------------------------------------------------------------------------
(* The actions, one by one *)

(* A thread's frame and entry have their types. *)
LEMMA Here ==
    ASSUME CInv, NEW t \in Threads
    PROVE  /\ frame[t] \in Frames /\ frame[t].slot \in Slots /\ cache[frame[t].slot] \in Entries
           /\ frame[t].sector \in Sectors /\ frame[t].i \in 0 .. CACHE_SIZE
           /\ frame[t].op # "scan" => frame[t].i \in Slots
           /\ RingOK /\ table_lock \in Threads \cup {NULL}
           /\ cache \in [Slots -> Entries] /\ frame \in [Threads -> Frames]
  BY DEF CInv, ControlOK, Frames, RingOK

(* A frame with a new op that neither needs an entry nor leaves one. *)
LEMMA Elsewhere ==
    ASSUME CInv, NEW t \in Threads, NEW f \in Frames, f.op # "scan" => f.i \in Slots,
           f.op \notin Using, frame[t].op \notin Locked, frame[t].op # "evict",
           frame' = [frame EXCEPT ![t] = f], cache' = cache,
           lru' = lru, panic' = panic, table_lock' \in Threads \cup {NULL}, RingOK'
    PROVE  CInv'
  <1>1. f.op \notin Locked /\ f.op \notin Own /\ f.op \notin VictimOps
    BY DEF Using, Locked, Own, VictimOps
  <1>2. FrameStep(t, f) /\ frame[t].op \notin VictimOps
    BY <1>1 DEF FrameStep, FrameFits, Locked, VictimOps
  <1> QED
    BY <1>1, <1>2, FrameStepKeeps

(* A client enters cache_read or cache_write. *)
LEMMA CallStep ==
    ASSUME CInv, NEW t \in Threads, Call(t)
    PROVE  CInv'
  <1>1. PICK s \in Sectors, parts \in {{}} \cup (IF Partial THEN SUBSET Parts ELSE {Parts}),
             v \in Vals :
           frame' = [frame EXCEPT ![t] = [Idle EXCEPT !.op = "lookup", !.sector = s,
                                                      !.parts = parts, !.val = v]]
    BY DEF Call
  <1> DEFINE f == [Idle EXCEPT !.op = "lookup", !.sector = s, !.parts = parts, !.val = v]
  <1>2. f \in Frames /\ f.op = "lookup" /\ f.i \in Slots
    BY IdleOK DEF Frames, Ops
  <1> HIDE DEF f
  <1>3. frame' = [frame EXCEPT ![t] = f]
    BY <1>1 DEF f
  <1> QED
    BY <1>2, <1>3, Here, Elsewhere DEF Call, At, Using, Locked, RingOK

(* sector_to_cache under the table's lock. *)
LEMMA LookupStep ==
    ASSUME CInv, NEW t \in Threads, Lookup(t)
    PROVE  CInv'
  <1> DEFINE n == sector_to_cache(frame[t].sector)
             f == [frame[t] EXCEPT !.op = IF n = NULL THEN "load" ELSE "enter",
                                   !.slot = IF n = NULL THEN 0 ELSE n]
  <1>1. frame' = [frame EXCEPT ![t] = f] /\ frame[t].op = "lookup"
    BY Here DEF Lookup, At
  <1>2. n # NULL => n \in Slots /\ cache[n].sector # CACHE_SECTOR_EMPTY
    BY SMT, LookupFinds, Here DEF Sectors, CACHE_SECTOR_EMPTY
  <1>3. 0 \in Slots
    BY SMT, CacheAssumption DEF Slots
  <1>4. /\ f \in Frames /\ f.i = frame[t].i
        /\ IF n = NULL THEN f.op = "load" ELSE f.op = "enter" /\ f.slot = n
    BY ZenonT(40), <1>2, <1>3, Here DEF Frames, Ops
  <1> HIDE DEF n, f
  <1>5. FrameFits(t, f, cache[f.slot])
    BY <1>1, <1>2, <1>4, Here DEF FrameFits, Using, Locked, Own
  <1>6. /\ f.op \notin Locked /\ frame[t].op \notin Locked
        /\ frame[t].op \notin VictimOps /\ f.op \notin VictimOps
    BY <1>1, <1>4 DEF Locked, VictimOps
  <1>7. FrameStep(t, f)
    BY <1>1, <1>5, <1>6 DEF FrameStep, Lookup
  <1> QED
    BY <1>6, <1>7, Here, FrameStepKeeps DEF Lookup, RingOK

(* The lock of the entry found is taken. *)
LEMMA EnterStep ==
    ASSUME CInv, NEW t \in Threads, Enter(t)
    PROVE  CInv'
  <1> DEFINE i == frame[t].slot
             f == To(frame[t], Loaded(t))
             e == [cache[i] EXCEPT !.lock = t]
  <1>1. /\ frame' = [frame EXCEPT ![t] = f] /\ cache' = [cache EXCEPT ![i] = e]
        /\ frame[t].op = "enter" /\ cache[i].lock = NULL
    BY Here DEF Enter, At, Goto, To
  <1>2. e \in Entries /\ e.lock = t /\ e.sector = cache[i].sector /\ e.mode = cache[i].mode
    BY Here DEF Entries
  <1>3. /\ f \in Frames /\ f.slot = i /\ f.i = frame[t].i
        /\ f.op \in {"verify", "ra_release"}
    BY SMT, Here, FrameOp DEF Loaded, Ops
  <1>4. i \in Slots
    BY Here
  <1> HIDE DEF f, e, i
  <1>5. cache'[i] = e
    BY <1>1, <1>4, Here
  <1>6. e.sector # CACHE_SECTOR_EMPTY /\ e.mode = "UNLOCK"
    BY SMT, <1>1, <1>2, <1>4 DEF CInv, Locking, Using, i
  <1>7. FrameFits(t, f, cache'[f.slot])
    BY <1>1, <1>2, <1>3, <1>5, <1>6, Here DEF FrameFits, Own
  <1>8. EntryStep(t, i, f, e)
    BY <1>1, <1>2, <1>3, <1>4, <1>6, <1>7 DEF EntryStep, Locked
  <1> QED
    BY <1>1, <1>2, <1>3, <1>8, Here, EntryStepKeeps DEF Enter, RingOK, VictimOps

(* The entry still holds the sector, or the search begins again. *)
LEMMA VerifyStep ==
    ASSUME CInv, NEW t \in Threads, Verify(t)
    PROVE  CInv'
  <1> DEFINE i == frame[t].slot
  <1>1. i \in Slots /\ frame[t].op = "verify" /\ cache[i].lock = t
        /\ cache[i].sector # CACHE_SECTOR_EMPTY
    BY Here DEF Verify, At, CInv, Locking, Locked, Using
  <1>2. CASE cache[i].sector = frame[t].sector
    <2> DEFINE f == To(frame[t], "begin")
    <2>1. frame' = [frame EXCEPT ![t] = f] /\ cache' = cache
      BY <1>2, Here DEF Verify, Goto, To
    <2>2. /\ f \in Frames /\ f.op = "begin" /\ f.slot = i /\ f.i = frame[t].i
          /\ f.sector = frame[t].sector
      BY SMT, Here, FrameOp DEF Ops
    <2> HIDE DEF f
    <2>3. FrameFits(t, f, cache[f.slot])
      BY <1>1, <1>2, <2>2, Here DEF FrameFits
    <2>4. FrameStep(t, f)
      BY <1>1, <2>1, <2>2, <2>3 DEF FrameStep, Locked
    <2> QED
      BY <1>1, <2>2, <2>4, Here, FrameStepKeeps DEF Verify, RingOK, VictimOps
  <1>3. CASE cache[i].sector # frame[t].sector
    <2> DEFINE f == To(frame[t], "lookup")
               e == [cache[i] EXCEPT !.lock = NULL]
    <2>1. frame' = [frame EXCEPT ![t] = f] /\ cache' = [cache EXCEPT ![i] = e]
      BY <1>3, Here DEF Verify, Goto, To
    <2>2. f \in Frames /\ f.op = "lookup" /\ f.i = frame[t].i
      BY SMT, Here, FrameOp DEF Ops
    <2>3. /\ e \in Entries /\ e.lock = NULL /\ e.sector = cache[i].sector
          /\ e.mode = cache[i].mode
      BY Here DEF Entries
    <2> HIDE DEF f, e
    <2>4. e.mode = "UNLOCK"
      BY <1>1, <2>3 DEF CInv, Locking
    <2>5. EntryStep(t, i, f, e)
      BY <1>1, <2>1, <2>2, <2>3, <2>4, Here DEF EntryStep, FrameFits, Locked, Using, Own
    <2>6. lru' = lru /\ panic' = panic /\ table_lock' = table_lock /\ ring' = ring
      BY DEF Verify
    <2>7. RingOK'
      BY <2>6, Here DEF RingOK
    <2>8. f.op \notin VictimOps /\ frame[t].op \notin VictimOps
      BY <1>1, <2>2 DEF VictimOps
    <2> QED
      BY <2>3, <2>5, <2>6, <2>7, <2>8, EntryStepKeeps
  <1> QED
    BY <1>2, <1>3

(* The lock of the victim is taken. *)
LEMMA EvictStep ==
    ASSUME CInv, NEW t \in Threads, Evict(t)
    PROVE  CInv'
  <1> DEFINE i == frame[t].slot
             f == To(frame[t], "evict_table")
             e == [cache[i] EXCEPT !.lock = t]
  <1>1. /\ frame' = [frame EXCEPT ![t] = f] /\ cache' = [cache EXCEPT ![i] = e]
        /\ frame[t].op = "evict" /\ cache[i].lock = NULL
    BY Here DEF Evict, At, Goto, To
  <1>2. e \in Entries /\ e.lock = t /\ e.sector = cache[i].sector /\ e.mode = cache[i].mode
    BY Here DEF Entries
  <1>3. f \in Frames /\ f.slot = i /\ f.i = frame[t].i /\ f.op = "evict_table"
    BY SMT, Here, FrameOp DEF Ops
  <1>4. i \in Slots
    BY Here
  <1> HIDE DEF f, e, i
  <1>5. cache'[i] = e
    BY <1>1, <1>4, Here
  <1>6. e.sector # CACHE_SECTOR_EMPTY /\ e.mode = "UNLOCK"
    BY SMT, <1>1, <1>2, <1>4 DEF CInv, Locking, Using, i
  <1>7. FrameFits(t, f, cache'[f.slot])
    BY <1>1, <1>2, <1>3, <1>5, <1>6, Here DEF FrameFits, Own
  <1>8. EntryStep(t, i, f, e)
    BY <1>1, <1>2, <1>3, <1>4, <1>6, <1>7 DEF EntryStep, Locked
  <1> QED
    BY <1>1, <1>2, <1>3, <1>8, Here, EntryStepKeeps DEF Evict, RingOK, VictimOps

(* A step of a thread inside its entry, which it keeps or releases. *)
LEMMA Inside ==
    ASSUME CInv, NEW t \in Threads, frame[t].op \in Locked \ VictimOps,
           NEW f \in Frames, f.i \in Slots, f.op \notin {"scan", "enter", "evict", "evict_table"},
           NEW e \in Entries, e.sector = cache[frame[t].slot].sector,
           f.op \in Own => f.sector = frame[t].sector /\ frame[t].op \in Own,
           IF f.op \in Locked THEN f.slot = frame[t].slot /\ e.lock = t ELSE e.lock = NULL,
           e.mode # "UNLOCK" => f.op = "access",
           frame' = [frame EXCEPT ![t] = f], cache' = [cache EXCEPT ![frame[t].slot] = e],
           lru' = lru, panic' = panic, table_lock' = table_lock, RingOK'
    PROVE  CInv'
  <1> DEFINE i == frame[t].slot
  <1>1. /\ i \in Slots /\ cache[i].lock = t /\ cache[i].sector # CACHE_SECTOR_EMPTY
        /\ frame[t].op \in Own => cache[i].sector = frame[t].sector
    BY Here DEF CInv, Locking, Using
  <1>2. cache'[i] = e
    BY <1>1, Here
  <1>3. f.op \in Using => f.op \in Locked
    BY DEF Using
  <1>4. f.op \in Own => f.op \in Locked
    BY DEF Own, Locked
  <1>5. FrameFits(t, f, cache'[f.slot])
    BY <1>1, <1>2, <1>3, <1>4 DEF FrameFits
  <1>6. EntryStep(t, i, f, e)
    BY <1>1, <1>5 DEF EntryStep
  <1> QED
    BY <1>6, EntryStepKeeps DEF VictimOps

(* The victim's old contents go to the disk if they are dirty. *)
LEMMA WriteBackStep ==
    ASSUME CInv, NEW t \in Threads, WriteBack(t)
    PROVE  CInv'
  <1> DEFINE i == frame[t].slot
             op == IF Writing(t) THEN Loaded(t) ELSE "fill"
             f == To(frame[t], op)
             e == [cache[i] EXCEPT !.dirty = FALSE, !.access = FALSE, !.mode = "UNLOCK"]
  <1>1. /\ frame' = [frame EXCEPT ![t] = f] /\ cache' = [cache EXCEPT ![i] = e]
        /\ frame[t].op = "write_back" /\ lru' = lru /\ panic' = panic
        /\ table_lock' = table_lock /\ ring' = ring
    BY Here DEF WriteBack, At, Goto, To
  <1>2. op \in {"verify", "ra_release", "fill"}
    BY DEF Loaded
  <1> HIDE DEF op
  <1>3. /\ e \in Entries /\ e.lock = cache[i].lock /\ e.sector = cache[i].sector
        /\ e.mode = "UNLOCK"
    BY Here DEF Entries
  <1>4. /\ f \in Frames /\ f.slot = i /\ f.i = frame[t].i /\ f.op = op
        /\ f.sector = frame[t].sector
    BY SMT, <1>2, Here, FrameOp DEF Ops
  <1> HIDE DEF e, f
  <1>5. cache[i].lock = t
    BY <1>1 DEF CInv, Locking, Locked
  <1> QED
    BY <1>1, <1>2, <1>3, <1>4, <1>5, Here, Inside DEF Locked, Own, VictimOps, RingOK

(* The sector is read from the disk. *)
LEMMA FillStep ==
    ASSUME CInv, DataOK, NEW t \in Threads, Fill(t)
    PROVE  CInv'
  <1> DEFINE i == frame[t].slot
             f == To(frame[t], Loaded(t))
             e == [cache[i] EXCEPT !.data = disk[frame[t].sector]]
  <1>1. /\ frame' = [frame EXCEPT ![t] = f] /\ cache' = [cache EXCEPT ![i] = e]
        /\ frame[t].op = "fill" /\ lru' = lru /\ panic' = panic
        /\ table_lock' = table_lock /\ ring' = ring
    BY Here DEF Fill, At, Goto, To
  <1>2. disk[frame[t].sector] \in Data
    BY Here DEF DataOK
  <1>3. /\ e \in Entries /\ e.lock = cache[i].lock /\ e.sector = cache[i].sector
        /\ e.mode = cache[i].mode
    BY <1>2, Here DEF Entries
  <1>4. f \in Frames /\ f.slot = i /\ f.i = frame[t].i /\ f.op \in {"verify", "ra_release"}
    BY SMT, Here, FrameOp DEF Ops, Loaded
  <1> HIDE DEF e, f
  <1>5. cache[i].lock = t /\ cache[i].mode = "UNLOCK"
    BY <1>1, Here DEF CInv, Locking, Locked
  <1> QED
    BY <1>1, <1>3, <1>4, <1>5, Here, Inside DEF Locked, Own, VictimOps, RingOK

(* The mode of the entry leaves UNLOCK. *)
LEMMA BeginStep ==
    ASSUME CInv, NEW t \in Threads, Begin(t)
    PROVE  CInv'
  <1> DEFINE i == frame[t].slot
             f == To(frame[t], "access")
             e == [cache[i] EXCEPT !.mode = IF Writing(t) THEN "WRITE_LOCK" ELSE "READ_LOCK"]
  <1>1. frame[t].op = "begin" /\ cache[i].lock = t /\ cache[i].mode = "UNLOCK"
    BY Here DEF Begin, At, CInv, Locking, Locked
  <1>2. /\ frame' = [frame EXCEPT ![t] = f] /\ cache' = [cache EXCEPT ![i] = e]
        /\ lru' = lru /\ panic' = panic /\ table_lock' = table_lock /\ ring' = ring
    BY <1>1, Here DEF Begin, Goto, To
  <1>3. e \in Entries /\ e.lock = cache[i].lock /\ e.sector = cache[i].sector
    BY Here DEF Entries
  <1>4. /\ f \in Frames /\ f.slot = i /\ f.i = frame[t].i /\ f.op = "access"
        /\ f.sector = frame[t].sector
    BY SMT, Here, FrameOp DEF Ops
  <1> HIDE DEF e, f
  <1> QED
    BY <1>1, <1>2, <1>3, <1>4, Here, Inside DEF Locked, Own, VictimOps, RingOK

(* What a client leaves in the part it writes, and the ring after it. *)
LEMMA WrittenOK ==
    ASSUME CInv, NEW t \in Threads, NEW data \in Data
    PROVE  Written(t, data) \in Data
  BY Here DEF Written, Data, Frames

(* The ring stays a ring when a sector is put into it. *)
LEMMA AheadOK ==
    ASSUME RingOK, NEW s \in Sectors
    PROVE  Ahead(s) \in [buffer : [Slots -> Sectors \cup {CACHE_SECTOR_EMPTY}],
                         head : Slots, tail : Slots]
  <1>1. (s + 1) % NSectors \in Sectors
    BY SMT, CacheAssumption DEF Sectors
  <1>2. (ring.tail + 1) % CACHE_SIZE \in Slots
    BY SMT, CacheAssumption DEF Slots, RingOK
  <1> QED
    BY <1>1, <1>2 DEF Ahead, RingOK

(* The client copies, and gives back the mode and the lock. *)
LEMMA AccessStep ==
    ASSUME CInv, NEW t \in Threads, Access(t)
    PROVE  CInv'
  <1> DEFINE i == frame[t].slot
             e == [cache[i] EXCEPT !.data = Written(t, @), !.access = TRUE,
                                   !.dirty = @ \/ Writing(t), !.lock = NULL, !.mode = "UNLOCK"]
  <1>1. /\ frame' = [frame EXCEPT ![t] = Idle] /\ cache' = [cache EXCEPT ![i] = e]
        /\ frame[t].op = "access" /\ lru' = lru /\ panic' = panic
        /\ table_lock' = table_lock /\ ring' = Ahead(frame[t].sector)
    BY Here DEF Access, At
  <1>2. cache[i].data \in Data /\ cache[i].dirty \in BOOLEAN /\ Writing(t) \in BOOLEAN
    BY Here DEF Entries, Writing
  <1>3. Written(t, cache[i].data) \in Data
    BY <1>2, WrittenOK
  <1>4. e \in Entries /\ e.lock = NULL /\ e.sector = cache[i].sector /\ e.mode = "UNLOCK"
    BY ZenonT(40), <1>2, <1>3, Here DEF Entries
  <1>5. RingOK'
    BY <1>1, Here, AheadOK DEF RingOK
  <1> HIDE DEF e
  <1> QED
    BY <1>1, <1>4, <1>5, Here, IdleOK, Inside DEF Locked, Own, VictimOps

(* read_ahead gives back the entry it has filled. *)
LEMMA ReadAheadReleaseStep ==
    ASSUME CInv, NEW t \in Threads, ReadAheadRelease(t)
    PROVE  CInv'
  <1> DEFINE i == frame[t].slot
             f == To(frame[t], "ra_next")
             e == [cache[i] EXCEPT !.lock = NULL]
  <1>1. /\ frame' = [frame EXCEPT ![t] = f] /\ cache' = [cache EXCEPT ![i] = e]
        /\ frame[t].op = "ra_release" /\ lru' = lru /\ panic' = panic
        /\ table_lock' = table_lock /\ ring' = ring
    BY Here DEF ReadAheadRelease, At, Goto, To
  <1>2. /\ e \in Entries /\ e.lock = NULL /\ e.sector = cache[i].sector
        /\ e.mode = cache[i].mode
    BY Here DEF Entries
  <1>3. f \in Frames /\ f.i = frame[t].i /\ f.op = "ra_next"
    BY SMT, Here, FrameOp DEF Ops
  <1> HIDE DEF e, f
  <1>4. cache[i].mode = "UNLOCK"
    BY <1>1, Here DEF CInv, Locking, Locked
  <1> QED
    BY <1>1, <1>2, <1>3, <1>4, Here, Inside DEF Locked, Own, VictimOps, RingOK

(* read_ahead looks at the next sector of the ring. *)
LEMMA ReadAheadScanStep ==
    ASSUME CInv, NEW t \in Threads, ReadAheadScan(t)
    PROVE  CInv'
  <1> DEFINE i == frame[t].i
  <1>1. frame[t].op = "ra_scan" /\ frame[t].op \notin Locked /\ i \in Slots /\ lru' = lru
        /\ cache' = cache /\ panic' = panic
    BY Here DEF ReadAheadScan, At, Locked
  <1>2. ring.head \in Slots /\ ring.tail \in Slots /\ (i + 1) % CACHE_SIZE \in Slots
    BY SMT, <1>1, Here, CacheAssumption DEF RingOK, Slots
  <1>3. CASE i = ring.tail
    <2>1. /\ frame' = [frame EXCEPT ![t] = Idle] /\ table_lock' \in Threads \cup {NULL}
          /\ ring' = [ring EXCEPT !.head = ring.tail]
      BY <1>3 DEF ReadAheadScan
    <2>2. RingOK'
      BY <1>2, <2>1, Here DEF RingOK
    <2> QED
      BY <1>1, <2>1, <2>2, IdleOK, Elsewhere DEF Using, Locked
  <1>4. CASE i # ring.tail /\ sector_to_cache(ring.buffer[i]) # NULL
    <2> DEFINE f == [frame[t] EXCEPT !.i = (i + 1) % CACHE_SIZE]
    <2>1. frame' = [frame EXCEPT ![t] = f] /\ table_lock' = table_lock /\ ring' = ring
      BY <1>4, Here DEF ReadAheadScan
    <2>2. (i + 1) % CACHE_SIZE \in 0 .. CACHE_SIZE
      BY SMT, <1>2, CacheAssumption DEF Slots
    <2>3. f \in Frames /\ f.op = "ra_scan" /\ f.i \in Slots
      BY <1>1, <1>2, <2>2, Here DEF Frames
    <2> HIDE DEF f
    <2> QED
      BY <1>1, <2>1, <2>3, Here, Elsewhere DEF Using, Locked, RingOK
  <1>5. CASE i # ring.tail /\ sector_to_cache(ring.buffer[i]) = NULL
    <2> DEFINE f == [frame[t] EXCEPT !.op = "ra_load", !.sector = i]
    <2>1. frame' = [frame EXCEPT ![t] = f] /\ table_lock' = table_lock /\ ring' = ring
      BY <1>5, Here DEF ReadAheadScan
    <2>2. i \in Sectors
      BY SMT, <1>1, CacheAssumption DEF Slots, Sectors
    <2>3. f \in Frames /\ f.op = "ra_load" /\ f.i \in Slots
      BY ZenonT(40), <1>1, <2>2, Here DEF Frames, Ops
    <2> HIDE DEF f
    <2> QED
      BY <1>1, <2>1, <2>3, Here, Elsewhere DEF Using, Locked, RingOK
  <1> QED
    BY <1>3, <1>4, <1>5

(* The steps that begin a pass of a daemon, go on with it or end it. *)
LEMMA DaemonSteps ==
    ASSUME CInv, NEW t \in Threads,
           \/ ReadAheadStart(t) \/ ReadAheadNext(t) \/ WriteBehindStart(t) \/ FlushStart(t)
           \/ Scan(t) \/ ScanEnd(t)
    PROVE  CInv'
  <1>1. /\ frame[t].op \in {"idle", "ra_next", "scan"} /\ lru' = lru /\ cache' = cache
        /\ panic' = panic /\ ring' = ring /\ table_lock' \in Threads \cup {NULL}
    BY Here DEF ReadAheadStart, ReadAheadNext, WriteBehindStart, FlushStart, Scan, ScanEnd, At
  <1>2. frame[t].op \notin Locked /\ frame[t].op # "evict"
    BY <1>1 DEF Locked
  <1>3. SUFFICES \E f \in Frames : /\ frame' = [frame EXCEPT ![t] = f] /\ f.op \notin Using
                                   /\ f.op # "scan" => f.i \in Slots
    BY <1>1, <1>2, Here, Elsewhere DEF RingOK
  <1>4. CASE ReadAheadStart(t)
    <2> DEFINE f == [frame[t] EXCEPT !.op = "ra_scan", !.i = ring.head]
    <2>1. ring.head \in Slots
      BY Here DEF RingOK
    <2>2. ring.head \in 0 .. CACHE_SIZE
      BY SMT, <2>1, CacheAssumption DEF Slots
    <2>3. f \in Frames /\ f.op = "ra_scan" /\ f.i \in Slots
      BY ZenonT(40), <2>1, <2>2, Here DEF Frames, Ops
    <2> QED
      BY <1>4, <2>3, Here DEF ReadAheadStart, Using, Locked
  <1>5. CASE ReadAheadNext(t)
    <2> DEFINE n == (frame[t].i + 1) % CACHE_SIZE
               f == [Idle EXCEPT !.op = "ra_scan", !.i = n]
    <2>1. n \in Slots /\ n \in 0 .. CACHE_SIZE
      BY SMT, Here, CacheAssumption DEF Slots
    <2>2. f \in Frames /\ f.op = "ra_scan" /\ f.i \in Slots
      BY <2>1, IdleOK DEF Frames, Ops
    <2> QED
      BY <1>5, <2>2 DEF ReadAheadNext, Using, Locked
  <1>6. CASE WriteBehindStart(t) \/ FlushStart(t)
    <2> DEFINE f == To(frame[t], "scan")
    <2>1. f \in Frames /\ f.op = "scan"
      BY Here, FrameOp DEF Ops
    <2> QED
      BY <1>6, <2>1, Here DEF WriteBehindStart, FlushStart, Goto, Using, Locked, To
  <1>7. CASE Scan(t)
    <2> DEFINE f == To(frame[t], "clean")
               g == [frame[t] EXCEPT !.i = @ + 1]
    <2>1. frame[t].i \in Slots /\ frame[t].i + 1 \in 0 .. CACHE_SIZE /\ frame[t].op = "scan"
      BY SMT, <1>7, Here, CacheAssumption DEF Scan, Slots, At
    <2>2. f \in Frames /\ f.op = "clean" /\ f.i \in Slots
      BY SMT, <2>1, Here, FrameOp DEF Ops
    <2>3. g \in Frames /\ g.op = "scan"
      BY SMT, <2>1, Here DEF Frames, Ops
    <2>4. frame' = [frame EXCEPT ![t] = f] \/ frame' = [frame EXCEPT ![t] = g]
      BY <1>7, Here DEF Scan, Goto, To
    <2> HIDE DEF f, g
    <2> QED
      BY <2>2, <2>3, <2>4 DEF Using, Locked
  <1>8. CASE ScanEnd(t)
    BY <1>8, IdleOK DEF ScanEnd, Using, Locked
  <1> QED
    BY <1>4, <1>5, <1>6, <1>7, <1>8

(* write_behind or flush_cache writes a dirty entry to the disk. *)
LEMMA CleanStep ==
    ASSUME CInv, NEW t \in Threads, Clean(t)
    PROVE  CInv'
  <1> DEFINE i == frame[t].i
             f == [frame[t] EXCEPT !.op = "scan", !.i = @ + 1]
             e == [cache[i] EXCEPT !.dirty = FALSE]
  <1>1. /\ frame' = [frame EXCEPT ![t] = f] /\ cache' = [cache EXCEPT ![i] = e]
        /\ frame[t].op = "clean" /\ cache[i].lock = NULL /\ lru' = lru /\ panic' = panic
        /\ table_lock' = table_lock /\ ring' = ring
    BY Here DEF Clean, At
  <1>2. i \in Slots /\ i + 1 \in 0 .. CACHE_SIZE /\ cache[i] \in Entries
    BY SMT, <1>1, Here, CacheAssumption DEF Slots
  <1>3. /\ e \in Entries /\ e.lock = NULL /\ e.sector = cache[i].sector
        /\ e.mode = cache[i].mode
    BY <1>1, <1>2 DEF Entries
  <1>4. f \in Frames /\ f.op = "scan"
    BY ZenonT(40), <1>2, Here DEF Frames, Ops
  <1> HIDE DEF e, f
  <1>5. e.mode = "UNLOCK"
    BY <1>1, <1>2, <1>3 DEF CInv, Locking
  <1>6. EntryStep(t, i, f, e)
    BY <1>1, <1>2, <1>3, <1>4, <1>5 DEF EntryStep, FrameFits, Locked, Using, Own
  <1> QED
    BY <1>1, <1>3, <1>4, <1>6, Here, EntryStepKeeps DEF RingOK, VictimOps

(* An ASSERT other than those of NoAssert stops the kernel. *)
LEMMA PanicStep ==
    ASSUME CInv, NEW why, Panic(why), why \in {"lru_evict", "read_ahead"}
    PROVE  CInv'
  BY SMT DEF CInv, ControlOK, Locking, LruInStep, Victims, EmptySlots, NoAssert, Panic

(* An empty entry is free, and there is room in the queue while there is   *)
(* an empty entry or a victim.                                             *)
LEMMA EmptyFree ==
    ASSUME CInv, NEW i \in EmptySlots
    PROVE  /\ cache[i].lock = NULL /\ cache[i].mode = "UNLOCK"
           /\ Len(lru) \in Nat /\ Len(lru) < CACHE_SIZE
  <1>1. i \in Slots /\ cache[i].sector = CACHE_SECTOR_EMPTY /\ cache[i] \in Entries
    BY DEF EmptySlots, CInv, ControlOK
  <1>2. cache[i].lock \in Threads \cup {NULL}
    BY <1>1 DEF Entries
  <1>3. cache[i].lock = NULL
    BY <1>1, <1>2 DEF CInv, Locking, Using
  <1>4. cache[i].mode = "UNLOCK"
    BY <1>1, <1>3 DEF CInv, Locking
  <1>5. Len(lru) \in Nat
    BY SMT DEF CInv, ControlOK
  <1>6. Cardinality(Victims) \in Nat
    BY Finiteness, FS_CardinalityType
  <1>7. Cardinality(Slots \ EmptySlots) < CACHE_SIZE
    <2>1. Slots \ EmptySlots # Slots
      BY <1>1
    <2>2. /\ Cardinality(Slots \ EmptySlots) <= CACHE_SIZE
          /\ CACHE_SIZE = Cardinality(Slots \ EmptySlots) => Slots = Slots \ EmptySlots
      BY Finiteness, FS_Subset
    <2>3. Cardinality(Slots \ EmptySlots) \in Nat
      BY Finiteness, FS_Subset, FS_CardinalityType
    <2> QED
      BY SMT, <2>1, <2>2, <2>3, CacheAssumption
  <1>8. Cardinality(Slots \ EmptySlots) = Len(lru) + Cardinality(Victims)
    BY DEF CInv, LruInStep
  <1> QED
    BY SMT, <1>3, <1>4, <1>5, <1>6, <1>7, <1>8, CacheAssumption

(* While a thread has a victim the queue has room for its sector. *)
LEMMA VictimRoom ==
    ASSUME CInv, NEW t \in Threads, frame[t].op \in VictimOps
    PROVE  Len(lru) \in Nat /\ Len(lru) < CACHE_SIZE
  <1>1. Len(lru) \in Nat
    BY SMT DEF CInv, ControlOK
  <1>2. Cardinality(Victims) \in Nat
    BY Finiteness, FS_CardinalityType
  <1>3. Cardinality(Victims) # 0
    <2>1. t \in Victims
      BY DEF Victims, VictimOps
    <2> QED
      BY <2>1, Finiteness, FS_EmptySet
  <1>4. Cardinality(Slots \ EmptySlots) <= CACHE_SIZE
    BY Finiteness, FS_Subset
  <1>5. Cardinality(Slots \ EmptySlots) = Len(lru) + Cardinality(Victims)
    BY DEF CInv, LruInStep
  <1> QED
    BY SMT, <1>1, <1>2, <1>3, <1>4, <1>5, CacheAssumption

(* get_free_cache takes an empty entry, or a victim from the queue. *)
LEMMA GetFreeStep ==
    ASSUME CInv, NEW t \in Threads, frame[t].op \in {"load", "ra_load"}, get_free_cache(t)
    PROVE  CInv'
  <1>1. /\ ControlOK /\ Locking /\ LruInStep /\ NoAssert /\ lru \in Seq(Sectors)
        /\ frame[t].op \notin Locked /\ frame[t].op \notin VictimOps
    BY DEF CInv, ControlOK, Locked, VictimOps
  <1>2. CASE EmptySlots # {}
    <2> DEFINE i == Min(EmptySlots)
               op == IF Writing(t) THEN Loaded(t) ELSE "fill"
               f == [frame[t] EXCEPT !.slot = i, !.op = op]
               e == [cache[i] EXCEPT !.lock = t, !.sector = frame[t].sector]
    <2>1. i \in EmptySlots
      BY <1>2, MinSlot DEF EmptySlots
    <2>2. i \in Slots /\ cache[i] \in Entries
      BY <2>1, Here DEF EmptySlots
    <2>3. cache[i].lock = NULL /\ cache[i].mode = "UNLOCK" /\ ~ (Len(lru) >= CACHE_SIZE)
      BY SMT, <2>1, EmptyFree, CacheAssumption
    <2>4. /\ lru' = Append(lru, frame[t].sector) /\ table_lock' = NULL /\ ring' = ring
          /\ panic' = panic
          /\ cache' = [cache EXCEPT ![i].lock = t, ![i].sector = frame[t].sector]
          /\ frame' = [frame EXCEPT ![t].slot = i, ![t].op = op]
      BY <1>2, <2>3 DEF get_free_cache
    <2>5. op \in {"verify", "ra_release", "fill"}
      BY DEF Loaded
    <2> HIDE DEF i, op
    <2>6. frame' = [frame EXCEPT ![t] = f] /\ cache' = [cache EXCEPT ![i] = e]
      BY <2>2, <2>4, Here
    <2>7. /\ e \in Entries /\ e.lock = t /\ e.sector = frame[t].sector
          /\ e.mode = cache[i].mode
      BY <2>2, Here DEF Entries
    <2>8. /\ f \in Frames /\ f.slot = i /\ f.i = frame[t].i /\ f.op = op
          /\ f.sector = frame[t].sector
      BY ZenonT(40), <2>2, <2>5, Here DEF Frames, Ops
    <2> HIDE DEF e, f
    <2>9. e.sector # CACHE_SECTOR_EMPTY
      BY SMT, <2>7, Here DEF Sectors, CACHE_SECTOR_EMPTY
    <2>10. cache'[f.slot] = e
      BY <2>2, <2>6, <2>8, Here
    <2>11. f.op \in Locked /\ f.op \notin VictimOps /\ f.op # "scan"
      BY <2>5, <2>8 DEF Locked, VictimOps
    <2>12. EntryStep(t, i, f, e)
      BY <1>1, <2>2, <2>3, <2>6, <2>7, <2>8, <2>9, <2>10, <2>11, Here DEF EntryStep, FrameFits
    <2>13. /\ Locking' /\ cache' \in [Slots -> Entries] /\ frame' \in [Threads -> Frames]
           /\ \A u \in Threads : frame'[u].op # "scan" => frame'[u].i \in Slots
      BY <1>1, <2>12, EntryMoves
    <2>14. lru' \in Seq(Sectors) /\ Len(lru') = Len(lru) + 1
      BY SMT, <1>1, <2>4, Here
    <2>15. ControlOK'
      BY <1>1, <2>4, <2>13, <2>14 DEF ControlOK
    <2>16. Victims' = Victims
      BY <1>1, <2>6, <2>11, VictimsMove
    <2>17. Cardinality((Slots \ EmptySlots)') = Cardinality(Slots \ EmptySlots) + 1
      BY <1>1, <2>1, <2>2, <2>6, <2>9, UsedMoves
    <2>18. Len(lru) \in Nat /\ Cardinality(Victims) \in Nat
      BY <2>1, EmptyFree, Finiteness, FS_CardinalityType
    <2>19. LruInStep'
      BY SMT, <1>1, <2>14, <2>16, <2>17, <2>18 DEF LruInStep
    <2>20. NoAssert'
      BY <1>1, <2>4 DEF NoAssert
    <2> QED
      BY <2>13, <2>15, <2>19, <2>20 DEF CInv
  <1>3. CASE EmptySlots = {} /\ lru = <<>>
    <2>1. CASE t = "read_ahead"
      BY <1>3, <2>1, PanicStep DEF get_free_cache
    <2>2. CASE t # "read_ahead"
      <3> DEFINE f == To(frame[t], "lookup")
      <3>1. /\ frame' = [frame EXCEPT ![t] = f] /\ cache' = cache /\ lru' = lru
            /\ panic' = panic /\ table_lock' = NULL /\ ring' = ring
        BY <1>3, <2>2, Here DEF get_free_cache, Goto, To
      <3>2. f \in Frames /\ f.op = "lookup" /\ f.i = frame[t].i
        BY SMT, Here, FrameOp DEF Ops
      <3> HIDE DEF f
      <3> QED
        BY <1>1, <3>1, <3>2, Here, Elsewhere DEF Using, Locked, RingOK
    <2> QED
      BY <2>1, <2>2
  <1>4. CASE EmptySlots = {} /\ lru # <<>> /\ sector_to_cache(Head(lru)) = NULL
    BY <1>4, PanicStep DEF get_free_cache
  <1>5. CASE EmptySlots = {} /\ lru # <<>> /\ sector_to_cache(Head(lru)) # NULL
    <2> DEFINE i == sector_to_cache(Head(lru))
               f == ToSlot(frame[t], "evict", i)
    <2>1. /\ frame' = [frame EXCEPT ![t] = f] /\ cache' = cache /\ lru' = Tail(lru)
          /\ panic' = panic /\ table_lock' = NULL /\ ring' = ring
      BY <1>5, Here DEF get_free_cache, ToSlot
    <2>2. i \in Slots /\ cache[i].sector # CACHE_SECTOR_EMPTY
      BY <1>5, LookupFinds DEF EmptySlots
    <2> HIDE DEF i
    <2>3. f \in Frames /\ f.op = "evict" /\ f.slot = i /\ f.i = frame[t].i
      <3>1. frame[t] \in Frames /\ "evict" \in Ops
        BY Here DEF Ops
      <3> QED
        BY SMT, <2>2, <3>1, FrameSlot
    <2> HIDE DEF f
    <2>4. f.op \in VictimOps /\ f.op \notin Locked
      BY <2>3 DEF VictimOps, Locked
    <2>5. FrameFits(t, f, cache[f.slot])
      BY <1>1, <2>2, <2>3, <2>4, Here DEF FrameFits, Own
    <2>6. FrameStep(t, f)
      BY <1>1, <2>1, <2>4, <2>5 DEF FrameStep, Locked
    <2>7. /\ Locking' /\ frame' \in [Threads -> Frames]
          /\ \A u \in Threads : frame'[u].op # "scan" => frame'[u].i \in Slots
      BY <1>1, <2>6, FrameMoves
    <2>8. lru' \in Seq(Sectors) /\ Len(lru') = Len(lru) - 1 /\ Len(lru) \in Nat
      BY SMT, <1>1, <1>5, <2>1
    <2>9. ControlOK'
      BY <1>1, <2>1, <2>7, <2>8 DEF ControlOK
    <2>10. Cardinality(Victims') = Cardinality(Victims) + 1 /\ Cardinality(Victims) \in Nat
      BY <1>1, <2>1, <2>4, VictimsMove
    <2>11. EmptySlots' = EmptySlots
      BY <2>1 DEF EmptySlots
    <2>12. LruInStep'
      BY SMT, <1>1, <2>8, <2>10, <2>11 DEF LruInStep
    <2>13. NoAssert'
      BY <1>1, <2>1 DEF NoAssert
    <2> QED
      BY <2>7, <2>9, <2>12, <2>13 DEF CInv
  <1> QED
    BY <1>2, <1>3, <1>4, <1>5

(* The victim gets the new sector, or is put back if somebody loaded it. *)
LEMMA EvictTableStep ==
    ASSUME CInv, NEW t \in Threads, EvictTable(t)
    PROVE  CInv'
  <1> DEFINE v == frame[t].slot
             i == sector_to_cache(frame[t].sector)
  <1>1. /\ ControlOK /\ Locking /\ LruInStep /\ NoAssert /\ lru \in Seq(Sectors)
        /\ frame[t].op = "evict_table" /\ frame[t].op \in VictimOps
    BY DEF CInv, ControlOK, VictimOps, EvictTable, At
  <1>2. Len(lru) \in Nat /\ ~ (Len(lru) >= CACHE_SIZE)
    BY SMT, <1>1, VictimRoom, CacheAssumption
  <1>3. /\ v \in Slots /\ cache[v] \in Entries /\ cache[v].lock = t
        /\ cache[v].sector # CACHE_SECTOR_EMPTY /\ cache[v].mode = "UNLOCK"
    BY SMT, <1>1, Here DEF Locking, Locked, Using
  <1>4. cache[v].sector \in Sectors
    BY <1>3 DEF Entries
  <1>5. i # NULL => i \in Slots /\ cache[i].sector # CACHE_SECTOR_EMPTY
    BY SMT, LookupFinds, Here DEF Sectors, CACHE_SECTOR_EMPTY
  <1>6. SUFFICES ASSUME NEW f, NEW e, NEW s \in Sectors, EntryStep(t, v, f, e),
                        lru' = Append(lru, s), e.sector # CACHE_SECTOR_EMPTY,
                        f.op \notin VictimOps, table_lock' = table_lock, ring' = ring,
                        panic' = panic
                 PROVE  CInv'
    <2>1. CASE i # NULL
      <3> DEFINE f == ToSlot(frame[t], "enter", i)
                 e == [cache[v] EXCEPT !.lock = NULL]
      <3>1. /\ frame' = [frame EXCEPT ![t] = f] /\ cache' = [cache EXCEPT ![v] = e]
            /\ lru' = Append(lru, cache[v].sector) /\ table_lock' = table_lock
            /\ ring' = ring /\ panic' = panic
        BY <1>2, <1>3, <2>1, Here DEF EvictTable, ToSlot
      <3>2. /\ e \in Entries /\ e.lock = NULL /\ e.sector = cache[v].sector
            /\ e.mode = cache[v].mode
        BY <1>3 DEF Entries
      <3> HIDE DEF i
      <3>3. f \in Frames /\ f.op = "enter" /\ f.slot = i /\ f.i = frame[t].i
        <4>1. frame[t] \in Frames /\ "enter" \in Ops
          BY Here DEF Ops
        <4> QED
          BY SMT, <1>5, <2>1, <4>1, FrameSlot
      <3> HIDE DEF f, e
      <3>4. cache'[i].sector # CACHE_SECTOR_EMPTY
        BY <1>3, <1>5, <2>1, <3>1, <3>2, Here
      <3>5. FrameFits(t, f, cache'[f.slot])
        BY <1>1, <3>3, <3>4, Here DEF FrameFits, Locked, Own
      <3>6. EntryStep(t, v, f, e)
        BY <1>1, <1>3, <3>1, <3>2, <3>3, <3>5 DEF EntryStep, Locked
      <3> QED
        BY <1>3, <1>4, <1>6, <3>1, <3>2, <3>3, <3>6 DEF VictimOps
    <2>2. CASE i = NULL
      <3> DEFINE f == [frame[t] EXCEPT !.op = "write_back", !.old = cache[v].sector]
                 e == [cache[v] EXCEPT !.sector = frame[t].sector]
      <3>1. /\ frame' = [frame EXCEPT ![t] = f] /\ cache' = [cache EXCEPT ![v] = e]
            /\ lru' = Append(lru, frame[t].sector) /\ table_lock' = table_lock
            /\ ring' = ring /\ panic' = panic
        BY <1>2, <1>3, <2>2, Here DEF EvictTable
      <3>2. /\ e \in Entries /\ e.lock = t /\ e.sector = frame[t].sector
            /\ e.mode = cache[v].mode
        BY <1>3, Here DEF Entries
      <3>3. /\ f \in Frames /\ f.op = "write_back" /\ f.slot = v /\ f.i = frame[t].i
            /\ f.sector = frame[t].sector
        BY ZenonT(40), <1>4, Here DEF Frames, Ops
      <3>4. frame[t].sector # CACHE_SECTOR_EMPTY /\ frame[t].sector \in Sectors
        BY SMT, Here DEF Sectors, CACHE_SECTOR_EMPTY
      <3> HIDE DEF f, e
      <3>5. cache'[v] = e
        BY <1>3, <3>1, Here
      <3>6. FrameFits(t, f, cache'[f.slot])
        BY SMT, <1>1, <3>2, <3>3, <3>4, <3>5, Here DEF FrameFits
      <3>7. EntryStep(t, v, f, e)
        BY <1>1, <1>3, <3>1, <3>2, <3>3, <3>4, <3>6 DEF EntryStep, Locked
      <3> QED
        BY <1>6, <3>1, <3>2, <3>3, <3>4, <3>7 DEF VictimOps
    <2> QED
      BY <2>1, <2>2
  <1>7. /\ Locking' /\ cache' \in [Slots -> Entries] /\ frame' \in [Threads -> Frames]
        /\ \A u \in Threads : frame'[u].op # "scan" => frame'[u].i \in Slots
    BY <1>1, <1>6, EntryMoves
  <1>8. lru' \in Seq(Sectors) /\ Len(lru') = Len(lru) + 1
    BY SMT, <1>1, <1>6
  <1>9. ControlOK'
    BY <1>1, <1>6, <1>7, <1>8 DEF ControlOK
  <1>10. Cardinality(Victims') = Cardinality(Victims) - 1 /\ Cardinality(Victims) \in Nat
    BY <1>1, <1>6, VictimsMove DEF EntryStep
  <1>11. EmptySlots' = EmptySlots
    BY <1>1, <1>3, <1>6, UsedMoves DEF EntryStep
  <1>12. LruInStep'
    BY SMT, <1>1, <1>2, <1>8, <1>10, <1>11 DEF LruInStep
  <1>13. NoAssert'
    BY <1>1, <1>6 DEF NoAssert
  <1> QED
    BY <1>7, <1>9, <1>12, <1>13 DEF CInv

-----------------------------------------------------------------------------
(* The contents, and the invariant as a whole *)

(* What goes to the disk comes from an entry, and what the history notes   *)
(* from a call.                                                            *)
LEMMA DataSteps ==
    ASSUME CInv, DataOK, NEW t \in Threads, WriteBack(t) \/ Clean(t) \/ Access(t) \/ ScanEnd(t)
    PROVE  DataOK'
  <1>1. CASE WriteBack(t)
    <2>1. cache[frame[t].slot].data \in Data
      BY Here DEF Entries
    <2> QED
      BY <1>1, <2>1 DEF DataOK, WriteBack
  <1>2. CASE Clean(t)
    <2>1. frame[t].i \in Slots
      BY <1>2, Here DEF Clean, At
    <2>2. cache[frame[t].i].data \in Data
      BY <2>1, Here DEF Entries
    <2> QED
      BY <1>2, <2>2 DEF DataOK, Clean
  <1>3. CASE Access(t)
    <2> DEFINE s == frame[t].sector
    <2>1. s \in Sectors /\ Fresh(t) \subseteq Sectors
      BY Here DEF Fresh
    <2>2. Written(t, hist.mem[s]) \in Data
      BY <2>1, WrittenOK DEF DataOK
    <2>3. hist' = [hist EXCEPT !.mem = [hist.mem EXCEPT ![s] = Written(t, hist.mem[s])],
                               !.fresh = hist.fresh \cup Fresh(t)]
      BY <1>3, <2>1 DEF Access, DataOK
    <2>4. [hist.mem EXCEPT ![s] = Written(t, hist.mem[s])] \in [Sectors -> Data]
      BY <2>1, <2>2 DEF DataOK
    <2>5. disk' = disk
      BY <1>3 DEF Access
    <2> QED
      BY <2>1, <2>3, <2>4, <2>5 DEF DataOK
  <1>4. CASE ScanEnd(t)
    BY <1>4 DEF DataOK, ScanEnd
  <1> QED
    BY <1>1, <1>2, <1>3, <1>4

(* cache_init establishes the invariant. *)
LEMMA InitInvariant == Init => IInv
  <1> SUFFICES ASSUME Init PROVE IInv
    OBVIOUS
  <1>1. Zeros \in Data
    BY CacheAssumption DEF Zeros, Data
  <1>2. /\ table_lock = NULL /\ lru = <<>> /\ panic = "none" /\ frame = [t \in Threads |-> Idle]
        /\ cache = [i \in Slots |-> [sector |-> CACHE_SECTOR_EMPTY, access |-> FALSE,
                                     dirty |-> FALSE, data |-> Zeros, lock |-> NULL,
                                     mode |-> "UNLOCK"]]
        /\ ring = [buffer |-> [i \in Slots |-> CACHE_SECTOR_EMPTY], head |-> 0, tail |-> 0]
        /\ disk = [s \in Sectors |-> Zeros]
        /\ hist = [mem |-> [s \in Sectors |-> Zeros], fresh |-> {}]
    BY DEF Init, cache_init
  <1>3. DataOK
    BY <1>1, <1>2 DEF DataOK
  <1>4. cache \in [Slots -> Entries]
    BY <1>1, <1>2 DEF Entries
  <1>5. frame \in [Threads -> Frames] /\ \A t \in Threads : frame[t].i \in Slots
    BY <1>2, IdleOK
  <1>6. 0 \in Slots
    BY SMT, CacheAssumption DEF Slots
  <1>7. ControlOK
    <2>1. lru \in Seq(Sectors) /\ Len(lru) = 0
      BY SMT, <1>2
    <2>2. RingOK
      BY <1>2, <1>6 DEF RingOK
    <2> QED
      BY <1>2, <1>4, <1>5, <2>1, <2>2 DEF ControlOK, RingOK
  <1>8. Locking
    BY <1>2, IdleOK DEF Locking, Locked, Using, Own
  <1>9. Victims = {} /\ Slots \ EmptySlots = {}
    BY <1>2, IdleOK DEF Victims, EmptySlots
  <1>10. LruInStep
    <2>1. Len(lru) = 0 /\ Cardinality({}) = 0
      BY <1>2, FS_EmptySet
    <2>2. Cardinality(Victims) = 0 /\ Cardinality(Slots \ EmptySlots) = 0
      BY <1>9, <2>1
    <2> QED
      BY SMT, <2>1, <2>2 DEF LruInStep
  <1>11. NoAssert
    BY <1>2 DEF NoAssert
  <1> QED
    BY <1>3, <1>7, <1>8, <1>10, <1>11 DEF IInv, CInv

(* Every step of every thread keeps it. *)
LEMMA NextInvariant == IInv /\ [Next]_vars => IInv'
  <1> SUFFICES ASSUME CInv, DataOK, [Next]_vars PROVE CInv' /\ DataOK'
    BY DEF IInv
  <1>1. ASSUME NEW t \in Clients, Call(t) PROVE CInv' /\ DataOK'
    BY <1>1, CallStep DEF Threads, Call, DataOK
  <1>2. ASSUME NEW t \in Daemons, ReadAheadStart(t) \/ WriteBehindStart(t) \/ FlushStart(t)
        PROVE  CInv' /\ DataOK'
    BY <1>2, DaemonSteps DEF Threads, ReadAheadStart, WriteBehindStart, FlushStart, DataOK
  <1>3. ASSUME NEW t \in Threads, Step(t) PROVE CInv' /\ DataOK'
    <2>1. CASE Lookup(t)
      BY <2>1, LookupStep DEF Lookup, DataOK
    <2>2. CASE Enter(t)
      BY <2>2, EnterStep DEF Enter, DataOK
    <2>3. CASE Verify(t)
      BY <2>3, VerifyStep DEF Verify, DataOK
    <2>4. CASE Load(t) \/ ReadAheadLoad(t)
      <3>1. frame[t].op \in {"load", "ra_load"} /\ get_free_cache(t)
        BY <2>4 DEF Load, ReadAheadLoad, At
      <3>2. disk' = disk /\ hist' = hist
        BY <3>1 DEF get_free_cache, Panic, Goto
      <3> QED
        BY <3>1, <3>2, GetFreeStep DEF DataOK
    <2>5. CASE Evict(t)
      BY <2>5, EvictStep DEF Evict, DataOK
    <2>6. CASE EvictTable(t)
      <3>1. disk' = disk /\ hist' = hist
        BY <2>6 DEF EvictTable, Panic
      <3> QED
        BY <2>6, <3>1, EvictTableStep DEF DataOK
    <2>7. CASE WriteBack(t)
      BY <2>7, WriteBackStep, DataSteps
    <2>8. CASE Fill(t)
      BY <2>8, FillStep DEF Fill, DataOK
    <2>9. CASE Begin(t)
      <3>1. disk' = disk /\ hist' = hist
        BY <2>9 DEF Begin, Panic
      <3> QED
        BY <2>9, <3>1, BeginStep DEF DataOK
    <2>10. CASE Access(t)
      BY <2>10, AccessStep, DataSteps
    <2>11. CASE ReadAheadScan(t)
      BY <2>11, ReadAheadScanStep DEF ReadAheadScan, DataOK
    <2>12. CASE ReadAheadRelease(t)
      BY <2>12, ReadAheadReleaseStep DEF ReadAheadRelease, DataOK
    <2>13. CASE ReadAheadNext(t)
      BY <2>13, DaemonSteps DEF ReadAheadNext, DataOK
    <2>14. CASE Scan(t)
      BY <2>14, DaemonSteps DEF Scan, DataOK
    <2>15. CASE Clean(t)
      BY <2>15, CleanStep, DataSteps
    <2>16. CASE ScanEnd(t)
      BY <2>16, DaemonSteps, DataSteps
    <2> QED
      BY <1>3, <2>1, <2>2, <2>3, <2>4, <2>5, <2>6, <2>7, <2>8, <2>9, <2>10, <2>11, <2>12,
         <2>13, <2>14, <2>15, <2>16 DEF Step
  <1>4. CASE UNCHANGED vars
    <2>1. /\ table_lock' = table_lock /\ cache' = cache /\ frame' = frame /\ lru' = lru
          /\ ring' = ring /\ disk' = disk /\ hist' = hist /\ panic' = panic
      BY <1>4 DEF vars
    <2>2. Locking' /\ ControlOK' /\ NoAssert' /\ DataOK'
      BY <2>1 DEF CInv, ControlOK, Locking, NoAssert, DataOK
    <2>3. Victims' = Victims /\ EmptySlots' = EmptySlots
      BY <2>1 DEF Victims, EmptySlots
    <2>4. LruInStep'
      BY <2>1, <2>3 DEF CInv, LruInStep
    <2> QED
      BY <2>2, <2>4 DEF CInv
  <1> QED
    BY <1>1, <1>2, <1>3, <1>4 DEF Next

(* The invariant holds in every reachable state. *)
LEMMA Invariance == Spec => []IInv
  BY InitInvariant, NextInvariant, PTL DEF Spec

(* cache_read and cache_write copy only in an entry whose lock they hold   *)
(* and that holds their sector, with any number of clients and entries,    *)
(* although read_ahead, write_behind, flush_cache and evictions by other   *)
(* clients run between the look-up and the lock.                           *)
THEOREM OwnSector == Spec => []AccessesOwnSector
  <1>1. IInv => AccessesOwnSector
    BY DEF IInv, CInv, Locking, Locked, Own, AccessesOwnSector
  <1> QED
    BY <1>1, Invariance, PTL

(* The ASSERTs of get_free_cache and lru_enqueue hold and no thread waits  *)
(* on an entry's condition variables: an empty entry is always free, the   *)
(* queue has room for every entry that is to be added, and mode is UNLOCK  *)
(* whenever the lock is free.                                              *)
THEOREM InStep == Spec => []EntriesInStep
  <1>1. ASSUME IInv PROVE EntriesInStep
    <2>1. CInv /\ ControlOK /\ Locking /\ LruInStep /\ NoAssert /\ DataOK
      BY <1>1 DEF IInv, CInv
    <2>2. TypeOK
      BY <2>1, Here DEF TypeOK, ControlOK, DataOK, Entries
    <2>3. \A i \in EmptySlots : cache[i].lock = NULL
      BY <2>1, EmptyFree
    <2>4. NoCondWait
      BY <2>1, <2>3 DEF NoCondWait, NoAssert, Locking
    <2> QED
      BY <2>1, <2>2, <2>4 DEF EntriesInStep
  <1> QED
    BY <1>1, Invariance, PTL
=============================================================================
