--------------------------- MODULE CacheContents ----------------------------
(***************************************************************************)
(* Proofs about the contents of the buffer cache: with one client at a     *)
(* time that writes whole sectors, and with write_behind and flush_cache   *)
(* running beside it, a read gets what was last written, and flush_cache   *)
(* leaves nothing behind, for any number of entries and sectors.           *)
(***************************************************************************)
EXTENDS CacheProofs

(* Zenon proves most steps; the others, with arithmetic or records, name SMT. *)
USE Zenon

-----------------------------------------------------------------------------
(* Two clients may load a sector twice, read_ahead loads a sector that the *)
(* client may be loading, and a sector written in part is not read first:  *)
(* the runs of section 4 of the README show each of them.                  *)
SoleClient ==
    /\ \A c, d \in Clients : c = d
    /\ "read_ahead" \notin Daemons
    /\ ~ Partial

Held(s) == \E i \in Slots : cache[i].sector = s

(* The thread is going to replace what the entry holds. *)
Overwrites(t, i) ==
    /\ frame[t].slot = i
    /\ \/ frame[t].op \in {"write_back", "fill"}
       \/ /\ frame[t].op \in {"verify", "begin", "access"} /\ Writing(t)
          /\ cache[i].sector = frame[t].sector

LatestInEntry ==
    \A i \in Slots :
       /\ cache[i].sector # CACHE_SECTOR_EMPTY
       /\ \A t \in Clients : ~ Overwrites(t, i)
       => cache[i].data = hist.mem[cache[i].sector]

(* While an entry passes from a sector to another, it has the contents of  *)
(* the old one, which no other entry has, and the disk those of the new.   *)
Evicting ==
    \A t \in Clients :
       /\ frame[t].op = "write_back" =>
            /\ frame[t].old \in Sectors /\ ~ Held(frame[t].old)
            /\ cache[frame[t].slot].data = hist.mem[frame[t].old]
            /\ cache[frame[t].slot].dirty \/ disk[frame[t].old] = hist.mem[frame[t].old]
            /\ disk[frame[t].sector] = hist.mem[frame[t].sector]
       /\ frame[t].op = "fill" => ~ cache[frame[t].slot].dirty
       /\ frame[t].op = "load" => ~ Held(frame[t].sector)

ClientOps == {"idle", "lookup", "enter", "verify", "load", "evict", "evict_table",
              "write_back", "fill", "begin", "access"}

Calls ==
    \A t \in Threads :
       /\ frame[t].parts \in {{}, Parts}
       /\ frame[t].op = "idle" => frame[t].i = 0
       /\ IF t \in Clients THEN frame[t].op \in ClientOps
          ELSE frame[t].op \in {"idle", "scan", "clean"}

EmptyClean == \A i \in Slots : cache[i].sector = CACHE_SECTOR_EMPTY => ~ cache[i].dirty

(* Only an entry that the pass of flush_cache has still to come to can     *)
(* hold something that was not on the disk when the pass began.            *)
Pending(s, n) ==
    \E j \in Slots :
       /\ j >= n /\ cache[j].dirty
       /\ \/ cache[j].sector = s
          \/ \E t \in Clients :
                frame[t].op = "write_back" /\ frame[t].slot = j /\ frame[t].old = s

Reached ==
    "flush" \in Daemons /\ frame["flush"].op # "idle" =>
       \A s \in Sectors \ hist.fresh : disk[s] = hist.mem[s] \/ Pending(s, frame["flush"].i)

KInv == LoadedOnce /\ LatestInEntry /\ Evicting /\ Calls /\ EmptyClean /\ CleanOnDisk
DInv == KInv /\ Reached
-----------------------------------------------------------------------------

SameContents ==
    \A j \in Slots : /\ cache'[j].sector = cache[j].sector
                     /\ cache'[j].dirty = cache[j].dirty
                     /\ cache'[j].data = cache[j].data

(* A step that moves one thread and no contents. *)
Quiet(t, f) ==
    /\ frame' = [frame EXCEPT ![t] = f]
    /\ f \in Frames
    /\ SameContents
    /\ disk' = disk /\ hist'.mem = hist.mem
    /\ frame[t].op \notin {"write_back", "fill"} /\ f.op \notin {"write_back", "fill"}
    /\ f.op = "load" => ~ Held(f.sector)
    /\ f.op = "idle" => f.i = 0
    /\ f.parts \in {{}, Parts}
    /\ IF t \in Clients THEN f.op \in ClientOps ELSE f.op \in {"idle", "scan", "clean"}
    /\ \A i \in Slots : Overwrites(t, i) => Overwrites(t, i)'

(* A quiet step keeps what is known of the contents. *)
LEMMA QuietKeeps ==
    ASSUME IInv, KInv, NEW t \in Threads, NEW f, Quiet(t, f)
    PROVE  KInv'
  <1>1. /\ frame \in [Threads -> Frames] /\ frame'[t] = f
        /\ \A u \in Threads : u # t => frame'[u] = frame[u]
        /\ \A u \in Clients : u \in Threads
    BY DEF IInv, CInv, ControlOK, Quiet, Threads
  <1>2. SameContents /\ disk' = disk /\ hist'.mem = hist.mem
    BY DEF Quiet
  <1>3. LoadedOnce'
    BY SMT, <1>2 DEF SameContents, LoadedOnce, KInv
  <1>4. ASSUME NEW i \in Slots, NEW u \in Clients, Overwrites(u, i) PROVE Overwrites(u, i)'
    <2>1. CASE u = t
      BY <1>4, <2>1 DEF Quiet
    <2>2. CASE u # t
      BY <1>1, <1>2, <1>4, <2>2 DEF Overwrites, Writing, SameContents
    <2> QED
      BY <2>1, <2>2
  <1>5. LatestInEntry'
    BY <1>2, <1>4 DEF LatestInEntry, KInv, SameContents
  <1>6. Evicting'
    <2> SUFFICES ASSUME NEW u \in Clients
                 PROVE  /\ frame'[u].op = "write_back" =>
                             /\ frame'[u].old \in Sectors
                             /\ \A i \in Slots : cache'[i].sector # frame'[u].old
                             /\ cache'[frame'[u].slot].data = hist'.mem[frame'[u].old]
                             /\ \/ cache'[frame'[u].slot].dirty
                                \/ disk'[frame'[u].old] = hist'.mem[frame'[u].old]
                             /\ disk'[frame'[u].sector] = hist'.mem[frame'[u].sector]
                        /\ frame'[u].op = "fill" => ~ cache'[frame'[u].slot].dirty
                        /\ frame'[u].op = "load" => \A i \in Slots : cache'[i].sector # frame'[u].sector
      BY DEF Evicting, Held
    <2>1. CASE u = t
      BY <1>1, <1>2, <2>1 DEF Quiet, SameContents, Held
    <2>2. CASE u # t
      <3>1. frame'[u] = frame[u] /\ frame[u].slot \in Slots
        BY <1>1, <2>2 DEF Frames
      <3> QED
        BY SMT, <1>2, <3>1 DEF Evicting, KInv, SameContents, Held
    <2> QED
      BY <2>1, <2>2
  <1>7. Calls'
    BY <1>1 DEF Calls, KInv, Quiet
  <1>8. EmptyClean'
    BY <1>2 DEF EmptyClean, KInv, SameContents
  <1>9. CleanOnDisk'
    <2>1. ASSUME NEW s \in Sectors, \A u \in Threads : frame'[u].op = "write_back" => frame'[u].old # s
          PROVE  \A u \in Threads : frame[u].op = "write_back" => frame[u].old # s
      BY <1>1, <2>1 DEF Quiet
    <2> QED
      BY <1>2, <2>1 DEF CleanOnDisk, KInv, SameContents
  <1> QED
    BY <1>3, <1>5, <1>6, <1>7, <1>8, <1>9 DEF KInv

(* The pass of flush_cache is not disturbed by such a step of another      *)
(* thread.                                                                 *)
LEMMA QuietReached ==
    ASSUME IInv, DInv, NEW t \in Threads, NEW f, Quiet(t, f), t # "flush", hist'.fresh = hist.fresh
    PROVE  DInv'
  <1>1. /\ frame \in [Threads -> Frames] /\ frame'[t] = f
        /\ \A u \in Threads : u # t => frame'[u] = frame[u]
        /\ \A u \in Clients : u \in Threads
    BY DEF IInv, CInv, ControlOK, Quiet, Threads
  <1>2. SameContents /\ disk' = disk /\ hist'.mem = hist.mem
    BY DEF Quiet
  <1>3. \A u \in Clients : frame[u].op = "write_back" => frame'[u] = frame[u]
    BY <1>1 DEF Quiet
  <1>4. "flush" \in Daemons => frame'["flush"] = frame["flush"]
    BY <1>1 DEF Threads
  <1>5. \A s, n : Pending(s, n) => Pending(s, n)'
    BY SMT, <1>2, <1>3 DEF Pending, SameContents
  <1>6. Reached'
    BY <1>2, <1>4, <1>5 DEF Reached, DInv
  <1> QED
    BY <1>6, QuietKeeps DEF DInv

-----------------------------------------------------------------------------
(* The steps of the client that move no contents *)

(* What is known of the client's frame and entry. *)
LEMMA ClientHere ==
    ASSUME IInv, DInv, NEW t \in Clients
    PROVE  /\ CInv /\ t \in Threads /\ t # "flush" /\ frame[t] \in Frames
           /\ frame[t].slot \in Slots /\ frame[t].sector \in Sectors
           /\ frame[t].parts \in {{}, Parts} /\ cache[frame[t].slot] \in Entries
           /\ cache \in [Slots -> Entries] /\ frame \in [Threads -> Frames]
  <1>1. CInv /\ t \in Threads
    BY DEF IInv, Threads
  <1>2. t # "flush"
    BY CacheAssumption
  <1>3. frame[t].parts \in {{}, Parts}
    BY <1>1 DEF DInv, KInv, Calls
  <1> QED
    BY <1>1, <1>2, <1>3, Here

(* The client enters cache_read or cache_write. *)
LEMMA CallQuiet ==
    ASSUME IInv, DInv, SoleClient, NEW t \in Clients, Call(t)
    PROVE  DInv'
  <1>1. PICK s \in Sectors, parts \in {{}} \cup (IF Partial THEN SUBSET Parts ELSE {Parts}),
             v \in Vals :
           frame' = [frame EXCEPT ![t] = [Idle EXCEPT !.op = "lookup", !.sector = s,
                                                      !.parts = parts, !.val = v]]
    BY DEF Call
  <1> DEFINE f == [Idle EXCEPT !.op = "lookup", !.sector = s, !.parts = parts, !.val = v]
  <1>2. parts \in {{}, Parts}
    BY DEF SoleClient
  <1>3. f \in Frames /\ f.op = "lookup" /\ f.parts = parts
    BY <1>2, IdleOK DEF Idle, Frames, Ops
  <1>4. frame' = [frame EXCEPT ![t] = f]
    BY <1>1
  <1> HIDE DEF f
  <1>5. frame[t].op = "idle" /\ cache' = cache /\ disk' = disk /\ hist' = hist
    BY DEF Call, At
  <1>6. Quiet(t, f)
    BY <1>2, <1>3, <1>4, <1>5 DEF Quiet, SameContents, ClientOps, Overwrites
  <1> QED
    BY <1>5, <1>6, ClientHere, QuietReached

(* It looks its sector up. *)
LEMMA LookupQuiet ==
    ASSUME IInv, DInv, NEW t \in Clients, Lookup(t)
    PROVE  DInv'
  <1> DEFINE n == sector_to_cache(frame[t].sector)
             f == [frame[t] EXCEPT !.op = IF n = NULL THEN "load" ELSE "enter",
                                   !.slot = IF n = NULL THEN 0 ELSE n]
  <1>1. /\ frame' = [frame EXCEPT ![t] = f] /\ frame[t].op = "lookup"
        /\ cache' = cache /\ disk' = disk /\ hist' = hist
    BY ClientHere DEF Lookup, At
  <1>2. \/ n = NULL /\ \A i \in Slots : cache[i].sector # frame[t].sector
        \/ n \in Slots /\ n # NULL
    BY LookupFinds
  <1>3. 0 \in Slots
    BY SMT, CacheAssumption DEF Slots
  <1> HIDE DEF n
  <1>4. /\ f \in Frames /\ f.op = (IF n = NULL THEN "load" ELSE "enter")
        /\ f.sector = frame[t].sector /\ f.parts = frame[t].parts
    BY ZenonT(40), <1>2, <1>3, ClientHere DEF Frames, Ops
  <1> HIDE DEF f
  <1>5. Quiet(t, f)
    BY <1>1, <1>2, <1>4, ClientHere DEF Quiet, SameContents, Held, ClientOps, Overwrites
  <1> QED
    BY <1>1, <1>5, ClientHere, QuietReached

(* Only the lock or the mode of an entry changes. *)
LEMMA SameInEntry ==
    ASSUME NEW i \in Slots, cache \in [Slots -> Entries], NEW e,
           cache' = [cache EXCEPT ![i] = e], e.sector = cache[i].sector,
           e.dirty = cache[i].dirty, e.data = cache[i].data
    PROVE  SameContents
  BY DEF SameContents

(* It takes the lock of the entry found. *)
LEMMA EnterQuiet ==
    ASSUME IInv, DInv, NEW t \in Clients, Enter(t)
    PROVE  DInv'
  <1> DEFINE i == frame[t].slot
             f == To(frame[t], "verify")
             e == [cache[i] EXCEPT !.lock = t]
  <1>1. Loaded(t) = "verify"
    BY CacheAssumption DEF Loaded
  <1>2. /\ frame' = [frame EXCEPT ![t] = f] /\ cache' = [cache EXCEPT ![i] = e]
        /\ frame[t].op = "enter" /\ disk' = disk /\ hist' = hist
    BY <1>1, ClientHere DEF Enter, Goto, At, To
  <1>3. e.sector = cache[i].sector /\ e.dirty = cache[i].dirty /\ e.data = cache[i].data
    BY ClientHere DEF Entries
  <1>4. f \in Frames /\ f.op = "verify" /\ f.parts = frame[t].parts
    BY SMT, ClientHere, FrameOp DEF Ops
  <1> HIDE DEF e, f
  <1>5. SameContents
    BY <1>2, <1>3, ClientHere, SameInEntry
  <1>6. Quiet(t, f)
    BY <1>2, <1>4, <1>5, ClientHere DEF Quiet, ClientOps, Overwrites
  <1> QED
    BY <1>2, <1>6, ClientHere, QuietReached

(* It checks the entry's sector under the lock. *)
LEMMA VerifyQuiet ==
    ASSUME IInv, DInv, NEW t \in Clients, Verify(t)
    PROVE  DInv'
  <1> DEFINE i == frame[t].slot
  <1>1. frame[t].op = "verify" /\ disk' = disk /\ hist' = hist
    BY DEF Verify, At
  <1>2. CASE cache[i].sector = frame[t].sector
    <2> DEFINE f == To(frame[t], "begin")
    <2>1. frame' = [frame EXCEPT ![t] = f] /\ cache' = cache
      BY <1>2, ClientHere DEF Verify, Goto, To
    <2>2. /\ f \in Frames /\ f.op = "begin" /\ f.parts = frame[t].parts
          /\ f.slot = frame[t].slot /\ f.sector = frame[t].sector
      BY SMT, ClientHere, FrameOp DEF Ops
    <2> HIDE DEF f
    <2>3. frame'[t] = f
      BY <2>1, ClientHere
    <2>4. \A j \in Slots : Overwrites(t, j) => Overwrites(t, j)'
      BY <1>1, <2>1, <2>2, <2>3 DEF Overwrites, Writing
    <2>5. Quiet(t, f)
      BY <1>1, <2>1, <2>2, <2>4, ClientHere DEF Quiet, SameContents, ClientOps
    <2> QED
      BY <1>1, <2>5, ClientHere, QuietReached
  <1>3. CASE cache[i].sector # frame[t].sector
    <2> DEFINE f == To(frame[t], "lookup")
               e == [cache[i] EXCEPT !.lock = NULL]
    <2>1. frame' = [frame EXCEPT ![t] = f] /\ cache' = [cache EXCEPT ![i] = e]
      BY <1>3, ClientHere DEF Verify, Goto, To
    <2>2. e.sector = cache[i].sector /\ e.dirty = cache[i].dirty /\ e.data = cache[i].data
      BY ClientHere DEF Entries
    <2>3. f \in Frames /\ f.op = "lookup" /\ f.parts = frame[t].parts
      BY SMT, ClientHere, FrameOp DEF Ops
    <2> HIDE DEF e, f
    <2>4. SameContents
      BY <2>1, <2>2, ClientHere, SameInEntry
    <2>5. \A j \in Slots : ~ Overwrites(t, j)
      BY <1>1, <1>3 DEF Overwrites
    <2>6. Quiet(t, f)
      BY <1>1, <2>1, <2>3, <2>4, <2>5, ClientHere DEF Quiet, ClientOps
    <2> QED
      BY <1>1, <2>6, ClientHere, QuietReached
  <1> QED
    BY <1>2, <1>3

(* It takes the lock of its victim. *)
LEMMA EvictQuiet ==
    ASSUME IInv, DInv, NEW t \in Clients, Evict(t)
    PROVE  DInv'
  <1> DEFINE i == frame[t].slot
             f == To(frame[t], "evict_table")
             e == [cache[i] EXCEPT !.lock = t]
  <1>1. /\ frame' = [frame EXCEPT ![t] = f] /\ cache' = [cache EXCEPT ![i] = e]
        /\ frame[t].op = "evict" /\ disk' = disk /\ hist' = hist
    BY ClientHere DEF Evict, Goto, At, To
  <1>2. e.sector = cache[i].sector /\ e.dirty = cache[i].dirty /\ e.data = cache[i].data
    BY ClientHere DEF Entries
  <1>3. f \in Frames /\ f.op = "evict_table" /\ f.parts = frame[t].parts
    BY SMT, ClientHere, FrameOp DEF Ops
  <1> HIDE DEF e, f
  <1>4. SameContents
    BY <1>1, <1>2, ClientHere, SameInEntry
  <1>5. Quiet(t, f)
    BY <1>1, <1>3, <1>4, ClientHere DEF Quiet, ClientOps, Overwrites
  <1> QED
    BY <1>1, <1>5, ClientHere, QuietReached

(* It sets the mode of the entry. *)
LEMMA BeginQuiet ==
    ASSUME IInv, DInv, NEW t \in Clients, Begin(t)
    PROVE  DInv'
  <1> DEFINE i == frame[t].slot
             f == To(frame[t], "access")
             e == [cache[i] EXCEPT !.mode = IF Writing(t) THEN "WRITE_LOCK" ELSE "READ_LOCK"]
  <1>1. frame[t].op = "begin" /\ cache[i].lock = t /\ cache[i].mode = "UNLOCK"
    BY ClientHere DEF Begin, At, CInv, Locking, Locked
  <1>2. /\ frame' = [frame EXCEPT ![t] = f] /\ cache' = [cache EXCEPT ![i] = e]
        /\ disk' = disk /\ hist' = hist
    BY <1>1, ClientHere DEF Begin, Goto, To
  <1>3. e.sector = cache[i].sector /\ e.dirty = cache[i].dirty /\ e.data = cache[i].data
    BY ClientHere DEF Entries
  <1>4. /\ f \in Frames /\ f.op = "access" /\ f.parts = frame[t].parts
        /\ f.slot = frame[t].slot /\ f.sector = frame[t].sector
    BY SMT, ClientHere, FrameOp DEF Ops
  <1> HIDE DEF e, f
  <1>5. SameContents
    BY <1>2, <1>3, ClientHere, SameInEntry
  <1>6. frame'[t] = f
    BY <1>2, ClientHere
  <1>7. \A j \in Slots : Overwrites(t, j) => Overwrites(t, j)'
    BY <1>1, <1>4, <1>5, <1>6 DEF Overwrites, Writing, SameContents
  <1>8. Quiet(t, f)
    BY <1>1, <1>2, <1>4, <1>5, <1>7, ClientHere DEF Quiet, ClientOps
  <1> QED
    BY <1>2, <1>8, ClientHere, QuietReached

-----------------------------------------------------------------------------
(* The steps of the client that load an entry *)

(* Nothing moves in a panic. *)
LEMMA PanicKeeps ==
    ASSUME DInv, NEW why, Panic(why)
    PROVE  DInv'
  <1>1. cache' = cache /\ disk' = disk /\ frame' = frame /\ hist' = hist
    BY DEF Panic
  <1>2. LoadedOnce' /\ EmptyClean' /\ Calls' /\ CleanOnDisk'
    BY <1>1 DEF DInv, KInv, LoadedOnce, EmptyClean, Calls, CleanOnDisk
  <1>3. LatestInEntry'
    BY <1>1 DEF DInv, KInv, LatestInEntry, Overwrites, Writing
  <1>4. Evicting'
    BY <1>1 DEF DInv, KInv, Evicting, Held
  <1>5. Reached'
    BY SMT, <1>1 DEF DInv, Reached, Pending
  <1> QED
    BY <1>2, <1>3, <1>4, <1>5 DEF DInv, KInv

(* The one client is the only thread that evicts or loads. *)
LEMMA Alone ==
    ASSUME DInv, SoleClient, NEW t \in Clients
    PROVE  /\ \A u \in Clients : u = t
           /\ \A u \in Threads \ {t} : frame[u].op \in {"idle", "scan", "clean"}
           /\ frame[t].op # "write_back" =>
                 /\ \A u \in Threads : frame[u].op # "write_back"
                 /\ \A s \in Sectors :
                       (\A i \in Slots : cache[i].sector = s => ~ cache[i].dirty) =>
                          disk[s] = hist.mem[s]
  <1>1. \A u \in Clients : u = t
    BY DEF SoleClient
  <1>2. \A u \in Threads \ {t} : frame[u].op \in {"idle", "scan", "clean"}
    BY <1>1 DEF DInv, KInv, Calls
  <1>3. frame[t].op # "write_back" => \A u \in Threads : frame[u].op # "write_back"
    BY <1>2
  <1> QED
    BY <1>1, <1>2, <1>3 DEF DInv, KInv, CleanOnDisk

(* A step of the client on the entry v, from the frame it leaves and the   *)
(* entry it leaves there.                                                  *)
Moves(t, v, f, e) ==
    /\ v \in Slots /\ f \in Frames
    /\ frame' = [frame EXCEPT ![t] = f]
    /\ cache' = [cache EXCEPT ![v] = e]
    /\ f.op \in ClientOps /\ f.parts \in {{}, Parts} /\ (f.op = "idle" => f.i = 0)

(* What such a step leaves alone. *)
LEMMA Moved ==
    ASSUME IInv, DInv, SoleClient, NEW t \in Clients, NEW v, NEW f, NEW e, Moves(t, v, f, e)
    PROVE  /\ frame'[t] = f /\ \A u \in Threads \ {t} : frame'[u] = frame[u]
           /\ cache'[v] = e /\ \A j \in Slots \ {v} : cache'[j] = cache[j]
           /\ Calls'
           /\ "flush" \in Daemons => frame'["flush"] = frame["flush"]
           /\ f.op # "write_back" => \A u \in Threads : frame'[u].op # "write_back"
  <1>1. /\ frame'[t] = f /\ \A u \in Threads \ {t} : frame'[u] = frame[u]
        /\ cache'[v] = e /\ \A j \in Slots \ {v} : cache'[j] = cache[j]
    BY ClientHere DEF Moves
  <1>2. Calls'
    BY SMT, <1>1, Alone DEF Moves, Calls, DInv, KInv
  <1>3. "flush" \in Daemons => frame'["flush"] = frame["flush"]
    BY <1>1, ClientHere DEF Threads
  <1>4. f.op # "write_back" => \A u \in Threads : frame'[u].op # "write_back"
    BY <1>1, Alone
  <1> QED
    BY <1>1, <1>2, <1>3, <1>4

(* An empty entry becomes the sector's. *)
LEMMA TakeEmpty ==
    ASSUME IInv, DInv, SoleClient, NEW t \in Clients, frame[t].op = "load",
           NEW v \in EmptySlots, NEW f, NEW e, Moves(t, v, f, e),
           f.op = IF Writing(t) THEN "verify" ELSE "fill",
           f.slot = v, f.sector = frame[t].sector, f.parts = frame[t].parts,
           e.sector = frame[t].sector, e.dirty = cache[v].dirty, disk' = disk, hist' = hist
    PROVE  DInv'
  <1> DEFINE s0 == frame[t].sector
  <1>1. /\ v \in Slots /\ cache[v].sector = CACHE_SECTOR_EMPTY /\ ~ cache[v].dirty
        /\ s0 \in Sectors /\ s0 # CACHE_SECTOR_EMPTY
    BY SMT, ClientHere DEF EmptySlots, DInv, KInv, EmptyClean, Sectors, CACHE_SECTOR_EMPTY
  <1>2. /\ frame'[t] = f /\ \A u \in Threads \ {t} : frame'[u] = frame[u]
        /\ cache'[v] = e /\ \A j \in Slots \ {v} : cache'[j] = cache[j]
        /\ Calls'
        /\ "flush" \in Daemons => frame'["flush"] = frame["flush"]
        /\ \A u \in Threads : frame'[u].op # "write_back"
    BY SMT, Moved
  <1>3. \A i \in Slots : cache[i].sector # s0
    BY DEF DInv, KInv, Evicting, Held
  <1>4. LoadedOnce'
    BY SMT, <1>1, <1>2, <1>3 DEF DInv, KInv, LoadedOnce
  <1>5. LatestInEntry'
    <2> SUFFICES ASSUME NEW i \in Slots, cache'[i].sector # CACHE_SECTOR_EMPTY,
                        ~ Overwrites(t, i)'
                 PROVE  cache'[i].data = hist'.mem[cache'[i].sector]
      BY DEF LatestInEntry
    <2>1. i # v
      BY <1>2, Alone DEF Overwrites, Writing
    <2>2. \A u \in Clients : ~ Overwrites(u, i)
      BY SMTT(30), Alone DEF Overwrites
    <2> QED
      BY SMT, <1>2, <2>1, <2>2 DEF DInv, KInv, LatestInEntry
  <1>6. Evicting'
    BY SMT, <1>1, <1>2, Alone DEF Evicting, Moves
  <1>7. EmptyClean'
    BY SMT, <1>1, <1>2 DEF DInv, KInv, EmptyClean
  <1>8. CleanOnDisk'
    <2> SUFFICES ASSUME NEW s \in Sectors, \A i \in Slots : cache'[i].sector = s => ~ cache'[i].dirty
                 PROVE  disk'[s] = hist'.mem[s]
      BY DEF CleanOnDisk
    <2>1. \A i \in Slots : cache[i].sector = s => ~ cache[i].dirty
      BY SMT, <1>1, <1>2
    <2> QED
      BY <2>1, Alone
  <1>9. Reached'
    <2>1. \A s, n : Pending(s, n) => Pending(s, n)'
      BY SMT, <1>1, <1>2, Alone DEF Pending
    <2> QED
      BY <1>2, <2>1 DEF DInv, Reached
  <1> QED
    BY <1>2, <1>4, <1>5, <1>6, <1>7, <1>8, <1>9 DEF DInv, KInv

(* get_free_cache, for the client. *)
LEMMA LoadContents ==
    ASSUME IInv, DInv, SoleClient, NEW t \in Clients, Load(t)
    PROVE  DInv'
  <1>1. frame[t].op = "load" /\ get_free_cache(t) /\ t # "read_ahead" /\ Loaded(t) = "verify"
    BY SMT, CacheAssumption DEF Load, At, Loaded
  <1>2. CASE EmptySlots # {}
    <2> DEFINE i == Min(EmptySlots)
               op == IF Writing(t) THEN "verify" ELSE "fill"
               f == [frame[t] EXCEPT !.slot = i, !.op = op]
               e == [cache[i] EXCEPT !.lock = t, !.sector = frame[t].sector]
    <2>1. i \in EmptySlots
      BY SMT, <1>2, MinSlot DEF EmptySlots
    <2>2. i \in Slots /\ cache[i] \in Entries
      BY <2>1, ClientHere DEF EmptySlots
    <2>3. cache[i].lock = NULL /\ cache[i].mode = "UNLOCK" /\ ~ (Len(lru) >= CACHE_SIZE)
      BY SMT, <2>1, EmptyFree, ClientHere, CacheAssumption
    <2>4. /\ disk' = disk /\ hist' = hist
          /\ cache' = [cache EXCEPT ![i].lock = t, ![i].sector = frame[t].sector]
          /\ frame' = [frame EXCEPT ![t].slot = i, ![t].op = op]
      BY <1>1, <1>2, <2>3 DEF get_free_cache
    <2>5. op \in {"verify", "fill"}
      OBVIOUS
    <2> HIDE DEF i, op
    <2>6. frame' = [frame EXCEPT ![t] = f] /\ cache' = [cache EXCEPT ![i] = e]
      BY <2>2, <2>4, ClientHere
    <2>7. e.sector = frame[t].sector /\ e.dirty = cache[i].dirty
      BY <2>2 DEF Entries
    <2>8. /\ f \in Frames /\ f.slot = i /\ f.op = op /\ f.parts = frame[t].parts
          /\ f.sector = frame[t].sector
      BY ZenonT(40), <2>2, <2>5, ClientHere DEF Frames, Ops
    <2> HIDE DEF e, f
    <2>9. Moves(t, i, f, e)
      BY <2>2, <2>5, <2>6, <2>8, ClientHere DEF Moves, ClientOps
    <2>10. f.op = IF Writing(t) THEN "verify" ELSE "fill"
      BY <2>8 DEF op
    <2> QED
      BY <1>1, <2>1, <2>4, <2>7, <2>8, <2>9, <2>10, TakeEmpty
  <1>3. CASE EmptySlots = {} /\ lru = <<>>
    <2> DEFINE f == To(frame[t], "lookup")
    <2>1. frame' = [frame EXCEPT ![t] = f] /\ cache' = cache /\ disk' = disk /\ hist' = hist
      BY <1>1, <1>3, ClientHere DEF get_free_cache, Goto, To
    <2>2. f \in Frames /\ f.op = "lookup" /\ f.parts = frame[t].parts
      BY SMT, ClientHere, FrameOp DEF Ops
    <2> HIDE DEF f
    <2>3. Quiet(t, f)
      BY <1>1, <2>1, <2>2, ClientHere DEF Quiet, SameContents, ClientOps, Overwrites
    <2> QED
      BY <2>1, <2>3, ClientHere, QuietReached
  <1>4. CASE EmptySlots = {} /\ lru # <<>> /\ sector_to_cache(Head(lru)) = NULL
    BY <1>1, <1>4, PanicKeeps DEF get_free_cache
  <1>5. CASE EmptySlots = {} /\ lru # <<>> /\ sector_to_cache(Head(lru)) # NULL
    <2> DEFINE i == sector_to_cache(Head(lru))
               f == ToSlot(frame[t], "evict", i)
    <2>1. frame' = [frame EXCEPT ![t] = f] /\ cache' = cache /\ disk' = disk /\ hist' = hist
      BY <1>1, <1>5, ClientHere DEF get_free_cache, ToSlot
    <2>2. i \in Slots
      BY <1>5, LookupFinds
    <2> HIDE DEF i
    <2>3. f \in Frames /\ f.op = "evict" /\ f.parts = frame[t].parts
      <3>1. frame[t] \in Frames /\ "evict" \in Ops
        BY ClientHere DEF Ops
      <3> QED
        BY SMT, <2>2, <3>1, FrameSlot
    <2> HIDE DEF f
    <2>4. Quiet(t, f)
      BY ZenonT(40), <1>1, <2>1, <2>3, ClientHere DEF Quiet, SameContents, ClientOps, Overwrites
    <2> QED
      BY <2>1, <2>4, ClientHere, QuietReached
  <1> QED
    BY <1>2, <1>3, <1>4, <1>5

(* A victim becomes the sector's; what it holds has still to be written. *)
LEMMA TakeVictim ==
    ASSUME IInv, DInv, SoleClient, NEW t \in Clients, frame[t].op = "evict_table",
           NEW v, v = frame[t].slot, NEW f, NEW e, Moves(t, v, f, e),
           \A i \in Slots : cache[i].sector # frame[t].sector,
           f.op = "write_back", f.slot = v, f.sector = frame[t].sector,
           f.old = cache[v].sector, e.sector = frame[t].sector,
           e.dirty = cache[v].dirty, e.data = cache[v].data, disk' = disk, hist' = hist
    PROVE  DInv'
  <1> DEFINE s0 == frame[t].sector
             old == cache[v].sector
  <1>1. /\ v \in Slots /\ old \in Sectors /\ old # CACHE_SECTOR_EMPTY
        /\ s0 \in Sectors /\ s0 # CACHE_SECTOR_EMPTY /\ s0 # old
    <2>1. v \in Slots /\ s0 \in Sectors /\ cache[v] \in Entries /\ s0 # old
      BY ClientHere
    <2>2. old # CACHE_SECTOR_EMPTY
      BY SMT, ClientHere DEF CInv, Locking, Using, Locked
    <2>3. old \in Sectors
      BY <2>1, <2>2 DEF Entries
    <2>4. s0 # CACHE_SECTOR_EMPTY
      BY SMT, <2>1 DEF Sectors, CACHE_SECTOR_EMPTY
    <2> QED
      BY SMT, <2>1, <2>2, <2>3, <2>4
  <1>2. /\ frame'[t] = f /\ \A u \in Threads \ {t} : frame'[u] = frame[u]
        /\ cache'[v] = e /\ \A j \in Slots \ {v} : cache'[j] = cache[j]
        /\ Calls'
        /\ "flush" \in Daemons => frame'["flush"] = frame["flush"]
    BY SMT, Moved
  <1>3. \A i \in Slots \ {v} : cache[i].sector # old
    BY <1>1 DEF DInv, KInv, LoadedOnce
  <1>4. \A i \in Slots, u \in Clients : ~ Overwrites(u, i)
    BY SMT, Alone DEF Overwrites
  <1>5. cache[v].data = hist.mem[old]
    BY <1>1, <1>4 DEF DInv, KInv, LatestInEntry
  <1>6. disk[s0] = hist.mem[s0] /\ (cache[v].dirty \/ disk[old] = hist.mem[old])
    BY SMT, <1>1, <1>3, Alone
  <1>7. LoadedOnce'
    BY SMT, <1>1, <1>2 DEF DInv, KInv, LoadedOnce
  <1>8. LatestInEntry'
    <2> SUFFICES ASSUME NEW i \in Slots, cache'[i].sector # CACHE_SECTOR_EMPTY,
                        ~ Overwrites(t, i)'
                 PROVE  cache'[i].data = hist'.mem[cache'[i].sector]
      BY DEF LatestInEntry
    <2>1. i # v
      BY <1>2 DEF Overwrites
    <2> QED
      BY ZenonT(40), <1>2, <1>4, <2>1 DEF DInv, KInv, LatestInEntry
  <1>9. Evicting'
    <2>1. \A i \in Slots : cache'[i].sector # old
      BY SMT, <1>1, <1>2, <1>3
    <2>2. \A u \in Clients : frame'[u] = f
      BY <1>2, Alone
    <2>3. /\ ~ Held(f.old)' /\ cache'[f.slot].data = hist'.mem[f.old]
          /\ cache'[f.slot].dirty \/ disk'[f.old] = hist'.mem[f.old]
          /\ disk'[f.sector] = hist'.mem[f.sector] /\ f.old \in Sectors
      BY ZenonT(40), <1>1, <1>2, <1>5, <1>6, <2>1 DEF Held
    <2> QED
      BY SMT, <2>2, <2>3 DEF Evicting, Held
  <1>10. EmptyClean'
    BY SMT, <1>1, <1>2 DEF DInv, KInv, EmptyClean
  <1>11. CleanOnDisk'
    <2> SUFFICES ASSUME NEW s \in Sectors, f.old # s,
                        \A i \in Slots : cache'[i].sector = s => ~ cache'[i].dirty
                 PROVE  disk'[s] = hist'.mem[s]
      BY <1>2, ClientHere DEF CleanOnDisk
    <2>1. CASE s = s0
      BY <1>6, <2>1
    <2>2. CASE s # s0
      <3>1. \A i \in Slots : cache[i].sector = s => ~ cache[i].dirty
        BY SMT, <1>2, <2>2
      <3> QED
        BY <3>1, Alone
    <2> QED
      BY <2>1, <2>2
  <1>12. Reached'
    <2>1. ASSUME NEW s, NEW n, Pending(s, n) PROVE Pending(s, n)'
      <3>1. PICK j \in Slots : j >= n /\ cache[j].dirty /\ cache[j].sector = s
        BY SMT, <2>1, Alone DEF Pending
      <3>2. CASE j = v
        BY <1>2, <3>1, <3>2 DEF Pending
      <3>3. CASE j # v
        BY <1>2, <3>1, <3>3 DEF Pending
      <3> QED
        BY <3>2, <3>3
    <2> QED
      BY <1>2, <2>1 DEF DInv, Reached
  <1> QED
    BY <1>2, <1>7, <1>8, <1>9, <1>10, <1>11, <1>12 DEF DInv, KInv

(* The victim gets the new sector, or is put back. *)
LEMMA EvictTableContents ==
    ASSUME IInv, DInv, SoleClient, NEW t \in Clients, EvictTable(t)
    PROVE  DInv'
  <1> DEFINE v == frame[t].slot
             i == sector_to_cache(frame[t].sector)
  <1>1. frame[t].op = "evict_table"
    BY DEF EvictTable, At
  <1>2. CASE Len(lru) >= CACHE_SIZE
    BY <1>2, PanicKeeps DEF EvictTable
  <1>3. CASE ~ (Len(lru) >= CACHE_SIZE) /\ i # NULL
    <2> DEFINE f == ToSlot(frame[t], "enter", i)
               e == [cache[v] EXCEPT !.lock = NULL]
    <2>1. /\ frame' = [frame EXCEPT ![t] = f] /\ cache' = [cache EXCEPT ![v] = e]
          /\ disk' = disk /\ hist' = hist
      BY <1>3, ClientHere DEF EvictTable, ToSlot
    <2>2. i \in Slots
      BY <1>3, LookupFinds
    <2>3. e.sector = cache[v].sector /\ e.dirty = cache[v].dirty /\ e.data = cache[v].data
      BY ClientHere DEF Entries
    <2> HIDE DEF i
    <2>4. f \in Frames /\ f.op = "enter" /\ f.parts = frame[t].parts
      <3>1. frame[t] \in Frames /\ "enter" \in Ops
        BY ClientHere DEF Ops
      <3> QED
        BY SMT, <2>2, <3>1, FrameSlot
    <2> HIDE DEF e, f
    <2>5. SameContents
      BY <2>1, <2>3, ClientHere, SameInEntry
    <2>6. Quiet(t, f)
      BY <1>1, <2>1, <2>4, <2>5, ClientHere DEF Quiet, ClientOps, Overwrites
    <2> QED
      BY <2>1, <2>6, ClientHere, QuietReached
  <1>4. CASE ~ (Len(lru) >= CACHE_SIZE) /\ i = NULL
    <2> DEFINE f == [frame[t] EXCEPT !.op = "write_back", !.old = cache[v].sector]
               e == [cache[v] EXCEPT !.sector = frame[t].sector]
    <2>1. /\ frame' = [frame EXCEPT ![t] = f] /\ cache' = [cache EXCEPT ![v] = e]
          /\ disk' = disk /\ hist' = hist
      BY <1>4, ClientHere DEF EvictTable
    <2>2. \A j \in Slots : cache[j].sector # frame[t].sector
      BY <1>4, LookupFinds
    <2>3. e.sector = frame[t].sector /\ e.dirty = cache[v].dirty /\ e.data = cache[v].data
      BY ClientHere DEF Entries
    <2>4. /\ f \in Frames /\ f.op = "write_back" /\ f.parts = frame[t].parts
          /\ f.slot = v /\ f.sector = frame[t].sector /\ f.old = cache[v].sector
      BY ZenonT(40), ClientHere DEF Frames, Ops, Entries
    <2> HIDE DEF e, f
    <2>5. Moves(t, v, f, e)
      BY <2>1, <2>4, ClientHere DEF Moves, ClientOps
    <2> HIDE DEF v
    <2>6. v = frame[t].slot
      BY DEF v
    <2> QED
      BY <1>1, <2>1, <2>2, <2>3, <2>4, <2>5, <2>6, TakeVictim
  <1> QED
    BY <1>2, <1>3, <1>4

(* The old contents of the victim reach the disk before it is filled. *)
LEMMA WriteBackContents ==
    ASSUME IInv, DInv, SoleClient, NEW t \in Clients, WriteBack(t)
    PROVE  DInv'
  <1> DEFINE v == frame[t].slot
             s0 == frame[t].sector
             old == frame[t].old
             op == IF Writing(t) THEN "verify" ELSE "fill"
             f == To(frame[t], op)
             e == [cache[v] EXCEPT !.dirty = FALSE, !.access = FALSE, !.mode = "UNLOCK"]
  <1>1. frame[t].op = "write_back" /\ Loaded(t) = "verify"
    BY CacheAssumption DEF WriteBack, At, Loaded
  <1>2. /\ frame' = [frame EXCEPT ![t] = f] /\ cache' = [cache EXCEPT ![v] = e]
        /\ disk' = IF cache[v].dirty THEN [disk EXCEPT ![old] = cache[v].data] ELSE disk
        /\ hist' = hist
    BY <1>1, ClientHere DEF WriteBack, Goto, To
  <1>3. op \in {"verify", "fill"}
    OBVIOUS
  <1>4. e.sector = cache[v].sector /\ ~ e.dirty /\ e.data = cache[v].data
    BY ClientHere DEF Entries
  <1>5. /\ f \in Frames /\ f.op = op /\ f.parts = frame[t].parts
        /\ f.slot = v /\ f.sector = s0
    BY SMT, <1>3, ClientHere, FrameOp DEF Ops
  <1> HIDE DEF e, f
  <1>6. Moves(t, v, f, e)
    BY <1>2, <1>3, <1>5, ClientHere DEF Moves, ClientOps
  <1>7. /\ frame'[t] = f /\ \A u \in Threads \ {t} : frame'[u] = frame[u]
        /\ cache'[v] = e /\ \A j \in Slots \ {v} : cache'[j] = cache[j]
        /\ Calls'
        /\ "flush" \in Daemons => frame'["flush"] = frame["flush"]
        /\ \A u \in Threads : frame'[u].op # "write_back"
    BY SMT, <1>3, <1>5, <1>6, Moved
  <1>8. /\ v \in Slots /\ cache[v].sector = s0 /\ s0 \in Sectors /\ s0 # CACHE_SECTOR_EMPTY
        /\ disk \in [Sectors -> Data]
    <2>1. v \in Slots /\ s0 \in Sectors
      BY ClientHere
    <2>2. cache[v].sector = s0
      BY SMT, <1>1, ClientHere DEF CInv, Locking, Own
    <2>3. s0 # CACHE_SECTOR_EMPTY
      BY SMT, <2>1 DEF Sectors, CACHE_SECTOR_EMPTY
    <2>4. disk \in [Sectors -> Data]
      BY DEF IInv, DataOK
    <2> QED
      BY <2>1, <2>2, <2>3, <2>4
  <1>9. /\ old \in Sectors /\ cache[v].data = hist.mem[old] /\ disk[s0] = hist.mem[s0]
        /\ cache[v].dirty \/ disk[old] = hist.mem[old]
    BY <1>1 DEF DInv, KInv, Evicting
  <1>10. /\ disk'[old] = hist.mem[old]
         /\ \A s \in Sectors : disk[s] = hist.mem[s] => disk'[s] = hist.mem[s]
    BY <1>2, <1>8, <1>9
  <1>11. LoadedOnce'
    BY SMT, <1>4, <1>7, <1>8 DEF DInv, KInv, LoadedOnce
  <1>12. LatestInEntry'
    <2> SUFFICES ASSUME NEW i \in Slots, cache'[i].sector # CACHE_SECTOR_EMPTY,
                        ~ Overwrites(t, i)'
                 PROVE  cache'[i].data = hist'.mem[cache'[i].sector]
      BY DEF LatestInEntry
    <2>1. i # v
      BY <1>4, <1>5, <1>7, <1>8 DEF Overwrites, Writing
    <2>2. \A u \in Clients : ~ Overwrites(u, i)
      BY <2>1, Alone DEF Overwrites
    <2> QED
      BY SMT, <1>2, <1>7, <2>1, <2>2 DEF DInv, KInv, LatestInEntry
  <1>13. Evicting'
    BY SMT, <1>3, <1>4, <1>5, <1>7, Alone DEF Evicting
  <1>14. EmptyClean'
    BY <1>4, <1>7 DEF DInv, KInv, EmptyClean
  <1>15. CleanOnDisk'
    <2> SUFFICES ASSUME NEW s \in Sectors,
                        \A i \in Slots : cache'[i].sector = s => ~ cache'[i].dirty
                 PROVE  disk'[s] = hist'.mem[s]
      BY DEF CleanOnDisk
    <2>1. CASE s \in {s0, old}
      BY ZenonT(40), <1>2, <1>9, <1>10, <2>1
    <2>2. CASE s \notin {s0, old}
      <3>1. \A i \in Slots : cache[i].sector = s => ~ cache[i].dirty
        BY <1>7, <1>8, <2>2
      <3>2. \A u \in Threads : frame[u].op = "write_back" => frame[u].old # s
        BY <2>2, Alone
      <3> QED
        BY <1>2, <1>10, <3>1, <3>2 DEF DInv, KInv, CleanOnDisk
    <2> QED
      BY <2>1, <2>2
  <1>16. Reached'
    <2>1. ASSUME NEW s \in Sectors, NEW n, Pending(s, n)
          PROVE  Pending(s, n)' \/ disk'[s] = hist.mem[s]
      <3>1. PICK j \in Slots : /\ j >= n /\ cache[j].dirty
                               /\ cache[j].sector = s \/ (j = v /\ old = s)
        BY SMT, <2>1, Alone DEF Pending
      <3>2. CASE j = v
        BY <1>8, <1>9, <1>10, <3>1, <3>2
      <3>3. CASE j # v
        BY <1>7, <3>1, <3>3 DEF Pending
      <3> QED
        BY <3>2, <3>3
    <2> QED
      BY SMT, <1>2, <1>7, <1>10, <2>1 DEF DInv, Reached
  <1> QED
    BY <1>7, <1>11, <1>12, <1>13, <1>14, <1>15, <1>16 DEF DInv, KInv

(* What is read from the disk is what was last written to the sector. *)
LEMMA FillContents ==
    ASSUME IInv, DInv, SoleClient, NEW t \in Clients, Fill(t)
    PROVE  DInv'
  <1> DEFINE v == frame[t].slot
             s0 == frame[t].sector
             f == To(frame[t], "verify")
             e == [cache[v] EXCEPT !.data = disk[s0]]
  <1>1. frame[t].op = "fill" /\ Loaded(t) = "verify"
    BY CacheAssumption DEF Fill, At, Loaded
  <1>2. /\ frame' = [frame EXCEPT ![t] = f] /\ cache' = [cache EXCEPT ![v] = e]
        /\ disk' = disk /\ hist' = hist
    BY <1>1, ClientHere DEF Fill, Goto, To
  <1>3. e.sector = cache[v].sector /\ e.dirty = cache[v].dirty /\ e.data = disk[s0]
    BY ClientHere DEF Entries
  <1>4. f \in Frames /\ f.op = "verify" /\ f.parts = frame[t].parts
    BY SMT, ClientHere, FrameOp DEF Ops
  <1> HIDE DEF e, f
  <1>5. Moves(t, v, f, e)
    BY <1>2, <1>4, ClientHere DEF Moves, ClientOps
  <1>6. /\ frame'[t] = f /\ \A u \in Threads \ {t} : frame'[u] = frame[u]
        /\ cache'[v] = e /\ \A j \in Slots \ {v} : cache'[j] = cache[j]
        /\ Calls'
        /\ "flush" \in Daemons => frame'["flush"] = frame["flush"]
        /\ \A u \in Threads : frame'[u].op # "write_back"
    BY SMT, <1>4, <1>5, Moved
  <1>7. /\ v \in Slots /\ cache[v].sector = s0 /\ s0 \in Sectors /\ s0 # CACHE_SECTOR_EMPTY
        /\ ~ cache[v].dirty
    <2>1. v \in Slots /\ s0 \in Sectors
      BY ClientHere
    <2>2. cache[v].sector = s0
      BY <1>1, ClientHere DEF CInv, Locking, Own
    <2>3. s0 # CACHE_SECTOR_EMPTY
      BY SMT, <2>1 DEF Sectors, CACHE_SECTOR_EMPTY
    <2>4. ~ cache[v].dirty
      BY <1>1, ClientHere DEF DInv, KInv, Evicting
    <2> QED
      BY <2>1, <2>2, <2>3, <2>4
  <1>8. disk[s0] = hist.mem[s0]
    <2>1. \A i \in Slots : cache[i].sector = s0 => ~ cache[i].dirty
      BY <1>7 DEF DInv, KInv, LoadedOnce
    <2> QED
      BY <1>1, <1>7, <2>1, Alone
  <1>9. LoadedOnce'
    BY SMT, <1>3, <1>6 DEF DInv, KInv, LoadedOnce
  <1>10. LatestInEntry'
    <2> SUFFICES ASSUME NEW i \in Slots, cache'[i].sector # CACHE_SECTOR_EMPTY
                 PROVE  cache'[i].data = hist'.mem[cache'[i].sector]
      BY DEF LatestInEntry
    <2>1. CASE i = v
      BY SMTT(30), <1>2, <1>3, <1>6, <1>7, <1>8, <2>1
    <2>2. CASE i # v
      <3>1. \A u \in Clients : ~ Overwrites(u, i)
        BY <2>2, Alone DEF Overwrites
      <3> QED
        BY SMT, <1>2, <1>6, <2>2, <3>1 DEF DInv, KInv, LatestInEntry
    <2> QED
      BY <2>1, <2>2
  <1>11. Evicting'
    BY <1>4, <1>6, Alone DEF Evicting
  <1>12. EmptyClean'
    BY SMT, <1>3, <1>6 DEF DInv, KInv, EmptyClean
  <1>13. CleanOnDisk'
    <2> SUFFICES ASSUME NEW s \in Sectors,
                        \A i \in Slots : cache'[i].sector = s => ~ cache'[i].dirty
                 PROVE  disk'[s] = hist'.mem[s]
      BY DEF CleanOnDisk
    <2>1. \A i \in Slots : cache[i].sector = s => ~ cache[i].dirty
      BY SMT, <1>3, <1>6
    <2> QED
      BY <1>1, <1>2, <2>1, Alone
  <1>14. Reached'
    <2>1. \A s, n : Pending(s, n) => Pending(s, n)'
      BY SMT, <1>1, <1>3, <1>6, Alone DEF Pending
    <2> QED
      BY <1>2, <1>6, <2>1 DEF DInv, Reached
  <1> QED
    BY <1>6, <1>9, <1>10, <1>11, <1>12, <1>13, <1>14 DEF DInv, KInv

-----------------------------------------------------------------------------
(* The copy itself *)

(* A read leaves the contents, a write of a whole sector forgets them. *)
LEMMA WrittenWhole ==
    ASSUME IInv, DInv, NEW t \in Clients, NEW a \in Data, NEW b \in Data
    PROVE  /\ Writing(t) => Written(t, a) = Written(t, b)
           /\ ~ Writing(t) => Written(t, a) = a
  <1>1. CASE Writing(t)
    <2>1. frame[t].parts = Parts
      BY <1>1, ClientHere DEF Writing
    <2> QED
      BY <1>1, <2>1 DEF Written
  <1>2. CASE ~ Writing(t)
    <2>1. frame[t].parts = {}
      BY <1>2 DEF Writing
    <2>2. a = [h \in Parts |-> a[h]]
      BY DEF Data
    <2> QED
      BY <1>2, <2>1, <2>2 DEF Written
  <1> QED
    BY <1>1, <1>2

(* The client's write is in the entry and in the history. *)
LEMMA AccessContents ==
    ASSUME IInv, DInv, SoleClient, NEW t \in Clients, Access(t)
    PROVE  DInv'
  <1> DEFINE v == frame[t].slot
             s0 == frame[t].sector
             e == [cache[v] EXCEPT !.data = Written(t, @), !.access = TRUE,
                                   !.dirty = @ \/ Writing(t), !.lock = NULL, !.mode = "UNLOCK"]
  <1>1. /\ frame[t].op = "access" /\ frame' = [frame EXCEPT ![t] = Idle]
        /\ cache' = [cache EXCEPT ![v] = e] /\ disk' = disk
        /\ hist' = [hist EXCEPT !.mem[s0] = Written(t, @), !.fresh = @ \cup Fresh(t)]
    BY ZenonT(40), ClientHere DEF Access, At
  <1>2. /\ e.sector = cache[v].sector /\ e.dirty = (cache[v].dirty \/ Writing(t))
        /\ e.data = Written(t, cache[v].data)
    BY SMT, ClientHere DEF Entries
  <1> HIDE DEF e
  <1>3. Idle \in Frames /\ Idle.op = "idle" /\ Idle.parts = {} /\ Idle.i = 0
    BY IdleOK DEF Idle
  <1>4. Moves(t, v, Idle, e)
    BY <1>1, <1>3, ClientHere DEF Moves, ClientOps
  <1>5. /\ frame'[t] = Idle /\ \A u \in Threads \ {t} : frame'[u] = frame[u]
        /\ cache'[v] = e /\ \A j \in Slots \ {v} : cache'[j] = cache[j]
        /\ Calls'
        /\ "flush" \in Daemons => frame'["flush"] = frame["flush"]
        /\ \A u \in Threads : frame'[u].op # "write_back"
    BY SMTT(30), <1>3, <1>4, Moved
  <1>6. /\ v \in Slots /\ cache[v].sector = s0 /\ s0 \in Sectors /\ s0 # CACHE_SECTOR_EMPTY
        /\ cache[v].data \in Data /\ hist.mem \in [Sectors -> Data]
        /\ hist \in [mem : [Sectors -> Data], fresh : SUBSET Sectors]
    BY SMT, <1>1, ClientHere
       DEF IInv, DataOK, CInv, Locking, Own, Sectors, CACHE_SECTOR_EMPTY, Entries
  <1>7. /\ hist'.mem = [hist.mem EXCEPT ![s0] = Written(t, hist.mem[s0])]
        /\ hist'.fresh = hist.fresh \cup Fresh(t)
    BY <1>1, <1>6
  <1>8. /\ hist'.mem[s0] = Written(t, hist.mem[s0])
        /\ \A s \in Sectors \ {s0} : hist'.mem[s] = hist.mem[s]
    BY <1>6, <1>7
  <1>9. \A j \in Slots \ {v} : cache[j].sector # s0
    BY <1>6 DEF DInv, KInv, LoadedOnce
  <1>10. ~ Writing(t) => hist'.mem[s0] = hist.mem[s0]
    BY <1>6, <1>8, WrittenWhole
  <1>11. e.data = hist'.mem[s0]
    <2>1. CASE Writing(t)
      BY ZenonT(40), <1>2, <1>6, <1>8, <2>1, WrittenWhole
    <2>2. CASE ~ Writing(t)
      <3>1. \A u \in Clients : ~ Overwrites(u, v)
        BY <1>1, <2>2, Alone DEF Overwrites
      <3>2. cache[v].data = hist.mem[s0]
        BY <1>6, <3>1 DEF DInv, KInv, LatestInEntry
      <3> QED
        BY <1>2, <1>6, <1>8, <3>2
    <2> QED
      BY <2>1, <2>2
  <1>12. LoadedOnce'
    BY SMT, <1>2, <1>5 DEF DInv, KInv, LoadedOnce
  <1>13. LatestInEntry'
    <2> SUFFICES ASSUME NEW i \in Slots, cache'[i].sector # CACHE_SECTOR_EMPTY
                 PROVE  cache'[i].data = hist'.mem[cache'[i].sector]
      BY DEF LatestInEntry
    <2>1. CASE i = v
      BY <1>2, <1>5, <1>6, <1>11, <2>1
    <2>2. CASE i # v
      <3>1. \A u \in Clients : ~ Overwrites(u, i)
        BY <2>2, Alone DEF Overwrites
      <3>2. cache'[i] = cache[i] /\ cache[i].sector \in Sectors \ {s0}
        BY SMT, <1>5, <1>9, <2>2, ClientHere DEF Entries
      <3>3. cache[i].data = hist.mem[cache[i].sector]
        BY <3>1, <3>2 DEF DInv, KInv, LatestInEntry
      <3> QED
        BY <1>8, <3>2, <3>3
    <2> QED
      BY <2>1, <2>2
  <1>14. Evicting'
    BY SMTT(30), <1>3, <1>5, Alone DEF Evicting
  <1>15. EmptyClean'
    BY SMT, <1>2, <1>5, <1>6 DEF DInv, KInv, EmptyClean
  <1>16. CleanOnDisk'
    <2> SUFFICES ASSUME NEW s \in Sectors,
                        \A i \in Slots : cache'[i].sector = s => ~ cache'[i].dirty
                 PROVE  disk'[s] = hist'.mem[s]
      BY DEF CleanOnDisk
    <2>1. \A i \in Slots : cache[i].sector = s => ~ cache[i].dirty
      BY ZenonT(40), <1>2, <1>5
    <2>2. disk[s] = hist.mem[s]
      BY <1>1, <2>1, Alone
    <2>3. s = s0 => ~ Writing(t)
      BY <1>2, <1>5, <1>6
    <2> QED
      BY <1>1, <1>8, <1>10, <2>2, <2>3
  <1>17. Reached'
    <2> SUFFICES ASSUME "flush" \in Daemons, frame["flush"].op # "idle",
                        NEW s \in Sectors \ hist'.fresh
                 PROVE  disk'[s] = hist'.mem[s] \/ Pending(s, frame["flush"].i)'
      BY <1>5 DEF Reached, Pending
    <2>1. s \notin hist.fresh /\ (Writing(t) => s # s0)
      BY <1>7 DEF Fresh
    <2>2. hist'.mem[s] = hist.mem[s]
      BY <1>8, <1>10, <2>1
    <2>3. ASSUME NEW n, Pending(s, n)
          PROVE  \E j \in Slots : j >= n /\ cache'[j].dirty /\ cache'[j].sector = s
      <3>1. PICK j \in Slots : j >= n /\ cache[j].dirty /\ cache[j].sector = s
        BY SMT, <1>1, <2>3, Alone DEF Pending
      <3>2. cache'[j].dirty /\ cache'[j].sector = s
        BY <1>2, <1>5, <3>1
      <3> QED
        BY <3>1, <3>2
    <2> QED
      BY SMTT(30), <1>1, <1>5, <2>1, <2>2, <2>3 DEF DInv, Reached, Pending
  <1> QED
    BY <1>5, <1>12, <1>13, <1>14, <1>15, <1>16, <1>17 DEF DInv, KInv

-----------------------------------------------------------------------------
(* write_behind and flush_cache *)

(* A thread that scans is write_behind or flush_cache. *)
LEMMA DaemonHere ==
    ASSUME IInv, DInv, SoleClient, NEW t \in Threads, frame[t].op \in {"scan", "clean"}
    PROVE  /\ t \in Daemons \ Clients /\ t \in {"write_behind", "flush"} /\ CInv
           /\ frame[t] \in Frames /\ frame[t].i \in 0 .. CACHE_SIZE
           /\ frame[t].op = "clean" => frame[t].i \in Slots
  <1>1. CInv /\ t \notin Clients
    BY DEF IInv, DInv, KInv, Calls, ClientOps
  <1>2. t \in Daemons /\ t \in {"write_behind", "flush"}
    BY <1>1, CacheAssumption DEF SoleClient, Threads
  <1> QED
    BY <1>1, <1>2, Here

(* A step of a pass that writes nothing. *)
LEMMA PassQuiet ==
    ASSUME IInv, DInv, NEW t \in Threads \ Clients, NEW f \in Frames,
           frame[t].op \in {"idle", "scan"}, f.op \in {"idle", "scan", "clean"},
           f.parts = frame[t].parts \/ f.parts = {}, f.op = "idle" => f.i = 0,
           frame' = [frame EXCEPT ![t] = f], cache' = cache, disk' = disk,
           hist'.mem = hist.mem
    PROVE  Quiet(t, f)
  <1>1. frame[t].parts \in {{}, Parts}
    BY DEF DInv, KInv, Calls
  <1> QED
    BY <1>1 DEF Quiet, SameContents, Overwrites

(* A pass begins at the first entry, with every dirty entry ahead of it. *)
LEMMA StartContents ==
    ASSUME IInv, DInv, NEW t \in Daemons, WriteBehindStart(t) \/ FlushStart(t)
    PROVE  DInv'
  <1> DEFINE f == To(frame[t], "scan")
  <1>1. t \in Threads \ Clients /\ CInv /\ frame[t] \in Frames
    BY Here, CacheAssumption DEF Threads, IInv
  <1>2. /\ frame' = [frame EXCEPT ![t] = f] /\ cache' = cache /\ disk' = disk /\ hist' = hist
        /\ frame[t].op = "idle"
    BY <1>1, Here DEF WriteBehindStart, FlushStart, Goto, At, To
  <1>3. /\ f \in Frames /\ f.op = "scan" /\ f.parts = frame[t].parts /\ f.i = frame[t].i
    BY SMT, <1>1, FrameOp DEF Ops
  <1> HIDE DEF f
  <1>4. Quiet(t, f)
    BY <1>1, <1>2, <1>3, PassQuiet
  <1>5. CASE t # "flush"
    BY <1>1, <1>2, <1>4, <1>5, QuietReached
  <1>6. CASE t = "flush"
    <2>1. frame'[t] = f /\ f.i = 0
      BY <1>1, <1>2, <1>3, Here DEF DInv, KInv, Calls
    <2>2. \A u \in Clients : frame'[u] = frame[u] /\ u \in Threads /\ frame[u].slot \in Slots
      BY <1>1, <1>2, Here, CacheAssumption DEF Threads, Frames
    <2>3. \A j \in Slots : j >= 0
      BY SMT, CacheAssumption DEF Slots
    <2>4. ASSUME NEW s \in Sectors, disk[s] # hist.mem[s]
          PROVE  \E j \in Slots :
                    /\ cache[j].dirty
                    /\ \/ cache[j].sector = s
                       \/ \E u \in Clients : /\ frame[u].op = "write_back"
                                             /\ frame[u].slot = j /\ frame[u].old = s
      <3>1. \/ \E j \in Slots : cache[j].dirty /\ cache[j].sector = s
            \/ \E u \in Threads : frame[u].op = "write_back" /\ frame[u].old = s
        BY <2>4 DEF DInv, KInv, CleanOnDisk
      <3>2. ASSUME NEW u \in Threads, frame[u].op = "write_back", frame[u].old = s
            PROVE  u \in Clients /\ cache[frame[u].slot].dirty
        <4>1. u \in Clients
          BY <3>2 DEF DInv, KInv, Calls
        <4> QED
          BY <2>4, <3>2, <4>1 DEF DInv, KInv, Evicting
      <3> QED
        BY <2>2, <3>1, <3>2
    <2>5. Reached'
      <3> SUFFICES ASSUME NEW s \in Sectors PROVE disk[s] = hist.mem[s] \/ Pending(s, 0)'
        BY SMT, <1>2, <1>6, <2>1 DEF Reached, Pending
      <3> QED
        BY SMT, <1>2, <2>2, <2>3, <2>4 DEF Pending
    <2> QED
      BY <1>1, <1>4, <2>5, QuietKeeps DEF DInv
  <1> QED
    BY <1>5, <1>6

(* A pass steps over an entry only when it is clean. *)
LEMMA ScanContents ==
    ASSUME IInv, DInv, SoleClient, NEW t \in Threads, Scan(t)
    PROVE  DInv'
  <1>1. /\ frame[t].op = "scan" /\ cache' = cache /\ disk' = disk /\ hist' = hist
        /\ frame[t].i < CACHE_SIZE
    BY DEF Scan, At
  <1>2. PICK f \in Frames :
           /\ frame' = [frame EXCEPT ![t] = f] /\ f.op \in {"scan", "clean"}
           /\ f.parts = frame[t].parts
           /\ \/ f.i = frame[t].i
              \/ /\ f.i = frame[t].i + 1
                 /\ \/ ~ cache[frame[t].i].dirty
                    \/ cache[frame[t].i].sector = CACHE_SECTOR_EMPTY
    <2> DEFINE g == To(frame[t], "clean")
               h == [frame[t] EXCEPT !.i = frame[t].i + 1]
    <2>1. frame \in [Threads -> Frames] /\ frame[t] \in Frames /\ frame[t].i \in 0 .. CACHE_SIZE
      BY <1>1, DaemonHere, Here
    <2>2. frame[t].i + 1 \in 0 .. CACHE_SIZE
      BY SMT, <1>1, <2>1, CacheAssumption
    <2>3. g \in Frames /\ g.op = "clean" /\ g.parts = frame[t].parts /\ g.i = frame[t].i
      BY SMT, <2>1, FrameOp DEF Ops
    <2>4. /\ h \in Frames /\ h.op = frame[t].op /\ h.parts = frame[t].parts
          /\ h.i = frame[t].i + 1
      BY <2>1, <2>2 DEF Frames
    <2>5. \/ frame' = [frame EXCEPT ![t] = g]
          \/ /\ frame' = [frame EXCEPT ![t] = h]
             /\ \/ ~ cache[frame[t].i].dirty
                \/ cache[frame[t].i].sector = CACHE_SECTOR_EMPTY
      BY <2>1 DEF Scan, Goto, To
    <2> HIDE DEF g, h
    <2> QED
      BY <1>1, <2>3, <2>4, <2>5
  <1>3. t \in Threads \ Clients
    BY <1>1, DaemonHere
  <1>4. Quiet(t, f)
    BY <1>1, <1>2, <1>3, PassQuiet
  <1>5. CASE t # "flush"
    BY <1>1, <1>4, <1>5, QuietReached
  <1>6. CASE t = "flush"
    <2>1. frame'[t] = f
      BY <1>2, Here DEF IInv
    <2>2. \A u \in Clients : frame'[u] = frame[u]
      BY <1>2, <1>3, Here DEF IInv, Threads
    <2>3. \A j \in Slots : j \in Int /\ (j >= frame[t].i /\ cache[j].dirty => j >= f.i)
      <3>1. frame[t].i \in Int /\ \A j \in Slots : j \in Int
        BY SMT, <1>1, DaemonHere, CacheAssumption DEF Slots
      <3>2. f.i = frame[t].i + 1 => \A j \in Slots : j = frame[t].i => ~ cache[j].dirty
        BY SMT, <1>2, <3>1 DEF DInv, KInv, EmptyClean
      <3> QED
        BY SMT, <1>2, <3>1, <3>2
    <2>4. \A s : Pending(s, frame[t].i) =>
             \E j \in Slots :
                    /\ j >= f.i /\ cache[j].dirty
                    /\ \/ cache[j].sector = s
                       \/ \E u \in Clients : /\ frame[u].op = "write_back"
                                             /\ frame[u].slot = j /\ frame[u].old = s
      BY <2>3 DEF Pending
    <2>5. Reached'
      BY SMTT(30), <1>1, <1>2, <1>6, <2>1, <2>2, <2>4 DEF DInv, Reached, Pending
    <2> QED
      BY <1>4, <2>5, QuietKeeps DEF DInv
  <1> QED
    BY <1>5, <1>6

(* A pass ends after the last entry. *)
LEMMA ScanEndContents ==
    ASSUME IInv, DInv, SoleClient, NEW t \in Threads, ScanEnd(t)
    PROVE  DInv'
  <1>1. /\ frame[t].op = "scan" /\ cache' = cache /\ disk' = disk
        /\ frame' = [frame EXCEPT ![t] = Idle]
        /\ hist' = IF t = "flush" THEN [hist EXCEPT !.fresh = {}] ELSE hist
    BY DEF ScanEnd, At
  <1>2. hist'.mem = hist.mem /\ (t # "flush" => hist'.fresh = hist.fresh)
    BY <1>1 DEF IInv, DataOK
  <1>3. t \in Threads \ Clients
    BY <1>1, DaemonHere
  <1>4. Idle \in Frames /\ Idle.op = "idle" /\ Idle.parts = {} /\ Idle.i = 0
    BY IdleOK DEF Idle
  <1>5. Quiet(t, Idle)
    BY <1>1, <1>2, <1>3, <1>4, PassQuiet
  <1>6. CASE t # "flush"
    BY <1>2, <1>5, <1>6, QuietReached
  <1>7. CASE t = "flush"
    <2>1. Reached'
      BY <1>1, <1>4, <1>7, Here DEF Reached, IInv
    <2> QED
      BY <1>5, <2>1, QuietKeeps DEF DInv
  <1> QED
    BY <1>6, <1>7

(* The entry written is clean, and the disk has its contents. *)
LEMMA CleanContents ==
    ASSUME IInv, DInv, SoleClient, NEW t \in Threads, Clean(t)
    PROVE  DInv'
  <1> DEFINE i == frame[t].i
             s0 == cache[i].sector
             f == [frame[t] EXCEPT !.op = "scan", !.i = i + 1]
             e == [cache[i] EXCEPT !.dirty = FALSE]
  <1>1. /\ frame[t].op = "clean" /\ cache[i].lock = NULL /\ hist' = hist
        /\ disk' = [disk EXCEPT ![s0] = cache[i].data]
    BY DEF Clean, At
  <1>2. /\ t \in Daemons \ Clients /\ t \in {"write_behind", "flush"} /\ CInv
        /\ i \in Slots /\ frame[t] \in Frames
    BY <1>1, DaemonHere
  <1>3. /\ cache \in [Slots -> Entries] /\ frame \in [Threads -> Frames]
        /\ disk \in [Sectors -> Data] /\ cache[i] \in Entries
    BY <1>2, Here DEF IInv, DataOK
  <1>4. frame' = [frame EXCEPT ![t] = f] /\ cache' = [cache EXCEPT ![i] = e]
    BY <1>2, <1>3 DEF Clean
  <1>5. i + 1 \in 0 .. CACHE_SIZE /\ \A j \in Slots : j \in Int
    BY SMT, <1>2, CacheAssumption DEF Slots
  <1> HIDE DEF i
  <1>6. f.op = "scan" /\ f.i = i + 1 /\ f.parts = frame[t].parts
    BY <1>2, <1>5 DEF Frames
  <1>7. e.sector = cache[i].sector /\ ~ e.dirty /\ e.data = cache[i].data
    BY <1>3 DEF Entries
  <1> HIDE DEF e, f
  <1>8. /\ frame'[t] = f /\ cache'[i] = e
        /\ \A u \in Threads \ {t} : frame'[u] = frame[u]
        /\ \A j \in Slots \ {i} : cache'[j] = cache[j]
        /\ \A u \in Clients : frame'[u] = frame[u] /\ u \in Threads
    BY <1>2, <1>3, <1>4 DEF Threads
  <1>9. /\ \A j \in Slots : /\ cache'[j].sector = cache[j].sector
                            /\ cache'[j].data = cache[j].data
        /\ \A j \in Slots : cache'[j].dirty => j # i /\ cache[j].dirty
        /\ \A j \in Slots : cache[j].dirty /\ j # i => cache'[j].dirty
    BY <1>2, <1>7, <1>8
  <1>10. \A u \in Clients : frame[u].op \in Locked => frame[u].slot # i
    <2> SUFFICES ASSUME NEW u \in Clients, frame[u].op \in Locked, frame[u].slot = i PROVE FALSE
      OBVIOUS
    <2>1. cache[i].lock = u
      BY <1>2, <1>8 DEF CInv, Locking
    <2> QED
      BY <1>1, <1>8, <2>1, CacheAssumption
  <1>11. \A u \in Clients : ~ Overwrites(u, i)
    BY <1>10 DEF Overwrites, Locked
  <1>12. s0 # CACHE_SECTOR_EMPTY => cache[i].data = hist.mem[s0]
    BY <1>2, <1>11 DEF DInv, KInv, LatestInEntry
  <1>13. \A s \in Sectors : /\ disk[s] = hist.mem[s] => disk'[s] = hist.mem[s]
                            /\ s = s0 => disk'[s] = hist.mem[s]
    BY SMT, <1>1, <1>3, <1>12 DEF Sectors, CACHE_SECTOR_EMPTY
  <1>14. LoadedOnce'
    BY SMT, <1>9 DEF DInv, KInv, LoadedOnce
  <1>15. LatestInEntry'
    <2>1. \A j \in Slots, u \in Clients : Overwrites(u, j)' <=> Overwrites(u, j)
      BY SMTT(30), <1>8, <1>9 DEF Overwrites, Writing
    <2> QED
      BY <1>1, <1>9, <2>1 DEF DInv, KInv, LatestInEntry
  <1>16. Evicting'
    <2> SUFFICES ASSUME NEW u \in Clients
                 PROVE  /\ frame[u].op = "write_back" =>
                             /\ frame[u].old \in Sectors
                             /\ \A j \in Slots : cache'[j].sector # frame[u].old
                             /\ cache'[frame[u].slot].data = hist.mem[frame[u].old]
                             /\ \/ cache'[frame[u].slot].dirty
                                \/ disk'[frame[u].old] = hist.mem[frame[u].old]
                             /\ disk'[frame[u].sector] = hist.mem[frame[u].sector]
                        /\ frame[u].op = "fill" => ~ cache'[frame[u].slot].dirty
                        /\ frame[u].op = "load" =>
                              \A j \in Slots : cache'[j].sector # frame[u].sector
      BY SMT, <1>1, <1>8 DEF Evicting, Held
    <2>1. frame[u].slot \in Slots /\ frame[u].sector \in Sectors
      BY ClientHere
    <2>2. frame[u].op = "write_back" => frame[u].slot # i
      BY <1>10 DEF Locked
    <2> QED
      BY SMTT(30), <1>9, <1>13, <2>1, <2>2 DEF DInv, KInv, Evicting, Held
  <1>17. Calls'
    BY ZenonT(40), <1>2, <1>6, <1>8 DEF DInv, KInv, Calls
  <1>18. EmptyClean'
    BY <1>9 DEF DInv, KInv, EmptyClean
  <1>19. CleanOnDisk'
    <2> SUFFICES ASSUME NEW s \in Sectors,
                        \A u \in Threads : frame'[u].op = "write_back" => frame'[u].old # s,
                        \A j \in Slots : cache'[j].sector = s => ~ cache'[j].dirty
                 PROVE  disk'[s] = hist'.mem[s]
      BY DEF CleanOnDisk
    <2>1. CASE s = s0
      BY <1>1, <1>13, <2>1
    <2>2. CASE s # s0
      <3>1. \A j \in Slots : cache[j].sector = s => ~ cache[j].dirty
        BY <1>9, <2>2
      <3>2. \A u \in Threads : frame[u].op = "write_back" => frame[u].old # s
        BY <1>1, <1>8
      <3> QED
        BY <1>1, <1>13, <3>1, <3>2 DEF DInv, KInv, CleanOnDisk
    <2> QED
      BY <2>1, <2>2
  <1>20. Reached'
    <2>1. ASSUME NEW s \in Sectors, NEW n, Pending(s, n), disk'[s] # hist.mem[s]
          PROVE  \E j \in Slots :
                    /\ j >= n /\ j # i /\ cache'[j].dirty
                    /\ \/ cache'[j].sector = s
                       \/ \E u \in Clients : /\ frame'[u].op = "write_back"
                                             /\ frame'[u].slot = j /\ frame'[u].old = s
      <3>1. PICK j \in Slots : 
                    /\ j >= n /\ cache[j].dirty
                    /\ \/ cache[j].sector = s
                       \/ \E u \in Clients : /\ frame[u].op = "write_back"
                                             /\ frame[u].slot = j /\ frame[u].old = s
        BY <2>1 DEF Pending
      <3>2. j # i
        BY <1>10, <1>13, <2>1, <3>1 DEF Locked
      <3> QED
        BY SMT, <1>8, <1>9, <3>1, <3>2
    <2>2. CASE t # "flush"
      <3>1. "flush" \in Daemons => frame'["flush"] = frame["flush"]
        BY <1>8, <2>2 DEF Threads
      <3> QED
        BY SMT, <1>1, <1>13, <2>1, <3>1 DEF DInv, Reached, Pending
    <2>3. CASE t = "flush"
      <3>1. frame'["flush"] = f /\ f.i = i + 1 /\ frame["flush"].i = i /\ i \in Int
        BY <1>2, <1>5, <1>6, <1>8, <2>3 DEF i
      <3>2. \A j \in Slots : j >= i /\ j # i => j >= i + 1
        BY SMT, <1>5, <3>1
      <3> QED
        BY SMTT(30), <1>1, <1>13, <2>1, <2>3, <3>1, <3>2 DEF DInv, Reached, Pending
    <2> QED
      BY SMTT(30), <2>2, <2>3
  <1> QED
    BY <1>14, <1>15, <1>16, <1>17, <1>18, <1>19, <1>20 DEF DInv, KInv

-----------------------------------------------------------------------------
(* The invariant as a whole, and what follows *)

(* An empty cache over a disk with the contents of the history. *)
LEMMA InitContents == Init => DInv
  <1> SUFFICES ASSUME Init PROVE DInv
    OBVIOUS
  <1>1. /\ frame = [t \in Threads |-> Idle]
        /\ cache = [i \in Slots |-> [sector |-> CACHE_SECTOR_EMPTY, access |-> FALSE,
                                     dirty |-> FALSE, data |-> Zeros, lock |-> NULL,
                                     mode |-> "UNLOCK"]]
        /\ disk = [s \in Sectors |-> Zeros]
        /\ hist = [mem |-> [s \in Sectors |-> Zeros], fresh |-> {}]
    BY DEF Init, cache_init
  <1>2. \A i \in Slots : cache[i].sector = CACHE_SECTOR_EMPTY /\ ~ cache[i].dirty
    BY <1>1
  <1>3. /\ \A t \in Threads : /\ frame[t].op = "idle" /\ frame[t].parts = {}
                              /\ frame[t].i = 0
        /\ \A t \in Clients : t \in Threads
    BY <1>1 DEF Idle, Threads
  <1>4. LoadedOnce /\ EmptyClean /\ LatestInEntry
    BY <1>2 DEF LoadedOnce, EmptyClean, LatestInEntry
  <1>5. Evicting /\ Calls
    BY <1>3 DEF Evicting, Calls, ClientOps
  <1>6. CleanOnDisk
    BY <1>1 DEF CleanOnDisk
  <1>7. Reached
    BY <1>3 DEF Reached, Threads
  <1> QED
    BY <1>4, <1>5, <1>6, <1>7 DEF DInv, KInv

(* Nobody but a client is where the client's steps begin, and read_ahead   *)
(* does not run.                                                           *)
LEMMA ClientOnly ==
    ASSUME DInv, NEW t \in Threads, frame[t].op \notin {"idle", "scan", "clean"}
    PROVE  /\ t \in Clients
           /\ frame[t].op \notin {"ra_scan", "ra_load", "ra_release", "ra_next"}
  BY DEF DInv, KInv, Calls, ClientOps

(* Every step keeps what is known of the contents. *)
LEMMA NextContents ==
    ASSUME SoleClient, IInv, DInv, [Next]_vars
    PROVE  DInv'
  <1>1. ASSUME NEW t \in Clients, Call(t) PROVE DInv'
    BY <1>1, CallQuiet
  <1>2. ASSUME NEW t \in Daemons, ReadAheadStart(t) \/ WriteBehindStart(t) \/ FlushStart(t)
        PROVE  DInv'
    BY <1>2, StartContents DEF ReadAheadStart, SoleClient
  <1>3. ASSUME NEW t \in Threads, Step(t) PROVE DInv'
    <2>1. CASE Lookup(t)
      BY <2>1, ClientOnly, LookupQuiet DEF Lookup, At
    <2>2. CASE Enter(t)
      BY <2>2, ClientOnly, EnterQuiet DEF Enter, At
    <2>3. CASE Verify(t)
      BY <2>3, ClientOnly, VerifyQuiet DEF Verify, At
    <2>4. CASE Load(t)
      BY <2>4, ClientOnly, LoadContents DEF Load, At
    <2>5. CASE Evict(t)
      BY <2>5, ClientOnly, EvictQuiet DEF Evict, At
    <2>6. CASE EvictTable(t)
      BY <2>6, ClientOnly, EvictTableContents DEF EvictTable, At
    <2>7. CASE WriteBack(t)
      BY <2>7, ClientOnly, WriteBackContents DEF WriteBack, At
    <2>8. CASE Fill(t)
      BY <2>8, ClientOnly, FillContents DEF Fill, At
    <2>9. CASE Begin(t)
      BY <2>9, ClientOnly, BeginQuiet DEF Begin, At
    <2>10. CASE Access(t)
      BY <2>10, ClientOnly, AccessContents DEF Access, At
    <2>11. CASE ReadAheadScan(t) \/ ReadAheadLoad(t) \/ ReadAheadRelease(t) \/ ReadAheadNext(t)
      BY <2>11, ClientOnly
         DEF ReadAheadScan, ReadAheadLoad, ReadAheadRelease, ReadAheadNext, At
    <2>12. CASE Scan(t)
      BY <2>12, ScanContents
    <2>13. CASE Clean(t)
      BY <2>13, CleanContents
    <2>14. CASE ScanEnd(t)
      BY <2>14, ScanEndContents
    <2> QED
      BY <1>3, <2>1, <2>2, <2>3, <2>4, <2>5, <2>6, <2>7, <2>8, <2>9, <2>10, <2>11, <2>12,
         <2>13, <2>14 DEF Step
  <1>4. CASE UNCHANGED vars
    <2>1. cache' = cache /\ disk' = disk /\ frame' = frame /\ hist' = hist
      BY <1>4 DEF vars
    <2>2. LoadedOnce' /\ EmptyClean' /\ Calls' /\ CleanOnDisk'
      BY <2>1 DEF DInv, KInv, LoadedOnce, EmptyClean, Calls, CleanOnDisk
    <2>3. LatestInEntry'
      BY <2>1 DEF DInv, KInv, LatestInEntry, Overwrites, Writing
    <2>4. Evicting'
      BY <2>1 DEF DInv, KInv, Evicting, Held
    <2>5. Reached'
      BY SMT, <2>1 DEF DInv, Reached, Pending
    <2> QED
      BY <2>2, <2>3, <2>4, <2>5 DEF DInv, KInv
  <1> QED
    BY <1>1, <1>2, <1>3, <1>4 DEF Next

(* It holds in every reachable state. *)
LEMMA ContentsInvariance ==
    ASSUME SoleClient
    PROVE  Spec => [](IInv /\ DInv)
  <1>1. Init => IInv /\ DInv
    BY InitInvariant, InitContents
  <1>2. IInv /\ DInv /\ [Next]_vars => IInv' /\ DInv'
    BY NextInvariant, NextContents
  <1> QED
    BY <1>1, <1>2, PTL DEF Spec

(* With one client, cache_read copies what was last written to the sector, *)
(* and a sector that is cached clean or not at all is up to date on the    *)
(* disk, whatever is evicted and loaded and while write_behind and         *)
(* flush_cache write entries out, for any size of the cache and the disk.  *)
THEOREM Contents ==
    ASSUME SoleClient
    PROVE  Spec => []ContentsExact
  <1>1. IInv /\ DInv => ContentsExact
    <2> SUFFICES ASSUME IInv, DInv PROVE ContentsExact
      OBVIOUS
    <2>1. ASSUME NEW t \in Clients, frame[t].op = "access", ~ Writing(t)
          PROVE  cache[frame[t].slot].data = hist.mem[frame[t].sector]
      <3> DEFINE i == frame[t].slot
      <3>1. /\ i \in Slots /\ cache[i].lock = t /\ cache[i].sector = frame[t].sector
            /\ cache[i].sector # CACHE_SECTOR_EMPTY
        BY <2>1, ClientHere DEF CInv, Locking, Locked, Own, Using
      <3>2. \A u \in Clients : ~ Overwrites(u, i)
        <4> SUFFICES ASSUME NEW u \in Clients, Overwrites(u, i) PROVE FALSE
          OBVIOUS
        <4>1. u \in Threads /\ frame[u].op \in Locked /\ frame[u].slot = i
          BY DEF Overwrites, Locked, Threads
        <4>2. u = t
          BY <3>1, <4>1 DEF IInv, CInv, Locking
        <4> QED
          BY <2>1, <4>2 DEF Overwrites
      <3> QED
        BY <3>1, <3>2 DEF DInv, KInv, LatestInEntry
    <2> QED
      BY <2>1 DEF ContentsExact, ReadsLatest, DInv, KInv
  <1> QED
    BY <1>1, ContentsInvariance, PTL

(* With one client, whatever was written before flush_cache began and not  *)
(* again since is on the disk when it returns, although the client goes on *)
(* to read, write and evict during the pass, which takes no table lock.    *)
THEOREM Durable ==
    ASSUME SoleClient
    PROVE  Spec => FlushDurable
  <1>1. ASSUME IInv, DInv, [Next]_vars, NEW t \in Daemons,
               t = "flush", frame[t].op = "scan", frame'[t].op = "idle"
        PROVE  \A s \in Sectors \ hist.fresh : disk[s] = hist.mem[s]
    <2>1. t \in Threads /\ t \notin Clients /\ frame \in [Threads -> Frames]
      BY <1>1, CacheAssumption DEF Threads, IInv, CInv, ControlOK
    <2>2. ASSUME NEW u \in Threads, u # t, NEW f, frame' = [frame EXCEPT ![u] = f] PROVE FALSE
      BY <1>1, <2>1, <2>2
    <2>3. ScanEnd(t)
      <3>1. CASE UNCHANGED vars
        BY <1>1, <3>1 DEF vars
      <3>2. ASSUME NEW u \in Clients, Call(u) PROVE FALSE
        BY <2>1, <2>2, <3>2 DEF Call, Threads
      <3>3. ASSUME NEW u \in Daemons, ReadAheadStart(u) \/ WriteBehindStart(u) \/ FlushStart(u)
            PROVE  FALSE
        BY <1>1, <2>1, <3>3 DEF ReadAheadStart, WriteBehindStart, FlushStart, At, Goto
      <3>4. ASSUME NEW u \in Threads, u # t, Step(u) PROVE FALSE
        <4>1. frame'[t] = frame[t]
          <5>1. CASE Lookup(u) \/ Enter(u) \/ Verify(u) \/ Evict(u) \/ WriteBack(u) \/ Fill(u)
            BY <2>1, <3>4, <5>1 DEF Lookup, Enter, Verify, Evict, WriteBack, Fill, Goto
          <5>2. CASE Load(u) \/ ReadAheadLoad(u)
            BY <2>1, <3>4, <5>2 DEF Load, ReadAheadLoad, get_free_cache, Goto, Panic
          <5>3. CASE EvictTable(u)
            BY <2>1, <3>4, <5>3 DEF EvictTable, Panic
          <5>4. CASE Begin(u) \/ Access(u)
            BY <2>1, <3>4, <5>4 DEF Begin, Access, Goto, Panic
          <5>5. CASE ReadAheadScan(u) \/ ReadAheadRelease(u) \/ ReadAheadNext(u)
            BY <2>1, <3>4, <5>5 DEF ReadAheadScan, ReadAheadRelease, ReadAheadNext, Goto
          <5>6. CASE Scan(u) \/ Clean(u) \/ ScanEnd(u)
            BY <2>1, <3>4, <5>6 DEF Scan, Clean, ScanEnd, Goto
          <5> QED
            BY <3>4, <5>1, <5>2, <5>3, <5>4, <5>5, <5>6 DEF Step
        <4> QED
          BY <1>1, <4>1
      <3>5. ASSUME Step(t) PROVE Scan(t) \/ ScanEnd(t)
        BY <1>1, <3>5 DEF Step, Lookup, Enter, Verify, Load, Evict, EvictTable, WriteBack, Fill,
           Begin, Access, ReadAheadScan, ReadAheadLoad, ReadAheadRelease, ReadAheadNext, Clean, At
      <3>6. ~ Scan(t)
        BY <1>1, <2>1 DEF Scan, Goto, Frames
      <3> QED
        BY <1>1, <3>1, <3>2, <3>3, <3>4, <3>5, <3>6 DEF Next
    <2>4. frame[t].i = CACHE_SIZE /\ \A j \in Slots : ~ (j >= CACHE_SIZE)
      BY SMT, <2>3, CacheAssumption DEF ScanEnd, Slots
    <2> QED
      BY <1>1, <2>4 DEF DInv, Reached, Pending
  <1>2. IInv /\ DInv /\ [Next]_vars =>
           [\A t \in Daemons :
              t = "flush" /\ frame[t].op = "scan" /\ frame'[t].op = "idle" =>
                 \A s \in Sectors \ hist.fresh : disk[s] = hist.mem[s]]_vars
    BY <1>1
  <1> QED
    BY <1>2, ContentsInvariance, PTL DEF Spec, FlushDurable
=============================================================================
