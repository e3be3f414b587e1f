-------------------------------- MODULE Vm ----------------------------------
(***************************************************************************)
(* Virtual memory: vm/frame.c, vm/clru.c, vm/swap.c, vm/page.c, the page   *)
(* tables of userprog/pagedir.c, the page fault handler of                 *)
(* userprog/exception.c, mmap and munmap of userprog/syscall.c, and the    *)
(* parts of load and thread_exit that build and tear down address spaces.  *)
(* The state is one record v and each C function is an operator on it.     *)
(* Faults and calls are atomic; a timer tick comes between them.           *)
(***************************************************************************)
EXTENDS Integers, Sequences, FiniteSets, FiniteSetsExt, SequencesExt

CONSTANTS
    Procs,          (* processes that can be alive at once *)
    UFrames,        (* numbers of the frames of the user pool *)
    KFrames,        (* numbers of the frames of the kernel pool left for pages *)
    NSlots,         (* swap_num_slots *)
    max,            (* length of the queue from which ticks reorder it *)
    PGSIZE,         (* units of data in a page *)
    NPages,         (* user pages, 0 .. NPages - 1; PHYS_BASE is NPages *)
    MAX_PAGES,      (* limit on stack pages *)
    Segments,       (* what load finds in the program: [page, ofs, read, zero, writable] *)
    MapAddrs,       (* page addresses given to mmap *)
    Esps,           (* stack pointers: [page, low], low within 32 bytes of its start *)
    ProgLen,        (* length of the program's file *)
    Lens,           (* possible lengths of the file that is mapped *)
    Values,         (* values processes write; files hold 1, a new page 0 *)
    MaxStarts, MaxMaps, MaxFaults    (* bounds on loads, on mmap, on faults *)

VARIABLES
    v,              (* the kernel's state *)
    want,           (* history: what each process last wrote to, or first found in, each page *)
    written,        (* history: pages written since they were last brought in *)
    starts, maps, faults

vars == <<v, want, written, starts, maps, faults>>

Pages == 0 .. NPages - 1
Slots == 0 .. NSlots - 1
Frames == UFrames \cup KFrames
FRAME_NONE == -1
SUP_NO_SWAP == -1
MAP_FAILED == -1

Zeros == [u \in 0 .. PGSIZE - 1 |-> 0]
NoPte == [P |-> FALSE, A |-> FALSE, D |-> FALSE, W |-> FALSE, frame |-> FRAME_NONE]

Panic(w, why) == [w EXCEPT !.panic = IF @ = "none" THEN why ELSE @]

(* frame_init, swap_init, clru_init, sup_init: nothing is in use yet. *)
Booted(len) ==
    [pool   |-> Frames,                               (* palloc: free frames of both pools *)
     ft     |-> [n \in Frames |-> [page |-> FALSE, acc |-> FALSE, dirty |-> FALSE]],
     mem    |-> [n \in Frames |-> Zeros],
     lru    |-> <<>>,
     slots  |-> {},                                   (* slots marked in swap_slots *)
     swap   |-> [s \in Slots |-> Zeros],
     sup    |-> [p \in Procs |-> <<>>],               (* sup_pagedir: page -> entry *)
     pd     |-> [p \in Procs |-> [g \in Pages |-> NoPte]],
     np     |-> [p \in Procs |-> 0],                  (* num_stack_pages; 0: no process *)
     last_mapid |-> 0,
     file   |-> [prog |-> [i \in 0 .. ProgLen - 1 |-> 1], data |-> [i \in 0 .. len - 1 |-> 1]],
     panic  |-> "none"]

-----------------------------------------------------------------------------
(* userprog/pagedir.c *)

pagedir_set_page(w, p, g, n, writable) ==
    IF w.pd[p][g].P
    THEN Panic(w, "pagedir_set_page")
    ELSE [w EXCEPT !.pd[p][g] = [P |-> TRUE, A |-> FALSE, D |-> FALSE, W |-> writable, frame |-> n]]

(* The accessed and dirty bits stay, but set_bits skips a page that has no *)
(* frame, so nothing reads them again: they are dropped here.              *)
pagedir_clear_page(w, p, g) == [w EXCEPT !.pd[p][g] = NoPte]

pagedir_is_accessed(w, p, g) == w.pd[p][g].A

pagedir_is_dirty(w, p, g) == w.pd[p][g].D

(* Frees what the page table still refers to. *)
pagedir_destroy(w, p) ==
    LET held == {w.pd[p][g].frame : g \in {h \in Pages : w.pd[p][h].P}}
    IN  [w EXCEPT !.pool = @ \cup held, !.pd[p] = [g \in Pages |-> NoPte]]

-----------------------------------------------------------------------------
(* vm/swap.c *)

swap_alloc(w) ==
    IF w.slots = Slots THEN [v |-> Panic(w, "out of swap"), slot |-> 0]
    ELSE LET s == Min(Slots \ w.slots)
         IN  [v |-> [w EXCEPT !.slots = @ \cup {s}], slot |-> s]

(* Faulty variant for the mutation checks. *)
WriteNothing(w, s, n) == w

swap_write(w, s, n) == [w EXCEPT !.swap[s] = w.mem[n]]

swap_read(w, s, n) ==
    IF s \in w.slots THEN [w EXCEPT !.mem[n] = w.swap[s]] ELSE Panic(w, "swap_read")

swap_free(w, s) ==
    IF s \in w.slots THEN [w EXCEPT !.slots = @ \ {s}, !.swap[s] = Zeros] ELSE Panic(w, "swap_free")

-----------------------------------------------------------------------------
(* vm/clru.c *)

(* Copies the accessed and dirty bits of p's page table to the frame table. *)
set_bits(w, p) ==
    LET at(n) == {g \in DOMAIN w.sup[p] : w.sup[p][g].frame_no = n}
    IN  [w EXCEPT !.ft = [n \in Frames |->
            [@[n] EXCEPT !.acc = @ \/ \E g \in at(n) : pagedir_is_accessed(w, p, g),
                         !.dirty = @ \/ \E g \in at(n) : pagedir_is_dirty(w, p, g)]]]

(* The walk moves an entry of each accessed frame, the first, to the back  *)
(* and resets its bit; list_next sees the moved entries again, unset.      *)
clru_timer_tick(w, p) ==
    IF Len(w.lru) < max THEN w
    ELSE LET b == set_bits(w, p)
             first(i) == b.ft[b.lru[i]].acc /\ \A j \in 1 .. i - 1 : b.lru[j] # b.lru[i]
             Pick(test(_)) == LET q == SelectSeq([i \in DOMAIN b.lru |-> i], test)
                              IN  [i \in DOMAIN q |-> b.lru[q[i]]]
             stays(i) == ~ first(i)
         IN  [b EXCEPT !.lru = Pick(stays) \o Pick(first),
                       !.ft = [n \in Frames |-> [@[n] EXCEPT !.acc = @ /\ n \notin Range(b.lru)]]]

clru_enqueue(w, n) == [w EXCEPT !.lru = Append(@, n)]

clru_evict(w) == [w EXCEPT !.lru = Tail(@)]

-----------------------------------------------------------------------------
(* vm/frame.c *)

(* Faulty variant for the mutation checks. *)
RedirectKeepMapped(w, p, n, s) ==
    [w EXCEPT !.sup[p] = [g \in DOMAIN @ |->
        IF @[g].frame_no = n THEN [@[g] EXCEPT !.slot = s, !.frame_no = FRAME_NONE] ELSE @[g]]]

(* The entries of p that use frame n now lead to slot s. *)
Redirect(w, p, n, s) ==
    LET users == {g \in DOMAIN w.sup[p] : w.sup[p][g].frame_no = n}
    IN  IF \E g \in users : w.sup[p][g].slot # SUP_NO_SWAP
        THEN Panic(w, "evict: slot")
        ELSE [FoldSet(LAMBDA g, x : pagedir_clear_page(x, p, g), w, users) EXCEPT
                !.sup[p] = [g \in DOMAIN @ |->
                    IF g \in users THEN [@[g] EXCEPT !.slot = s, !.frame_no = FRAME_NONE] ELSE @[g]]]

evict(w, p, user) ==
    CASE ~ user -> [v |-> Panic(w, "kernel pool"), frame |-> FRAME_NONE]
      [] user /\ \E n \in UFrames : ~ w.ft[n].page ->
            [v |-> Panic(w, "evict: empty frame"), frame |-> FRAME_NONE]
      [] user /\ w.lru = <<>> -> [v |-> Panic(w, "list_pop_front"), frame |-> FRAME_NONE]
      [] OTHER ->
            LET victim == Head(w.lru)
                a == swap_alloc(clru_evict(w))
            IN  [v |-> IF a.v.panic # "none" THEN a.v
                       ELSE Redirect(swap_write(a.v, a.slot, victim), p, victim, a.slot),
                 frame |-> victim]

(* palloc_get_page gives the lowest free frame of the pool; if there is    *)
(* none, one is taken from its page.                                       *)
TakeFrame(w, p, user) ==
    LET free == w.pool \cap (IF user THEN UFrames ELSE KFrames)
    IN  IF free # {} THEN [v |-> [w EXCEPT !.pool = @ \ {Min(free)}], frame |-> Min(free)]
        ELSE evict(w, p, user)

(* The end of get_frame: frame e.frame is zeroed, entered and queued. *)
EnterFrame(e, user) ==
    LET n == e.frame
        g == [e.v EXCEPT !.mem[n] = Zeros,
                         !.ft[n] = [page |-> TRUE, acc |-> FALSE, dirty |-> FALSE]]
    IN  IF e.v.panic # "none" THEN e
        ELSE [v |-> IF user THEN clru_enqueue(g, n) ELSE g, frame |-> n]

get_frame(w, p, user) == EnterFrame(TakeFrame(w, p, user), user)

(* The frame stays in the queue. *)
free_frame(w, n) ==
    IF ~ w.ft[n].page THEN Panic(w, "freeing frame that doesn't exist")
    ELSE [w EXCEPT !.pool = @ \cup {n}, !.mem[n] = Zeros,
                   !.ft[n] = [page |-> FALSE, acc |-> FALSE, dirty |-> FALSE]]

(* file_read_at into a zeroed frame: stops at the end of the file. *)
frame_read(w, f, n, size, ofs) ==
    [w EXCEPT !.mem[n] = [u \in 0 .. PGSIZE - 1 |->
        IF u < size /\ ofs + u \in DOMAIN w.file[f] THEN w.file[f][ofs + u] ELSE @[u]]]

(* file_write_at: the program that runs is denied writes. *)
frame_write(w, f, n, size, ofs) ==
    IF f = "prog" THEN w
    ELSE [w EXCEPT !.file[f] = [i \in DOMAIN @ |->
            IF i - ofs \in 0 .. size - 1 THEN w.mem[n][i - ofs] ELSE @[i]]]

-----------------------------------------------------------------------------
(* vm/page.c *)

sup_get_entry(w, p, g) == g \in DOMAIN w.sup[p]

sup_set_entry(w, p, g, e) ==
    [w EXCEPT !.sup[p] = [h \in DOMAIN @ \cup {g} |-> IF h = g THEN e ELSE @[h]]]

sup_remove_entry(w, p, g) == [w EXCEPT !.sup[p] = [h \in DOMAIN @ \ {g} |-> @[h]]]

(* With frame a.frame, which is given back if the page is taken. *)
AllZeros(a, p, g) ==
    IF a.v.panic # "none" THEN [v |-> a.v, ok |-> FALSE]
    ELSE IF sup_get_entry(a.v, p, g) THEN [v |-> free_frame(a.v, a.frame), ok |-> FALSE]
    ELSE [v |-> sup_set_entry(pagedir_set_page(a.v, p, g, a.frame, TRUE), p, g,
                    [frame_no |-> a.frame, slot |-> SUP_NO_SWAP, all_zero |-> TRUE,
                     f |-> "none", file_ofs |-> 0, page_end |-> PGSIZE, writable |-> TRUE,
                     loaded |-> TRUE, mapid |-> MAP_FAILED]),
          ok |-> TRUE]

sup_alloc_all_zeros(w, p, g) == AllZeros(get_frame(w, p, TRUE), p, g)

sup_alloc_segment(w, p, g, f, writable, ofs, end, mapid) ==
    IF sup_get_entry(w, p, g) THEN Panic(w, "sup_alloc_segment")
    ELSE sup_set_entry(w, p, g,
            [frame_no |-> FRAME_NONE, slot |-> SUP_NO_SWAP, all_zero |-> FALSE, f |-> f,
             file_ofs |-> ofs, page_end |-> end, writable |-> writable, loaded |-> FALSE,
             mapid |-> mapid])

(* Faulty variant for the mutation checks. *)
OccupiedFirst(w, p, addr, num) == sup_get_entry(w, p, addr)

Occupied(w, p, addr, num) == \E i \in 0 .. num - 1 : sup_get_entry(w, p, addr + i)

(* The last page ends at len % PGSIZE, which is 0 for a whole page. *)
sup_alloc_file(w, p, addr) ==
    LET len == Cardinality(DOMAIN w.file["data"])
        num == (len + PGSIZE - 1) \div PGSIZE
        end(i) == IF i = num - 1 THEN len % PGSIZE ELSE PGSIZE
        id == w.last_mapid
        add(i, x) == sup_alloc_segment(x, p, addr + i, "data", TRUE, PGSIZE * i, end(i), id)
    IN  IF Occupied(w, p, addr, num)
        THEN [v |-> w, mapid |-> MAP_FAILED]
        ELSE [v |-> FoldSet(add, [w EXCEPT !.last_mapid = @ + 1], 0 .. num - 1), mapid |-> id]

(* Fills frame n from the file or, if the page has a slot, from swap. *)
Fill(w, p, g, n, e) ==
    [v |-> IF e.slot = SUP_NO_SWAP THEN frame_read(w, e.f, n, e.page_end, e.file_ofs)
           ELSE swap_free(swap_read(w, e.slot, n), e.slot), slot |-> SUP_NO_SWAP]

(* The rest of sup_load_page, with frame a.frame. *)
LoadInto(a, p, g, e) ==
    LET r == Fill(a.v, p, g, a.frame, e)
    IN  IF a.v.panic # "none" THEN [v |-> a.v, ok |-> FALSE]
        ELSE [v |-> [pagedir_set_page(r.v, p, g, a.frame, e.writable) EXCEPT
                        !.sup[p][g].slot = r.slot, !.sup[p][g].frame_no = a.frame,
                        !.sup[p][g].loaded = TRUE],
              ok |-> TRUE]

sup_load_page(w, p, g, user, write) ==
    LET e == w.sup[p][g]
    IN  IF ~ sup_get_entry(w, p, g) \/ (e.loaded /\ e.slot = SUP_NO_SWAP) \/ (write /\ ~ e.writable)
        THEN [v |-> w, ok |-> FALSE]
        ELSE LoadInto(get_frame(w, p, user), p, g, e)

WantsSaving(e) == e.writable /\ ~ e.all_zero /\ e.page_end # 0

(* Releases page g of p, which is in swap, through frame t.frame. *)
ReleaseSwapped(t, p, g, e) ==
    LET swapped == IF WantsSaving(e) /\ t.v.panic = "none"
                   THEN frame_write(swap_read(t.v, e.slot, t.frame), e.f, t.frame, e.page_end,
                                    e.file_ofs)
                   ELSE t.v
    IN  [v |-> IF swapped.panic # "none" THEN swapped
               ELSE sup_remove_entry(swap_free(swapped, e.slot), p, g),
         temp |-> t.frame]

(* Releases page g of p; x.temp is the frame for what comes from swap. *)
Release(x, p, g) ==
    LET e == x.v.sup[p][g]
        n == e.frame_no
        saved == IF WantsSaving(e) /\ x.v.ft[n].dirty
                 THEN frame_write(x.v, e.f, n, e.page_end, e.file_ofs) ELSE x.v
    IN  IF x.v.panic # "none" THEN x
        ELSE IF ~ e.loaded THEN [x EXCEPT !.v = sup_remove_entry(@, p, g)]
        ELSE IF e.slot = SUP_NO_SWAP
        THEN [x EXCEPT !.v = sup_remove_entry(free_frame(pagedir_clear_page(saved, p, g), n), p, g)]
        ELSE ReleaseSwapped(IF WantsSaving(e) /\ x.temp = FRAME_NONE THEN get_frame(x.v, p, TRUE)
                            ELSE [v |-> x.v, frame |-> x.temp], p, g, e)

(* The end of both loops. *)
FreeTemp(r) == IF r.temp # FRAME_NONE /\ r.v.panic = "none" THEN free_frame(r.v, r.temp) ELSE r.v

(* Faulty variant for the mutation checks. *)
ReleaseAllStale(w, p, pages) ==
    FreeTemp(FoldLeft(LAMBDA x, g : IF g \in pages THEN Release(x, p, g) ELSE x,
                      [v |-> w, temp |-> FRAME_NONE], [i \in 1 .. NPages |-> i - 1]))

(* The pages in the order of their addresses, with fresh bits. *)
ReleaseAll(w, p, pages) ==
    FreeTemp(FoldLeft(LAMBDA x, g : IF g \in pages THEN Release(x, p, g) ELSE x,
                      [v |-> set_bits(w, p), temp |-> FRAME_NONE], [i \in 1 .. NPages |-> i - 1]))

sup_remove_map(w, p, mapid) ==
    ReleaseAll(w, p, {g \in DOMAIN w.sup[p] : w.sup[p][g].mapid = mapid})

sup_free_table(w, p) == ReleaseAll(w, p, DOMAIN w.sup[p])

-----------------------------------------------------------------------------
(* Processes *)

Running(p) == v.panic = "none" /\ v.np[p] # 0

StackPage(k) == NPages - k

(* Stack pages needed for esp to be more than 32 bytes above the last one; *)
(* 0 for a pointer outside the largest stack.                              *)
Needed(esp) ==
    LET k == NPages - esp.page
    IN  IF k > MAX_PAGES THEN 0 ELSE k + (IF esp.low THEN 1 ELSE 0)

(* The loop of page_fault and syscall_handler; a page that is already      *)
(* taken is counted as a stack page all the same.                          *)
grow_stack(w, p, need) ==
    LET add(x, k) == IF x.panic # "none" THEN x
                     ELSE [sup_alloc_all_zeros(x, p, StackPage(k)).v EXCEPT !.np[p] = @ + 1]
    IN  FoldLeft(add, w, [i \in 1 .. Min({need, MAX_PAGES}) - w.np[p] |-> w.np[p] + i])

Grows(w, p, need) == w.np[p] < MAX_PAGES /\ need > w.np[p]

load_segment(w, p, seg, mapid) ==
    LET n == (seg.read + seg.zero) \div PGSIZE
        end(i) == Max({0, Min({PGSIZE, seg.read - i * PGSIZE})})
    IN  FoldSet(LAMBDA i, x : sup_alloc_segment(x, p, seg.page + i, "prog", seg.writable,
                                                seg.ofs + i * PGSIZE, end(i), mapid),
                w, 0 .. n - 1)

(* The arguments are written through the new page table entry. *)
PushArguments(a, p) ==
    LET n == a.pd[p][StackPage(1)].frame
    IN  IF a.panic # "none" THEN a
        ELSE [a EXCEPT !.pd[p][StackPage(1)].A = TRUE, !.pd[p][StackPage(1)].D = TRUE,
                       !.mem[n][PGSIZE - 1] = 1]

setup_stack(w, p) == PushArguments(sup_alloc_all_zeros(w, p, StackPage(1)).v, p)

(* thread_exit: sup_free_table, then process_exit. *)
thread_exit(w, p) == [pagedir_destroy(sup_free_table(w, p), p) EXCEPT !.np[p] = 0]

(* What the process finds in a page: want follows what is in memory when   *)
(* a page appears for the first time, and the writes from then on.         *)
Appear(w, p) ==
    [g \in DOMAIN w.sup[p] |->
        IF g \in DOMAIN want[p] THEN want[p][g]
        ELSE LET e == w.sup[p][g]
             IN  IF e.frame_no # FRAME_NONE THEN w.mem[e.frame_no]
                 ELSE IF e.all_zero THEN Zeros
                 ELSE [u \in 0 .. PGSIZE - 1 |->
                        IF u < e.page_end /\ e.file_ofs + u \in DOMAIN w.file[e.f]
                        THEN w.file[e.f][e.file_ofs + u] ELSE 0]]

(* A step of p in the kernel that leaves state w. *)
Becomes(p, w) ==
    /\ v' = w
    /\ want' = [want EXCEPT ![p] = IF w.np[p] = 0 THEN <<>> ELSE Appear(w, p)]
    /\ written' = [written EXCEPT ![p] =
            {g \in @ : g \in DOMAIN w.sup[p] /\ w.sup[p][g].frame_no # FRAME_NONE}]

Init ==
    /\ v \in {Booted(len) : len \in Lens}
    /\ want = [p \in Procs |-> <<>>]
    /\ written = [p \in Procs |-> {}]
    /\ starts = 0 /\ maps = 0 /\ faults = 0

Map == maps < MaxMaps /\ maps' = maps + 1
Fault == faults < MaxFaults /\ faults' = faults + 1

(* exec: load builds the address space. *)
load(p) ==
    /\ v.panic = "none" /\ v.np[p] = 0 /\ starts < MaxStarts
    /\ starts' = starts + 1
    /\ LET w == [v EXCEPT !.last_mapid = @ + 1, !.np[p] = 1]
       IN  Becomes(p, setup_stack(FoldLeft(LAMBDA x, seg : load_segment(x, p, seg, v.last_mapid),
                                           w, Segments), p))
    /\ UNCHANGED <<maps, faults>>

MayAccess(p, g, write) == v.pd[p][g].P /\ (write => v.pd[p][g].W)

(* An instruction, of the process or of the kernel on its behalf, that     *)
(* reads page g: the processor sets the accessed bit.                      *)
Read(p, g) ==
    /\ Running(p) /\ MayAccess(p, g, FALSE)
    /\ v' = [v EXCEPT !.pd[p][g].A = TRUE]
    /\ UNCHANGED <<want, written, starts, maps, faults>>

(* A write, of every unit of the page. *)
Write(p, g, x) ==
    LET data == [u \in 0 .. PGSIZE - 1 |-> x]
    IN  /\ Running(p) /\ MayAccess(p, g, TRUE)
        /\ v' = [v EXCEPT !.pd[p][g].A = TRUE, !.pd[p][g].D = TRUE, !.mem[v.pd[p][g].frame] = data]
        /\ want' = [want EXCEPT ![p][g] = data]
        /\ written' = [written EXCEPT ![p] = @ \cup {g}]
        /\ UNCHANGED <<starts, maps, faults>>

(* A fault of the kernel leaves no esp in the frame, so any value is read. *)
page_fault(p, g, user, write, esp) ==
    /\ Running(p) /\ Fault /\ ~ MayAccess(p, g, write)
    /\ LET r == sup_load_page(v, p, g, user, write)
       IN  Becomes(p, IF Grows(v, p, Needed(esp)) THEN grow_stack(v, p, Needed(esp))
                      ELSE IF r.ok \/ r.v.panic # "none" THEN r.v ELSE thread_exit(v, p))
    /\ UNCHANGED <<starts, maps>>

clru_tick(p) ==
    /\ Running(p)
    /\ v' = clru_timer_tick(v, p)
    /\ UNCHANGED <<want, written, starts, maps, faults>>

(* verify_pointer on the stack, then the stack grows. *)
Entered(p, esp, w) == IF Grows(w, p, Needed(esp)) THEN grow_stack(w, p, Needed(esp)) ELSE w

mmap(p, addr, esp) ==
    /\ Running(p) /\ Map
    /\ LET w == Entered(p, esp, v)
       IN  Becomes(p, IF ~ sup_get_entry(v, p, esp.page) THEN thread_exit(v, p)
                      ELSE IF w.panic # "none" \/ addr = 0 THEN w
                      ELSE sup_alloc_file(w, p, addr).v)
    /\ UNCHANGED <<starts, faults>>

Mappings(p) == {v.sup[p][g].mapid : g \in {h \in DOMAIN v.sup[p] : v.sup[p][h].f = "data"}}

(* Of a mapping that mmap returned, as its comment asks. *)
munmap(p, mapid, esp) ==
    /\ Running(p)
    /\ LET w == Entered(p, esp, v)
       IN  Becomes(p, IF ~ sup_get_entry(v, p, esp.page) THEN thread_exit(v, p)
                      ELSE IF w.panic # "none" THEN w
                      ELSE sup_remove_map(w, p, mapid))
    /\ UNCHANGED <<starts, maps, faults>>

exit(p) ==
    /\ Running(p)
    /\ Becomes(p, thread_exit(v, p))
    /\ UNCHANGED <<starts, maps, faults>>

Next ==
    \E p \in Procs :
        \/ load(p) \/ exit(p) \/ clru_tick(p)
        \/ \E g \in Pages :
            \/ Read(p, g)
            \/ \E x \in Values : Write(p, g, x)
            \/ \E user, write \in BOOLEAN, esp \in Esps : page_fault(p, g, user, write, esp)
        \/ \E addr \in MapAddrs, esp \in Esps : mmap(p, addr, esp)
        \/ \E mapid \in Mappings(p), esp \in Esps : munmap(p, mapid, esp)

Spec == Init /\ [][Next]_vars

-----------------------------------------------------------------------------
(* Properties *)

Live == {p \in Procs : v.np[p] # 0}
Held == {<<p, g>> \in Procs \X Pages : sup_get_entry(v, p, g)}
EntryAt(h) == v.sup[h[1]][h[2]]

(* The shape of the state; a stack has at most MAX_PAGES pages, though     *)
(* both handlers grow it in a loop.                                        *)
TypeOK ==
    /\ v.pool \subseteq Frames /\ v.slots \subseteq Slots /\ Range(v.lru) \subseteq UFrames
    /\ \A p \in Procs : v.np[p] \in 0 .. MAX_PAGES /\ DOMAIN v.sup[p] \subseteq Pages
    /\ \A h \in Held : EntryAt(h).frame_no \in Frames \cup {FRAME_NONE}
                       /\ EntryAt(h).slot \in Slots \cup {SUP_NO_SWAP}

(* No ASSERT of frame.c, page.c, swap.c or pagedir.c fails; the machine    *)
(* stops only for want of swap or of kernel frames.                        *)
NoPanic == v.panic \in {"none", "out of swap", "kernel pool"}

(* Between faults a user frame is either free or the frame of exactly one  *)
(* entry of the supplemental tables, which is the one whose page table     *)
(* entry is present and leads there: evict, sup_load_page, munmap and exit *)
(* leave no stale mapping and lose no frame.                               *)
FramesExact ==
    v.panic = "none" =>
        /\ \A n \in Frames :
            LET users == {h \in Held : EntryAt(h).frame_no = n}
            IN  /\ v.ft[n].page = (n \notin v.pool)
                /\ Cardinality(users) = IF n \in v.pool THEN 0 ELSE 1
        /\ \A p \in Procs, g \in Pages :
            v.pd[p][g].P = (sup_get_entry(v, p, g) /\ v.sup[p][g].frame_no # FRAME_NONE)
            /\ (v.pd[p][g].P => v.pd[p][g].frame = v.sup[p][g].frame_no)

(* A swap slot is marked in use exactly when one page is in it: swap_free  *)
(* is called once for each swap_alloc, on page-in, munmap and exit.        *)
SlotsExact ==
    v.panic = "none" =>
        \A s \in Slots :
            Cardinality({h \in Held : EntryAt(h).slot = s}) = IF s \in v.slots THEN 1 ELSE 0

(* Wherever a page that was brought in is, in its frame or in its slot, it *)
(* has what the process last wrote there: evictions and page-ins between   *)
(* the accesses, and those of other pages, cannot be seen.                 *)
ContentsRight ==
    v.panic = "none" =>
        \A h \in Held :
            LET e == EntryAt(h)
            IN  e.loaded => want[h[1]][h[2]] =
                    IF e.slot = SUP_NO_SWAP THEN v.mem[e.frame_no] ELSE v.swap[e.slot]

(* Every user frame in use is in the replacement queue, whatever the ticks *)
(* moved: memory that can be evicted is found by clru_evict.               *)
InQueue == v.panic = "none" => UFrames \ v.pool \subseteq Range(v.lru)

(* When a page of a mapped file is unmapped or its process ends, the part  *)
(* of the file in it has what the process wrote since the page was last    *)
(* brought in, or all it wrote if the page was in swap: the bits that      *)
(* sup_remove_map tests are those of the processor.  The last page of a    *)
(* file of whole pages (page_end 0) is excepted.                           *)
Saved(h, sup, file) ==
    LET e == EntryAt(h)
    IN  (e.f = "data" /\ e.loaded /\ h[2] \notin DOMAIN sup[h[1]]
            /\ (e.slot # SUP_NO_SWAP \/ h[2] \in written[h[1]]))
        => \A u \in 0 .. e.page_end - 1 : file["data"][e.file_ofs + u] = want[h[1]][h[2]][u]

StepSaves == v'.panic = "none" => \A h \in Held : Saved(h, v'.sup, v'.file)

UnmapSaves == [][StepSaves]_vars

(* "Find all entries that use victim and redirect them to swap": a frame   *)
(* that evict took is no longer the frame of any other page.               *)
EvictedEverywhere ==
    v.panic = "none" =>
        \A n \in UFrames : Cardinality({h \in Held : EntryAt(h).frame_no = n}) <= 1

(* "use the mmaped file itself as backing store": a page of a mapping that *)
(* is no longer in memory has its contents in the file.                    *)
BackedByFile ==
    \A h \in Held :
        LET e == EntryAt(h)
        IN  e.f = "data" /\ e.loaded /\ e.frame_no = FRAME_NONE =>
                \A u \in 0 .. e.page_end - 1 : v.file["data"][e.file_ofs + u] = want[h[1]][h[2]][u]

(* A page of a mapping that was not written shows what is in the file. *)
MapShowsFile ==
    \A h \in Held :
        LET e == EntryAt(h)
        IN  e.f = "data" /\ e.loaded /\ e.frame_no # FRAME_NONE /\ ~ v.pd[h[1]][h[2]].D =>
                \A u \in 0 .. PGSIZE - 1 :
                    e.file_ofs + u \in DOMAIN v.file["data"] =>
                        v.mem[e.frame_no][u] = v.file["data"][e.file_ofs + u]

=============================================================================
