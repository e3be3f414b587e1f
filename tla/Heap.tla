-------------------------------- MODULE Heap --------------------------------
(***************************************************************************)
(* The kernel's memory: the two page pools of threads/palloc.c with their  *)
(* bitmaps (lib/kernel/bitmap.c), and the block allocator of               *)
(* threads/malloc.c on top of the kernel pool.  Memory is a function from  *)
(* addresses to values; a page is PGSIZE of them.  Threads are preempted   *)
(* between the steps below; what a lock covers alone is one step.          *)
(***************************************************************************)
EXTENDS Integers, Sequences, FiniteSets, SequencesExt, TLC

CONSTANTS
    Threads,
    FreePages,      (* pages from 1 MB to the end of RAM *)
    UserLimits,     (* values of user_page_limit *)
    PGSIZE, ARENA,  (* bytes of a page and of struct arena *)
    MinBlock,       (* size of the smallest block (16) *)
    ELEM_BITS,      (* bits of an element of a bitmap *)
    W,              (* width of size_t *)
    Sizes,          (* sizes asked of malloc and realloc *)
    Counts,         (* arguments of calloc *)
    MaxLive         (* bound on the blocks and pages in use *)

NULL == -1
NoDesc == -2
BITMAP_ERROR == -3
CC == 204           (* the byte 0xcc that freed memory is filled with *)

VARIABLES
    pool,           (* kernel_pool and user_pool: [map, base, used, lock]; MAP is the bitmap's page *)
    arena,          (* page number -> [desc, free_cnt], desc NULL for a big block *)
    free_list,      (* block size of a descriptor -> addresses of free blocks *)
    dlock,          (* block size -> holder of the descriptor's lock *)
    mem,            (* address -> value *)
    call,           (* thread -> what it still has to do *)
    live,           (* history: blocks and pages in use [t, at, size, val] *)
    panic

vars == <<pool, arena, free_list, dlock, mem, call, live, panic>>

Idle == [pc |-> "idle"]
Up == panic = "none"

DIV_ROUND_UP(x, step) == (x + step - 1) \div step
Size_t(x) == x % 2^W

-----------------------------------------------------------------------------
(* lib/kernel/bitmap.c; a bitmap is a function on 0 .. bit_cnt - 1 *)

bitmap_buf_size(bit_cnt) == 2 + DIV_ROUND_UP(bit_cnt, ELEM_BITS)
bitmap_create_in_buf(bit_cnt) == [i \in 0 .. bit_cnt - 1 |-> FALSE]
bitmap_set_multiple(b, start, cnt, value) ==
    [i \in DOMAIN b |-> IF i \in start .. start + cnt - 1 THEN value ELSE b[i]]
bitmap_contains(b, start, cnt, value) == \E i \in start .. start + cnt - 1 : b[i] = value
bitmap_all(b, start, cnt) == ~ bitmap_contains(b, start, cnt, FALSE)

(* Faulty variant for the mutation checks. *)
ScanFirstBit(b, start, cnt, value) ==
    LET S == {i \in start .. Cardinality(DOMAIN b) - cnt : b[i] = value}
    IN  IF S = {} THEN BITMAP_ERROR ELSE CHOOSE i \in S : \A j \in S : i <= j

bitmap_scan(b, start, cnt, value) ==
    LET S == {i \in start .. Cardinality(DOMAIN b) - cnt : ~ bitmap_contains(b, i, cnt, ~ value)}
    IN  IF S = {} THEN BITMAP_ERROR ELSE CHOOSE i \in S : \A j \in S : i <= j

-----------------------------------------------------------------------------
(* threads/palloc.c *)

(* The pool's bitmap is at its base; the PANIC for a pool too small for    *)
(* its bitmap is ruled out by the sizes chosen.                            *)
init_pool(base, page_cnt) ==
    LET bm_pages == DIV_ROUND_UP(bitmap_buf_size(page_cnt), PGSIZE)
    IN  [map |-> base, base |-> base + bm_pages, used |-> bitmap_create_in_buf(page_cnt - bm_pages),
         lock |-> "none"]

palloc_init(user_page_limit) ==
    LET half == FreePages \div 2
        user_pages == IF half > user_page_limit THEN user_page_limit ELSE half
        kernel_pages == FreePages - user_pages
    IN  [kernel |-> init_pool(0, kernel_pages), user |-> init_pool(kernel_pages, user_pages)]

PoolPages(p) == p.base .. p.base + Cardinality(DOMAIN p.used) - 1

page_from_pool(p, page) == page \in PoolPages(p)

(* The pool to which palloc_free_multiple returns PAGE. *)
PoolOf(page) == IF page_from_pool(pool.kernel, page) THEN "kernel" ELSE "user"

Bytes(page, cnt) == page * PGSIZE .. (page + cnt) * PGSIZE - 1

Fill(m, S, val) == [a \in DOMAIN m |-> IF a \in S THEN val ELSE m[a]]

-----------------------------------------------------------------------------
(* threads/malloc.c: descriptors are named by their block size *)

BlockSizes == {b \in 1 .. PGSIZE : b < PGSIZE \div 2 /\ \E k \in 0 .. W : b = MinBlock * 2^k}

blocks_per_arena(d) == (PGSIZE - ARENA) \div d

arena_to_block(page, d, i) == page * PGSIZE + ARENA + i * d

Blocks(page, d) == [i \in 1 .. blocks_per_arena(d) |-> arena_to_block(page, d, i - 1)]

PageOf(addr) == addr \div PGSIZE

(* The checks of block_to_arena. *)
block_to_arena(b) ==
    LET a == arena[PageOf(b)]
    IN  /\ a.desc # NoDesc
        /\ a.desc # NULL => ((b % PGSIZE) - ARENA) % a.desc = 0
        /\ a.desc = NULL => b % PGSIZE = ARENA

block_size(b) ==
    LET a == arena[PageOf(b)]
    IN  IF a.desc # NULL THEN a.desc ELSE PGSIZE * a.free_cnt - (b % PGSIZE)

(* The smallest descriptor that fits SIZE bytes; NULL if none does. *)
Desc(size) ==
    LET S == {d \in BlockSizes : d >= size}
    IN  IF S = {} THEN NULL ELSE CHOOSE d \in S : \A e \in S : d <= e

(* Pages for a big block and its arena: the sum is a size_t. *)
PageCnt(size) == Size_t(Size_t(size + ARENA) + PGSIZE - 1) \div PGSIZE

-----------------------------------------------------------------------------
(* What a thread asks for: KIND "malloc", "calloc", "realloc" or "page"    *)
(* (palloc_get_page with PAL_ZERO from the user pool); OLD is the block    *)
(* realloc replaces.                                                       *)

(* The block of T's request is at AT, in memory M: calloc clears it,       *)
(* realloc copies the old block, which it then frees; then the caller      *)
(* fills what is not given with its own value.                             *)
Deliver(t, req, at, m) ==
    LET fresh == [t |-> t, at |-> at, size |-> req.size, val |-> t]
        n == block_size(req.old)
    IN  CASE req.kind = "malloc" \/ (req.kind = "realloc" /\ req.old = NULL) ->
                /\ mem' = Fill(m, at .. at + req.size - 1, t)
                /\ live' = live \cup {fresh}
                /\ call' = [call EXCEPT ![t] = Idle]
          [] req.kind \in {"calloc", "page"} ->
                /\ mem' = Fill(m, at .. at + req.size - 1, 0)
                /\ live' = live \cup {[fresh EXCEPT !.val = 0]}
                /\ call' = [call EXCEPT ![t] = Idle]
          [] req.kind = "realloc" /\ req.old # NULL ->
                LET b == CHOOSE x \in live : x.at = req.old
                    copied == IF req.size < n THEN req.size ELSE n
                IN  /\ mem' = [a \in DOMAIN m |->
                                 IF a \in at .. at + copied - 1 THEN m[req.old + a - at]
                                 ELSE IF a \in at .. at + req.size - 1 THEN b.val ELSE m[a]]
                    /\ live' = live \cup {[fresh EXCEPT !.val = b.val]}
                    /\ call' = [call EXCEPT ![t] = [pc |-> "free", old |-> req.old]]

(* malloc up to its first lock, with the early returns. *)
malloc(t, kind, size, old) ==
    LET d == Desc(size)
        req == [kind |-> kind, size |-> size, old |-> old, desc |-> d, pool |-> "kernel",
                cnt |-> IF d = NULL THEN PageCnt(size) ELSE 1, idx |-> 0]
    IN  /\ Up /\ call[t] = Idle /\ Cardinality(live) < MaxLive
        /\ call' = [call EXCEPT ![t] =
                      IF size = 0 \/ (d = NULL /\ req.cnt = 0) THEN Idle
                      ELSE req @@ [pc |-> IF d = NULL THEN "scan" ELSE "block"]]
        /\ UNCHANGED <<pool, arena, free_list, dlock, mem, live, panic>>

(* calloc: the product is a size_t. *)
calloc(t, a, b) ==
    LET size == Size_t(a * b)
    IN  ~ (size < a \/ size < b) /\ malloc(t, "calloc", size, NULL)

realloc(t, old, new_size) == new_size # 0 /\ malloc(t, "realloc", new_size, old)

palloc_get_page(t) ==
    /\ Up /\ call[t] = Idle /\ Cardinality(live) < MaxLive
    /\ call' = [call EXCEPT ![t] = [kind |-> "page", size |-> PGSIZE, old |-> NULL, desc |-> NULL,
                                    pool |-> "user", cnt |-> 1, idx |-> 0, pc |-> "scan"]]
    /\ UNCHANGED <<pool, arena, free_list, dlock, mem, live, panic>>

(* The descriptor's lock: a free block is taken under it; without one the  *)
(* lock is kept while a page is asked for.                                 *)
TakeBlock(t) ==
    LET req == call[t]
        d == req.desc
        b == Head(free_list[d])
    IN  /\ Up /\ req.pc = "block" /\ dlock[d] = "none"
        /\ IF free_list[d] # <<>>
           THEN /\ free_list' = [free_list EXCEPT ![d] = Tail(@)]
                /\ arena' = [arena EXCEPT ![PageOf(b)].free_cnt = @ - 1]
                /\ panic' = IF block_to_arena(b) THEN panic ELSE "block_to_arena"
                /\ Deliver(t, req, b, mem)
                /\ UNCHANGED dlock
           ELSE /\ dlock' = [dlock EXCEPT ![d] = t]
                /\ call' = [call EXCEPT ![t].pc = "scan"]
                /\ UNCHANGED <<free_list, arena, panic, mem, live>>
        /\ UNCHANGED pool

Unlocked(req) == IF req.desc = NULL THEN dlock ELSE [dlock EXCEPT ![req.desc] = "none"]

(* palloc_get_multiple up to the end of bitmap_scan; malloc returns NULL   *)
(* when there are too few pages.                                           *)
Scan(t) ==
    LET req == call[t]
        p == pool[req.pool]
        idx == bitmap_scan(p.used, 0, req.cnt, FALSE)
    IN  /\ Up /\ req.pc = "scan" /\ p.lock = "none"
        /\ IF idx = BITMAP_ERROR
           THEN call' = [call EXCEPT ![t] = Idle] /\ dlock' = Unlocked(req) /\ UNCHANGED pool
           ELSE /\ call' = [call EXCEPT ![t].pc = "flip", ![t].idx = idx]
                /\ pool' = [pool EXCEPT ![req.pool].lock = t]
                /\ UNCHANGED dlock
        /\ UNCHANGED <<arena, free_list, mem, live, panic>>

(* The bits are set and the pool's lock released; malloc writes the arena  *)
(* and takes the block.                                                    *)
palloc_get_multiple(t) ==
    LET req == call[t]
        p == pool[req.pool]
        page == p.base + req.idx
        d == req.desc
    IN  /\ Up /\ req.pc = "flip"
        /\ pool' = [pool EXCEPT ![req.pool].lock = "none",
                                ![req.pool].used = bitmap_set_multiple(@, req.idx, req.cnt, TRUE)]
        /\ dlock' = Unlocked(req)
        /\ CASE req.kind = "page" ->
                  Deliver(t, req, page * PGSIZE, mem) /\ UNCHANGED <<arena, free_list>>
             [] req.kind # "page" /\ d = NULL ->
                  /\ arena' = [arena EXCEPT ![page] = [desc |-> NULL, free_cnt |-> req.cnt]]
                  /\ Deliver(t, req, page * PGSIZE + ARENA, mem)
                  /\ UNCHANGED free_list
             [] req.kind # "page" /\ d # NULL ->
                  /\ arena' = [arena EXCEPT ![page] = [desc |-> d, free_cnt |-> blocks_per_arena(d) - 1]]
                  /\ free_list' = [free_list EXCEPT ![d] = Tail(@ \o Blocks(page, d))]
                  /\ Deliver(t, req, Head(free_list[d] \o Blocks(page, d)), mem)
        /\ UNCHANGED panic

(* The arena is unused once one more block of it is free. *)
Whole(a) == a.free_cnt + 1 >= blocks_per_arena(a.desc)

(* free of a normal block, and of its arena when no block of it is used. *)
FreeBlock(t, b) ==
    LET page == PageOf(b)
        a == arena[page]
        d == a.desc
        i == page - pool.kernel.base
        whole == Whole(a)
    IN  /\ dlock[d] = "none"
        /\ panic' = IF whole => (a.free_cnt + 1 = blocks_per_arena(d) /\ bitmap_all(pool.kernel.used, i, 1))
                    THEN panic ELSE "free"
        /\ free_list' = [free_list EXCEPT ![d] =
                           IF whole THEN SelectSeq(@, LAMBDA x : PageOf(x) # page) ELSE <<b>> \o @]
        /\ arena' = [arena EXCEPT ![page] = IF whole THEN [desc |-> NoDesc, free_cnt |-> 0]
                                            ELSE [a EXCEPT !.free_cnt = @ + 1]]
        /\ mem' = Fill(mem, IF whole THEN Bytes(page, 1) ELSE b .. b + d - 1, CC)
        /\ pool' = IF whole THEN [pool EXCEPT !.kernel.used[i] = FALSE] ELSE pool
        /\ call' = [call EXCEPT ![t] = Idle]

(* palloc_free_multiple up to the loop of bitmap_set_multiple, which holds *)
(* no lock.                                                                *)
FreePagesAt(t, page, cnt) ==
    LET p == PoolOf(page)
        i == page - pool[p].base
    IN  /\ panic' = IF bitmap_all(pool[p].used, i, cnt) THEN panic ELSE "palloc_free"
        /\ mem' = Fill(mem, Bytes(page, cnt), CC)
        /\ arena' = [arena EXCEPT ![page] = [desc |-> NoDesc, free_cnt |-> 0]]
        /\ call' = [call EXCEPT ![t] = [pc |-> "clear", pool |-> p, idx |-> i, left |-> cnt]]
        /\ UNCHANGED <<pool, free_list>>

free(t, b) ==
    /\ Up /\ \/ call[t] = Idle
             \/ call[t].pc = "free" /\ call[t].old = b.at
    /\ live' = live \ {b}
    /\ IF b.at % PGSIZE = 0 THEN FreePagesAt(t, PageOf(b.at), 1)      (* palloc_free_page *)
       ELSE IF ~ block_to_arena(b.at)
       THEN panic' = "block_to_arena" /\ UNCHANGED <<pool, arena, free_list, mem, call>>
       ELSE IF arena[PageOf(b.at)].desc # NULL THEN FreeBlock(t, b.at)
       ELSE FreePagesAt(t, PageOf(b.at), arena[PageOf(b.at)].free_cnt)
    /\ UNCHANGED dlock

(* One turn of the loop. *)
bitmap_reset(t) ==
    LET c == call[t]
    IN  /\ Up /\ c.pc = "clear"
        /\ pool' = [pool EXCEPT ![c.pool].used[c.idx] = FALSE]
        /\ call' = [call EXCEPT ![t] = IF c.left = 1 THEN Idle
                                       ELSE [c EXCEPT !.idx = @ + 1, !.left = @ - 1]]
        /\ UNCHANGED <<arena, free_list, dlock, mem, live, panic>>

Init ==
    /\ \E limit \in UserLimits : pool = palloc_init(limit)
    /\ arena = [p \in 0 .. FreePages - 1 |-> [desc |-> NoDesc, free_cnt |-> 0]]
    /\ free_list = [d \in BlockSizes |-> <<>>] /\ dlock = [d \in BlockSizes |-> "none"]
    /\ mem = [a \in 0 .. FreePages * PGSIZE - 1 |-> CC]
    /\ call = [t \in Threads |-> Idle] /\ live = {} /\ panic = "none"

Mine(t) == {b \in live : b.t = t}

Next ==
    \E t \in Threads :
        \/ \E size \in Sizes :
              \/ malloc(t, "malloc", size, NULL)
              \/ \E b \in Mine(t) : b.at % PGSIZE # 0 /\ realloc(t, b.at, size)
        \/ \E a, b \in Counts : calloc(t, a, b)
        \/ palloc_get_page(t) \/ TakeBlock(t) \/ Scan(t) \/ palloc_get_multiple(t) \/ bitmap_reset(t)
        \/ \E b \in Mine(t) : free(t, b)

Spec == Init /\ [][Next]_vars

-----------------------------------------------------------------------------
(* Properties *)

TypeOK ==
    /\ \A a \in DOMAIN arena : arena[a].desc \in BlockSizes \cup {NULL, NoDesc}
    /\ \A d \in BlockSizes : /\ dlock[d] \in Threads \cup {"none"}
                             /\ \A b \in Range(free_list[d]) : b \in DOMAIN mem
    /\ \A b \in live : b.t \in Threads /\ b.at \in DOMAIN mem
    /\ \A t \in Threads : call[t].pc \in {"idle", "block", "scan", "flip", "free", "clear"}

(* No ASSERT of malloc.c and palloc.c fails. *)
NoPanic == panic = "none"

Extent(b) == b.at .. b.at + b.size - 1
BitmapBytes(p) == p.map * PGSIZE .. p.map * PGSIZE + bitmap_buf_size(Cardinality(DOMAIN p.used)) - 1

(* Blocks and pages in use are disjoint, lie in a page that is marked used *)
(* in its pool, and never reach into a bitmap.                             *)
Disjoint ==
    /\ \A b, c \in live : b # c => Extent(b) \cap Extent(c) = {}
    /\ \A b \in live, p \in {"kernel", "user"} : Extent(b) \cap BitmapBytes(pool[p]) = {}
    /\ \A b \in live : \A page \in PageOf(b.at) .. PageOf(b.at + b.size - 1) :
          \E p \in {"kernel", "user"} :
              page_from_pool(pool[p], page) /\ pool[p].used[page - pool[p].base]

(* What a thread has in a block stays there until it frees it, across the  *)
(* allocations, frees and reallocations of the others, and realloc keeps   *)
(* it.                                                                     *)
ContentsKept == \A b \in live : \A a \in Extent(b) \cap DOMAIN mem : mem[a] = b.val

(* Nothing leaks: when no call is under way, the pages marked used are     *)
(* those of live blocks and pages, and an arena's blocks are each live or  *)
(* in the free list.                                                       *)
NoLeak ==
    (\A t \in Threads : call[t] = Idle) =>
        /\ \A p \in {"kernel", "user"}, i \in 0 .. FreePages :
              i \in DOMAIN pool[p].used /\ pool[p].used[i] =>
                  \E b \in live : Extent(b) \cap Bytes(pool[p].base + i, 1) # {}
        /\ \A page \in DOMAIN arena : arena[page].desc \in BlockSizes =>
              \A x \in Range(Blocks(page, arena[page].desc)) :
                  (x \in Range(free_list[arena[page].desc])) # (\E b \in live : b.at = x)

(* A block is as large as was asked for: its arena has that much room. *)
LargeEnough ==
    \A b \in live : b.at % PGSIZE # 0 => b.size <= block_size(b.at)

=============================================================================
