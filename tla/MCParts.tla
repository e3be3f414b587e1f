------------------------------ MODULE MCParts -------------------------------
(***************************************************************************)
(* Instances of the parts of the system that work on their own, for one    *)
(* run of TLC: a behaviour is one scenario, chosen at the start, and the   *)
(* variables of the other scenarios stay 0.  Parts whose variables have    *)
(* the same name share them, for only one of the parts is there.           *)
(***************************************************************************)
EXTENDS Integers, Sequences

CONSTANTS null_pointer, t1, t2, t3, idle_thread, la, lb

VARIABLES
    scenario,
    heap, status, priority, priority_org, blocked_lock, sleep, all_list, value, holder, cur,
    thread_ticks, frame, panic, owns, waiters, pc, waits, ready_list, made, blocked, nice,
    recent_cpu, load_avg, ticks, calls, inq, txq, ier, thre, rbr, shifts, caps_lock, typed, got,
    queued, sent, down, caps, keys, recvs, writes, pool, arena, free_list, dlock, mem, call,
    live, kind, is_ata, registered, lock, expecting_interrupt, sema, hw, disk, want, bad, ops,
    fails, spurious, table, stack, part_nr, all_blocks, bdev_name, block_by_role, v, written,
    starts, maps, faults, history, line, i, last_out_fd, fds, proc, pipe, files, lines, shown,
    due, text, argv, buckets, elem_cnt, iter, seen, content, right, use_console_lock,
    console_lock, console_lock_depth, frames, panicking, failed, out, game, key_queue,
    queue_read_index, queue_write_index, hung, presses, handled

ofSynch ==
    <<heap, status, priority_org, blocked_lock, sleep, all_list, frame, owns>>
ofMonitor ==
    <<waiters, waits>>
ofMlfqs ==
    <<ready_list, made, blocked, nice, recent_cpu, load_avg, ticks>>
ofConsole ==
    <<inq, txq, ier, thre, rbr, shifts, caps_lock, typed, got, queued, sent, down, caps, keys,
      recvs, writes>>
ofHeap ==
    <<pool, arena, free_list, dlock, mem, live>>
ofIde ==
    <<kind, is_ata, registered, lock, expecting_interrupt, sema, hw, bad, ops, fails, spurious>>
ofBlock ==
    <<table, stack, part_nr, all_blocks, bdev_name, block_by_role>>
ofVm ==
    <<v, written, starts, maps, faults>>
ofShell ==
    <<history, line, i, last_out_fd, fds, proc, pipe, files, lines, shown, due>>
ofShellParse ==
    <<text, argv>>
ofHashTable ==
    <<buckets, elem_cnt, iter, seen, content, right>>
ofPrinting ==
    <<use_console_lock, console_lock, console_lock_depth, frames, panicking, failed, out>>
ofInvaders ==
    <<game, key_queue, queue_read_index, queue_write_index, hung, presses, handled>>
vars ==
    <<scenario, ofSynch, ofMonitor, ofMlfqs, ofConsole, ofHeap, ofIde, ofBlock, ofVm, ofShell,
      ofShellParse, ofHashTable, ofPrinting, ofInvaders, priority, value, holder, cur,
      thread_ticks, panic, pc, calls, call, disk, want>>

-----------------------------------------------------------------------------
(* Synch: three threads of ascending priority with two locks ("locks"), or *)
(* with one lock and sleeps ("sleep").                                     *)
Locking ==
    INSTANCE Synch WITH NULL <- null_pointer, Threads <- {t1, t2, t3}, Idle <- idle_thread, Main <- t1,
        Semas <- {}, Locks <- {la, lb},
        InitPriority <- [t \in {t1, t2, t3} |-> IF t = t1 THEN 1 ELSE IF t = t2 THEN 2 ELSE 3],
        Priorities <- {}, InitValue <- [s \in {} |-> 0], TIME_SLICE <- 2, DONATION_DEPTH <- 8,
        MaxSleep <- 2, MaxValue <- 1, Calls <- {"lock", "sleep"}

(* Monitor: two of the three threads have the same priority; memory that   *)
(* is read as a priority may have more than all of them.                   *)
Condition ==
    INSTANCE Monitor WITH Threads <- {"a", "b", "c"}, Garbage <- {0, 3}, MaxWaits <- 4,
        priority <- [t \in {"a", "b", "c"} |-> IF t = "a" THEN 1 ELSE 2]

(* Mlfqs: seconds of 4 ticks and fractions of 1/8; the three threads may   *)
(* be nice.                                                                *)
Queues ==
    INSTANCE Mlfqs WITH Threads <- {"m", "t", "u"}, Main <- "m", fp_f <- 8, TIMER_FREQ <- 4,
        LOAD_AVG_PERIOD <- 16, PRI_RECALC_PERIOD <- 2, TIME_SLICE <- 3, PRI_MAX <- 7,
        PRI_DEFAULT <- 4, Nices <- {0, 2}, MaxTicks <- 9, MaxCalls <- 3

(* Console: every kind of key for one reader, and the two queues of the    *)
(* serial port with competing readers, a writer and one with interrupts    *)
(* off.                                                                    *)
Keys ==
    INSTANCE Console WITH INTQ_BUFSIZE <- 2, Readers <- {"r"}, Writers <- {}, Quiet <- {},
        Codes <- {58, 42, 56, 29, 30, 2, 83}, MaxKeys <- 4, MaxRecv <- 0, MaxWrites <- 0
Port ==
    INSTANCE Console WITH INTQ_BUFSIZE <- 2, Readers <- {"r1", "r2"}, Writers <- {"w"}, Quiet <- {"q"},
        Codes <- {30}, MaxKeys <- 2, MaxRecv <- 1, MaxWrites <- 3

(* Heap: pages of 8 bytes, blocks of 1 and 2, one more page for 5. *)
Heap ==
    INSTANCE Heap WITH Threads <- {t1, t2}, FreePages <- 6, UserLimits <- {2}, PGSIZE <- 8, ARENA <- 4,
        MinBlock <- 1, ELEM_BITS <- 4, W <- 6, Sizes <- {2, 5}, Counts <- {1, 2}, MaxLive <- 2

(* Ide: disks with and without the signature, too big, absent, a slave     *)
(* behind each of them.                                                    *)
Device(e, r, s, d, b) == [error |-> e, ready |-> r, sig |-> s, drq |-> d, big |-> b]
Devices ==
    {Device(1, TRUE, TRUE, TRUE, FALSE), Device(129, TRUE, TRUE, TRUE, FALSE),
     Device(129, FALSE, FALSE, FALSE, FALSE), Device(0, FALSE, FALSE, FALSE, FALSE),
     Device(1, TRUE, TRUE, TRUE, TRUE), Device(1, TRUE, FALSE, TRUE, FALSE),
     Device(1, TRUE, TRUE, FALSE, FALSE)}
Disk ==
    INSTANCE Ide WITH Clients <- {"c1", "c2"}, Kinds <- Devices, Sectors <- {0}, Values <- {"v1", "v2"},
        MaxOps <- 2, Failing <- {"read", "write"}, MaxFails <- 1, MaxSpurious <- 1

(* Block: two entries of every type, inside the disk, past its end, and    *)
(* so long that the end wraps around; or an extended partition.            *)
Entries == [type : {"filesys", "foreign"}, offset : {1, 3}, size : {0, 2, 7}]
Tables ==
    {[valid |-> TRUE, entries |-> <<e, f>>] : e, f \in Entries} \cup
    {[valid |-> FALSE, entries |-> <<>>],
     [valid |-> TRUE, entries |-> <<[type |-> "extended", offset |-> 2, size |-> 2],
                                    [type |-> "filesys", offset |-> 3, size |-> 2]>>]}
Names == {<<>>, <<"hda">>, <<"hda", 1>>, <<"hda", 2>>}
Blocks == INSTANCE Block WITH Size <- 6, W <- 3, Tables <- Tables, Names <- Names, MaxDepth <- 2

(* Vm: one process at a time on two user frames, with a program of one     *)
(* page; the stack pointer is in the first stack page or at the start of   *)
(* the last one there can be.                                              *)
Memory ==
    INSTANCE Vm WITH Procs <- {"p"}, UFrames <- {1, 2}, KFrames <- {9}, NSlots <- 3, max <- 2, PGSIZE <- 2,
        NPages <- 5, MAX_PAGES <- 2, MapAddrs <- {0, 2}, ProgLen <- 2, Lens <- {3}, Values <- {2},
        Segments <- <<[page |-> 1, ofs |-> 0, read |-> 1, zero |-> 1, writable |-> TRUE]>>,
        Esps <- {[page |-> 4, low |-> FALSE], [page |-> 3, low |-> TRUE]},
        MaxStarts <- 1, MaxMaps <- 1, MaxFaults <- 3

(* Shell: pipelines of up to three commands, with built-ins, programs that *)
(* end early or are missing, redirections, and lines of the history.       *)
Command(prog) == [prog |-> prog, in |-> "none", out |-> "none", app |-> FALSE]
From(prog, f) == [Command(prog) EXCEPT !.in = f]
To(prog, f, app) == [Command(prog) EXCEPT !.out = f, !.app = app]
Chain(progs) == [cmds |-> [n \in DOMAIN progs |-> Command(progs[n])]]
Lines ==
    {Chain(<<"gen", "cat">>), Chain(<<"gen", "cat", "cat">>), Chain(<<"gen", "head", "cat">>),
     Chain(<<"cd", "gen">>), Chain(<<"gen", "cd", "cat">>), Chain(<<"exit">>), Chain(<<"history">>),
     Chain(<<"gen", "missing">>), [cmds |-> <<From("cat", "f"), Command("cat")>>],
     [cmds |-> <<Command("gen"), To("cat", "g", FALSE)>>], [cmds |-> <<To("gen", "g", TRUE)>>],
     [cmds |-> <<From("cat", "g")>>], [bang |-> 1], [bang |-> 5]}
Shell == INSTANCE Shell WITH Lines <- Lines, N <- 2, CAP <- 1, MaxLines <- 2, MayFail <- TRUE

(* ShellParse: every line of five characters and every chain of five       *)
(* tokens.                                                                 *)
Parser ==
    INSTANCE ShellParse WITH Chars <- {"a", " ", "2", "|", ">", "<", "q", "&"}, MaxChars <- 5,
        Tokens <- {"a", "'a'", "|", "<", ">", ">>", "2>", "2>>"}, MaxTokens <- 5

(* HashTable: four keys, two of which are together in one bucket until     *)
(* there are four; rehash starts with the second element.                  *)
HashOf(key) == IF key = 3 THEN 5 ELSE key
Table ==
    INSTANCE HashTable WITH HashKeys <- 0 .. 3, Hash <- HashOf, Ids <- {1, 2}, MinBuckets <- 1,
        BEST_ELEMS_PER_BUCKET <- 1

(* Printing: three calls of two threads, one of them perhaps nested. *)
Printer ==
    INSTANCE Printing WITH Printers <- {"t1", "t2"}, NChars <- 2, MaxNest <- 2, MaxCalls <- 3, MaxIntr <- 1

(* Invaders: two enemies on a small screen, three keys. *)
Game ==
    INSTANCE Invaders WITH VID_WIDTH <- 12, VID_HEIGHT <- 12, ALIEN_SIZE <- 2, SHIP_SIZE <- 3,
        ENEMY_SPACING <- 1, BarHeight <- 2, ENEMY_SPEED <- 1, ENEMY_DROP_SPEED <- 3, BULLET_SPEED <- 3,
        ALIEN_BULLET_SPEED <- 3, PLAYER_SPEED <- 3, TopBuffer <- 3, DeadZone <- 3, MAX_BULLETS <- 2,
        ENEMY_BULLETS <- 2, KEYCODE_QUEUE_SIZE <- 3, W <- 5,
        KeyCodes <- {"LEFT", "SPACE", "R", "P"}, MaxKeys <- 3

(* What the proofs about these parts assume of their constants. *)
ASSUME PartsAssumption ==
    /\ Condition!MonitorConstants /\ Disk!IdeConstants /\ Blocks!BlockConstants
    /\ Printer!PrintingConstants

-----------------------------------------------------------------------------
(* The variables of a part that is not there. *)
NoSynch ==
    /\ heap = 0 /\ status = 0 /\ priority_org = 0 /\ blocked_lock = 0 /\ sleep = 0
    /\ all_list = 0 /\ frame = 0 /\ owns = 0
NoMonitor ==
    /\ waiters = 0 /\ waits = 0
NoMlfqs ==
    /\ ready_list = 0 /\ made = 0 /\ blocked = 0 /\ nice = 0 /\ recent_cpu = 0 /\ load_avg = 0
    /\ ticks = 0
NoConsole ==
    /\ inq = 0 /\ txq = 0 /\ ier = 0 /\ thre = 0 /\ rbr = 0 /\ shifts = 0 /\ caps_lock = 0
    /\ typed = 0 /\ got = 0 /\ queued = 0 /\ sent = 0 /\ down = 0 /\ caps = 0 /\ keys = 0
    /\ recvs = 0 /\ writes = 0
NoHeap ==
    /\ pool = 0 /\ arena = 0 /\ free_list = 0 /\ dlock = 0 /\ mem = 0 /\ live = 0
NoIde ==
    /\ kind = 0 /\ is_ata = 0 /\ registered = 0 /\ lock = 0 /\ expecting_interrupt = 0
    /\ sema = 0 /\ hw = 0 /\ bad = 0 /\ ops = 0 /\ fails = 0 /\ spurious = 0
NoBlock ==
    /\ table = 0 /\ stack = 0 /\ part_nr = 0 /\ all_blocks = 0 /\ bdev_name = 0
    /\ block_by_role = 0
NoVm ==
    /\ v = 0 /\ written = 0 /\ starts = 0 /\ maps = 0 /\ faults = 0
NoShell ==
    /\ history = 0 /\ line = 0 /\ i = 0 /\ last_out_fd = 0 /\ fds = 0 /\ proc = 0 /\ pipe = 0
    /\ files = 0 /\ lines = 0 /\ shown = 0 /\ due = 0
NoShellParse ==
    /\ text = 0 /\ argv = 0
NoHashTable ==
    /\ buckets = 0 /\ elem_cnt = 0 /\ iter = 0 /\ seen = 0 /\ content = 0 /\ right = 0
NoPrinting ==
    /\ use_console_lock = 0 /\ console_lock = 0 /\ console_lock_depth = 0 /\ frames = 0
    /\ panicking = 0 /\ failed = 0 /\ out = 0
NoInvaders ==
    /\ game = 0 /\ key_queue = 0 /\ queue_read_index = 0 /\ queue_write_index = 0 /\ hung = 0
    /\ presses = 0 /\ handled = 0

Init ==
    \/ scenario \in {"locks", "sleep"} /\ Locking!Init
       /\ NoMonitor /\ NoMlfqs /\ NoConsole /\ NoHeap /\ NoIde /\ NoBlock /\ NoVm /\ NoShell
       /\ NoShellParse /\ NoHashTable /\ NoPrinting /\ NoInvaders /\ pc = 0 /\ calls = 0
       /\ call = 0 /\ disk = 0 /\ want = 0
    \/ scenario = "monitor" /\ Condition!Init
       /\ NoSynch /\ NoMlfqs /\ NoConsole /\ NoHeap /\ NoIde /\ NoBlock /\ NoVm /\ NoShell
       /\ NoShellParse /\ NoHashTable /\ NoPrinting /\ NoInvaders /\ priority = 0 /\ cur = 0
       /\ thread_ticks = 0 /\ panic = 0 /\ calls = 0 /\ call = 0 /\ disk = 0 /\ want = 0
    \/ scenario = "mlfqs" /\ Queues!Init
       /\ NoSynch /\ NoMonitor /\ NoConsole /\ NoHeap /\ NoIde /\ NoBlock /\ NoVm /\ NoShell
       /\ NoShellParse /\ NoHashTable /\ NoPrinting /\ NoInvaders /\ value = 0 /\ holder = 0
       /\ panic = 0 /\ pc = 0 /\ call = 0 /\ disk = 0 /\ want = 0
    \/ scenario = "keyboard" /\ Keys!Init
       /\ NoSynch /\ NoMonitor /\ NoMlfqs /\ NoHeap /\ NoIde /\ NoBlock /\ NoVm /\ NoShell
       /\ NoShellParse /\ NoHashTable /\ NoPrinting /\ NoInvaders /\ priority = 0 /\ value = 0
       /\ holder = 0 /\ cur = 0 /\ thread_ticks = 0 /\ calls = 0 /\ call = 0 /\ disk = 0
       /\ want = 0
    \/ scenario = "port" /\ Port!Init
       /\ NoSynch /\ NoMonitor /\ NoMlfqs /\ NoHeap /\ NoIde /\ NoBlock /\ NoVm /\ NoShell
       /\ NoShellParse /\ NoHashTable /\ NoPrinting /\ NoInvaders /\ priority = 0 /\ value = 0
       /\ holder = 0 /\ cur = 0 /\ thread_ticks = 0 /\ calls = 0 /\ call = 0 /\ disk = 0
       /\ want = 0
    \/ scenario = "heap" /\ Heap!Init
       /\ NoSynch /\ NoMonitor /\ NoMlfqs /\ NoConsole /\ NoIde /\ NoBlock /\ NoVm /\ NoShell
       /\ NoShellParse /\ NoHashTable /\ NoPrinting /\ NoInvaders /\ priority = 0 /\ value = 0
       /\ holder = 0 /\ cur = 0 /\ thread_ticks = 0 /\ pc = 0 /\ calls = 0 /\ disk = 0
       /\ want = 0
    \/ scenario = "disk" /\ Disk!Init
       /\ NoSynch /\ NoMonitor /\ NoMlfqs /\ NoConsole /\ NoHeap /\ NoBlock /\ NoVm /\ NoShell
       /\ NoShellParse /\ NoHashTable /\ NoPrinting /\ NoInvaders /\ priority = 0 /\ value = 0
       /\ holder = 0 /\ cur = 0 /\ thread_ticks = 0 /\ pc = 0 /\ calls = 0
    \/ scenario = "blocks" /\ Blocks!Init
       /\ NoSynch /\ NoMonitor /\ NoMlfqs /\ NoConsole /\ NoHeap /\ NoIde /\ NoVm /\ NoShell
       /\ NoShellParse /\ NoHashTable /\ NoPrinting /\ NoInvaders /\ priority = 0 /\ value = 0
       /\ holder = 0 /\ cur = 0 /\ thread_ticks = 0 /\ calls = 0 /\ call = 0 /\ want = 0
    \/ scenario = "memory" /\ Memory!Init
       /\ NoSynch /\ NoMonitor /\ NoMlfqs /\ NoConsole /\ NoHeap /\ NoIde /\ NoBlock /\ NoShell
       /\ NoShellParse /\ NoHashTable /\ NoPrinting /\ NoInvaders /\ priority = 0 /\ value = 0
       /\ holder = 0 /\ cur = 0 /\ thread_ticks = 0 /\ panic = 0 /\ pc = 0 /\ calls = 0
       /\ call = 0 /\ disk = 0
    \/ scenario = "shell" /\ Shell!Init
       /\ NoSynch /\ NoMonitor /\ NoMlfqs /\ NoConsole /\ NoHeap /\ NoIde /\ NoBlock /\ NoVm
       /\ NoShellParse /\ NoHashTable /\ NoPrinting /\ NoInvaders /\ priority = 0 /\ value = 0
       /\ holder = 0 /\ cur = 0 /\ thread_ticks = 0 /\ panic = 0 /\ calls = 0 /\ call = 0
       /\ disk = 0 /\ want = 0
    \/ scenario = "parser" /\ Parser!Init
       /\ NoSynch /\ NoMonitor /\ NoMlfqs /\ NoConsole /\ NoHeap /\ NoIde /\ NoBlock /\ NoVm
       /\ NoShell /\ NoHashTable /\ NoPrinting /\ NoInvaders /\ priority = 0 /\ value = 0
       /\ holder = 0 /\ cur = 0 /\ thread_ticks = 0 /\ panic = 0 /\ pc = 0 /\ calls = 0
       /\ call = 0 /\ disk = 0 /\ want = 0
    \/ scenario = "table" /\ Table!Init
       /\ NoSynch /\ NoMonitor /\ NoMlfqs /\ NoConsole /\ NoHeap /\ NoIde /\ NoBlock /\ NoVm
       /\ NoShell /\ NoShellParse /\ NoPrinting /\ NoInvaders /\ priority = 0 /\ value = 0
       /\ holder = 0 /\ cur = 0 /\ thread_ticks = 0 /\ panic = 0 /\ pc = 0 /\ calls = 0
       /\ call = 0 /\ disk = 0 /\ want = 0
    \/ scenario = "printer" /\ Printer!Init
       /\ NoSynch /\ NoMonitor /\ NoMlfqs /\ NoConsole /\ NoHeap /\ NoIde /\ NoBlock /\ NoVm
       /\ NoShell /\ NoShellParse /\ NoHashTable /\ NoInvaders /\ priority = 0 /\ value = 0
       /\ holder = 0 /\ cur = 0 /\ thread_ticks = 0 /\ panic = 0 /\ pc = 0 /\ call = 0
       /\ disk = 0 /\ want = 0
    \/ scenario = "game" /\ Game!Init
       /\ NoSynch /\ NoMonitor /\ NoMlfqs /\ NoConsole /\ NoHeap /\ NoIde /\ NoBlock /\ NoVm
       /\ NoShell /\ NoShellParse /\ NoHashTable /\ NoPrinting /\ priority = 0 /\ value = 0
       /\ holder = 0 /\ cur = 0 /\ thread_ticks = 0 /\ panic = 0 /\ pc = 0 /\ calls = 0
       /\ call = 0 /\ disk = 0 /\ want = 0

Next ==
    \/ /\ scenario \in {"locks", "sleep"} /\ Locking!Next
       /\ IF scenario = "locks" THEN sleep' = sleep ELSE value'[lb] = 1
       /\ UNCHANGED <<scenario, ofMonitor, ofMlfqs, ofConsole, ofHeap, ofIde, ofBlock, ofVm,
                       ofShell, ofShellParse, ofHashTable, ofPrinting, ofInvaders, pc, calls, call,
                       disk, want>>
    \/ /\ scenario = "monitor" /\ Condition!Next
       /\ UNCHANGED <<scenario, ofSynch, ofMlfqs, ofConsole, ofHeap, ofIde, ofBlock, ofVm, ofShell,
                       ofShellParse, ofHashTable, ofPrinting, ofInvaders, priority, cur,
                       thread_ticks, panic, calls, call, disk, want>>
    \/ /\ scenario = "mlfqs" /\ Queues!Next
       /\ UNCHANGED <<scenario, ofSynch, ofMonitor, ofConsole, ofHeap, ofIde, ofBlock, ofVm,
                       ofShell, ofShellParse, ofHashTable, ofPrinting, ofInvaders, value, holder,
                       panic, pc, call, disk, want>>
    \/ /\ scenario = "keyboard" /\ Keys!Next
       /\ UNCHANGED <<scenario, ofSynch, ofMonitor, ofMlfqs, ofHeap, ofIde, ofBlock, ofVm, ofShell,
                       ofShellParse, ofHashTable, ofPrinting, ofInvaders, priority, value, holder,
                       cur, thread_ticks, calls, call, disk, want>>
    \/ /\ scenario = "port" /\ Port!Next
       /\ UNCHANGED <<scenario, ofSynch, ofMonitor, ofMlfqs, ofHeap, ofIde, ofBlock, ofVm, ofShell,
                       ofShellParse, ofHashTable, ofPrinting, ofInvaders, priority, value, holder,
                       cur, thread_ticks, calls, call, disk, want>>
    \/ /\ scenario = "heap" /\ Heap!Next
       /\ UNCHANGED <<scenario, ofSynch, ofMonitor, ofMlfqs, ofConsole, ofIde, ofBlock, ofVm,
                       ofShell, ofShellParse, ofHashTable, ofPrinting, ofInvaders, priority, value,
                       holder, cur, thread_ticks, pc, calls, disk, want>>
    \/ /\ scenario = "disk" /\ Disk!Next
       /\ UNCHANGED <<scenario, ofSynch, ofMonitor, ofMlfqs, ofConsole, ofHeap, ofBlock, ofVm,
                       ofShell, ofShellParse, ofHashTable, ofPrinting, ofInvaders, priority, value,
                       holder, cur, thread_ticks, pc, calls>>
    \/ /\ scenario = "blocks" /\ Blocks!Next
       /\ UNCHANGED <<scenario, ofSynch, ofMonitor, ofMlfqs, ofConsole, ofHeap, ofIde, ofVm,
                       ofShell, ofShellParse, ofHashTable, ofPrinting, ofInvaders, priority, value,
                       holder, cur, thread_ticks, calls, call, want>>
    \/ /\ scenario = "memory" /\ Memory!Next
       /\ UNCHANGED <<scenario, ofSynch, ofMonitor, ofMlfqs, ofConsole, ofHeap, ofIde, ofBlock,
                       ofShell, ofShellParse, ofHashTable, ofPrinting, ofInvaders, priority, value,
                       holder, cur, thread_ticks, panic, pc, calls, call, disk>>
    \/ /\ scenario = "shell" /\ Shell!Next
       /\ UNCHANGED <<scenario, ofSynch, ofMonitor, ofMlfqs, ofConsole, ofHeap, ofIde, ofBlock,
                       ofVm, ofShellParse, ofHashTable, ofPrinting, ofInvaders, priority, value,
                       holder, cur, thread_ticks, panic, calls, call, disk, want>>
    \/ /\ scenario = "parser" /\ Parser!Next
       /\ UNCHANGED <<scenario, ofSynch, ofMonitor, ofMlfqs, ofConsole, ofHeap, ofIde, ofBlock,
                       ofVm, ofShell, ofHashTable, ofPrinting, ofInvaders, priority, value, holder,
                       cur, thread_ticks, panic, pc, calls, call, disk, want>>
    \/ /\ scenario = "table" /\ Table!Next
       /\ UNCHANGED <<scenario, ofSynch, ofMonitor, ofMlfqs, ofConsole, ofHeap, ofIde, ofBlock,
                       ofVm, ofShell, ofShellParse, ofPrinting, ofInvaders, priority, value, holder,
                       cur, thread_ticks, panic, pc, calls, call, disk, want>>
    \/ /\ scenario = "printer" /\ Printer!Next
       /\ UNCHANGED <<scenario, ofSynch, ofMonitor, ofMlfqs, ofConsole, ofHeap, ofIde, ofBlock,
                       ofVm, ofShell, ofShellParse, ofHashTable, ofInvaders, priority, value,
                       holder, cur, thread_ticks, panic, pc, call, disk, want>>
    \/ /\ scenario = "game" /\ Game!Next
       /\ UNCHANGED <<scenario, ofSynch, ofMonitor, ofMlfqs, ofConsole, ofHeap, ofIde, ofBlock,
                       ofVm, ofShell, ofShellParse, ofHashTable, ofPrinting, priority, value,
                       holder, cur, thread_ticks, panic, pc, calls, call, disk, want>>

Spec == Init /\ [][Next]_vars

-----------------------------------------------------------------------------
(* Properties: those of the modules, where each is explained *)

(* The run queue holds the ready threads (thread.c), also when the timer   *)
(* wakes sleeping threads; for threads that only use locks, the waiters of *)
(* a semaphore are the threads blocked in sema_down, and a thread's list   *)
(* of locks has the ones it owns (synch.c).                                *)
ListsExact ==
    /\ scenario \in {"locks", "sleep"} => Locking!ReadyExact
    /\ scenario = "locks" => Locking!WaitersExact /\ Locking!OwnedExact

(* No ASSERT of thread.c, synch.c and list.c fails for threads that only   *)
(* use locks, and every variable keeps its type.                           *)
LocksNoPanic ==
    /\ scenario \in {"locks", "sleep"} => Locking!TypeOK
    /\ scenario = "locks" => Locking!NoPanic

(* No wake-up is lost: sema_up wakes a waiter for each value, with         *)
(* time-outs of sleeping threads in between (synch.c, timer.c).            *)
WakeupsKept == scenario \in {"locks", "sleep"} => Locking!NoLostWakeup

(* No ready thread has a higher priority than the running one, for threads *)
(* that only use locks (thread.c).                                         *)
HighestRuns == scenario = "locks" => Locking!PriorityScheduled

(* A thread that queues up for a lock raises all the holders it waits for  *)
(* (lock_acquire of synch.c), when threads only use locks and sleep.       *)
LocksElevateHolders == [][(scenario \in {"locks", "sleep"}) => Locking!ElevatesInStep]_vars

(* A signal wakes a thread that waits, a broadcast all of them; whoever is *)
(* not on the list of waiters has its signal, also if it is not yet asleep *)
(* (cond_wait, cond_signal and cond_broadcast of synch.c).                 *)
SignalsKept == [][scenario = "monitor" => Condition!WaitersExact' /\ Condition!SignalStep]_vars

(* With -mlfqs, the priorities follow from recent_cpu and nice whenever    *)
(* they are computed, load_avg stays between 0 and the number of threads,  *)
(* the tick that computes them gives way to a thread that is now above the *)
(* running one (thread_tick of thread.c), and the operations of fixedp.h   *)
(* round as they say.                                                      *)
PrioritiesRight ==
    [][scenario = "mlfqs" =>
         /\ Queues!PriorityFresh' /\ Queues!LoadBounded' /\ Queues!TickDefers
         /\ ticks = 0 /\ calls = 0 => Queues!FixedExact]_vars

(* No ASSERT of malloc.c, palloc.c, frame.c, page.c, swap.c and console.c  *)
(* fails, but for those of a full swap device and an empty kernel pool,    *)
(* nor that of wait in intq.c with one reader, and every variable keeps    *)
(* its type.                                                               *)
AssertsHold ==
    /\ scenario = "keyboard" => Keys!TypeOK /\ Keys!NoPanic
    /\ scenario = "port" => Port!TypeOK
    /\ scenario = "heap" => Heap!TypeOK /\ Heap!NoPanic
    /\ scenario = "disk" => Disk!TypeOK
    /\ scenario = "memory" => Memory!TypeOK /\ Memory!NoPanic
    /\ scenario = "shell" => Shell!TypeOK
    /\ scenario = "printer" => Printer!PrintAsserts
    /\ scenario = "game" => Game!TypeOK

(* Readers get the bytes of the keyboard and the port in order, none twice *)
(* and none lost once it is in the buffer (intq.c, input.c), and the port  *)
(* sends the bytes in the order of the calls of serial_putc, also with     *)
(* polling and serial_flush in between (serial.c).                         *)
BytesInOrder ==
    /\ scenario = "keyboard" => Keys!InputInOrder
    /\ scenario = "port" => Port!InputInOrder /\ Port!OutputInOrder

(* No reader waits while there is a byte, no writer while there is room    *)
(* (wait and signal of intq.c), and the port's interrupts are on while     *)
(* there is something to send or room for a byte (write_ier of serial.c).  *)
NothingStuck ==
    /\ scenario = "keyboard" => Keys!WaitsForReason /\ Keys!InterruptsOn
    /\ scenario = "port" => Port!WaitsForReason /\ Port!InterruptsOn

(* A key press adds the character that the keys held down say              *)
(* (keyboard_interrupt of kbd.c).                                          *)
KeysTyped == [][scenario = "keyboard" => Keys!KeyTyped]_vars

(* malloc, calloc and realloc return as much as was asked for, no two      *)
(* blocks or pages in use overlap, what a thread stored in a block stays   *)
(* until free, and with no call under way every used page and every block  *)
(* of an arena is live or free (malloc.c, palloc.c, bitmap.c).             *)
HeapExact ==
    scenario = "heap" => Heap!LargeEnough /\ Heap!Disjoint /\ Heap!ContentsKept /\ Heap!NoLeak

(* The probe registers the disks there are, and the command under way is   *)
(* that of the lock's holder (ide_init, select_sector).  A read returns    *)
(* what was last written, also after a stray interrupt, unless a wait for  *)
(* the disk also timed out; without stray interrupts ide_write returns     *)
(* when the disk has the data, and leaves nothing of its command behind    *)
(* (ide_read, ide_write, interrupt_handler).                               *)
DiskHonest == scenario = "disk" => Disk!DiskHonest

(* Every partition lies inside the disk (found_partition), and a write     *)
(* through a role stays in the partition that has the role                 *)
(* (partition_write, locate_block_devices).                                *)
OwnPartition == [][scenario = "blocks" => Blocks!InsideDisk' /\ Blocks!WriteInside]_vars

(* A frame holds one page, and that page's tables say so; a swap slot in   *)
(* use holds one page; every user frame in use is in the replacement queue *)
(* (frame.c, swap.c, clru.c).                                              *)
FramesExact == scenario = "memory" => Memory!FramesExact /\ Memory!SlotsExact /\ Memory!InQueue

(* A page has what its process last wrote to it, in memory or in swap      *)
(* (page.c, exception.c).                                                  *)
ContentsRight == scenario = "memory" => Memory!ContentsRight

(* Unmapping a file saves what was written to its pages since they came in *)
(* (sup_remove_map of page.c).                                             *)
UnmapSaves == [][scenario = "memory" => Memory!StepSaves]_vars

(* A process of a pipeline holds its own two ends of pipes only, and at    *)
(* the prompt the terminal has all that the line's programs should write   *)
(* (com_exec.c).                                                           *)
DataThrough == scenario = "shell" => Shell!DataThrough /\ Shell!OwnEnds

(* The tokenizer loses nothing of a line and makes operators outside       *)
(* quotes tokens of their own (token.c), and the parser puts every token   *)
(* of a well-formed line in its place (com_parser.c).                      *)
ParsedRight ==
    scenario = "parser" => Parser!LosslessUnnumbered /\ Parser!OperatorsAlone /\ Parser!ParsedRight

(* An element is in the bucket in which it is looked for, and counted,     *)
(* also when there was no memory for more buckets; the calls return what   *)
(* is in the table, and iterations meet every element once (hash.c).       *)
TableExact == scenario = "table" => Table!TableExact /\ Table!MaskReaches /\ Table!AnswersRight

(* The characters of a call of printf come out together, and               *)
(* console_lock_depth is what the nesting of calls says (console.c).       *)
PrintsWhole == scenario = "printer" => Printer!PrintsWhole /\ Printer!DepthExact

(* fire_alien_bullet finds an enemy to shoot, num_enemies_left counts the  *)
(* enemies there are, bullets stay on the screen, and keys are taken in    *)
(* the order of their presses, none twice (game.c, keyboard.c).            *)
ShotsEnd ==
    scenario = "game" =>
        Game!CountExact /\ Game!ShotsEnd /\ Game!InFlightInside /\ Game!KeysInOrder

=============================================================================
