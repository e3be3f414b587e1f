------------------------------ MODULE Console -------------------------------
(***************************************************************************)
(* The character devices: the interrupt queues of devices/intq.c, the      *)
(* input buffer of devices/input.c, the serial port driver of              *)
(* devices/serial.c and the keyboard interrupt of devices/kbd.c.  Threads  *)
(* read keys and write bytes; the keyboard and the port interrupt between  *)
(* the stretches that run with interrupts off, which are the actions.      *)
(***************************************************************************)
EXTENDS Integers, Sequences, FiniteSets, SequencesExt

CONSTANTS
    INTQ_BUFSIZE,   (* positions of an intq, at least 2, one of which stays free *)
    Readers,        (* threads that call input_getc *)
    Writers,        (* threads that call serial_putc with interrupts on *)
    Quiet,          (* threads that call it with interrupts off *)
    Codes,          (* scancodes the keyboard can send *)
    MaxKeys, MaxRecv, MaxWrites     (* bounds on scancodes, received and written bytes *)

NONE == "none"
Threads == Readers \cup Writers \cup Quiet

VARIABLES
    inq,            (* buffer of input.c: [buf, head, tail, lock, waiting, not_empty, not_full] *)
    txq,            (* txq of serial.c *)
    ier,            (* the interrupt enable register: subset of {"recv", "xmit"} *)
    thre,           (* the transmitter holding register is empty *)
    rbr,            (* received byte in RBR, or 0 *)
    shifts,         (* scancodes of the shift keys whose variable is true *)
    caps_lock,
    pc,             (* where each thread is in its call *)
    panic,
    typed,          (* history: bytes offered to the input buffer in order *)
    got,            (* history: bytes readers took *)
    queued,         (* history: bytes written to the port *)
    sent,           (* history: bytes the port transmitted *)
    down, caps,     (* history: shift keys held down; presses of Caps Lock *)
    keys, recvs, writes

hardware == <<thre, rbr>>
history == <<typed, got, queued, sent, down, caps>>
counts == <<keys, recvs, writes>>
vars == <<inq, txq, ier, shifts, caps_lock, pc, panic, hardware, history, counts>>

Up == panic = NONE

-----------------------------------------------------------------------------
(* devices/intq.c *)

intq_init ==
    [buf |-> [i \in 0 .. INTQ_BUFSIZE - 1 |-> 0], head |-> 0, tail |-> 0,
     lock |-> NONE, waiting |-> <<>>, not_empty |-> NONE, not_full |-> NONE]

next(pos) == (pos + 1) % INTQ_BUFSIZE

intq_empty(q) == q.head = q.tail

intq_full(q) == next(q.head) = q.tail

First(q) == q.buf[q.tail]

(* Faulty variant: no signal. *)
GetUnsignalled(q) == [q EXCEPT !.tail = next(@)]

(* The rest of intq_getc once the queue is not empty: the byte is taken    *)
(* (its place is cleared here, nothing reads it again) and signal wakes    *)
(* the thread that waits for room.                                         *)
Get(q) == [q EXCEPT !.buf[q.tail] = 0, !.tail = next(@), !.not_full = NONE]

(* The rest of intq_putc once the queue is not full. *)
Put(q, byte) == [q EXCEPT !.buf[q.head] = byte, !.head = next(@), !.not_empty = NONE]

(* The threads that the signal of Get or Put unblocks. *)
Woken(q) == {q.not_full} \ {NONE}
Served(q) == {q.not_empty} \ {NONE}

Wake(p, S) == [t \in Threads |-> IF t \in S THEN "woken" ELSE p[t]]

(* lock_acquire and wait, for a thread that found the queue empty (full):  *)
(* it waits for the lock, or owns it and is the waiter.                    *)
WaitIn(q, t, side) ==
    IF q.lock # NONE THEN [q EXCEPT !.waiting = Append(@, t)]
    ELSE [q EXCEPT !.lock = t, ![side] = t]

WaitPc(q) == IF q.lock # NONE THEN "lock" ELSE "wait"

(* lock_release: the lock goes to the first thread that waits for it. *)
Release(q) ==
    IF q.waiting = <<>> THEN [q EXCEPT !.lock = NONE]
    ELSE [q EXCEPT !.lock = Head(q.waiting), !.waiting = Tail(q.waiting)]

Grant(p, q) == [t \in Threads |-> IF q.waiting # <<>> /\ t = Head(q.waiting) THEN "granted" ELSE p[t]]

-----------------------------------------------------------------------------
(* devices/serial.c *)

write_ier(in, tx) ==
    (IF intq_empty(tx) THEN {} ELSE {"xmit"}) \cup (IF intq_full(in) THEN {} ELSE {"recv"})

(* serial_putc in a thread, or the next turn of the loop of intq_putc in   *)
(* it; interrupts were off before the call if Quiet, and then a full queue *)
(* is served by polling, which waits for THRE.                             *)
serial_putc(t) ==
    /\ Up /\ t \in Writers \cup Quiet
    /\ \/ pc[t] = "idle" /\ writes < MaxWrites /\ writes' = writes + 1
       \/ pc[t] = "again" /\ writes' = writes
    /\ LET byte == Len(queued) + 1
           polled == t \in Quiet /\ intq_full(txq)
           q == IF polled THEN Get(txq) ELSE txq
       IN  IF t \in Writers /\ intq_full(txq)
           THEN /\ pc' = [pc EXCEPT ![t] = WaitPc(txq)]
                /\ txq' = WaitIn(txq, t, "not_full")
                /\ UNCHANGED <<ier, queued, sent, thre>>
           ELSE /\ txq' = Put(q, byte)
                /\ queued' = Append(queued, byte)
                /\ sent' = IF polled THEN Append(sent, First(txq)) ELSE sent
                /\ thre' = (thre /\ ~ polled)
                /\ pc' = [Wake(pc, IF polled THEN Woken(txq) ELSE {}) EXCEPT ![t] = "idle"]
                /\ ier' = write_ier(inq, txq')
    /\ UNCHANGED <<inq, rbr, shifts, caps_lock, panic, typed, got, down, caps, keys, recvs>>

(* Faulty variant: the queue is emptied without sending. *)
FlushDiscards ==
    /\ Up /\ ~ intq_empty(txq)
    /\ txq' = [txq EXCEPT !.buf = intq_init.buf, !.tail = txq.head, !.not_full = NONE]
    /\ pc' = Wake(pc, Woken(txq)) /\ thre' = FALSE
    /\ UNCHANGED <<inq, ier, rbr, shifts, caps_lock, panic, typed, got, queued, sent, down, caps, counts>>

(* serial_flush, which the kernel calls before it prints by polling. *)
serial_flush ==
    /\ Up /\ ~ intq_empty(txq)
    /\ LET n == (txq.head - txq.tail) % INTQ_BUFSIZE
           bytes == [i \in 1 .. n |-> txq.buf[(txq.tail + i - 1) % INTQ_BUFSIZE]]
       IN  /\ sent' = sent \o bytes
           /\ txq' = [txq EXCEPT !.buf = intq_init.buf, !.tail = txq.head, !.not_full = NONE]
           /\ pc' = Wake(pc, Woken(txq))
           /\ thre' = FALSE
    /\ UNCHANGED <<inq, ier, rbr, shifts, caps_lock, panic, typed, got, queued, down, caps, counts>>

(* Bytes the interrupt handler moves: one to the input buffer if there is  *)
(* room, one to the port if it is ready.  A byte that comes while the      *)
(* handler runs is a new interrupt.                                        *)
serial_interrupt ==
    /\ Up /\ (("recv" \in ier /\ rbr # 0) \/ ("xmit" \in ier /\ thre))
    /\ LET take == rbr # 0 /\ ~ intq_full(inq)
           give == thre /\ ~ intq_empty(txq)
       IN  /\ inq' = IF take THEN Put(inq, rbr) ELSE inq
           /\ typed' = IF take THEN Append(typed, rbr) ELSE typed
           /\ rbr' = IF take THEN 0 ELSE rbr
           /\ txq' = IF give THEN Get(txq) ELSE txq
           /\ sent' = IF give THEN Append(sent, First(txq)) ELSE sent
           /\ thre' = (thre /\ ~ give)
           /\ pc' = Wake(pc, (IF take THEN Served(inq) ELSE {}) \cup (IF give THEN Woken(txq) ELSE {}))
           /\ ier' = write_ier(inq', txq')
    /\ UNCHANGED <<shifts, caps_lock, panic, got, queued, down, caps, counts>>

-----------------------------------------------------------------------------
(* devices/input.c *)

(* input_getc, or the next turn of the loop of intq_getc in it. *)
input_getc(t) ==
    /\ Up /\ t \in Readers /\ pc[t] \in {"idle", "again"}
    /\ IF intq_empty(inq)
       THEN /\ inq' = WaitIn(inq, t, "not_empty")
            /\ pc' = [pc EXCEPT ![t] = WaitPc(inq)]
            /\ UNCHANGED <<got, ier>>
       ELSE /\ inq' = Get(inq)
            /\ got' = Append(got, First(inq))
            /\ pc' = [pc EXCEPT ![t] = "idle"]
            /\ ier' = write_ier(inq', txq)
    /\ UNCHANGED <<txq, shifts, caps_lock, panic, hardware, typed, queued, sent, down, caps, counts>>

(* A thread that signal woke leaves the lock; its loop tests the queue     *)
(* again once it runs again.                                               *)
Unlock(t) ==
    /\ Up /\ pc[t] = "woken"
    /\ IF t \in Readers
       THEN inq' = Release(inq) /\ pc' = [Grant(pc, inq) EXCEPT ![t] = "again"] /\ UNCHANGED txq
       ELSE txq' = Release(txq) /\ pc' = [Grant(pc, txq) EXCEPT ![t] = "again"] /\ UNCHANGED inq
    /\ UNCHANGED <<ier, shifts, caps_lock, panic, hardware, history, counts>>

(* A thread that got the lock goes on with wait, whose ASSERT says that    *)
(* the queue is still empty (full).                                        *)
Granted(t) ==
    /\ Up /\ pc[t] = "granted"
    /\ IF t \in Readers
       THEN /\ inq' = IF intq_empty(inq) THEN [inq EXCEPT !.not_empty = t] ELSE inq
            /\ panic' = IF intq_empty(inq) THEN panic ELSE "wait"
            /\ UNCHANGED txq
       ELSE /\ txq' = IF intq_full(txq) THEN [txq EXCEPT !.not_full = t] ELSE txq
            /\ panic' = IF intq_full(txq) THEN panic ELSE "wait"
            /\ UNCHANGED inq
    /\ pc' = [pc EXCEPT ![t] = "wait"]
    /\ UNCHANGED <<ier, shifts, caps_lock, hardware, history, counts>>

-----------------------------------------------------------------------------
(* devices/kbd.c, with one key of each kind: a letter, a digit, Delete and *)
(* the shift keys.  Characters are their codes.                            *)

CAPS == 58  (* 0x3a *)
LSHIFT == 42
RSHIFT == 54
LALT == 56
RALT == 57400  (* 0xe038 *)
LCTRL == 29
RCTRL == 57373  (* 0xe01d *)
ShiftKeys == {LSHIFT, RSHIFT, LALT, RALT, LCTRL, RCTRL}

KeyA == 30
Key1 == 2
KeyDel == 83

(* The keymaps as functions of the scancode; 0 where there is no key. *)
invariant_keymap == [code \in {KeyA, KeyDel} |-> IF code = KeyA THEN 65 ELSE 127]
unshifted_keymap == [code \in {Key1} |-> 49]
shifted_keymap == [code \in {Key1} |-> 33]

map_key(k, code) == IF code \in DOMAIN k THEN k[code] ELSE 0

tolower(c) == IF c \in 65 .. 90 THEN c + 32 ELSE c

(* Faulty variant for the mutation checks. *)
CharShiftFirst(c, shift, ctrl, alt, lock) ==
    LET d == IF shift = lock THEN tolower(c) ELSE c
    IN  (IF ctrl /\ d >= 64 /\ d < 96 THEN d - 64 ELSE d) + (IF alt THEN 128 ELSE 0)

(* Ctrl, else Shift and Caps Lock, then Alt. *)
Char(c, shift, ctrl, alt, lock) ==
    (IF ctrl /\ c >= 64 /\ c < 96 THEN c - 64
     ELSE IF shift = lock THEN tolower(c) ELSE c)
    + (IF alt THEN 128 ELSE 0)

keyboard_interrupt(code, release) ==
    LET shift == shifts \cap {LSHIFT, RSHIFT} # {}
        alt == shifts \cap {LALT, RALT} # {}
        ctrl == shifts \cap {LCTRL, RCTRL} # {}
        c == IF map_key(invariant_keymap, code) # 0 THEN map_key(invariant_keymap, code)
             ELSE map_key(IF shift THEN shifted_keymap ELSE unshifted_keymap, code)
        x == Char(c, shift, ctrl, alt, caps_lock)
        pressed == code # CAPS /\ c # 0 /\ ~ release
        reboot == pressed /\ c = 127 /\ ctrl /\ alt       (* does not return *)
        put == pressed /\ ~ reboot /\ ~ intq_full(inq)
    IN  /\ Up /\ keys < MaxKeys /\ keys' = keys + 1
        /\ caps_lock' = IF code = CAPS /\ ~ release THEN ~ caps_lock ELSE caps_lock
        /\ caps' = IF code = CAPS /\ ~ release THEN caps + 1 ELSE caps
        /\ shifts' = IF code \notin ShiftKeys THEN shifts
                     ELSE IF release THEN shifts \ {code} ELSE shifts \cup {code}
        /\ down' = IF code \notin ShiftKeys THEN down
                   ELSE IF release THEN down \ {code} ELSE down \cup {code}
        /\ panic' = IF reboot THEN "reboot" ELSE panic
        /\ inq' = IF put THEN Put(inq, x) ELSE inq
        /\ typed' = IF put THEN Append(typed, x) ELSE typed
        /\ pc' = IF put THEN Wake(pc, Served(inq)) ELSE pc
        /\ ier' = IF put THEN write_ier(inq', txq) ELSE ier
        /\ UNCHANGED <<txq, hardware, got, queued, sent, recvs, writes>>

-----------------------------------------------------------------------------
(* The port's hardware: it finishes sending a byte, and receives one; a    *)
(* byte that was not read in time is overwritten.                          *)
Transmitted ==
    /\ Up /\ ~ thre /\ thre' = TRUE
    /\ UNCHANGED <<inq, txq, ier, rbr, shifts, caps_lock, pc, panic, history, counts>>

Received ==
    /\ Up /\ recvs < MaxRecv /\ recvs' = recvs + 1
    /\ rbr' = 200 + recvs'
    /\ UNCHANGED <<inq, txq, ier, thre, shifts, caps_lock, pc, panic, history, keys, writes>>

Init ==
    /\ inq = intq_init /\ txq = intq_init
    /\ ier = {"recv"} /\ thre = TRUE /\ rbr = 0       (* after serial_init_queue *)
    /\ shifts = {} /\ caps_lock = FALSE /\ down = {} /\ caps = 0
    /\ pc = [t \in Threads |-> "idle"] /\ panic = NONE
    /\ typed = <<>> /\ got = <<>> /\ queued = <<>> /\ sent = <<>>
    /\ keys = 0 /\ recvs = 0 /\ writes = 0

Next ==
    \/ \E t \in Threads : serial_putc(t) \/ input_getc(t) \/ Unlock(t) \/ Granted(t)
    \/ \E code \in Codes, release \in BOOLEAN : keyboard_interrupt(code, release)
    \/ serial_flush \/ serial_interrupt \/ Transmitted \/ Received

Spec == Init /\ [][Next]_vars

-----------------------------------------------------------------------------
(* Properties *)

TypeOK ==
    /\ inq.head \in 0 .. INTQ_BUFSIZE - 1 /\ inq.tail \in 0 .. INTQ_BUFSIZE - 1
    /\ txq.head \in 0 .. INTQ_BUFSIZE - 1 /\ txq.tail \in 0 .. INTQ_BUFSIZE - 1
    /\ Range(typed) \subseteq 0 .. 255 /\ ier \subseteq {"recv", "xmit"}
    /\ pc \in [Threads -> {"idle", "again", "lock", "granted", "wait", "woken"}]

(* Readers get the bytes of the keyboard and the port in the order in      *)
(* which they entered the buffer, none twice and none lost, however full   *)
(* the buffer was.                                                         *)
InputInOrder ==
    LET n == (inq.head - inq.tail) % INTQ_BUFSIZE
    IN  typed = got \o [i \in 1 .. n |-> inq.buf[(inq.tail + i - 1) % INTQ_BUFSIZE]]

(* The port sends what was written in the order in which it was written,   *)
(* also when a full queue makes serial_putc poll, or serial_flush empties  *)
(* the queue between interrupts.                                           *)
OutputInOrder ==
    LET n == (txq.head - txq.tail) % INTQ_BUFSIZE
    IN  queued = sent \o [i \in 1 .. n |-> txq.buf[(txq.tail + i - 1) % INTQ_BUFSIZE]]

(* No wake-up is lost: a thread waits for a byte only while the buffer is  *)
(* empty, and for room only while the queue is full.                       *)
WaitsForReason ==
    /\ inq.not_empty # NONE => intq_empty(inq)
    /\ txq.not_full # NONE => intq_full(txq)

(* The port can interrupt whenever there is something to send, and for a   *)
(* received byte exactly while there is room for it: write_ier follows     *)
(* every change of either queue, also those the keyboard makes.            *)
InterruptsOn ==
    /\ ~ intq_empty(txq) => "xmit" \in ier
    /\ ("recv" \in ier) = ~ intq_full(inq)

(* Ctrl wins over Shift, Shift undoes Caps Lock, and Alt sets the high     *)
(* bit: what a key press adds to the buffer is what the keys held down and *)
(* the presses of Caps Lock so far say.                                    *)
Expected(key) ==
    LET shift == down \cap {LSHIFT, RSHIFT} # {}
        ctrl == down \cap {LCTRL, RCTRL} # {}
        low == CASE key = KeyA /\ ctrl -> 1
                 [] key = KeyA /\ ~ ctrl -> IF shift = (caps % 2 = 0) THEN 65 ELSE 97
                 [] key = Key1 -> IF shift THEN 33 ELSE 49
                 [] OTHER -> 127
    IN  low + (IF down \cap {LALT, RALT} = {} THEN 0 ELSE 128)

KeyTyped ==
    \A code \in Codes : keyboard_interrupt(code, FALSE) /\ typed' # typed => Last(typed') = Expected(code)

KeysTyped == [][KeyTyped]_vars

(* No ASSERT of intq.c fails. *)
NoPanic == panic \in {NONE, "reboot"}

=============================================================================
