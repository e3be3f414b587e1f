-------------------------------- MODULE Ide ---------------------------------
(***************************************************************************)
(* One channel of the ATA driver of devices/ide.c with its two devices:    *)
(* the probe of ide_init, then threads that read and write sectors under   *)
(* the channel's lock, the completion interrupt and the controller (the    *)
(* controller is external, modelled by the registers the driver reads).    *)
(* The other channel shares nothing with this one.                         *)
(***************************************************************************)
EXTENDS Integers, FiniteSets

CONSTANTS
    Clients,        (* threads that call block_read and block_write *)
    Kinds,          (* devices there may be: [error, ready, sig, drq, big] after reset *)
    Sectors, Values,
    MaxOps,         (* bound on the requests *)
    Failing,        (* commands a device may fail: "read", "write", "flush" (a write's data) *)
    MaxFails,       (* bound on the commands that fail or time out *)
    MaxSpurious     (* bound on the interrupts that belong to no command *)

NONE == "none"
Boot == "boot"      (* the thread that runs ide_init *)
Devs == {0, 1}
ID == "id"          (* what IDENTIFY DEVICE returns *)

VARIABLES
    kind,           (* device -> its kind *)
    is_ata, registered,
    lock,           (* c->lock *)
    expecting_interrupt,
    sema,           (* value of completion_wait *)
    call,           (* thread -> [pc, op, dev, sec, val] *)
    hw,             (* the controller: [bsy, drq, irq, sel, lba, cmd, data] *)
    disk,           (* device -> sector -> value *)
    panic,
    want,           (* history: what the last write of a sector wrote *)
    bad,            (* history: a read returned something else *)
    ops, fails, spurious

driver == <<is_ata, registered, lock, expecting_interrupt, sema, call>>
counts == <<ops, fails, spurious>>
vars == <<kind, driver, hw, disk, panic, want, bad, counts>>

Idle == [pc |-> "idle", op |-> NONE, dev |-> 0, sec |-> 0, val |-> NONE]
Up == panic = NONE

-----------------------------------------------------------------------------
(* ide_init *)

(* check_device_type: whether D is taken for an ATA disk, and whether a    *)
(* slave is possible after master D.                                       *)
Answers(d) ==
    (kind[d].error = 1 \/ (kind[d].error = 129 /\ d = 0)) /\ kind[d].ready
MayHaveSlave(d) == Answers(d) \/ kind[d].error # 129
check_device_type(d) == Answers(d) /\ kind[d].sig

(* reset_channel leaves both devices idle and device 0 selected.  The next *)
(* disk to identify is asked for its identity.                             *)
NextDisk(S, from) ==
    LET T == {d \in S : d >= from} IN IF T = {} THEN 2 ELSE CHOOSE d \in T : \A e \in T : d <= e

Identify(S, from) ==
    [call EXCEPT ![Boot] = IF NextDisk(S, from) = 2 THEN [Idle EXCEPT !.pc = "done"]
                           ELSE [Idle EXCEPT !.pc = "select", !.op = "identify",
                                             !.dev = NextDisk(S, from)]]

ide_init ==
    /\ Up /\ call[Boot].pc = "reset"
    /\ is_ata' = {d \in Devs : check_device_type(d) /\ (d = 1 => MayHaveSlave(0))}
    /\ call' = Identify(is_ata', 0)
    /\ UNCHANGED <<kind, registered, lock, expecting_interrupt, sema, hw, disk, panic, want, bad, counts>>

(* The end of identify_ata_device; a disk of 1 GB or more is not used. *)
identify_ata_device(ok) ==
    LET d == call[Boot].dev
        use == ok /\ ~ kind[d].big
    IN  /\ is_ata' = IF use THEN is_ata ELSE is_ata \ {d}
        /\ registered' = IF use THEN registered \cup {d} ELSE registered
        /\ call' = Identify(is_ata, d + 1)

-----------------------------------------------------------------------------
(* ide_read and ide_write *)

ide_request(t, op, d, s, v) ==
    /\ Up /\ call[Boot].pc = "done" /\ call[t].pc = "idle" /\ ops < MaxOps /\ ops' = ops + 1
    /\ d \in registered
    /\ call' = [call EXCEPT ![t] = [pc |-> "lock", op |-> op, dev |-> d, sec |-> s, val |-> v]]
    /\ UNCHANGED <<kind, is_ata, registered, lock, expecting_interrupt, sema, hw, disk, panic, want, bad,
                   fails, spurious>>

lock_acquire(t) ==
    /\ Up /\ call[t].pc = "lock" /\ lock = NONE /\ lock' = t
    /\ call' = [call EXCEPT ![t].pc = "select"]
    /\ UNCHANGED <<kind, is_ata, registered, expecting_interrupt, sema, hw, disk, panic, want, bad, counts>>

(* select_sector (select_device_wait for IDENTIFY DEVICE): the status      *)
(* register is read until the channel is idle or the wait times out, which *)
(* clears a pending interrupt.                                             *)
select_sector(t) ==
    LET c == call[t]
        idle == ~ hw.bsy /\ ~ hw.drq
    IN  /\ Up /\ c.pc = "select"
        /\ idle \/ fails < MaxFails
        /\ fails' = IF idle THEN fails ELSE fails + 1
        /\ hw' = [hw EXCEPT !.irq = FALSE, !.sel = c.dev, !.lba = c.sec]
        /\ call' = [call EXCEPT ![t].pc = "issue"]
        /\ UNCHANGED <<kind, is_ata, registered, lock, expecting_interrupt, sema, disk, panic, want, bad,
                       ops, spurious>>

(* A command gives the controller something to do for the device selected. *)
Command(t) == [hw EXCEPT !.bsy = TRUE, !.drq = FALSE, !.cmd = call[t].op]

(* A write waits for BSY first, the others for the interrupt. *)
AfterIssue(op) == IF op = "write" THEN "busy" ELSE "down"

issue_pio_command(t) ==
    /\ Up /\ call[t].pc = "issue"
    /\ expecting_interrupt' = TRUE
    /\ hw' = Command(t)
    /\ call' = [call EXCEPT ![t].pc = AfterIssue(call[t].op)]
    /\ UNCHANGED <<kind, is_ata, registered, lock, sema, disk, panic, want, bad, counts>>

(* Where sema_down returns to. *)
AfterDown(op) == IF op = "write" THEN "return" ELSE "busy"

sema_down(t) ==
    /\ Up /\ call[t].pc = "down" /\ sema > 0 /\ sema' = sema - 1
    /\ call' = [call EXCEPT ![t].pc = AfterDown(call[t].op)]
    /\ UNCHANGED <<kind, is_ata, registered, lock, expecting_interrupt, hw, disk, panic, want, bad, counts>>

(* wait_while_busy and the use of its result: BSY clears, or the wait      *)
(* times out.                                                              *)
wait_while_busy(t) ==
    LET c == call[t]
        ok == ~ hw.bsy /\ hw.drq
    IN  /\ Up /\ c.pc = "busy"
        /\ ~ hw.bsy \/ fails < MaxFails
        /\ fails' = IF hw.bsy THEN fails + 1 ELSE fails
        /\ IF ok \/ t # Boot
           THEN /\ call' = [call EXCEPT ![t].pc = "data"]
                /\ panic' = IF ok THEN panic ELSE "disk failed"
                /\ UNCHANGED <<is_ata, registered>>
           ELSE identify_ata_device(FALSE) /\ UNCHANGED panic
        /\ UNCHANGED <<kind, lock, expecting_interrupt, sema, hw, disk, want, bad, ops, spurious>>

(* After its data a write waits for the interrupt. *)
AfterOutput == "down"

(* input_sector or output_sector; after its data a write is busy again. *)
transfer(t) ==
    LET c == call[t]
    IN  /\ Up /\ c.pc = "data"
        /\ CASE c.op = "identify" ->
                  identify_ata_device(TRUE) /\ UNCHANGED <<want, bad>>
             [] c.op = "read" ->
                  /\ call' = [call EXCEPT ![t].pc = "return"]
                  /\ bad' = (bad \/ hw.data # want[c.dev][c.sec])
                  /\ UNCHANGED <<is_ata, registered, want>>
             [] c.op = "write" ->
                  /\ call' = [call EXCEPT ![t].pc = AfterOutput]
                  /\ want' = [want EXCEPT ![c.dev][c.sec] = c.val]
                  /\ UNCHANGED <<is_ata, registered, bad>>
        /\ hw' = IF c.op = "write" THEN [hw EXCEPT !.drq = FALSE, !.bsy = TRUE, !.data = c.val, !.cmd = "flush"]
                 ELSE [hw EXCEPT !.drq = FALSE]
        /\ UNCHANGED <<kind, lock, expecting_interrupt, sema, disk, panic, counts>>

lock_release(t) ==
    /\ Up /\ call[t].pc = "return" /\ lock' = NONE
    /\ call' = [call EXCEPT ![t] = Idle]
    /\ UNCHANGED <<kind, is_ata, registered, expecting_interrupt, sema, hw, disk, panic, want, bad, counts>>

(* Faulty variant for the mutation checks. *)
HandlerUnacknowledged ==
    /\ Up /\ hw.irq
    /\ sema' = IF expecting_interrupt THEN sema + 1 ELSE sema
    /\ UNCHANGED hw
    /\ UNCHANGED <<kind, is_ata, registered, lock, expecting_interrupt, call, disk, panic, want, bad, counts>>

(* The handler runs as soon as interrupts are on, which issue_pio_command  *)
(* asserts; expecting_interrupt stays set.                                 *)
interrupt_handler ==
    /\ Up /\ hw.irq
    /\ sema' = IF expecting_interrupt THEN sema + 1 ELSE sema
    /\ hw' = [hw EXCEPT !.irq = FALSE]
    /\ UNCHANGED <<kind, is_ata, registered, lock, expecting_interrupt, call, disk, panic, want, bad, counts>>

-----------------------------------------------------------------------------
(* The controller *)

(* It gets ready for the data of a command (a read interrupts, a write     *)
(* does not), or puts written data on the disk and interrupts.             *)
Ready ==
    /\ Up /\ hw.bsy
    /\ CASE hw.cmd \in {"read", "identify"} ->
              /\ hw' = [hw EXCEPT !.bsy = FALSE, !.irq = TRUE,
                                  !.drq = (hw.cmd = "read" \/ kind[hw.sel].drq),
                                  !.data = IF hw.cmd = "read" THEN disk[hw.sel][hw.lba] ELSE ID]
              /\ UNCHANGED disk
         [] hw.cmd = "write" -> hw' = [hw EXCEPT !.bsy = FALSE, !.drq = TRUE] /\ UNCHANGED disk
         [] hw.cmd = "flush" ->
              /\ hw' = [hw EXCEPT !.bsy = FALSE, !.irq = TRUE]
              /\ disk' = [disk EXCEPT ![hw.sel][hw.lba] = hw.data]
    /\ UNCHANGED <<kind, driver, panic, want, bad, counts>>

(* The device reports an error: no data follow. *)
Fail ==
    /\ Up /\ hw.bsy /\ hw.cmd \in Failing /\ fails < MaxFails /\ fails' = fails + 1
    /\ hw' = [hw EXCEPT !.bsy = FALSE, !.irq = TRUE]
    /\ UNCHANGED <<kind, driver, disk, panic, want, bad, ops, spurious>>

Spurious ==
    /\ Up /\ ~ hw.irq /\ spurious < MaxSpurious /\ spurious' = spurious + 1
    /\ hw' = [hw EXCEPT !.irq = TRUE]
    /\ UNCHANGED <<kind, driver, disk, panic, want, bad, ops, fails>>

Blank == CHOOSE v \in Values : TRUE

Init ==
    /\ kind \in [Devs -> Kinds]
    /\ is_ata = {} /\ registered = {} /\ lock = NONE /\ expecting_interrupt = FALSE /\ sema = 0
    /\ call = [t \in Clients \cup {Boot} |-> IF t = Boot THEN [Idle EXCEPT !.pc = "reset"] ELSE Idle]
    /\ hw = [bsy |-> FALSE, drq |-> FALSE, irq |-> FALSE, sel |-> 0, lba |-> 0, cmd |-> NONE, data |-> ID]
    /\ disk = [d \in Devs |-> [s \in Sectors |-> Blank]] /\ want = disk
    /\ panic = NONE /\ bad = FALSE /\ ops = 0 /\ fails = 0 /\ spurious = 0

Step(t) ==
    \/ lock_acquire(t) \/ select_sector(t) \/ issue_pio_command(t) \/ sema_down(t)
    \/ wait_while_busy(t) \/ transfer(t) \/ lock_release(t)

Next ==
    \/ ide_init \/ interrupt_handler \/ Ready \/ Fail \/ Spurious
    \/ \E t \in Clients \cup {Boot} : Step(t)
    \/ \E t \in Clients, d \in Devs, s \in Sectors :
          \/ ide_request(t, "read", d, s, Blank)
          \/ \E v \in Values : ide_request(t, "write", d, s, v)

Spec == Init /\ [][Next]_vars

-----------------------------------------------------------------------------
(* Properties *)

TypeOK ==
    /\ is_ata \subseteq Devs /\ registered \subseteq Devs /\ sema \in Nat
    /\ lock \in Clients \cup {NONE} /\ expecting_interrupt \in BOOLEAN
    /\ \A t \in DOMAIN call : call[t].pc \in
          {"reset", "done", "idle", "lock", "select", "issue", "down", "busy", "data", "return"}

(* A read returns what the last write of that sector of that device wrote, *)
(* with requests of several threads for both devices of the channel.       *)
ReadsLastWrite == ~ bad

(* Between requests nothing is left over of the last one: the controller   *)
(* is idle, no interrupt is pending and completion_wait is zero, so the    *)
(* next sema_down waits for its own command.                               *)
CleanWhenFree ==
    panic = NONE /\ lock = NONE /\ call[Boot].pc = "done" /\ fails = 0 =>
        sema = 0 /\ ~ hw.bsy /\ ~ hw.drq /\ ~ hw.irq

(* ide_write returns after the disk has the data. *)
WriteAcknowledged ==
    \A t \in Clients : call[t].pc = "return" /\ call[t].op = "write" =>
        disk[call[t].dev][call[t].sec] = call[t].val

(* The driver never polls or moves data for a command it did not issue:    *)
(* at most one command is under way, and it is the lock holder's.          *)
OwnCommand ==
    \A t \in Clients : call[t].pc \in {"issue", "down", "busy", "data", "return"} =>
        lock = t /\ hw.sel = call[t].dev /\ hw.lba = call[t].sec

(* After the probe exactly the disks that answer, have the signature of an *)
(* ATA disk and are below 1 GB are registered.                             *)
DisksFound ==
    call[Boot].pc = "done" /\ fails = 0 =>
        registered = {d \in Devs : kind[d].sig /\ kind[d].ready /\ kind[d].drq /\ ~ kind[d].big
                                   /\ (kind[d].error = 1 \/ (d = 0 /\ kind[0].error = 129))
                                   /\ (d = 1 => kind[0].error # 129 \/ kind[0].ready)}

(* All of it together.  Only an interrupt that belongs to no command and a *)
(* wait that times out can together let a read return old data; such an    *)
(* interrupt alone can end a write before the disk has the data.           *)
DiskHonest ==
    /\ DisksFound /\ OwnCommand
    /\ spurious = 0 \/ fails = 0 => ReadsLastWrite
    /\ spurious = 0 => CleanWhenFree /\ WriteAcknowledged

(* What the names and the devices must satisfy: a device may refuse a      *)
(* read or a write command, but does not fail once it has a write's data   *)
(* (ide_write would not see that), nor while it is identified.             *)
IdeConstants ==
    /\ NONE \notin Clients /\ Boot \notin Clients
    /\ Kinds \subseteq [error : Int, ready : BOOLEAN, sig : BOOLEAN, drq : BOOLEAN, big : BOOLEAN]
    /\ Failing \subseteq {"read", "write"}

=============================================================================
