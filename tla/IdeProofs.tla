------------------------------ MODULE IdeProofs -----------------------------
(***************************************************************************)
(* Proof about module Ide, for any threads, sectors, values and devices    *)
(* and any bounds: the probe finds the disks, a command belongs to the     *)
(* lock's holder, reads return what was last written and writes are on the *)
(* disk when ide_write returns, as far as DiskHonest says.                 *)
(***************************************************************************)
EXTENDS Ide, TLAPS

(* Zenon proves most steps; the others, with arithmetic or records, name SMT. *)
USE Zenon

(* The threads, and the places of the driver where one uses the channel:   *)
(* from the choice of the sector on (Working) or just before it.           *)
Callers == Clients \cup {Boot}
Working == {"issue", "down", "busy", "data", "return"}
Active == Working \cup {"select"}

Data == Values \cup {Blank, ID, NONE}
Controllers ==
    [bsy : BOOLEAN, drq : BOOLEAN, irq : BOOLEAN, sel : Devs, lba : Sectors \cup {0},
     cmd : {NONE, "identify", "read", "write", "flush"}, data : Data]
Calls ==
    [pc : {"reset", "done", "idle", "lock"} \cup Active, op : {NONE, "identify", "read", "write"},
     dev : Devs, sec : Sectors \cup {0}, val : Data]

Types ==
    /\ kind \in [Devs -> Kinds] /\ is_ata \subseteq Devs /\ registered \subseteq Devs
    /\ lock \in Clients \cup {NONE} /\ expecting_interrupt \in BOOLEAN /\ sema \in Nat
    /\ call \in [Callers -> Calls] /\ hw \in Controllers
    /\ disk \in [Devs -> [Sectors -> Data]] /\ want \in [Devs -> [Sectors -> Data]]
    /\ panic \in {NONE, "disk failed"} /\ bad \in BOOLEAN
    /\ ops \in Nat /\ fails \in Nat /\ spurious \in Nat
    /\ hw.bsy => hw.cmd # NONE

(* The channel has one user: the boot thread until the probe is done, then *)
(* the holder of the lock.  A panic stops the holder at its data.          *)
Holding ==
    /\ \A t \in Clients : lock = t <=> call[t].pc \in Active
    /\ \A t \in Clients :
          /\ call[t].pc \in {"idle", "lock"} \cup Active
          /\ call[t].pc # "idle" =>
                call[t].op \in {"read", "write"} /\ call[t].dev \in registered /\ call[t].sec \in Sectors
          /\ call[Boot].pc # "done" => call[t].pc = "idle"
    /\ call[Boot].pc \in {"reset", "done"} \cup (Active \ {"return"})
    /\ call[Boot].pc \in Active => call[Boot].op = "identify"
    /\ ~ Up => \E t \in Clients : call[t].pc = "data"

(* The channel's registers hold what its user put there. *)
Selected ==
    \A t \in Callers : call[t].pc \in Working => hw.sel = call[t].dev /\ hw.lba = call[t].sec

(* After the probe every command is for a sector there is. *)
Addressed ==
    /\ call[Boot].pc # "done" => hw.cmd \in {NONE, "identify"}
    /\ hw.cmd \in {"read", "write", "flush"} => hw.lba \in Sectors

Free == \A t \in Callers : call[t].pc \notin Working

(* What the disk will hold once the controller is done. *)
Settled == IF hw.bsy /\ hw.cmd = "flush" THEN [disk EXCEPT ![hw.sel][hw.lba] = hw.data] ELSE disk

(* How far the controller is with the command of T. *)
InPhase(t) ==
    /\ call[t].pc = "issue" => ~ hw.bsy /\ ~ hw.drq
    /\ call[t].pc \in {"down", "busy"} /\ call[t].op # "write" =>
          /\ hw.cmd = call[t].op
          /\ hw.bsy => ~ hw.drq
          /\ ~ hw.bsy /\ call[t].op = "identify" => hw.drq = kind[call[t].dev].drq
          /\ ~ hw.bsy /\ hw.drq /\ call[t].op = "read" => hw.data = disk[call[t].dev][call[t].sec]
    /\ call[t].pc = "busy" /\ call[t].op = "write" => hw.cmd = "write" /\ (hw.bsy => ~ hw.drq)
    /\ call[t].pc = "data" =>
          /\ ~ hw.bsy /\ hw.drq
          /\ call[t].op = "identify" => kind[call[t].dev].drq
          /\ call[t].op = "read" => hw.data = disk[call[t].dev][call[t].sec]
    /\ call[t].pc = "down" /\ call[t].op = "write" =>
          ~ hw.drq /\ hw.cmd = "flush" /\ hw.data = call[t].val
    /\ call[t].pc = "return" =>
          ~ hw.drq /\ (hw.bsy => call[t].op = "write" /\ hw.cmd = "flush" /\ hw.data = call[t].val)
    /\ call[t].pc \in {"down", "return"} /\ call[t].op = "write" =>
          want[call[t].dev][call[t].sec] = call[t].val

(* Stray interrupts alone, or failures alone, leave the contents right. *)
Contents ==
    spurious = 0 \/ fails = 0 =>
        /\ ~ bad
        /\ Up => /\ want = Settled
                 /\ Free => ~ hw.drq /\ (hw.bsy => hw.cmd = "flush")
                 /\ \A t \in Callers : InPhase(t)

(* Without stray interrupts there is one interrupt for a command that has  *)
(* one, and completion_wait counts it once.                                *)
Still == ~ hw.bsy /\ ~ hw.irq /\ sema = 0
Underway == hw.bsy /\ ~ hw.irq /\ sema = 0

InTurn(t) ==
    /\ call[t].pc \in {"down", "busy", "data"} => expecting_interrupt
    /\ call[t].pc \in {"issue", "data", "return"} => Still
    /\ call[t].pc = "down" =>
          Underway \/ (~ hw.bsy /\ ~ hw.irq /\ sema = 1) \/ (~ hw.bsy /\ hw.irq /\ sema = 0)
    /\ call[t].pc = "busy" /\ call[t].op # "write" => Still
    /\ call[t].pc = "busy" /\ call[t].op = "write" =>
          Underway \/ (Still /\ hw.drq) \/ (~ hw.bsy /\ ~ hw.drq)

Turns == Up /\ spurious = 0 => (Free => Still) /\ \A t \in Callers : InTurn(t)

(* The disks the reset found, and those of them used. *)
Found == {d \in Devs : check_device_type(d) /\ (d = 1 => MayHaveSlave(0))}
Usable(d) == d \in Found /\ kind[d].drq /\ ~ kind[d].big

(* How far the probe is, if no wait has timed out. *)
Probe ==
    fails = 0 =>
        /\ call[Boot].pc = "reset" => registered = {}
        /\ call[Boot].pc \in Active =>
              /\ call[Boot].dev \in Found
              /\ \A d \in Devs : d \in registered <=> Usable(d) /\ d < call[Boot].dev
              /\ \A d \in Devs : d >= call[Boot].dev => (d \in is_ata <=> d \in Found)
        /\ call[Boot].pc = "done" => \A d \in Devs : d \in registered <=> Usable(d)

DInv == Types /\ Holding /\ Selected /\ Addressed /\ Contents /\ Turns /\ Probe

-----------------------------------------------------------------------------
(* The next disk to identify, for the two devices of a channel. *)
LEMMA NextDiskIs ==
    ASSUME NEW S, S \subseteq Devs
    PROVE  /\ NextDisk(S, 0) = IF 0 \in S THEN 0 ELSE IF 1 \in S THEN 1 ELSE 2
           /\ NextDisk(S, 1) = IF 1 \in S THEN 1 ELSE 2
           /\ NextDisk(S, 2) = 2
  <1>a. \A d \in S : ~ (d >= 2) /\ (d >= 1 <=> d = 1) /\ d >= 0
    BY SMT DEF Devs
  <1>1. {d \in S : d >= 2} = {} /\ {d \in S : d >= 1} = S \cap {1} /\ {d \in S : d >= 0} = S
    BY <1>a
  <1>2. NextDisk(S, 2) = 2
    BY <1>1 DEF NextDisk
  <1>3. NextDisk(S, 1) = IF 1 \in S THEN 1 ELSE 2
    <2>1. CASE 1 \in S
      <3>1. S \cap {1} = {1}
        BY <2>1
      <3>2. (CHOOSE d \in {1} : \A e \in {1} : d <= e) = 1
        BY SMT
      <3> QED
        BY <1>1, <2>1, <3>1, <3>2 DEF NextDisk
    <2>2. CASE 1 \notin S
      BY <1>1, <2>2 DEF NextDisk
    <2> QED
      BY <2>1, <2>2
  <1>4. NextDisk(S, 0) = IF 0 \in S THEN 0 ELSE IF 1 \in S THEN 1 ELSE 2
    <2>1. CASE 0 \in S
      <3>1. \A d \in S : (\A e \in S : d <= e) <=> d = 0
        BY SMT, <2>1 DEF Devs
      <3>2. (CHOOSE d \in S : \A e \in S : d <= e) = 0
        BY <2>1, <3>1
      <3> QED
        BY SMT, <1>1, <2>1, <3>2 DEF NextDisk
    <2>2. CASE 0 \notin S /\ 1 \in S
      <3>1. S = {1}
        BY <2>2 DEF Devs
      <3>2. (CHOOSE d \in {1} : \A e \in {1} : d <= e) = 1
        BY SMT
      <3> QED
        BY <1>1, <2>2, <3>1, <3>2 DEF NextDisk
    <2>3. CASE 0 \notin S /\ 1 \notin S
      <3>1. S = {}
        BY <2>3 DEF Devs
      <3> QED
        BY <1>1, <3>1 DEF NextDisk
    <2> QED
      BY <2>1, <2>2, <2>3
  <1> QED
    BY <1>2, <1>3, <1>4

(* No thread but the channel's user is at a place that uses it, so nothing *)
(* is asked of the others.                                                 *)
LEMMA Others ==
    ASSUME IdeConstants, DInv, NEW t \in Callers, call[t].pc \in Active,
           \A u \in Callers \ {t} : call'[u] = call[u]
    PROVE  \A u \in Callers \ {t} : call'[u].pc \notin Active /\ InPhase(u)' /\ InTurn(u)'
  <1> SUFFICES ASSUME NEW u \in Callers \ {t}
               PROVE  call'[u].pc \notin Active /\ InPhase(u)' /\ InTurn(u)'
    OBVIOUS
  <1>a. Boot \notin Clients /\ {"idle", "done"} \cap Active = {}
    BY DEF IdeConstants, Active, Working
  <1>1. call[u].pc \notin Active
    <2>1. CASE t = Boot
      BY <1>a, <2>1 DEF DInv, Holding, Callers
    <2>2. CASE t \in Clients /\ u \in Clients
      BY <2>2 DEF DInv, Holding
    <2>3. CASE t \in Clients /\ u = Boot
      BY <1>a, <2>3 DEF DInv, Holding
    <2> QED
      BY <2>1, <2>2, <2>3 DEF Callers
  <1>2. call'[u].pc \notin Active
    BY <1>1
  <1> QED
    BY <1>2 DEF InPhase, InTurn, Active, Working

(* A step of a thread that does not use the channel, before and after.     *)
LEMMA Waiting ==
    ASSUME DInv, NEW t \in Callers, call[t].pc \notin Working, call'[t].pc \notin Working,
           \A u \in Callers \ {t} : call'[u] = call[u], t = Boot => call[Boot].pc # "done",
           UNCHANGED <<kind, expecting_interrupt, sema, hw, disk, panic, want, bad, fails, spurious>>
    PROVE  Selected' /\ Addressed' /\ Contents' /\ Turns'
  <1>1. \A u \in Callers : call'[u].pc \in Working => call'[u] = call[u]
    OBVIOUS
  <1>2. Free' <=> Free
    BY DEF Free
  <1>3. Selected'
    BY <1>1 DEF DInv, Selected
  <1>4. ASSUME NEW u \in Callers PROVE (InPhase(u) => InPhase(u)') /\ (InTurn(u) => InTurn(u)')
    <2>1. CASE call'[u].pc \in Working
      <3>1. call'[u] = call[u]
        BY <1>1, <2>1
      <3> QED
        BY <3>1 DEF InPhase, InTurn, Still, Underway
    <2>2. CASE call'[u].pc \notin Working
      BY <2>2 DEF InPhase, InTurn, Working
    <2> QED
      BY <2>1, <2>2
  <1>5. Contents'
    BY <1>2, <1>4 DEF DInv, Contents, Settled, Up
  <1>6. Turns'
    BY <1>2, <1>4 DEF DInv, Turns, Still, Up
  <1>7. Addressed'
    BY DEF DInv, Addressed, Callers
  <1> QED
    BY <1>3, <1>5, <1>6, <1>7

(* The boot thread goes on to the first disk of S from N on, or is done. *)
LEMMA Identified ==
    ASSUME Types, NEW S, S \subseteq Devs, NEW n \in {0, 1, 2}, call' = Identify(S, n)
    PROVE  /\ \A u \in Callers \ {Boot} : call'[u] = call[u]
           /\ call' \in [Callers -> Calls]
           /\ \/ call'[Boot].pc = "done" /\ \A d \in S : d < n
              \/ /\ call'[Boot].pc = "select" /\ call'[Boot].op = "identify"
                 /\ call'[Boot].dev \in S /\ call'[Boot].dev >= n
                 /\ \A d \in S : d >= n => d >= call'[Boot].dev
  <1> DEFINE m == NextDisk(S, n)
             done == [Idle EXCEPT !.pc = "done"]
             ask == [Idle EXCEPT !.pc = "select", !.op = "identify", !.dev = m]
  <1>1. \/ m = 2 /\ \A d \in S : d < n
        \/ m \in S /\ m # 2 /\ m >= n /\ \A d \in S : d >= n => d >= m
    <2>1. /\ NextDisk(S, 0) = IF 0 \in S THEN 0 ELSE IF 1 \in S THEN 1 ELSE 2
          /\ NextDisk(S, 1) = IF 1 \in S THEN 1 ELSE 2
          /\ NextDisk(S, 2) = 2
      BY NextDiskIs
    <2>2. \A d \in S : d = 0 \/ d = 1
      BY DEF Devs
    <2>3. CASE n = 0
      BY SMT, <2>1, <2>2, <2>3
    <2>4. CASE n = 1
      BY SMT, <2>1, <2>2, <2>4
    <2>5. CASE n = 2
      BY SMT, <2>1, <2>2, <2>5
    <2> QED
      BY <2>3, <2>4, <2>5
  <1>2. done.pc = "done" /\ done \in Calls
    BY DEF Idle, Calls, Devs, NONE, Active, Working, Data
  <1>3. m \in Devs => ask.pc = "select" /\ ask.op = "identify" /\ ask.dev = m /\ ask \in Calls
    BY DEF Idle, Calls, Devs, NONE, Active, Working, Data
  <1>4. call \in [Callers -> Calls] /\ Boot \in Callers
    BY DEF Types, Callers
  <1>5. call' = [call EXCEPT ![Boot] = IF m = 2 THEN done ELSE ask]
    BY DEF Identify
  <1> HIDE DEF m, done, ask
  <1>6. CASE m = 2 /\ \A d \in S : d < n
    BY <1>2, <1>4, <1>5, <1>6
  <1>7. CASE m \in S /\ m # 2 /\ m >= n /\ \A d \in S : d >= n => d >= m
    BY <1>3, <1>4, <1>5, <1>7
  <1> QED
    BY <1>1, <1>6, <1>7

(* The reset leaves the channel to no thread (Init). *)
LEMMA InitDInv == ASSUME IdeConstants, Init PROVE DInv
  <1>1. Types
    BY DEF Init, Types, Callers, Calls, Controllers, Data, Devs, Idle, NONE, ID, Boot, Active, Working
  <1>2. Boot \notin Clients /\ Boot \in Callers /\ NONE \notin Clients
    BY DEF IdeConstants, Callers
  <1>3. /\ \A t \in Clients : call[t] = Idle
        /\ call[Boot] = [Idle EXCEPT !.pc = "reset"]
    BY <1>2 DEF Init, Callers
  <1>4. (\A t \in Clients : call[t].pc = "idle") /\ call[Boot].pc = "reset"
    BY SMT, <1>3 DEF Idle
  <1>5. Holding
    BY <1>2, <1>4 DEF Init, Holding, Active, Working, Up
  <1>6. \A t \in Callers : call[t].pc \in {"idle", "reset"}
    BY <1>4 DEF Callers
  <1>7. Selected
    BY <1>6 DEF Selected, Working
  <1>8. Contents
    BY <1>6 DEF Init, Contents, Settled, InPhase
  <1>9. Turns
    BY <1>6 DEF Init, Turns, InTurn, Still
  <1>10. Probe
    BY <1>4 DEF Init, Probe, Active, Working
  <1>11. Addressed
    BY DEF Init, Addressed, NONE
  <1> QED
    BY <1>1, <1>5, <1>7, <1>8, <1>9, <1>10, <1>11 DEF DInv

-----------------------------------------------------------------------------
(* The steps preserve the invariant. *)

(* ide_init starts the probe with the disks that answered the reset. *)
LEMMA InitStep == ASSUME IdeConstants, DInv, ide_init PROVE DInv'
  <1>1. /\ Types /\ Holding /\ Probe /\ Up /\ call[Boot].pc = "reset" /\ is_ata' = Found
        /\ call' = Identify(is_ata', 0)
        /\ UNCHANGED <<kind, registered, lock, expecting_interrupt, sema, hw, disk, panic, want, bad, counts>>
    BY DEF DInv, ide_init, Found
  <1>2. Found \subseteq Devs /\ Boot \notin Clients /\ Boot \in Callers
    BY DEF Found, IdeConstants, Callers
  <1>3. /\ \A u \in Callers \ {Boot} : call'[u] = call[u]
        /\ call' \in [Callers -> Calls]
        /\ \/ call'[Boot].pc = "done" /\ \A d \in Found : d < 0
           \/ /\ call'[Boot].pc = "select" /\ call'[Boot].op = "identify"
              /\ call'[Boot].dev \in Found /\ call'[Boot].dev >= 0
              /\ \A d \in Found : d >= 0 => d >= call'[Boot].dev
    BY <1>1, <1>2, Identified
  <1>4. \A t \in Clients : call'[t] = call[t] /\ call[t].pc = "idle"
    BY <1>1, <1>2, <1>3 DEF Holding, Callers
  <1>5. Types'
    BY <1>1, <1>2, <1>3 DEF Types, counts
  <1>6. Holding'
    BY SMT, <1>1, <1>3, <1>4 DEF Holding, Active, Working, Up
  <1>7. Selected' /\ Addressed' /\ Contents' /\ Turns'
    BY <1>1, <1>2, <1>3, Waiting DEF Working, counts
  <1>8. Found' = Found /\ (\A d \in Devs : Usable(d)' <=> Usable(d))
    BY SMT, <1>1 DEF Found, Usable, check_device_type, MayHaveSlave, Answers
  <1>9. Probe'
    <2> SUFFICES ASSUME fails' = 0 PROVE Probe'
      BY DEF Probe
    <2>1. registered' = {} /\ \A d \in Devs : ~ (d < 0) /\ d >= 0
      BY SMT, <1>1 DEF Probe, Devs, counts
    <2>2. CASE call'[Boot].pc = "done" /\ \A d \in Found : d < 0
      <3>1. \A d \in Devs : ~ Usable(d)
        BY <1>2, <2>1, <2>2 DEF Usable
      <3> QED
        BY <1>8, <2>1, <2>2, <3>1 DEF Probe, Active, Working
    <2>3. CASE /\ call'[Boot].pc = "select" /\ call'[Boot].dev \in Found
               /\ \A d \in Found : d >= 0 => d >= call'[Boot].dev
      <3>1. \A d \in Devs : d \in registered' <=> Usable(d)' /\ d < call'[Boot].dev
        <4>1. \A d \in Found : ~ (d < call'[Boot].dev)
          <5>1. \A d \in Found : d \in {0, 1}
            BY <1>2 DEF Devs
          <5>2. \A d \in Found : d >= call'[Boot].dev
            BY <2>1, <2>3, <1>2
          <5> QED
            BY SMT, <2>3, <5>1, <5>2
        <4> QED
          BY <1>8, <2>1, <4>1 DEF Usable
      <3> QED
        BY <1>1, <1>8, <2>3, <3>1 DEF Probe, Active, Working
    <2> QED
      BY <1>3, <2>2, <2>3
  <1> QED
    BY <1>5, <1>6, <1>7, <1>9 DEF DInv

(* A request of a client for a disk there is (ide_read, ide_write). *)
LEMMA RequestStep ==
    ASSUME IdeConstants, DInv, NEW t \in Clients, NEW op \in {"read", "write"}, NEW d \in Devs,
           NEW s \in Sectors, NEW v \in Values \cup {Blank}, ide_request(t, op, d, s, v)
    PROVE  DInv'
  <1> DEFINE c == [pc |-> "lock", op |-> op, dev |-> d, sec |-> s, val |-> v]
  <1>1. /\ Types /\ Holding /\ Up /\ call[Boot].pc = "done" /\ call[t].pc = "idle" /\ d \in registered
        /\ call' = [call EXCEPT ![t] = c] /\ ops' = ops + 1
        /\ UNCHANGED <<kind, is_ata, registered, lock, expecting_interrupt, sema, hw, disk, panic, want, bad,
                       fails, spurious>>
    BY DEF DInv, ide_request
  <1>2. /\ c \in Calls /\ c.pc = "lock" /\ c.op \in {"read", "write"} /\ c.dev = d /\ c.sec = s
    BY DEF Calls, Data
  <1> HIDE DEF c
  <1>3. t \in Callers /\ t # Boot /\ Boot \in Callers
    BY DEF IdeConstants, Callers
  <1>4. /\ call'[t] = c /\ call' \in [Callers -> Calls] /\ call'[Boot] = call[Boot]
        /\ \A u \in Callers \ {t} : call'[u] = call[u]
    BY <1>1, <1>2, <1>3 DEF Types
  <1>5. Types'
    <2>1. ops \in Nat
      BY <1>1 DEF Types
    <2>2. ops' \in Nat
      BY SMT, <1>1, <2>1
    <2> QED
      BY <1>1, <1>4, <2>2 DEF Types
  <1>6. Holding'
    BY <1>1, <1>2, <1>4 DEF Holding, Active, Working, Up, Callers
  <1>7. Selected' /\ Addressed' /\ Contents' /\ Turns'
    BY <1>1, <1>2, <1>3, <1>4, Waiting DEF Working
  <1>8. Probe'
    BY SMT, <1>1, <1>4 DEF DInv, Probe, Usable, Found, check_device_type, MayHaveSlave, Answers
  <1> QED
    BY <1>5, <1>6, <1>7, <1>8 DEF DInv

(* The probe's progress depends on the boot thread's place and on what it  *)
(* has found.                                                              *)
LEMMA ProbeKept ==
    ASSUME DInv, UNCHANGED <<kind, is_ata, registered>>, fails' = 0 => fails = 0,
           call'[Boot].dev = call[Boot].dev,
           \/ call'[Boot].pc = call[Boot].pc
           \/ call'[Boot].pc \in Active /\ call[Boot].pc \in Active
    PROVE  Probe'
  <1>1. \A d : (d \in Found' <=> d \in Found) /\ (Usable(d)' <=> Usable(d))
    BY SMT DEF Found, Usable, check_device_type, MayHaveSlave, Answers
  <1>2. "done" \notin Active /\ "reset" \notin Active
    BY DEF Active, Working
  <1> QED
    BY <1>1, <1>2 DEF DInv, Probe

(* The lock is free, so no client uses the channel. *)
LEMMA AcquireStep == ASSUME IdeConstants, DInv, NEW t \in Callers, lock_acquire(t) PROVE DInv'
  <1>1. /\ Types /\ Holding /\ Up /\ call[t].pc = "lock" /\ lock = NONE /\ lock' = t
        /\ call' = [call EXCEPT ![t].pc = "select"]
        /\ UNCHANGED <<kind, is_ata, registered, expecting_interrupt, sema, hw, disk, panic, want, bad, counts>>
    BY DEF DInv, lock_acquire
  <1>2. t \in Clients /\ t # Boot /\ Boot \in Callers
    BY <1>1 DEF Holding, Callers, IdeConstants, Active, Working
  <1>3. /\ call'[t].pc = "select" /\ call'[t].op = call[t].op /\ call'[t].dev = call[t].dev
        /\ call'[t].sec = call[t].sec /\ call'[t] \in Calls
        /\ \A u \in Callers \ {t} : call'[u] = call[u]
    BY <1>1 DEF Types, Calls, Active
  <1>4. call' \in [Callers -> Calls] /\ call'[Boot] = call[Boot]
    BY <1>1, <1>2, <1>3 DEF Types
  <1>5. Types'
    BY <1>1, <1>2, <1>4 DEF Types, counts
  <1>6. Holding'
    <2>1. \A u \in Clients : call[u].pc \notin Active
      BY <1>1 DEF Holding, IdeConstants
    <2> QED
      BY SMT, <1>1, <1>2, <1>3, <1>4, <2>1 DEF Holding, Active, Working, Up, Callers
  <1>7. Selected' /\ Addressed' /\ Contents' /\ Turns'
    BY <1>1, <1>2, <1>3, Waiting DEF Working, counts
  <1>8. Probe'
    BY <1>1, <1>4, ProbeKept DEF counts
  <1> QED
    BY <1>5, <1>6, <1>7, <1>8 DEF DInv

(* The user of the channel selects the sector once the controller is idle. *)
LEMMA SelectStep == ASSUME IdeConstants, DInv, NEW t \in Callers, select_sector(t) PROVE DInv'
  <1> DEFINE idle == ~ hw.bsy /\ ~ hw.drq
  <1>1. /\ Types /\ Holding /\ Up /\ call[t].pc = "select"
        /\ fails' = IF idle THEN fails ELSE fails + 1
        /\ hw' = [hw EXCEPT !.irq = FALSE, !.sel = call[t].dev, !.lba = call[t].sec]
        /\ call' = [call EXCEPT ![t].pc = "issue"]
        /\ UNCHANGED <<kind, is_ata, registered, lock, expecting_interrupt, sema, disk, panic, want, bad,
                       ops, spurious>>
    BY DEF DInv, select_sector
  <1>2. /\ call'[t].pc = "issue" /\ call'[t].op = call[t].op /\ call'[t].dev = call[t].dev
        /\ call'[t].sec = call[t].sec /\ call'[t] \in Calls /\ call[t] \in Calls
        /\ \A u \in Callers \ {t} : call'[u] = call[u]
    BY ZenonT(40), <1>1 DEF Types, Calls, Active, Working
  <1>3. call' \in [Callers -> Calls] /\ Boot \in Callers /\ Boot \notin Clients
    BY <1>1, <1>2 DEF Types, Callers, IdeConstants
  <1>4. /\ hw' \in Controllers /\ hw'.bsy = hw.bsy /\ hw'.drq = hw.drq /\ hw'.irq = FALSE
        /\ hw'.sel = call[t].dev /\ hw'.lba = call[t].sec /\ hw'.cmd = hw.cmd
    BY <1>1, <1>2 DEF Types, Controllers, Calls
  <1>5. \A u \in Callers \ {t} : call'[u].pc \notin Active /\ InPhase(u)' /\ InTurn(u)'
    BY <1>1, <1>2, Others DEF Active
  <1>6. fails' \in Nat /\ (fails' = 0 => fails = 0 /\ idle)
    <2>1. fails \in Nat
      BY <1>1 DEF Types
    <2> QED
      BY SMT, <1>1, <2>1
  <1> HIDE DEF idle
  <1>7. Types'
    BY <1>1, <1>3, <1>4, <1>6 DEF Types
  <1>8. Holding'
    BY SMT, <1>1, <1>2, <1>3 DEF Holding, Active, Working, Up, Callers
  <1>9. Selected'
    BY <1>2, <1>4, <1>5 DEF Selected, Active
  <1>10. Free /\ ~ Free'
    BY <1>1, <1>2, <1>5 DEF Free, Active, Working
  <1>11. spurious' = 0 => Still /\ Still'
    BY <1>1, <1>4, <1>10 DEF DInv, Turns, Still
  <1>12. (spurious' = 0 \/ fails' = 0) => ~ bad /\ ~ hw.bsy /\ ~ hw.drq /\ want = disk
    BY <1>1, <1>6, <1>10, <1>11 DEF DInv, Contents, Settled, Still, idle
  <1>13. Contents'
    <2>1. (spurious' = 0 \/ fails' = 0) => InPhase(t)' /\ want' = Settled'
      BY <1>1, <1>2, <1>4, <1>12 DEF InPhase, Settled
    <2> QED
      BY <1>1, <1>5, <1>10, <1>12, <2>1 DEF Contents
  <1>14. Turns'
    <2>1. spurious' = 0 => InTurn(t)'
      BY <1>2, <1>11 DEF InTurn
    <2> QED
      BY <1>5, <1>10, <2>1 DEF Turns
  <1>15. Probe'
    <2>1. call'[Boot].dev = call[Boot].dev
      BY <1>2, <1>3
    <2>2. \/ call'[Boot].pc = call[Boot].pc
          \/ call'[Boot].pc \in Active /\ call[Boot].pc \in Active
      BY <1>1, <1>2, <1>3 DEF Active, Working
    <2> QED
      BY <1>1, <1>6, <2>1, <2>2, ProbeKept
  <1>16. Addressed'
    BY <1>1, <1>2, <1>3, <1>4 DEF DInv, Holding, Addressed, Callers, NONE
  <1> QED
    BY <1>7, <1>8, <1>9, <1>13, <1>14, <1>15, <1>16 DEF DInv

(* A command starts when the controller is idle. *)
LEMMA IssueStep == ASSUME IdeConstants, DInv, NEW t \in Callers, issue_pio_command(t) PROVE DInv'
  <1> DEFINE p == AfterIssue(call[t].op)
  <1>1. /\ Types /\ Holding /\ Up /\ call[t].pc = "issue" /\ expecting_interrupt' = TRUE
        /\ hw' = [hw EXCEPT !.bsy = TRUE, !.drq = FALSE, !.cmd = call[t].op]
        /\ call' = [call EXCEPT ![t].pc = p]
        /\ UNCHANGED <<kind, is_ata, registered, lock, sema, disk, panic, want, bad, counts>>
    BY DEF DInv, issue_pio_command, Command
  <1>2. p \in {"busy", "down"} /\ (p = "busy" <=> call[t].op = "write")
    BY DEF AfterIssue
  <1> HIDE DEF p
  <1>3. /\ call'[t].pc = p /\ call'[t].op = call[t].op /\ call'[t].dev = call[t].dev
        /\ call'[t].sec = call[t].sec /\ call'[t] \in Calls /\ call[t] \in Calls
        /\ \A u \in Callers \ {t} : call'[u] = call[u]
    BY ZenonT(40), <1>1, <1>2 DEF Types, Calls, Active, Working
  <1>4. call' \in [Callers -> Calls] /\ Boot \in Callers /\ Boot \notin Clients
    BY <1>1, <1>3 DEF Types, Callers, IdeConstants
  <1>5. call[t].op \in {"identify", "read", "write"}
    BY <1>1 DEF Holding, Callers, Active, Working
  <1>6. /\ hw' \in Controllers /\ hw'.bsy /\ ~ hw'.drq /\ hw'.irq = hw.irq
        /\ hw'.sel = hw.sel /\ hw'.lba = hw.lba /\ hw'.cmd = call[t].op /\ hw'.data = hw.data
    BY <1>1, <1>5 DEF Types, Controllers
  <1>7. \A u \in Callers \ {t} : call'[u].pc \notin Active /\ InPhase(u)' /\ InTurn(u)'
    BY <1>1, <1>3, Others DEF Active, Working
  <1>8. Types'
    BY <1>1, <1>4, <1>5, <1>6 DEF Types, counts, NONE
  <1>9. Holding'
    BY SMT, <1>1, <1>2, <1>3, <1>4 DEF Holding, Active, Working, Up, Callers
  <1>10. Selected'
    BY SMT, <1>1, <1>2, <1>3, <1>6, <1>7 DEF DInv, Selected, Active, Working
  <1>11. ~ Free'
    BY <1>2, <1>3 DEF Free, Working
  <1>12. Contents'
    <2>1. spurious' = 0 \/ fails' = 0 => ~ bad /\ want = disk
      BY <1>1 DEF DInv, Contents, Settled, InPhase, counts
    <2>2. InPhase(t)'
      BY <1>2, <1>3, <1>6 DEF InPhase
    <2>3. Settled' = disk'
      BY <1>5, <1>6 DEF Settled
    <2> QED
      BY <1>1, <1>7, <1>11, <2>1, <2>2, <2>3 DEF Contents
  <1>13. Turns'
    <2>1. spurious' = 0 => Still
      BY <1>1 DEF DInv, Turns, InTurn, counts
    <2>2. spurious' = 0 => InTurn(t)'
      BY <1>1, <1>2, <1>3, <1>6, <2>1 DEF InTurn, Still, Underway
    <2> QED
      BY <1>7, <1>11, <2>2 DEF Turns
  <1>14. Probe'
    <2>1. call'[Boot].dev = call[Boot].dev
      BY <1>3, <1>4
    <2>2. \/ call'[Boot].pc = call[Boot].pc
          \/ call'[Boot].pc \in Active /\ call[Boot].pc \in Active
      BY <1>1, <1>2, <1>3, <1>4 DEF Active, Working
    <2> QED
      BY <1>1, <2>1, <2>2, ProbeKept DEF counts
  <1>15. Addressed'
    <2>1. CASE t = Boot
      BY SMT, <1>1, <1>2, <1>3, <1>6, <2>1 DEF Holding, Addressed, Active, Working
    <2>2. CASE t \in Clients
      <3>1. call[t].sec \in Sectors /\ call[Boot].pc = "done" /\ hw.lba = call[t].sec
        BY <1>1, <2>2 DEF DInv, Holding, Selected, Working
      <3> QED
        BY <1>3, <1>4, <1>6, <2>2, <3>1 DEF Addressed
    <2> QED
      BY <2>1, <2>2 DEF Callers
  <1> QED
    BY <1>8, <1>9, <1>10, <1>12, <1>13, <1>14, <1>15 DEF DInv

(* sema_down returns when an interrupt came: a read or IDENTIFY goes on to *)
(* its data, a write is over.                                              *)
LEMMA DownStep == ASSUME IdeConstants, DInv, NEW t \in Callers, sema_down(t) PROVE DInv'
  <1> DEFINE p == AfterDown(call[t].op)
  <1>1. /\ Types /\ Holding /\ Up /\ call[t].pc = "down" /\ sema > 0 /\ sema' = sema - 1
        /\ call' = [call EXCEPT ![t].pc = p]
        /\ UNCHANGED <<kind, is_ata, registered, lock, expecting_interrupt, hw, disk, panic, want, bad, counts>>
    BY DEF DInv, sema_down
  <1>2. p \in {"busy", "return"} /\ (p = "return" <=> call[t].op = "write")
    BY DEF AfterDown
  <1> HIDE DEF p
  <1>3. /\ call'[t].pc = p /\ call'[t].op = call[t].op /\ call'[t].dev = call[t].dev
        /\ call'[t].sec = call[t].sec /\ call'[t].val = call[t].val
        /\ call'[t] \in Calls /\ call[t] \in Calls
        /\ \A u \in Callers \ {t} : call'[u] = call[u]
    BY <1>1, <1>2 DEF Types, Calls, Active, Working
  <1>4. call' \in [Callers -> Calls] /\ Boot \in Callers /\ Boot \notin Clients
    BY <1>1, <1>3 DEF Types, Callers, IdeConstants
  <1>5. t = Boot => call[t].op = "identify"
    BY <1>1 DEF Holding, Active, Working
  <1>6. \A u \in Callers \ {t} : call'[u].pc \notin Active /\ InPhase(u)' /\ InTurn(u)'
    BY <1>1, <1>3, Others DEF Active, Working
  <1>7. Types'
    <2>1. sema \in Nat
      BY <1>1 DEF Types
    <2>2. sema' \in Nat
      BY SMT, <1>1, <2>1
    <2> QED
      BY <1>1, <1>4, <2>2 DEF Types, counts
  <1>8. Holding'
    BY SMT, <1>1, <1>2, <1>3, <1>4, <1>5 DEF Holding, Active, Working, Up, Callers
  <1>9. Selected'
    BY <1>1, <1>3, <1>6 DEF DInv, Selected, Active, Working
  <1>10. ~ Free'
    BY <1>2, <1>3 DEF Free, Working
  <1>11. Contents'
    <2>1. spurious = 0 \/ fails = 0 => InPhase(t)'
      BY SMT, <1>1, <1>2, <1>3 DEF DInv, Contents, InPhase
    <2> QED
      BY <1>1, <1>6, <1>10, <2>1 DEF DInv, Contents, Settled, counts
  <1>12. Turns'
    <2>1. spurious = 0 => ~ hw.bsy /\ ~ hw.irq /\ sema = 1 /\ expecting_interrupt
      BY SMT, <1>1 DEF DInv, Turns, InTurn, Underway
    <2>2. spurious = 0 => InTurn(t)'
      BY SMT, <1>1, <1>2, <1>3, <2>1 DEF InTurn, Still
    <2> QED
      BY <1>1, <1>6, <1>10, <2>2 DEF Turns, counts
  <1>13. Probe'
    <2>1. call'[Boot].dev = call[Boot].dev
      BY <1>3, <1>4
    <2>2. \/ call'[Boot].pc = call[Boot].pc
          \/ call'[Boot].pc \in Active /\ call[Boot].pc \in Active
      BY <1>1, <1>2, <1>3, <1>4 DEF Active, Working
    <2> QED
      BY <1>1, <2>1, <2>2, ProbeKept DEF counts
  <1>14. Addressed'
    BY <1>1, <1>3, <1>4 DEF DInv, Addressed
  <1> QED
    BY <1>7, <1>8, <1>9, <1>11, <1>12, <1>13, <1>14 DEF DInv

(* The lock is released with nothing of the command left but a write's     *)
(* data on their way.                                                      *)
LEMMA LeaveStep == ASSUME IdeConstants, DInv, NEW t \in Callers, lock_release(t) PROVE DInv'
  <1>1. /\ Types /\ Holding /\ Up /\ call[t].pc = "return" /\ lock' = NONE
        /\ call' = [call EXCEPT ![t] = Idle]
        /\ UNCHANGED <<kind, is_ata, registered, expecting_interrupt, sema, hw, disk, panic, want, bad, counts>>
    BY DEF DInv, lock_release
  <1>2. Idle \in Calls /\ Idle.pc = "idle"
    BY DEF Idle, Calls, Devs, Data
  <1>3. t \in Clients /\ lock = t /\ Boot \in Callers /\ Boot # t
    BY <1>1 DEF Holding, Callers, IdeConstants, Active, Working
  <1>4. /\ call'[t] = Idle /\ call' \in [Callers -> Calls] /\ call'[Boot] = call[Boot]
        /\ \A u \in Callers \ {t} : call'[u] = call[u]
    BY <1>1, <1>2, <1>3 DEF Types
  <1>5. \A u \in Callers \ {t} : call'[u].pc \notin Active /\ InPhase(u)' /\ InTurn(u)'
    BY <1>1, <1>4, Others DEF Active, Working
  <1>6. InPhase(t)' /\ InTurn(t)' /\ call'[t].pc \notin Active
    BY <1>2, <1>4 DEF InPhase, InTurn, Active, Working
  <1>7. Types'
    BY <1>1, <1>4 DEF Types, counts
  <1>8. Holding'
    <2>1. \A u \in Clients : lock' # u /\ call'[u].pc \notin Active
      BY <1>1, <1>5, <1>6 DEF IdeConstants, Callers
    <2>2. call[Boot].pc = "done"
      BY <1>1, <1>3 DEF Holding
    <2> QED
      BY <1>1, <1>2, <1>3, <1>4, <2>1, <2>2 DEF Holding, Callers, Up, Active, Working
  <1>9. Selected'
    BY <1>5, <1>6 DEF Selected, Active
  <1>10. Contents'
    <2>1. spurious = 0 \/ fails = 0 =>
             ~ bad /\ want = Settled /\ ~ hw.drq /\ (hw.bsy => hw.cmd = "flush")
      BY <1>1 DEF DInv, Contents, InPhase
    <2>2. Settled' = Settled
      BY <1>1 DEF Settled
    <2> QED
      BY <1>1, <1>5, <1>6, <2>1, <2>2 DEF Contents, counts
  <1>11. Turns'
    BY <1>1, <1>5, <1>6 DEF DInv, Turns, InTurn, Still, counts
  <1>12. Probe'
    BY <1>1, <1>4, ProbeKept DEF counts
  <1>13. Addressed'
    BY <1>1, <1>4 DEF DInv, Addressed
  <1> QED
    BY <1>7, <1>8, <1>9, <1>10, <1>11, <1>12, <1>13 DEF DInv

(* The end of identify_ata_device: the disk is registered if it answered   *)
(* and is small enough, and the next one is asked.                         *)
LEMMA Probed ==
    ASSUME IdeConstants, DInv, call[Boot].pc \in Active, NEW ok \in BOOLEAN, identify_ata_device(ok),
           kind' = kind, fails' = 0 => fails = 0 /\ ok = kind[call[Boot].dev].drq
    PROVE  /\ is_ata' \subseteq Devs /\ registered' \subseteq Devs
           /\ call' \in [Callers -> Calls] /\ \A u \in Callers \ {Boot} : call'[u] = call[u]
           /\ call'[Boot].pc \in {"done", "select"}
           /\ call'[Boot].pc = "select" => call'[Boot].op = "identify"
           /\ Probe'
  <1> DEFINE d == call[Boot].dev
             use == ok /\ ~ kind[d].big
  <1>1. /\ is_ata' = IF use THEN is_ata ELSE is_ata \ {d}
        /\ registered' = IF use THEN registered \cup {d} ELSE registered
        /\ call' = Identify(is_ata, d + 1)
    BY DEF identify_ata_device
  <1>2. Types /\ d \in Devs /\ is_ata \subseteq Devs /\ registered \subseteq Devs
    BY DEF DInv, Types, Calls, Callers
  <1> HIDE DEF d
  <1>3. d + 1 \in {0, 1, 2} /\ d \in Int
    BY SMT, <1>2 DEF Devs
  <1>4. /\ \A u \in Callers \ {Boot} : call'[u] = call[u]
        /\ call' \in [Callers -> Calls]
        /\ \/ call'[Boot].pc = "done" /\ \A e \in is_ata : e < d + 1
           \/ /\ call'[Boot].pc = "select" /\ call'[Boot].op = "identify"
              /\ call'[Boot].dev \in is_ata /\ call'[Boot].dev >= d + 1
              /\ \A e \in is_ata : e >= d + 1 => e >= call'[Boot].dev
    BY <1>1, <1>2, <1>3, Identified
  <1>5. is_ata' \subseteq Devs /\ registered' \subseteq Devs
    BY <1>1, <1>2
  <1>6. Probe'
    <2> SUFFICES ASSUME fails' = 0 PROVE Probe'
      BY DEF Probe
    <2>1. /\ d \in Found /\ \A e \in Devs : e \in registered <=> Usable(e) /\ e < d
          /\ \A e \in Devs : e >= d => (e \in is_ata <=> e \in Found)
      BY DEF DInv, Probe, d
    <2>2. \A e : (e \in Found' <=> e \in Found) /\ (Usable(e)' <=> Usable(e))
      BY SMT DEF Found, Usable, check_device_type, MayHaveSlave, Answers
    <2>3. use <=> Usable(d)
      BY <2>1 DEF Usable, d
    <2> HIDE DEF use
    <2>4. \A e \in Devs : e < d + 1 <=> e < d \/ e = d
      BY SMT, <1>3 DEF Devs
    <2>5. \A e \in Devs : e \in registered' <=> Usable(e) /\ e < d + 1
      BY <1>1, <2>1, <2>3, <2>4
    <2>6. \A e \in Devs : ~ (e < d + 1) => e >= d /\ e >= d + 1 /\ e # d
      BY SMT, <1>3 DEF Devs
    <2>7. \A e \in Devs : ~ (e < d + 1) => (e \in is_ata <=> e \in Found) /\ (e \in is_ata' <=> e \in is_ata)
      BY <1>1, <2>1, <2>6
    <2>8. CASE call'[Boot].pc = "done" /\ \A e \in is_ata : e < d + 1
      <3>1. \A e \in Devs : Usable(e) => e < d + 1
        BY <2>7, <2>8 DEF Usable
      <3> QED
        BY <2>2, <2>5, <2>8, <3>1 DEF Probe, Active, Working
    <2>9. CASE /\ call'[Boot].pc = "select" /\ call'[Boot].dev \in is_ata /\ call'[Boot].dev >= d + 1
               /\ \A e \in is_ata : e >= d + 1 => e >= call'[Boot].dev
      <3> DEFINE n == call'[Boot].dev
      <3>1. n \in Devs /\ \A e \in Devs : e >= n => ~ (e < d + 1)
        <4>1. n \in Devs
          BY <1>2, <2>9
        <4>2. n \in Int /\ n >= d + 1 /\ \A e \in Devs : e \in Int
          BY SMT, <2>9, <4>1 DEF Devs
        <4> HIDE DEF n
        <4> QED
          BY SMT, <1>3, <4>1, <4>2
      <3>2. \A e \in Devs : Usable(e) => (e < d + 1 <=> e < n)
        <4>1. \A e \in Devs : (e < d + 1 => e < n) /\ (e < n => ~ (e >= n))
          BY SMT, <1>3, <2>9, <3>1 DEF Devs
        <4> QED
          BY <2>6, <2>7, <2>9, <4>1 DEF Usable
      <3>3. n \in Found
        <4>1. n >= n
          BY SMT, <3>1 DEF Devs
        <4> QED
          BY <2>7, <2>9, <3>1, <4>1
      <3> QED
        BY <2>2, <2>5, <2>7, <2>9, <3>1, <3>2, <3>3 DEF Probe, Active, Working
    <2> QED
      BY <1>4, <2>8, <2>9
  <1> QED
    BY <1>4, <1>5, <1>6

(* wait_while_busy finds the data there and goes on, or gives the probe's  *)
(* device up, or panics.                                                   *)
LEMMA WaitStep == ASSUME IdeConstants, DInv, NEW t \in Callers, wait_while_busy(t) PROVE DInv'
  <1> DEFINE ok == ~ hw.bsy /\ hw.drq
  <1>1. /\ Types /\ Holding /\ Up /\ call[t].pc = "busy"
        /\ fails' = IF hw.bsy THEN fails + 1 ELSE fails
        /\ UNCHANGED <<kind, lock, expecting_interrupt, sema, hw, disk, want, bad, ops, spurious>>
    BY DEF DInv, wait_while_busy
  <1>2. fails' \in Nat /\ (fails' = 0 => fails = 0 /\ ~ hw.bsy)
    <2>1. fails \in Nat
      BY <1>1 DEF Types
    <2> QED
      BY SMT, <1>1, <2>1
  <1>3. Boot \in Callers /\ Boot \notin Clients /\ call[t].pc \in Active /\ call[t].pc \in Working
    BY <1>1 DEF Callers, IdeConstants, Active, Working
  <1>4. Settled' = Settled
    BY <1>1 DEF Settled
  <1>5. CASE ok \/ t # Boot
    <2>1. /\ call' = [call EXCEPT ![t].pc = "data"] /\ panic' = IF ok THEN panic ELSE "disk failed"
          /\ UNCHANGED <<is_ata, registered>>
      BY <1>5 DEF wait_while_busy
    <2>2. /\ call'[t].pc = "data" /\ call'[t].op = call[t].op /\ call'[t].dev = call[t].dev
          /\ call'[t].sec = call[t].sec /\ call'[t].val = call[t].val /\ call'[t] \in Calls
          /\ \A u \in Callers \ {t} : call'[u] = call[u]
      BY <1>1, <2>1 DEF Types, Calls, Active, Working
    <2>3. call' \in [Callers -> Calls]
      BY <1>1, <2>1, <2>2 DEF Types
    <2>4. \A u \in Callers \ {t} : call'[u].pc \notin Active /\ InPhase(u)' /\ InTurn(u)'
      BY <1>3, <2>2, Others
    <2>5. Up' <=> ok
      BY <1>1, <2>1 DEF Up, NONE
    <2>6. Types'
      BY <1>1, <1>2, <2>1, <2>3 DEF Types
    <2>7. Holding'
      <3>1. ~ Up' => t \in Clients
        BY <1>5, <2>5 DEF Callers
      <3>2. \A u \in Clients : \/ u = t
                               \/ call'[u] = call[u]
        BY <2>2 DEF Callers
      <3>3. call'[Boot] = call[Boot] \/ Boot = t
        BY <1>3, <2>2
      <3> QED
        <4>1. "data" \in Active /\ "busy" \in Active /\ "data" # "idle" /\ "busy" # "idle"
              /\ "data" # "done" /\ "busy" # "done" /\ "data" \in Active \ {"return"}
          BY DEF Active, Working
        <4>2. \A u \in Clients : lock' = u <=> call'[u].pc \in Active
          BY SMT, <1>1, <2>2, <3>2, <4>1 DEF Holding
        <4>3. \A u \in Clients :
                /\ call'[u].pc \in {"idle", "lock"} \cup Active
                /\ call'[u].pc # "idle" => call'[u].op \in {"read", "write"} /\ call'[u].dev \in registered'
                                            /\ call'[u].sec \in Sectors
          <5> SUFFICES ASSUME NEW u \in Clients
                       PROVE  /\ call'[u].pc \in {"idle", "lock"} \cup Active
                              /\ call'[u].pc # "idle" =>
                                    call'[u].op \in {"read", "write"} /\ call'[u].dev \in registered
                                    /\ call'[u].sec \in Sectors
            BY <2>1
          <5>1. CASE u = t
            BY <1>1, <2>2, <4>1, <5>1 DEF Holding
          <5>2. CASE call'[u] = call[u]
            BY <1>1, <5>2 DEF Holding
          <5> QED
            BY <3>2, <5>1, <5>2
        <4>4. \A u \in Clients : call'[Boot].pc # "done" => call'[u].pc = "idle"
          BY <1>1, <1>3, <2>2, <3>2, <3>3, <4>1 DEF Holding
        <4>5. /\ call'[Boot].pc \in {"reset", "done"} \cup (Active \ {"return"})
              /\ call'[Boot].pc \in Active => call'[Boot].op = "identify"
          BY SMT, <1>1, <2>2, <3>3, <4>1 DEF Holding
        <4> QED
          BY <2>2, <3>1, <4>2, <4>3, <4>4, <4>5 DEF Holding
    <2>8. Selected'
      BY <1>1, <1>3, <2>2, <2>4 DEF DInv, Selected, Active, Working
    <2>9. ~ Free'
      BY <2>2 DEF Free, Working
    <2>10. Contents'
      <3> SUFFICES ASSUME spurious' = 0 \/ fails' = 0
                   PROVE  ~ bad' /\ (Up' => want' = Settled' /\ InPhase(t)')
        BY <2>4, <2>9 DEF Contents
      <3>1. ~ bad /\ want = Settled /\ InPhase(t)
        BY <1>1, <1>2 DEF DInv, Contents
      <3>2. ok => InPhase(t)'
        BY <1>1, <2>2, <3>1 DEF InPhase
      <3> QED
        BY <1>1, <1>4, <2>5, <3>1, <3>2
    <2>11. Turns'
      <3>1. spurious = 0 /\ ok => Still /\ expecting_interrupt
        BY <1>1 DEF DInv, Turns, InTurn, Underway
      <3>2. spurious = 0 /\ ok => InTurn(t)'
        BY <1>1, <2>2, <3>1 DEF InTurn, Still
      <3> QED
        BY <1>1, <2>4, <2>5, <2>9, <3>2 DEF Turns
    <2>12. Probe'
      <3>1. call'[Boot].dev = call[Boot].dev
        BY <1>3, <2>2
      <3>2. \/ call'[Boot].pc = call[Boot].pc
            \/ call'[Boot].pc \in Active /\ call[Boot].pc \in Active
        BY <1>3, <2>2 DEF Active, Working
      <3> QED
        BY <1>1, <1>2, <2>1, <3>1, <3>2, ProbeKept
    <2>13. Addressed'
      BY <1>1, <1>3, <2>2 DEF DInv, Addressed
    <2> QED
      BY <2>6, <2>7, <2>8, <2>10, <2>11, <2>12, <2>13 DEF DInv
  <1>6. CASE ~ (ok \/ t # Boot)
    <2>1. identify_ata_device(FALSE) /\ UNCHANGED panic /\ t = Boot
      BY <1>6 DEF wait_while_busy
    <2>2. call[Boot].op = "identify"
      BY <1>1, <2>1 DEF Holding, Active, Working
    <2>3. spurious = 0 => Still
      BY <1>1, <1>3, <2>1, <2>2 DEF DInv, Turns, InTurn
    <2>4. spurious = 0 \/ fails' = 0 => ~ hw.bsy /\ ~ hw.drq /\ ~ bad /\ want = Settled /\ InPhase(Boot)
      <3>1. spurious = 0 \/ fails' = 0 => ~ hw.bsy
        BY <1>2, <2>3 DEF Still
      <3> QED
        BY <1>1, <1>2, <1>3, <1>6, <3>1 DEF DInv, Contents
    <2>5. fails' = 0 => fails = 0 /\ FALSE = kind[call[Boot].dev].drq
      BY SMT, <1>1, <1>2, <2>1, <2>2, <2>4 DEF InPhase
    <2>6. /\ is_ata' \subseteq Devs /\ registered' \subseteq Devs
          /\ call' \in [Callers -> Calls] /\ \A u \in Callers \ {Boot} : call'[u] = call[u]
          /\ call'[Boot].pc \in {"done", "select"}
          /\ call'[Boot].pc = "select" => call'[Boot].op = "identify"
          /\ Probe'
      BY <1>1, <1>3, <2>1, <2>5, Probed
    <2>7. \A u \in Callers \ {Boot} : call'[u].pc \notin Active /\ InPhase(u)' /\ InTurn(u)'
      BY <1>3, <2>1, <2>6, Others
    <2>8. InPhase(Boot)' /\ InTurn(Boot)' /\ call'[Boot].pc \notin Working
      BY <2>6 DEF InPhase, InTurn, Working
    <2>9. Types'
      BY <1>1, <1>2, <2>1, <2>6 DEF Types
    <2>10. Holding'
      <3>1. \A u \in Clients : call'[u] = call[u] /\ call[u].pc = "idle"
        BY <1>1, <1>3, <2>1, <2>6 DEF Holding, Callers
      <3> QED
        BY SMT, <1>1, <2>1, <2>6, <3>1 DEF Holding, Active, Working, Up
    <2>11. Selected'
      BY <2>7, <2>8 DEF Selected, Active
    <2>12. Contents'
      BY <1>1, <1>4, <2>4, <2>7, <2>8 DEF Contents
    <2>13. Turns'
      BY <1>1, <2>3, <2>7, <2>8 DEF Turns, Still
    <2>14. Addressed'
      BY <1>1, <2>1 DEF DInv, Addressed
    <2> QED
      BY <2>6, <2>9, <2>10, <2>11, <2>12, <2>13, <2>14 DEF DInv
  <1> QED
    BY <1>5, <1>6

(* The end of input_sector and output_sector: a read has its data, those   *)
(* of a write are with the controller, the probe goes on.                  *)
LEMMA TransferStep == ASSUME IdeConstants, DInv, NEW t \in Callers, transfer(t) PROVE DInv'
  <1>1. /\ Types /\ Holding /\ Up /\ call[t].pc = "data"
        /\ UNCHANGED <<kind, lock, expecting_interrupt, sema, disk, panic, counts>>
    BY DEF DInv, transfer
  <1>2. Boot \in Callers /\ Boot \notin Clients /\ call[t].pc \in Active /\ call[t].pc \in Working
    BY <1>1 DEF Callers, IdeConstants, Active, Working
  <1>3. /\ spurious = 0 => Still
        /\ spurious = 0 \/ fails = 0 => ~ bad /\ ~ hw.bsy /\ hw.drq /\ want = disk /\ InPhase(t)
    BY <1>1 DEF DInv, Contents, Turns, InTurn, InPhase, Settled
  <1>4. hw.sel = call[t].dev /\ hw.lba = call[t].sec
    BY <1>2 DEF DInv, Selected
  <1>5. CASE call[t].op = "identify"
    <2>1. /\ identify_ata_device(TRUE) /\ UNCHANGED <<want, bad>> /\ t = Boot
          /\ hw' = [hw EXCEPT !.drq = FALSE]
      BY <1>1, <1>2, <1>5 DEF transfer, Holding, Callers
    <2>2. fails' = 0 => fails = 0 /\ TRUE = kind[call[Boot].dev].drq
      <3>1. kind[call[Boot].dev] \in Kinds /\ \A k \in Kinds : k.drq \in BOOLEAN
        BY <1>1, <1>2 DEF Types, Calls, IdeConstants
      <3> QED
        BY <1>1, <1>3, <1>5, <2>1, <3>1 DEF InPhase, counts
    <2>3. /\ is_ata' \subseteq Devs /\ registered' \subseteq Devs
          /\ call' \in [Callers -> Calls] /\ \A u \in Callers \ {Boot} : call'[u] = call[u]
          /\ call'[Boot].pc \in {"done", "select"}
          /\ call'[Boot].pc = "select" => call'[Boot].op = "identify"
          /\ Probe'
      BY <1>1, <1>2, <2>1, <2>2, Probed
    <2>4. \A u \in Callers \ {Boot} : call'[u].pc \notin Active /\ InPhase(u)' /\ InTurn(u)'
      BY <1>2, <2>1, <2>3, Others
    <2>5. InPhase(Boot)' /\ InTurn(Boot)' /\ call'[Boot].pc \notin Working
      BY <2>3 DEF InPhase, InTurn, Working
    <2>6. hw' \in Controllers /\ hw'.bsy = hw.bsy /\ hw'.irq = hw.irq /\ ~ hw'.drq /\ hw'.cmd = hw.cmd
      BY <1>1, <2>1 DEF Types, Controllers
    <2>7. Types'
      BY <1>1, <2>1, <2>3, <2>6 DEF Types, counts
    <2>8. Holding'
      <3>1. \A u \in Clients : call'[u] = call[u] /\ call[u].pc = "idle"
        BY <1>1, <1>2, <2>1, <2>3 DEF Holding, Callers
      <3> QED
        BY SMT, <1>1, <2>1, <2>3, <3>1 DEF Holding, Active, Working, Up
    <2>9. Selected'
      BY <2>4, <2>5 DEF Selected, Active
    <2>10. Contents'
      BY <1>1, <1>3, <2>1, <2>4, <2>5, <2>6 DEF Contents, Settled, counts
    <2>11. Turns'
      BY <1>1, <1>3, <2>4, <2>5, <2>6 DEF Turns, Still, counts
    <2>12. Addressed'
      <3>1. hw.cmd \in {NONE, "identify"}
        BY <1>1, <2>1 DEF DInv, Addressed
      <3> QED
        BY <2>6, <3>1 DEF Addressed, NONE
    <2> QED
      BY <2>3, <2>7, <2>8, <2>9, <2>10, <2>11, <2>12 DEF DInv
  <1>6. CASE call[t].op \in {"read", "write"}
    <2> DEFINE p == IF call[t].op = "write" THEN "down" ELSE "return"
    <2>1. call' = [call EXCEPT ![t].pc = p] /\ UNCHANGED <<is_ata, registered>> /\ t \in Clients
      BY <1>1, <1>2, <1>6 DEF transfer, AfterOutput, Holding, Callers
    <2>2. p \in {"down", "return"} /\ (p = "down" <=> call[t].op = "write")
      OBVIOUS
    <2> HIDE DEF p
    <2>3. /\ call'[t].pc = p /\ call'[t].op = call[t].op /\ call'[t].dev = call[t].dev
          /\ call'[t].sec = call[t].sec /\ call'[t].val = call[t].val
          /\ call'[t] \in Calls /\ call[t] \in Calls
          /\ \A u \in Callers \ {t} : call'[u] = call[u]
      BY <1>1, <2>1, <2>2 DEF Types, Calls, Active, Working
    <2>4. call' \in [Callers -> Calls] /\ call'[Boot] = call[Boot]
      BY <1>1, <1>2, <2>1, <2>3 DEF Types
    <2>5. \A u \in Callers \ {t} : call'[u].pc \notin Active /\ InPhase(u)' /\ InTurn(u)'
      BY <1>2, <2>3, Others
    <2>6. Holding'
      <3>1. p \in Active /\ p # "idle"
        BY <2>2 DEF Active, Working
      <3> QED
        BY SMT, <1>1, <1>2, <2>1, <2>3, <2>4, <3>1 DEF Holding, Callers, Up
    <2>7. Probe'
      BY <1>1, <2>1, <2>4, ProbeKept DEF counts
    <2>8. ~ Free' /\ Up'
      BY <1>1, <2>2, <2>3 DEF Free, Working, Up
    <2>9. call[t].dev \in Devs /\ call[t].sec \in Sectors /\ call[t].val \in Data
      BY <1>1, <2>1, <2>3 DEF Holding, Calls
    <2>10. CASE call[t].op = "read"
      <3>1. /\ hw' = [hw EXCEPT !.drq = FALSE] /\ bad' = (bad \/ hw.data # want[call[t].dev][call[t].sec])
            /\ want' = want
        BY <2>10 DEF transfer
      <3>2. /\ hw' \in Controllers /\ hw'.bsy = hw.bsy /\ hw'.irq = hw.irq /\ ~ hw'.drq
            /\ hw'.cmd = hw.cmd /\ hw'.sel = hw.sel /\ hw'.lba = hw.lba
        BY <1>1, <3>1 DEF Types, Controllers
      <3>3. Types'
        BY <1>1, <2>1, <2>4, <3>1, <3>2 DEF Types, counts
      <3>4. Selected'
        BY <1>4, <2>3, <2>5, <3>2 DEF Selected, Active
      <3>5. spurious = 0 \/ fails = 0 => ~ bad' /\ want' = Settled' /\ InPhase(t)'
        <4>1. spurious = 0 \/ fails = 0 => ~ bad' /\ want' = Settled'
          BY <1>1, <1>3, <2>10, <3>1, <3>2 DEF InPhase, Settled
        <4>2. spurious = 0 \/ fails = 0 => InPhase(t)'
          BY <1>3, <2>2, <2>3, <2>10, <3>2 DEF InPhase
        <4> QED
          BY <4>1, <4>2
      <3>6. Contents'
        BY <1>1, <2>5, <2>8, <3>5 DEF Contents, counts
      <3>7. spurious = 0 => InTurn(t)'
        BY <1>1, <1>3, <2>2, <2>3, <2>10, <3>2 DEF InTurn, Still
      <3>8. Turns'
        BY <1>1, <2>5, <2>8, <3>7 DEF Turns, counts
      <3>9. Addressed'
        BY <2>4, <3>2 DEF DInv, Addressed
      <3> QED
        BY <2>6, <2>7, <3>3, <3>4, <3>6, <3>8, <3>9 DEF DInv
    <2>11. CASE call[t].op = "write"
      <3>1. /\ hw' = [hw EXCEPT !.drq = FALSE, !.bsy = TRUE, !.data = call[t].val, !.cmd = "flush"]
            /\ want' = [want EXCEPT ![call[t].dev][call[t].sec] = call[t].val] /\ bad' = bad
        BY <2>11 DEF transfer
      <3>2. /\ hw' \in Controllers /\ hw'.bsy /\ hw'.irq = hw.irq /\ ~ hw'.drq
            /\ hw'.cmd = "flush" /\ hw'.sel = hw.sel /\ hw'.lba = hw.lba /\ hw'.data = call[t].val
        BY <1>1, <2>9, <3>1 DEF Types, Controllers
      <3>3. want' \in [Devs -> [Sectors -> Data]] /\ want'[call[t].dev][call[t].sec] = call[t].val
        BY <1>1, <2>9, <3>1 DEF Types
      <3>4. Types'
        BY <1>1, <2>1, <2>4, <3>1, <3>2, <3>3 DEF Types, counts, NONE
      <3>5. Selected'
        BY <1>4, <2>3, <2>5, <3>2 DEF Selected, Active
      <3>6. spurious = 0 \/ fails = 0 => ~ bad' /\ want' = Settled'
        BY <1>1, <1>3, <1>4, <3>1, <3>2 DEF Settled
      <3>7. InPhase(t)'
        BY <2>2, <2>3, <2>11, <3>2, <3>3 DEF InPhase
      <3>8. Contents'
        BY <1>1, <2>5, <2>8, <3>6, <3>7 DEF Contents, counts
      <3>9. spurious = 0 => InTurn(t)'
        <4>1. spurious = 0 => Still /\ expecting_interrupt
          BY <1>1, <1>3 DEF DInv, Turns, InTurn
        <4> QED
          BY <1>1, <2>2, <2>3, <2>11, <3>2, <4>1 DEF InTurn, Still, Underway
      <3>10. Turns'
        BY <1>1, <2>5, <2>8, <3>9 DEF Turns, counts
      <3>11. Addressed'
        <4>1. call[Boot].pc = "done"
          BY <1>1, <2>1 DEF Holding
        <4> QED
          BY <1>4, <2>4, <2>9, <3>2, <4>1 DEF Addressed
      <3> QED
        BY <2>6, <2>7, <3>4, <3>5, <3>8, <3>10, <3>11 DEF DInv
    <2> QED
      BY <1>6, <2>10, <2>11
  <1> QED
    BY <1>1, <1>2, <1>5, <1>6 DEF Holding, Callers

(* interrupt_handler, Ready, Fail and Spurious leave the threads where they *)
(* are, and with them Holding and, unless the registers move, Selected.    *)
LEMMA ThreadsStay ==
    ASSUME DInv, UNCHANGED <<kind, is_ata, registered, lock, call, panic>>,
           hw'.sel = hw.sel, hw'.lba = hw.lba, hw'.cmd = hw.cmd, fails' = 0 => fails = 0
    PROVE  Holding' /\ Selected' /\ Addressed' /\ Probe' /\ (Free' <=> Free) /\ (Up' <=> Up)
  <1>1. Holding'
    BY DEF DInv, Holding, Up
  <1>2. Selected'
    BY DEF DInv, Selected
  <1>3. Probe'
    BY ProbeKept
  <1>4. Addressed'
    BY DEF DInv, Addressed
  <1> QED
    BY <1>1, <1>2, <1>3, <1>4 DEF Free, Up

(* The handler counts an interrupt once. *)
LEMMA HandlerStep == ASSUME IdeConstants, DInv, interrupt_handler PROVE DInv'
  <1>1. /\ Types /\ Up /\ hw.irq /\ sema' = IF expecting_interrupt THEN sema + 1 ELSE sema
        /\ hw' = [hw EXCEPT !.irq = FALSE]
        /\ UNCHANGED <<kind, is_ata, registered, lock, expecting_interrupt, call, disk, panic, want, bad, counts>>
    BY DEF DInv, interrupt_handler
  <1>2. /\ hw' \in Controllers /\ hw'.bsy = hw.bsy /\ ~ hw'.irq /\ hw'.drq = hw.drq
        /\ hw'.cmd = hw.cmd /\ hw'.sel = hw.sel /\ hw'.lba = hw.lba /\ hw'.data = hw.data
    BY <1>1 DEF Types, Controllers
  <1>3. sema' \in Nat /\ (sema = 0 /\ expecting_interrupt => sema' = 1)
    <2>1. sema \in Nat
      BY <1>1 DEF Types
    <2> QED
      BY SMT, <1>1, <2>1
  <1>4. Types'
    BY <1>1, <1>2, <1>3 DEF Types, counts
  <1>5. Holding' /\ Selected' /\ Addressed' /\ Probe' /\ (Free' <=> Free) /\ (Up' <=> Up)
    BY <1>1, <1>2, ThreadsStay DEF counts
  <1>6. Contents'
    <2>1. \A t \in Callers : InPhase(t) => InPhase(t)'
      BY SMT, <1>1, <1>2 DEF InPhase
    <2>2. Settled' = Settled
      BY SMT, <1>1, <1>2 DEF Settled
    <2> QED
      BY <1>1, <1>2, <1>5, <2>1, <2>2 DEF DInv, Contents, counts
  <1>7. Turns'
    <2>1. spurious = 0 => ~ Free
      BY <1>1 DEF DInv, Turns, Still
    <2>2. ASSUME NEW t \in Callers, spurious = 0 PROVE InTurn(t)'
      <3>1. InTurn(t)
        BY <1>1, <2>2 DEF DInv, Turns
      <3> QED
        BY <1>1, <1>2, <1>3, <3>1 DEF InTurn, Still, Underway
    <2> QED
      BY <1>1, <1>5, <2>1, <2>2 DEF Turns, counts
  <1> QED
    BY <1>4, <1>5, <1>6, <1>7 DEF DInv

(* After a stray interrupt nothing is said of the turns any more.          *)
LEMMA SpuriousStep == ASSUME IdeConstants, DInv, Spurious PROVE DInv'
  <1>1. /\ Types /\ Up /\ spurious' = spurious + 1 /\ hw' = [hw EXCEPT !.irq = TRUE]
        /\ UNCHANGED <<kind, driver, disk, panic, want, bad, ops, fails>>
    BY DEF DInv, Spurious
  <1>2. /\ hw' \in Controllers /\ hw'.bsy = hw.bsy /\ hw'.drq = hw.drq
        /\ hw'.cmd = hw.cmd /\ hw'.sel = hw.sel /\ hw'.lba = hw.lba /\ hw'.data = hw.data
    BY <1>1 DEF Types, Controllers
  <1>3. spurious' \in Nat /\ spurious' # 0
    <2>1. spurious \in Nat
      BY <1>1 DEF Types
    <2> QED
      BY SMT, <1>1, <2>1
  <1>4. Types'
    BY <1>1, <1>2, <1>3 DEF Types, driver
  <1>5. Holding' /\ Selected' /\ Addressed' /\ Probe' /\ (Free' <=> Free) /\ (Up' <=> Up)
    BY <1>1, <1>2, ThreadsStay DEF driver
  <1>6. Contents'
    <2>1. \A t \in Callers : InPhase(t) => InPhase(t)'
      BY SMT, <1>1, <1>2 DEF InPhase, driver
    <2>2. Settled' = Settled
      BY SMT, <1>1, <1>2 DEF Settled
    <2> QED
      BY <1>1, <1>2, <1>3, <1>5, <2>1, <2>2 DEF DInv, Contents
  <1>7. Turns'
    BY <1>3 DEF Turns
  <1> QED
    BY <1>4, <1>5, <1>6, <1>7 DEF DInv

(* A device that refuses a read or a write: no data follow. *)
LEMMA FailStep == ASSUME IdeConstants, DInv, Fail PROVE DInv'
  <1>1. /\ Types /\ Up /\ hw.bsy /\ hw.cmd \in {"read", "write"} /\ fails' = fails + 1
        /\ hw' = [hw EXCEPT !.bsy = FALSE, !.irq = TRUE]
        /\ UNCHANGED <<kind, driver, disk, panic, want, bad, ops, spurious>>
    BY DEF DInv, Fail, IdeConstants
  <1>2. /\ hw' \in Controllers /\ ~ hw'.bsy /\ hw'.irq /\ hw'.drq = hw.drq
        /\ hw'.cmd = hw.cmd /\ hw'.sel = hw.sel /\ hw'.lba = hw.lba /\ hw'.data = hw.data
    BY <1>1 DEF Types, Controllers
  <1>3. fails' \in Nat /\ fails' # 0
    <2>1. fails \in Nat
      BY <1>1 DEF Types
    <2> QED
      BY SMT, <1>1, <2>1
  <1>4. Types'
    BY <1>1, <1>2, <1>3 DEF Types, driver
  <1>5. Holding' /\ Selected' /\ Addressed' /\ Probe' /\ (Free' <=> Free) /\ (Up' <=> Up)
    BY <1>1, <1>2, <1>3, ThreadsStay DEF driver
  <1>6. spurious = 0 => ~ bad /\ want = disk /\ ~ Free /\ \A t \in Callers : InPhase(t) /\ InTurn(t)
    BY <1>1 DEF DInv, Contents, Turns, Settled, Still
  <1>7. Contents'
    <2>1. ASSUME NEW t \in Callers, spurious = 0 PROVE InPhase(t)'
      <3>1. InPhase(t) /\ call'[t] = call[t]
        BY <1>1, <1>6, <2>1 DEF driver
      <3>2. call[t].pc \notin {"issue", "data", "return"} /\ ~ (call[t].pc = "down" /\ call[t].op = "write")
        BY <1>1, <3>1 DEF InPhase
      <3>3. call[t].pc \in {"down", "busy"} => call[t].op # "identify" /\ ~ hw.drq
        BY <1>1, <3>1, <3>2 DEF InPhase
      <3> QED
        BY SMT, <1>1, <1>2, <3>1, <3>2, <3>3 DEF InPhase
    <2>2. Settled' = disk'
      BY <1>2 DEF Settled
    <2> QED
      BY <1>1, <1>3, <1>5, <1>6, <2>1, <2>2 DEF Contents
  <1>8. Turns'
    <2>1. ASSUME NEW t \in Callers, spurious = 0 PROVE InTurn(t)'
      <3>1. InPhase(t) /\ InTurn(t) /\ call'[t] = call[t]
        BY <1>1, <1>6, <2>1 DEF driver
      <3>2. call[t].pc \notin {"issue", "data", "return"} /\ ~ (call[t].pc = "busy" /\ call[t].op # "write")
        BY <1>1, <3>1 DEF InTurn, Still
      <3>3. call[t].pc = "busy" => ~ hw.drq
        BY <1>1, <3>1, <3>2 DEF InPhase
      <3> QED
        BY <1>1, <1>2, <3>1, <3>2, <3>3 DEF InTurn, Underway, Still, driver
    <2> QED
      BY <1>1, <1>5, <1>6, <2>1 DEF Turns
  <1> QED
    BY <1>4, <1>5, <1>7, <1>8 DEF DInv

(* The controller gets ready for the data of a command, or has written     *)
(* those of a write.                                                       *)
LEMMA ReadyStep == ASSUME IdeConstants, DInv, Ready PROVE DInv'
  <1>1. Types /\ Up /\ hw.bsy /\ UNCHANGED <<kind, driver, panic, want, bad, counts>>
    BY DEF DInv, Ready
  <1>2. hw.cmd \in {"read", "identify", "write", "flush"}
    BY <1>1 DEF Types, Controllers
  <1>3. /\ spurious = 0 \/ fails = 0 => ~ bad /\ want = Settled /\ (\A t \in Callers : InPhase(t))
                                         /\ (Free => hw.cmd = "flush")
        /\ spurious = 0 => ~ Free /\ \A t \in Callers : InTurn(t)
    BY <1>1 DEF DInv, Contents, Turns, Still
  <1>4. \A t \in Callers : call[t].pc \in Working => hw.sel = call[t].dev /\ hw.lba = call[t].sec
    BY DEF DInv, Selected
  <1>5. CASE hw.cmd \in {"read", "identify"}
    <2>1. /\ hw' = [hw EXCEPT !.bsy = FALSE, !.irq = TRUE, !.drq = (hw.cmd = "read" \/ kind[hw.sel].drq),
                              !.data = IF hw.cmd = "read" THEN disk[hw.sel][hw.lba] ELSE ID]
          /\ disk' = disk
      BY <1>5 DEF Ready
    <2>2. hw.cmd = "read" => disk[hw.sel][hw.lba] \in Data
      BY ZenonT(40), <1>1 DEF DInv, Addressed, Types, Controllers
    <2>3. /\ hw' \in Controllers /\ ~ hw'.bsy /\ hw'.irq /\ hw'.cmd = hw.cmd /\ hw'.sel = hw.sel
          /\ hw'.lba = hw.lba /\ hw'.drq = (hw.cmd = "read" \/ kind[hw.sel].drq)
          /\ hw.cmd = "read" => hw'.data = disk[hw.sel][hw.lba]
      BY ZenonT(40), <1>1, <2>1, <2>2 DEF Types, Controllers, Data
    <2>4. Types'
      BY <1>1, <2>1, <2>3 DEF Types, driver, counts
    <2>5. Holding' /\ Selected' /\ Addressed' /\ Probe' /\ (Free' <=> Free) /\ (Up' <=> Up)
      BY <1>1, <2>3, ThreadsStay DEF driver, counts
    <2>6. ASSUME NEW t \in Callers, spurious = 0 \/ fails = 0 PROVE InPhase(t)'
      <3>1. InPhase(t) /\ call'[t] = call[t]
        BY <1>1, <1>3, <2>6 DEF driver
      <3>2. call[t].pc \notin {"issue", "data", "return"}
            /\ (call[t].pc \in {"down", "busy"} => call[t].op # "write" /\ hw.cmd = call[t].op)
        BY <1>1, <1>5, <3>1 DEF InPhase
      <3>3. call[t].pc \in {"down", "busy"} => hw.sel = call[t].dev /\ hw.lba = call[t].sec
        BY <1>4 DEF Working
      <3>4. kind[hw.sel].drq \in BOOLEAN
        <4>1. kind[hw.sel] \in Kinds
          BY <1>1 DEF Types, Controllers
        <4> QED
          BY <4>1 DEF IdeConstants
      <3> QED
        BY SMT, <1>1, <2>1, <2>3, <3>1, <3>2, <3>3, <3>4 DEF InPhase
    <2>7. ASSUME NEW t \in Callers, spurious = 0 PROVE InTurn(t)'
      <3>1. InPhase(t) /\ InTurn(t) /\ call'[t] = call[t]
        BY <1>1, <1>3, <2>7 DEF driver
      <3>2. call[t].pc \notin {"issue", "data", "return", "busy"}
        BY <1>1, <1>5, <3>1 DEF InPhase, InTurn, Still
      <3> QED
        BY <1>1, <2>3, <3>1, <3>2 DEF InTurn, Underway, driver
    <2>8. spurious = 0 \/ fails = 0 => want' = Settled'
      BY <1>1, <1>3, <1>5, <2>1, <2>3 DEF Settled
    <2>9. Contents'
      BY <1>1, <1>3, <1>5, <2>5, <2>6, <2>8 DEF Contents, counts
    <2>10. Turns'
      BY <1>1, <1>3, <2>5, <2>7 DEF Turns, counts
    <2> QED
      BY <2>4, <2>5, <2>9, <2>10 DEF DInv
  <1>6. CASE hw.cmd = "write"
    <2>1. hw' = [hw EXCEPT !.bsy = FALSE, !.drq = TRUE] /\ disk' = disk
      BY <1>6 DEF Ready
    <2>2. /\ hw' \in Controllers /\ ~ hw'.bsy /\ hw'.irq = hw.irq /\ hw'.cmd = hw.cmd
          /\ hw'.sel = hw.sel /\ hw'.lba = hw.lba /\ hw'.drq
      BY <1>1, <2>1 DEF Types, Controllers
    <2>3. Types'
      BY <1>1, <2>1, <2>2 DEF Types, driver, counts
    <2>4. Holding' /\ Selected' /\ Addressed' /\ Probe' /\ (Free' <=> Free) /\ (Up' <=> Up)
      BY <1>1, <2>2, ThreadsStay DEF driver, counts
    <2>5. ASSUME NEW t \in Callers, spurious = 0 \/ fails = 0, InPhase(t)
          PROVE  call[t].pc \notin {"issue", "data", "return", "down"}
                 /\ (call[t].pc = "busy" => call[t].op = "write")
      <3>1. t = Boot /\ call[t].pc \in Active => call[t].op = "identify"
        BY DEF DInv, Holding
      <3>2. t \in Clients /\ call[t].pc \in Active => call[t].op \in {"read", "write"}
        BY DEF DInv, Holding, Active, Working
      <3> QED
        BY <1>1, <1>6, <2>5, <3>1, <3>2 DEF InPhase
    <2>6. ASSUME NEW t \in Callers, spurious = 0 \/ fails = 0 PROVE InPhase(t)'
      <3>1. InPhase(t) /\ call'[t] = call[t]
        BY <1>1, <1>3, <2>6 DEF driver
      <3> QED
        BY ZenonT(40), <1>6, <2>2, <2>5, <2>6, <3>1 DEF InPhase
    <2>7. ASSUME NEW t \in Callers, spurious = 0 PROVE InTurn(t)'
      <3>1. InPhase(t) /\ InTurn(t) /\ call'[t] = call[t]
        BY <1>1, <1>3, <2>7 DEF driver
      <3> QED
        BY <1>1, <2>2, <2>5, <2>7, <3>1 DEF InTurn, Underway, Still, driver
    <2>8. spurious = 0 \/ fails = 0 => want' = Settled'
      BY <1>1, <1>3, <1>6, <2>1, <2>2 DEF Settled
    <2>9. Contents'
      BY <1>1, <1>3, <1>6, <2>4, <2>6, <2>8 DEF Contents, counts
    <2>10. Turns'
      BY <1>1, <1>3, <2>4, <2>7 DEF Turns, counts
    <2> QED
      BY <2>3, <2>4, <2>9, <2>10 DEF DInv
  <1>7. CASE hw.cmd = "flush"
    <2>1. hw' = [hw EXCEPT !.bsy = FALSE, !.irq = TRUE] /\ disk' = [disk EXCEPT ![hw.sel][hw.lba] = hw.data]
      BY <1>7 DEF Ready
    <2>2. /\ hw' \in Controllers /\ ~ hw'.bsy /\ hw'.irq /\ hw'.cmd = hw.cmd /\ hw'.drq = hw.drq
          /\ hw'.sel = hw.sel /\ hw'.lba = hw.lba /\ hw'.data = hw.data
      BY <1>1, <2>1 DEF Types, Controllers
    <2>3. disk' \in [Devs -> [Sectors -> Data]]
      BY <1>1, <2>1 DEF Types, Controllers
    <2>4. Types'
      BY <1>1, <2>2, <2>3 DEF Types, driver, counts
    <2>5. Holding' /\ Selected' /\ Addressed' /\ Probe' /\ (Free' <=> Free) /\ (Up' <=> Up)
      BY <1>1, <2>2, ThreadsStay DEF driver, counts
    <2>6. ASSUME NEW t \in Callers, spurious = 0 \/ fails = 0, InPhase(t)
          PROVE  /\ call[t].pc \notin {"issue", "data", "busy"}
                 /\ call[t].pc = "down" => call[t].op = "write"
      <3>1. t = Boot /\ call[t].pc \in Active => call[t].op = "identify"
        BY DEF DInv, Holding
      <3>2. t \in Clients /\ call[t].pc \in Active => call[t].op \in {"read", "write"}
        BY DEF DInv, Holding, Active, Working
      <3>3. call[t].pc \in {"down", "busy"} => call[t].pc \in Active
        BY DEF Active, Working
      <3> QED
        BY <1>1, <1>7, <2>6, <3>1, <3>2, <3>3 DEF InPhase, Callers
    <2>7. ASSUME NEW t \in Callers, spurious = 0 \/ fails = 0 PROVE InPhase(t)'
      <3>1. InPhase(t) /\ call'[t] = call[t]
        BY <1>1, <1>3, <2>7 DEF driver
      <3> QED
        BY SMT, <1>1, <1>7, <2>2, <2>6, <2>7, <3>1 DEF InPhase
    <2>8. ASSUME NEW t \in Callers, spurious = 0 PROVE InTurn(t)'
      <3>1. InPhase(t) /\ InTurn(t) /\ call'[t] = call[t]
        BY <1>1, <1>3, <2>8 DEF driver
      <3>2. call[t].pc # "return"
        BY <1>1, <3>1 DEF InTurn, Still
      <3> QED
        BY <1>1, <2>2, <2>6, <2>8, <3>1, <3>2 DEF InTurn, Underway, driver
    <2>9. spurious = 0 \/ fails = 0 => want' = Settled'
      BY <1>1, <1>3, <1>7, <2>1, <2>2 DEF Settled
    <2>10. spurious = 0 \/ fails = 0 => (Free => ~ hw.drq)
      BY <1>1 DEF DInv, Contents
    <2>11. Contents'
      BY <1>1, <1>3, <2>2, <2>5, <2>7, <2>9, <2>10 DEF Contents, counts
    <2>12. Turns'
      BY <1>1, <1>3, <2>5, <2>8 DEF Turns, counts
    <2> QED
      BY <2>4, <2>5, <2>11, <2>12 DEF DInv
  <1> QED
    BY <1>2, <1>5, <1>6, <1>7

(* Every step of the threads, the handler and the controller. *)
LEMMA NextDInv == ASSUME IdeConstants, DInv, [Next]_vars PROVE DInv'
  <1>1. CASE ide_init
    BY <1>1, InitStep
  <1>2. CASE interrupt_handler
    BY <1>2, HandlerStep
  <1>3. CASE Ready
    BY <1>3, ReadyStep
  <1>4. CASE Fail
    BY <1>4, FailStep
  <1>5. CASE Spurious
    BY <1>5, SpuriousStep
  <1>6. ASSUME NEW t \in Callers, Step(t) PROVE DInv'
    BY <1>6, AcquireStep, SelectStep, IssueStep, DownStep, WaitStep, TransferStep, LeaveStep DEF Step
  <1>7. ASSUME NEW t \in Clients, NEW d \in Devs, NEW s \in Sectors,
               \/ ide_request(t, "read", d, s, Blank)
               \/ \E v \in Values : ide_request(t, "write", d, s, v)
        PROVE  DInv'
    BY <1>7, RequestStep
  <1>8. CASE UNCHANGED vars
    <2>1. UNCHANGED <<kind, is_ata, registered, lock, expecting_interrupt, sema, call, hw, disk, panic,
                      want, bad, ops, fails, spurious>>
      BY <1>8 DEF vars, driver, counts
    <2>2. Types' /\ Holding' /\ Selected' /\ Addressed'
      BY ZenonT(40), <2>1 DEF DInv, Types, Holding, Selected, Addressed, Up
    <2>3. Contents' /\ Turns'
      BY SMT, <2>1 DEF DInv, Contents, Turns, Free, Settled, InPhase, InTurn, Still, Underway, Up
    <2>4. Probe'
      BY <2>1, ProbeKept
    <2> QED
      BY <2>2, <2>3, <2>4 DEF DInv
  <1> QED
    BY <1>1, <1>2, <1>3, <1>4, <1>5, <1>6, <1>7, <1>8 DEF Next, Callers

(* The invariant gives the properties of the driver. *)
LEMMA DInvHonest == ASSUME IdeConstants, DInv PROVE DiskHonest
  <1>1. OwnCommand
    BY DEF DInv, Holding, Selected, OwnCommand, Active, Working, Callers
  <1>2. spurious = 0 \/ fails = 0 => ReadsLastWrite
    BY DEF DInv, Contents, ReadsLastWrite
  <1>3. spurious = 0 => CleanWhenFree
    <2> SUFFICES ASSUME spurious = 0, panic = NONE, lock = NONE, call[Boot].pc = "done"
                 PROVE  Still /\ ~ hw.drq
      BY DEF CleanWhenFree, Still
    <2>1. \A t \in Clients : call[t].pc \notin Active
      BY DEF DInv, Holding, IdeConstants
    <2>2. Free
      BY <2>1 DEF Free, Callers, Active, Working
    <2> QED
      BY <2>2 DEF DInv, Contents, Turns, Up
  <1>4. spurious = 0 => WriteAcknowledged
    <2> SUFFICES ASSUME spurious = 0, NEW t \in Clients, call[t].pc = "return", call[t].op = "write"
                 PROVE  disk[call[t].dev][call[t].sec] = call[t].val
      BY DEF WriteAcknowledged
    <2>1. Up
      <3>1. \A u \in Clients : call[u].pc = "data" => lock = u
        BY DEF DInv, Holding, Active, Working
      <3>2. lock = t
        BY DEF DInv, Holding, Active, Working
      <3> QED
        BY <3>1, <3>2 DEF DInv, Holding
    <2>2. InPhase(t) /\ InTurn(t) /\ want = Settled
      BY <2>1 DEF DInv, Contents, Turns, Callers
    <2>3. ~ hw.bsy
      BY <2>2 DEF InTurn, Still
    <2> QED
      BY <2>2, <2>3 DEF InPhase, Settled
  <1>5. DisksFound
    <2> SUFFICES ASSUME call[Boot].pc = "done", fails = 0
                 PROVE  registered = {d \in Devs : kind[d].sig /\ kind[d].ready /\ kind[d].drq /\ ~ kind[d].big
                                   /\ (kind[d].error = 1 \/ (d = 0 /\ kind[0].error = 129))
                                   /\ (d = 1 => kind[0].error # 129 \/ kind[0].ready)}
      BY DEF DisksFound
    <2>1. registered \subseteq Devs /\ \A d \in Devs : d \in registered <=> Usable(d)
      BY DEF DInv, Probe, Types
    <2>2. \A d \in Devs :
             Usable(d) <=> kind[d].sig /\ kind[d].ready /\ kind[d].drq /\ ~ kind[d].big
                           /\ (kind[d].error = 1 \/ (d = 0 /\ kind[0].error = 129))
                           /\ (d = 1 => kind[0].error # 129 \/ kind[0].ready)
      BY SMT DEF Usable, Found, check_device_type, MayHaveSlave, Answers, Devs
    <2> QED
      BY <2>1, <2>2
  <1> QED
    BY <1>1, <1>2, <1>3, <1>4, <1>5 DEF DiskHonest

(* In every run of the driver the probe registers exactly the disks there  *)
(* are, the command under way is the lock holder's, reads return what was  *)
(* last written unless a stray interrupt and a time-out come together,     *)
(* and, without stray interrupts, ide_write returns when the data are on   *)
(* the disk and nothing of a command is left behind (devices/ide.c).       *)
THEOREM DiskIsHonest == ASSUME IdeConstants PROVE Spec => []DiskHonest
  <1>1. Init => DInv
    BY InitDInv
  <1>2. DInv /\ [Next]_vars => DInv'
    BY NextDInv
  <1>3. DInv => DiskHonest
    BY DInvHonest
  <1> QED
    BY <1>1, <1>2, <1>3, PTL DEF Spec

=============================================================================
