--------------------------- MODULE PrintingProofs ---------------------------
(***************************************************************************)
(* That the characters of a call come out together, that the ASSERTs of    *)
(* console.c hold and that console_lock_depth is exact, for any number of  *)
(* threads, of calls, of nested calls and of characters.                   *)
(***************************************************************************)
EXTENDS Printing, TLAPS

(* Zenon proves most steps; the others, with arithmetic or records, name SMT. *)
USE Zenon

-----------------------------------------------------------------------------
(* The invariant *)

Places == {"acquire", "put", "release"}
Frames == [at : Places, left : Int, root : Nat]

TypeOK ==
    /\ use_console_lock \in BOOLEAN
    /\ console_lock \in Printers \cup {NONE}
    /\ console_lock_depth \in Nat
    /\ frames \in [Printers -> Seq(Frames)]
    /\ panicking \in Printers \cup {NONE}
    /\ out \in Seq(Nat)
    /\ calls \in Nat

(* The characters of call R come out together in O, so far, and nothing    *)
(* came after them; none came out yet; the characters of every call do.    *)
Together(o, r) == \A i, j \in DOMAIN o : i < j /\ o[i] = r => o[j] \in {0, r}
Absent(o, r) == \A i \in DOMAIN o : o[i] # r
Whole(o) == \A i, j, k \in DOMAIN o : i < j /\ j < k /\ o[i] = o[k] /\ o[i] # 0 => o[j] \in {0, o[i]}

(* Of the calls S of a thread only the innermost is not in its middle, and *)
(* all belong to the outermost one.                                        *)
Nested(s) ==
    \A k \in DOMAIN s : s[k].root = s[Len(s)].root /\ (k # Len(s) => s[k].at = "put")

(* Who has the lock has entered all its calls but the innermost, which it  *)
(* may be about to enter; who has not is about to enter its outermost one. *)
Holds(s, depth) ==
    s # <<>> /\ depth = IF s[Len(s)].at = "acquire" THEN Len(s) - 2 ELSE Len(s) - 1
Waits(s) == s # <<>> => Len(s) = 1 /\ s[1].at = "acquire"

Stacks ==
    panicking = NONE =>
        /\ console_lock = NONE => console_lock_depth = 0
        /\ \A t \in Printers :
            /\ Nested(frames[t])
            /\ console_lock = t => Holds(frames[t], console_lock_depth)
            /\ console_lock # t => Waits(frames[t])

(* The calls under way are different ones. *)
Roots ==
    panicking = NONE =>
        \A t, u \in Printers :
            t # u /\ frames[t] # <<>> /\ frames[u] # <<>> => Top(t).root # Top(u).root

(* Nothing is out of a call that waits for the lock, and nothing came      *)
(* after the characters of the one that has it, or of the panic.           *)
Output ==
    \A t \in Printers : panicking \in {NONE, t} /\ frames[t] # <<>> =>
        /\ Top(t).root \in 1 .. calls
        /\ panicking = NONE /\ console_lock # t => Absent(out, Top(t).root)
        /\ panicking = t \/ console_lock = t => Together(out, Top(t).root)

PrInv ==
    /\ TypeOK /\ Stacks /\ Roots /\ Output
    /\ use_console_lock = (panicking = NONE)
    /\ \A i \in DOMAIN out : out[i] <= calls
    /\ Whole(out)
    /\ failed = FALSE

-----------------------------------------------------------------------------
(* Output *)

(* The sequence with one more element. *)
LEMMA Appended ==
    ASSUME NEW S, NEW s \in Seq(S), NEW e \in S
    PROVE  /\ Append(s, e) \in Seq(S) /\ Append(s, e) # <<>>
           /\ Len(Append(s, e)) = Len(s) + 1
           /\ DOMAIN Append(s, e) = DOMAIN s \cup {Len(s) + 1}
           /\ \A i \in DOMAIN s : Append(s, e)[i] = s[i]
           /\ Append(s, e)[Len(s) + 1] = e
  BY SMT

(* A character of C keeps the output whole if nothing came after those     *)
(* before it; handlers print 0.                                            *)
LEMMA AppendWhole ==
    ASSUME NEW o \in Seq(Nat), NEW c \in Nat, Whole(o), c # 0 => Together(o, c)
    PROVE  Whole(Append(o, c))
  <1> DEFINE p == Append(o, c)
  <1> SUFFICES ASSUME NEW i \in DOMAIN p, NEW j \in DOMAIN p, NEW k \in DOMAIN p,
                      i < j, j < k, p[i] = p[k], p[i] # 0
               PROVE  p[j] \in {0, p[i]}
    BY DEF Whole
  <1>1. i \in DOMAIN o /\ j \in DOMAIN o /\ p[i] = o[i] /\ p[j] = o[j]
    BY SMT
  <1>2. CASE k \in DOMAIN o
    <2>1. p[k] = o[k]
      BY SMT, <1>2
    <2> QED  BY <1>1, <1>2, <2>1 DEF Whole
  <1>3. CASE k \notin DOMAIN o
    <2>1. p[k] = c
      BY SMT, <1>3
    <2>2. Together(o, c) /\ o[i] = c
      BY <1>1, <2>1
    <2> QED  BY <1>1, <2>2 DEF Together
  <1> QED  BY <1>2, <1>3

(* A character of the same call, or of a handler, changes nothing of that. *)
LEMMA AppendTogether ==
    ASSUME NEW o \in Seq(Nat), NEW r \in Nat, NEW c \in {0, r}, Together(o, r)
    PROVE  Together(Append(o, c), r)
  <1> DEFINE p == Append(o, c)
  <1> SUFFICES ASSUME NEW i \in DOMAIN p, NEW j \in DOMAIN p, i < j, p[i] = r
               PROVE  p[j] \in {0, r}
    BY DEF Together
  <1>1. i \in DOMAIN o /\ p[i] = o[i]
    BY SMT
  <1>2. CASE j \in DOMAIN o
    <2>1. p[j] = o[j]
      BY SMT, <1>2
    <2> QED  BY <1>1, <1>2, <2>1 DEF Together
  <1>3. CASE j \notin DOMAIN o
    <2>1. p[j] = c
      BY SMT, <1>3
    <2> QED  BY <2>1
  <1> QED  BY <1>2, <1>3

(* A character of another call neither. *)
LEMMA AppendAbsent ==
    ASSUME NEW o \in Seq(Nat), NEW r \in Nat, NEW c \in Nat, c # r, Absent(o, r)
    PROVE  Absent(Append(o, c), r)
  <1>1. /\ DOMAIN Append(o, c) = DOMAIN o \cup {Len(o) + 1}
        /\ \A i \in DOMAIN o : Append(o, c)[i] = o[i]
        /\ Append(o, c)[Len(o) + 1] = c
    BY SMT, Appended
  <1> QED  BY <1>1 DEF Absent

(* Nothing came after what is not there. *)
LEMMA AbsentTogether ==
    ASSUME NEW o, NEW r, Absent(o, r)
    PROVE  Together(o, r)
  BY DEF Absent, Together

(* The number of a new call is not in the output. *)
LEMMA NewAbsent ==
    ASSUME TypeOK, \A i \in DOMAIN out : out[i] <= calls
    PROVE  Absent(out, calls + 1)
  <1>1. \A i \in DOMAIN out : out[i] \in Nat
    BY SMT DEF TypeOK
  <1>2. calls \in Nat
    BY DEF TypeOK
  <1> QED  BY SMT, <1>1, <1>2 DEF Absent

-----------------------------------------------------------------------------
(* The calls of a thread *)

(* The innermost call of a thread replaced by F. *)
LEMMA TopSet ==
    ASSUME NEW S, NEW s \in Seq(S), s # <<>>, NEW f \in S, NEW r, r = [s EXCEPT ![Len(s)] = f]
    PROVE  /\ r \in Seq(S) /\ r # <<>> /\ Len(r) = Len(s)
           /\ DOMAIN r = DOMAIN s
           /\ \A k \in DOMAIN s : k # Len(s) => r[k] = s[k]
           /\ r[Len(r)] = f
  <1>1. Len(s) \in Nat /\ Len(s) # 0 /\ DOMAIN s = 1 .. Len(s)
    BY SMT
  <1> QED  BY SMT, <1>1

(* The calls of a thread when the innermost returns. *)
LEMMA Popped ==
    ASSUME NEW S, NEW s \in Seq(S), s # <<>>
    PROVE  LET r == SubSeq(s, 1, Len(s) - 1)
           IN  /\ r \in Seq(S) /\ Len(r) = Len(s) - 1
               /\ DOMAIN r \subseteq DOMAIN s
               /\ \A k \in DOMAIN r : r[k] = s[k] /\ k # Len(s)
               /\ r # <<>> => Len(r) \in DOMAIN r
  <1> DEFINE r == SubSeq(s, 1, Len(s) - 1)
  <1>1. Len(s) \in Nat /\ Len(s) # 0 /\ DOMAIN s = 1 .. Len(s)
    BY SMT
  <1>2. r \in Seq(S) /\ Len(r) = Len(s) - 1
    BY SMT, <1>1
  <1>3. DOMAIN r = 1 .. Len(r)
    BY SMT, <1>2
  <1>4. \A k \in 1 .. Len(s) - 1 : r[k] = s[k]
    BY SMT, <1>1
  <1> HIDE DEF r
  <1>5. DOMAIN r \subseteq DOMAIN s /\ \A k \in DOMAIN r : k # Len(s)
    BY SMT, <1>1, <1>2, <1>3
  <1>6. r # <<>> => Len(r) \in DOMAIN r
    BY SMT, <1>2
  <1> QED  BY <1>2, <1>3, <1>4, <1>5, <1>6 DEF r

(* A thread with calls under way has an innermost one. *)
LEMMA TopIs ==
    ASSUME TypeOK, NEW t \in Printers, frames[t] # <<>>
    PROVE  /\ frames[t] \in Seq(Frames) /\ Len(frames[t]) \in Nat \ {0}
           /\ Len(frames[t]) \in DOMAIN frames[t] /\ Top(t) \in Frames /\ Top(t).root \in Nat
  <1>1. frames[t] \in Seq(Frames)
    BY DEF TypeOK
  <1>2. Len(frames[t]) \in Nat \ {0} /\ Len(frames[t]) \in DOMAIN frames[t] /\ Top(t) \in Frames
    BY SMT, <1>1 DEF Top
  <1>3. Top(t).root \in Nat
    BY <1>2 DEF Frames
  <1> QED  BY <1>1, <1>2, <1>3

-----------------------------------------------------------------------------
(* The initial state and the steps *)

(* Nothing is printed and no call is under way at first (console_init). *)
LEMMA InitPrInv ==
    ASSUME PrintingConstants, Init
    PROVE  PrInv
  <1>1. TypeOK
    BY SMT DEF Init, TypeOK, console_init
  <1>2. DOMAIN out = {}
    BY SMT DEF Init
  <1>3. \A t \in Printers : frames[t] = <<>>
    BY DEF Init
  <1>4. \A t \in Printers : DOMAIN frames[t] = {}
    BY SMT, <1>3
  <1>5. \A t \in Printers : console_lock # t
    BY DEF Init, PrintingConstants
  <1>6. Stacks
    BY <1>3, <1>4, <1>5 DEF Stacks, Nested, Waits, Init
  <1> QED  BY <1>1, <1>2, <1>3, <1>6 DEF PrInv, Roots, Output, Whole, Init, console_init

(* A thread that is not waiting for the lock, or enters a nested call, has *)
(* it.                                                                     *)
LEMMA HasLock ==
    ASSUME PrInv, panicking = NONE, NEW t \in Printers, frames[t] # <<>>,
           Top(t).at # "acquire" \/ Len(frames[t]) # 1
    PROVE  console_lock = t
  <1> SUFFICES ASSUME console_lock # t PROVE FALSE
    OBVIOUS
  <1>1. Len(frames[t]) = 1 /\ frames[t][1].at = "acquire"
    BY DEF PrInv, Stacks, Waits
  <1> QED  BY <1>1 DEF Top

(* Threads whose calls keep their outermost call keep different ones. *)
LEMMA KeepsRoots ==
    ASSUME PrInv, NEW t \in Printers, panicking = NONE,
           \A u \in Printers : u # t => frames'[u] = frames[u],
           frames'[t] # <<>> => frames[t] # <<>> /\ Top(t)'.root = Top(t).root
    PROVE  Roots'
  <1> SUFFICES ASSUME NEW x \in Printers, NEW y \in Printers, x # y, frames'[x] # <<>>, frames'[y] # <<>>
               PROVE  Top(x)'.root # Top(y)'.root
    BY DEF Roots
  <1>1. \A u \in Printers : frames'[u] # <<>> => frames[u] # <<>> /\ Top(u)'.root = Top(u).root
    BY DEF Top
  <1> QED  BY <1>1 DEF PrInv, Roots

(* A call waits for the lock, or is nested in one that has it. *)
LEMMA CallStep ==
    ASSUME PrintingConstants, PrInv, NEW t \in Printers, Call(t)
    PROVE  PrInv'
  <1> DEFINE s == frames[t]
             f == [at |-> "acquire", left |-> NChars, root |-> IF s = <<>> THEN calls + 1 ELSE Top(t).root]
             r == Append(s, f)
  <1>1. /\ panicking = NONE /\ panicking' = NONE /\ calls' = calls + 1
        /\ UNCHANGED <<use_console_lock, console_lock, console_lock_depth, failed, out>>
        /\ s # <<>> => Top(t).at = "put"
    BY DEF Call
  <1>2. calls \in Nat /\ calls + 1 \in Nat /\ calls <= calls + 1 /\ s \in Seq(Frames) /\ Len(s) \in Nat
    BY SMT DEF PrInv, TypeOK
  <1>3. s # <<>> => Top(t).root \in Nat /\ Top(t).root <= calls /\ 1 <= Top(t).root
    <2>1. s # <<>> => Top(t).root \in 1 .. calls
      BY <1>1 DEF PrInv, Output
    <2> QED  BY SMT, <1>2, <2>1
  <1>4. f \in Frames /\ f.at = "acquire" /\ f.root = IF s = <<>> THEN calls + 1 ELSE Top(t).root
    <2>1. NChars \in Int
      BY SMT DEF PrintingConstants
    <2> QED  BY <1>2, <1>3, <2>1 DEF Frames, Places
  <1>5. frames' = [frames EXCEPT ![t] = r]
    BY <1>1 DEF Call
  <1>6. frames'[t] = r /\ \A u \in Printers : u # t => frames'[u] = frames[u]
    BY <1>5 DEF PrInv, TypeOK
  <1> HIDE DEF f
  <1>7. /\ r \in Seq(Frames) /\ r # <<>> /\ Len(r) = Len(s) + 1
        /\ DOMAIN r = DOMAIN s \cup {Len(r)}
        /\ \A k \in DOMAIN s : r[k] = s[k]
        /\ r[Len(r)] = f
    BY SMT, <1>2, <1>4
  <1> HIDE DEF r
  <1>8. Top(t)' = f
    BY <1>6, <1>7 DEF Top
  <1>9. TypeOK'
    BY <1>1, <1>2, <1>5, <1>7 DEF PrInv, TypeOK
  <1>10. Stacks'
    <2>1. Nested(frames'[t])
      <3>1. \A k \in DOMAIN s : s[k].at = "put" /\ s[k].root = f.root
        <4> SUFFICES ASSUME NEW k \in DOMAIN s PROVE s[k].at = "put" /\ s[k].root = f.root
          OBVIOUS
        <4>1. s # <<>>
          BY SMT
        <4>2. s[k].root = Top(t).root /\ (k # Len(s) => s[k].at = "put")
          BY <1>1 DEF PrInv, Stacks, Nested, Top
        <4> QED  BY <1>1, <1>4, <4>1, <4>2 DEF Top
      <3> QED  BY <1>6, <1>7, <3>1 DEF Nested
    <2>2. ASSUME console_lock = t PROVE Holds(frames'[t], console_lock_depth)
      <3>1. s # <<>> /\ console_lock_depth = Len(s) - 1
        BY <1>1, <2>2 DEF PrInv, Stacks, Holds, Top
      <3>2. console_lock_depth = Len(r) - 2
        BY SMT, <1>2, <1>7, <3>1
      <3> QED  BY <1>4, <1>6, <1>7, <3>1, <3>2 DEF Holds
    <2>3. ASSUME console_lock # t PROVE Waits(frames'[t])
      <3>1. s = <<>>
        BY <1>1, <2>3, HasLock
      <3>2. Len(s) + 1 = 1
        BY SMT, <3>1
      <3> QED  BY <1>4, <1>6, <1>7, <3>2 DEF Waits
    <2> QED  BY <1>1, <1>6, <2>1, <2>2, <2>3 DEF PrInv, Stacks
  <1>11. Roots'
    <2>1. CASE s # <<>>
      BY <1>1, <1>4, <1>6, <1>8, <2>1, KeepsRoots
    <2>2. CASE s = <<>>
      <3>1. \A u \in Printers : u # t /\ frames'[u] # <<>> => Top(u)'.root # f.root
        <4> SUFFICES ASSUME NEW u \in Printers, u # t, frames'[u] # <<>> PROVE Top(u)'.root # f.root
          OBVIOUS
        <4>1. Top(u)' = Top(u) /\ Top(u).root \in 1 .. calls
          BY <1>1, <1>6 DEF Top, PrInv, Output
        <4>2. Top(u).root # calls + 1
          BY SMT, <1>2, <4>1
        <4> QED  BY <1>4, <2>2, <4>1, <4>2
      <3>2. \A u \in Printers : u # t => Top(u)' = Top(u)
        BY <1>6 DEF Top
      <3> QED  BY <1>1, <1>6, <1>8, <3>1, <3>2 DEF PrInv, Roots
    <2> QED  BY <2>1, <2>2
  <1>12. Output'
    <2> SUFFICES ASSUME NEW u \in Printers, frames'[u] # <<>>
                 PROVE  /\ Top(u)'.root \in 1 .. calls'
                        /\ console_lock # u => Absent(out, Top(u)'.root)
                        /\ console_lock = u => Together(out, Top(u)'.root)
      BY <1>1 DEF Output, PrInv, TypeOK, PrintingConstants
    <2>1. CASE frames[u] # <<>> /\ Top(u)'.root = Top(u).root
      <3>1. /\ Top(u).root \in 1 .. calls
            /\ console_lock # u => Absent(out, Top(u).root)
            /\ console_lock = u => Together(out, Top(u).root)
        BY <1>1, <2>1 DEF PrInv, Output
      <3>2. Top(u).root \in 1 .. calls + 1
        BY SMT, <1>2, <3>1
      <3> QED  BY <1>1, <2>1, <3>1, <3>2
    <2>2. CASE u = t /\ s = <<>>
      <3>1. Top(u)'.root = calls + 1
        BY <1>4, <1>8, <2>2
      <3>2. calls + 1 \in 1 .. calls + 1
        BY SMT, <1>2
      <3>3. Absent(out, calls + 1) /\ Together(out, calls + 1)
        BY NewAbsent, AbsentTogether DEF PrInv
      <3> QED  BY <1>1, <3>1, <3>2, <3>3
    <2>3. u # t => Top(u)' = Top(u) /\ frames[u] # <<>>
      BY <1>6 DEF Top
    <2> QED  BY <1>4, <1>8, <2>1, <2>2, <2>3
  <1>13. \A i \in DOMAIN out' : out'[i] <= calls'
    <2>1. \A i \in DOMAIN out : out[i] \in Nat /\ out[i] <= calls
      <3>1. out \in Seq(Nat)
        BY DEF PrInv, TypeOK
      <3>2. \A i \in DOMAIN out : out[i] \in Nat
        BY SMT, <3>1
      <3> QED  BY <3>2 DEF PrInv
    <2> QED  BY SMT, <1>1, <1>2, <2>1
  <1> QED  BY <1>1, <1>9, <1>10, <1>11, <1>12, <1>13 DEF PrInv

(* The innermost call of T goes on, at AT, without returning. *)
LEMMA SetTopKeeps ==
    ASSUME PrInv, NEW t \in Printers, frames[t] # <<>>, NEW f \in Frames, f.root = Top(t).root, SetTop(t, f)
    PROVE  /\ frames' \in [Printers -> Seq(Frames)]
           /\ \A u \in Printers : u # t => frames'[u] = frames[u]
           /\ frames'[t] # <<>> /\ Len(frames'[t]) = Len(frames[t])
           /\ Top(t)' = f
           /\ Nested(frames[t]) => Nested(frames'[t])
  <1> DEFINE s == frames[t]
             r == [s EXCEPT ![Len(s)] = f]
  <1>1. frames \in [Printers -> Seq(Frames)] /\ s \in Seq(Frames) /\ s # <<>>
    BY DEF PrInv, TypeOK
  <1>2. /\ r \in Seq(Frames) /\ r # <<>> /\ Len(r) = Len(s)
        /\ DOMAIN r = DOMAIN s
        /\ \A k \in DOMAIN s : k # Len(s) => r[k] = s[k]
        /\ r[Len(r)] = f
    <2>1. r = [s EXCEPT ![Len(s)] = f]
      OBVIOUS
    <2> HIDE DEF s, r
    <2> QED  BY SMT, <1>1, <2>1, TopSet
  <1>3. frames' = [frames EXCEPT ![t] = r]
    BY DEF SetTop
  <1> HIDE DEF r
  <1>4. frames'[t] = r /\ \A u \in Printers : u # t => frames'[u] = frames[u]
    BY <1>1, <1>3
  <1>5. frames' \in [Printers -> Seq(Frames)]
    BY <1>1, <1>2, <1>3
  <1>6. Nested(s) => Nested(r)
    BY <1>2 DEF Nested, Top
  <1>7. Top(t)' = f
    BY <1>2, <1>4 DEF Top
  <1> QED  BY <1>2, <1>4, <1>5, <1>6, <1>7

(* Taking the lock, or entering a call nested in one that has it. *)
LEMMA AcquireStep ==
    ASSUME PrintingConstants, PrInv, NEW t \in Printers, acquire_console(t)
    PROVE  PrInv'
  <1> DEFINE f == [Top(t) EXCEPT !.at = "put"]
  <1>1. /\ panicking \in {NONE, t} /\ frames[t] # <<>> /\ Top(t).at = "acquire"
        /\ UNCHANGED <<use_console_lock, panicking, failed, out, calls>>
        /\ SetTop(t, f)
    BY DEF acquire_console, At
  <1>2. Top(t) \in Frames /\ Top(t).root \in Nat /\ Len(frames[t]) \in Nat
    BY <1>1, TopIs DEF PrInv
  <1>3. f \in Frames /\ f.root = Top(t).root /\ f.at = "put"
    BY SMT, <1>2 DEF Frames, Places
  <1> HIDE DEF f
  <1>4. /\ frames' \in [Printers -> Seq(Frames)]
        /\ \A u \in Printers : u # t => frames'[u] = frames[u]
        /\ frames'[t] # <<>> /\ Len(frames'[t]) = Len(frames[t])
        /\ Top(t)' = f
        /\ Nested(frames[t]) => Nested(frames'[t])
    BY <1>1, <1>3, SetTopKeeps
  <1>5. \A u \in Printers : u # t => Top(u)' = Top(u)
    BY <1>4 DEF Top
  <1>6. CASE panicking = NONE
    <2>1. /\ use_console_lock /\ console_lock \in {NONE, t}
          /\ console_lock' = t /\ console_lock_depth' = Deeper(t)
      BY <1>6 DEF acquire_console, PrInv
    <2>2. Holds(frames'[t], console_lock_depth') /\ console_lock_depth' \in Nat
      <3>1. console_lock_depth' = Len(frames'[t]) - 1 /\ console_lock_depth' \in Nat
        <4>1. CASE console_lock = t
          <5>1. console_lock_depth = Len(frames[t]) - 2 /\ console_lock_depth \in Nat
            BY <1>1, <1>6, <4>1 DEF PrInv, TypeOK, Stacks, Holds, Top
          <5>2. console_lock_depth' = console_lock_depth + 1
            BY <2>1, <4>1 DEF Deeper
          <5> QED  BY SMT, <1>2, <1>4, <5>1, <5>2
        <4>2. CASE console_lock = NONE /\ console_lock # t
          <5>1. console_lock_depth = 0 /\ Len(frames[t]) = 1
            BY <1>1, <1>6, <4>2 DEF PrInv, Stacks, Waits
          <5>2. console_lock_depth' = console_lock_depth
            BY <2>1, <4>2 DEF Deeper
          <5> QED  BY SMT, <1>4, <5>1, <5>2
        <4> QED  BY <2>1, <4>1, <4>2
      <3> QED  BY <1>3, <1>4, <3>1 DEF Holds, Top
    <2>3. TypeOK'
      BY <1>1, <1>4, <2>1, <2>2 DEF PrInv, TypeOK
    <2>4. Stacks'
      <3>1. \A u \in Printers : u # t => console_lock # u /\ console_lock' # u
        BY <2>1 DEF PrintingConstants
      <3>2. console_lock' # NONE
        BY <2>1 DEF PrintingConstants
      <3> QED  BY <1>1, <1>4, <1>6, <2>1, <2>2, <3>1, <3>2 DEF PrInv, Stacks
    <2>5. Roots'
      BY <1>1, <1>3, <1>4, <1>6, KeepsRoots
    <2>6. Output'
      <3> SUFFICES ASSUME NEW u \in Printers, frames'[u] # <<>>
                   PROVE  /\ Top(u)'.root \in 1 .. calls
                          /\ t # u => Absent(out, Top(u)'.root)
                          /\ t = u => Together(out, Top(u)'.root)
        BY <1>1, <1>6, <2>1 DEF Output, PrintingConstants
      <3>1. frames[u] # <<>> /\ Top(u)'.root = Top(u).root
        BY <1>1, <1>3, <1>4, <1>5
      <3>2. /\ Top(u).root \in 1 .. calls
            /\ console_lock # u => Absent(out, Top(u).root)
            /\ console_lock = u => Together(out, Top(u).root)
        BY <1>6, <3>1 DEF PrInv, Output
      <3>3. t # u => console_lock # u
        BY <2>1 DEF PrintingConstants
      <3> QED  BY <3>1, <3>2, <3>3, AbsentTogether
    <2> QED  BY <1>1, <2>3, <2>4, <2>5, <2>6 DEF PrInv
  <1>7. CASE panicking = t
    <2>1. panicking # NONE /\ UNCHANGED <<console_lock, console_lock_depth>>
      BY <1>7 DEF acquire_console, PrInv, PrintingConstants
    <2>2. TypeOK'
      BY <1>1, <1>4, <2>1 DEF PrInv, TypeOK
    <2>3. Output'
      BY <1>1, <1>3, <1>4, <1>7, <2>1 DEF PrInv, Output
    <2> QED  BY <1>1, <2>1, <2>2, <2>3 DEF PrInv, Stacks, Roots
  <1> QED  BY <1>1, <1>6, <1>7

(* A character goes out. *)
LEMMA PutStep ==
    ASSUME PrintingConstants, PrInv, NEW t \in Printers, putchar_have_lock(t)
    PROVE  PrInv'
  <1> DEFINE f == [Top(t) EXCEPT !.at = IF Top(t).left = 1 THEN "release" ELSE "put", !.left = @ - 1]
             c == Top(t).root
  <1>1. /\ panicking \in {NONE, t} /\ frames[t] # <<>> /\ Top(t).at = "put"
        /\ UNCHANGED <<use_console_lock, console_lock, console_lock_depth, panicking, calls>>
        /\ SetTop(t, f) /\ out' = Append(out, c)
        /\ failed' = (failed \/ (use_console_lock /\ console_lock # t))
    BY DEF putchar_have_lock, At
  <1>2. Top(t) \in Frames /\ Top(t).root \in Nat /\ Len(frames[t]) \in Nat
    BY <1>1, TopIs DEF PrInv
  <1>3. f \in Frames /\ f.root = c /\ f.at # "acquire"
    <2>1. \A g \in Frames : \A at \in Places : [g EXCEPT !.at = at] \in Frames
      BY SMT DEF Frames
    <2>2. \A g \in Frames : [g EXCEPT !.left = @ - 1] \in Frames
      BY SMT DEF Frames
    <2>3. f = [[Top(t) EXCEPT !.at = IF Top(t).left = 1 THEN "release" ELSE "put"] EXCEPT !.left = @ - 1]
      OBVIOUS
    <2>4. (IF Top(t).left = 1 THEN "release" ELSE "put") \in Places
      BY DEF Places
    <2>5. f \in Frames
      BY <1>2, <2>1, <2>2, <2>3, <2>4
    <2>6. f.root = c /\ f.at = IF Top(t).left = 1 THEN "release" ELSE "put"
      BY <1>2 DEF Frames
    <2> HIDE DEF f
    <2>7. f.at \in {"release", "put"}
      BY <2>6
    <2> QED  BY <2>5, <2>6, <2>7
  <1> HIDE DEF f
  <1>4. /\ frames' \in [Printers -> Seq(Frames)]
        /\ \A u \in Printers : u # t => frames'[u] = frames[u]
        /\ frames'[t] # <<>> /\ Len(frames'[t]) = Len(frames[t])
        /\ Top(t)' = f
        /\ Nested(frames[t]) => Nested(frames'[t])
    BY <1>1, <1>3, SetTopKeeps
  <1>5. \A u \in Printers : u # t => Top(u)' = Top(u)
    BY <1>4 DEF Top
  <1>6. out \in Seq(Nat) /\ out' \in Seq(Nat)
    BY SMT, <1>1, <1>2 DEF PrInv, TypeOK
  <1>7. TypeOK'
    BY <1>1, <1>4, <1>6 DEF PrInv, TypeOK
  <1>8. panicking = NONE => console_lock = t
    BY <1>1, HasLock
  <1>9. Together(out, c) /\ c \in 1 .. calls
    BY <1>1, <1>8 DEF PrInv, Output
  <1>10. failed' = FALSE
    BY <1>1, <1>8 DEF PrInv
  <1>11. Whole(out')
    BY <1>1, <1>2, <1>6, <1>9, AppendWhole DEF PrInv
  <1>12. Together(out', c)
    BY <1>1, <1>2, <1>6, <1>9, AppendTogether
  <1>13. \A i \in DOMAIN out' : out'[i] <= calls
    <2>1. /\ DOMAIN out' = DOMAIN out \cup {Len(out) + 1}
          /\ \A i \in DOMAIN out : out'[i] = out[i]
          /\ out'[Len(out) + 1] = c
      BY SMT, <1>1, <1>2, <1>6
    <2>2. c <= calls
      BY SMT, <1>9
    <2> QED  BY <2>1, <2>2 DEF PrInv
  <1>14. Stacks'
    <2> SUFFICES ASSUME panicking = NONE
                 PROVE  /\ console_lock = NONE => console_lock_depth = 0
                        /\ \A u \in Printers :
                            /\ Nested(frames'[u])
                            /\ console_lock = u => Holds(frames'[u], console_lock_depth)
                            /\ console_lock # u => Waits(frames'[u])
      BY <1>1 DEF Stacks
    <2>1. Holds(frames'[t], console_lock_depth)
      <3>1. console_lock_depth = Len(frames[t]) - 1
        BY <1>1, <1>8 DEF PrInv, Stacks, Holds, Top
      <3> QED  BY <1>3, <1>4, <3>1 DEF Holds, Top
    <2> QED  BY <1>4, <1>8, <2>1 DEF PrInv, Stacks
  <1>15. Roots'
    BY <1>1, <1>3, <1>4, KeepsRoots DEF Roots
  <1>16. Output'
    <2> SUFFICES ASSUME NEW u \in Printers, panicking \in {NONE, u}, frames'[u] # <<>>
                 PROVE  /\ Top(u)'.root \in 1 .. calls
                        /\ panicking = NONE /\ console_lock # u => Absent(out', Top(u)'.root)
                        /\ panicking = u \/ console_lock = u => Together(out', Top(u)'.root)
      BY <1>1 DEF Output
    <2>1. CASE u = t
      <3>1. Top(u)'.root = c
        BY <1>3, <1>4, <2>1
      <3> QED  BY <1>8, <1>9, <1>12, <2>1, <3>1
    <2>2. CASE u # t
      <3>1. panicking = NONE /\ console_lock = t /\ frames[u] # <<>> /\ Top(u)' = Top(u)
        BY <1>1, <1>4, <1>5, <1>8, <2>2
      <3>2. Top(u).root \in 1 .. calls /\ Absent(out, Top(u).root) /\ Top(u).root # c
        BY <1>1, <2>2, <3>1 DEF PrInv, Output, Roots
      <3>3. Top(u).root \in Nat
        BY <3>1, TopIs DEF PrInv
      <3>4. Absent(out', Top(u).root)
        BY <1>1, <1>2, <1>6, <3>2, <3>3, AppendAbsent
      <3> QED  BY <1>1, <2>2, <3>1, <3>2, <3>4 DEF PrintingConstants
    <2> QED  BY <2>1, <2>2
  <1> QED  BY <1>1, <1>7, <1>10, <1>11, <1>13, <1>14, <1>15, <1>16 DEF PrInv

(* A call returns; the outermost one gives the lock back. *)
LEMMA ReleaseStep ==
    ASSUME PrintingConstants, PrInv, NEW t \in Printers, release_console(t)
    PROVE  PrInv'
  <1> DEFINE s == frames[t]
             r == SubSeq(s, 1, Len(s) - 1)
  <1>1. /\ panicking \in {NONE, t} /\ s # <<>> /\ Top(t).at = "release"
        /\ UNCHANGED <<use_console_lock, panicking, out, calls>>
    BY DEF release_console, At
  <1>2. frames \in [Printers -> Seq(Frames)] /\ s \in Seq(Frames) /\ Len(s) \in Nat \ {0}
    BY <1>1, TopIs DEF PrInv, TypeOK
  <1>3. CASE panicking = t
    <2>1. panicking # NONE /\ UNCHANGED <<console_lock, console_lock_depth, failed>>
          /\ frames' = [frames EXCEPT ![t] = <<>>]
      BY <1>3 DEF release_console, PrInv, PrintingConstants
    <2>2. <<>> \in Seq(Frames)
      BY SMT
    <2>3. TypeOK'
      BY <1>1, <1>2, <2>1, <2>2 DEF PrInv, TypeOK
    <2>4. Output'
      BY <1>1, <1>2, <1>3, <2>1 DEF PrInv, Output
    <2> QED  BY <1>1, <2>1, <2>3, <2>4 DEF PrInv, Stacks, Roots
  <1>4. CASE panicking = NONE
    <2>1. console_lock = t /\ Release(t) /\ frames' = [frames EXCEPT ![t] = r]
      <3>1. console_lock = t
        BY <1>1, <1>4, HasLock
      <3>2. panicking # t
        BY <1>4 DEF PrintingConstants
      <3> QED  BY <1>4, <3>1, <3>2 DEF release_console, Return, PrInv
    <2>2. console_lock_depth = Len(s) - 1 /\ console_lock_depth \in Nat /\ Nested(s)
      BY <1>1, <1>4, <2>1 DEF PrInv, TypeOK, Stacks, Holds, Top
    <2>3. /\ r \in Seq(Frames) /\ Len(r) = Len(s) - 1
          /\ DOMAIN r \subseteq DOMAIN s
          /\ \A k \in DOMAIN r : r[k] = s[k] /\ k # Len(s)
          /\ r # <<>> => Len(r) \in DOMAIN r
      BY <1>1, <1>2, Popped
    <2> HIDE DEF r
    <2>4. frames'[t] = r /\ \A u \in Printers : u # t => frames'[u] = frames[u] /\ Top(u)' = Top(u)
      BY <1>2, <2>1 DEF Top
    <2>5. Nested(r) /\ (r # <<>> => r[Len(r)].root = Top(t).root /\ r[Len(r)].at = "put")
      <3>1. \A k \in DOMAIN r : r[k].root = Top(t).root /\ r[k].at = "put"
        BY <2>2, <2>3 DEF Nested, Top
      <3>2. \A k \in DOMAIN r : Len(r) \in DOMAIN r
        BY SMT, <2>3
      <3> QED  BY <2>3, <3>1, <3>2 DEF Nested
    <2>6. Roots'
      BY <1>1, <1>4, <2>4, <2>5, KeepsRoots DEF Top
    <2>7. failed' = FALSE
      BY <2>1 DEF Release, PrInv
    <2>8. CASE console_lock_depth > 0
      <3>1. console_lock_depth' = console_lock_depth - 1 /\ console_lock' = t
        BY <2>1, <2>8 DEF Release
      <3>2. r # <<>> /\ console_lock_depth' = Len(r) - 1 /\ console_lock_depth' \in Nat
        BY SMT, <1>2, <2>2, <2>3, <2>8, <3>1
      <3>3. TypeOK'
        BY <1>1, <1>2, <2>1, <2>3, <3>1, <3>2 DEF PrInv, TypeOK
      <3>4. Stacks'
        <4>1. Holds(frames'[t], console_lock_depth')
          BY <2>4, <2>5, <3>2 DEF Holds
        <4> QED  BY <1>1, <1>4, <2>1, <2>4, <2>5, <3>1, <4>1 DEF PrInv, Stacks, PrintingConstants
      <3>5. Output'
        <4> SUFFICES ASSUME NEW u \in Printers, frames'[u] # <<>>
                     PROVE  /\ Top(u)'.root \in 1 .. calls
                            /\ t # u => Absent(out, Top(u)'.root)
                            /\ t = u => Together(out, Top(u)'.root)
          BY <1>1, <1>4, <3>1 DEF Output, PrintingConstants
        <4>1. frames[u] # <<>> /\ Top(u)'.root = Top(u).root
          BY <1>1, <2>4, <2>5 DEF Top
        <4> QED  BY <1>4, <2>1, <4>1 DEF PrInv, Output
      <3> QED  BY <1>1, <2>6, <2>7, <3>3, <3>4, <3>5 DEF PrInv
    <2>9. CASE ~ (console_lock_depth > 0)
      <3>1. console_lock' = NONE /\ console_lock_depth' = console_lock_depth
        BY <2>1, <2>9 DEF Release
      <3>2. r = <<>> /\ console_lock_depth = 0
        BY SMT, <1>2, <2>2, <2>3, <2>9
      <3>3. TypeOK'
        BY <1>1, <1>2, <2>1, <2>3, <3>1 DEF PrInv, TypeOK
      <3>4. \A u \in Printers : console_lock' # u
        BY <3>1 DEF PrintingConstants
      <3>5. Stacks'
        <4>1. Waits(frames'[t]) /\ Nested(frames'[t])
          BY <2>4, <2>5, <3>2 DEF Waits
        <4>2. ASSUME NEW u \in Printers, u # t PROVE Waits(frames'[u]) /\ Nested(frames'[u])
          BY <1>4, <2>1, <2>4, <4>2 DEF PrInv, Stacks
        <4> QED  BY <3>1, <3>2, <3>4, <4>1, <4>2 DEF Stacks
      <3>6. Output'
        <4> SUFFICES ASSUME NEW u \in Printers, frames'[u] # <<>>
                     PROVE  Top(u)'.root \in 1 .. calls /\ Absent(out, Top(u)'.root)
          BY <1>1, <1>4, <3>4 DEF Output, PrintingConstants
        <4>1. u # t /\ frames[u] # <<>> /\ Top(u)' = Top(u)
          BY <2>4, <3>2
        <4> QED  BY <1>4, <2>1, <4>1 DEF PrInv, Output
      <3> QED  BY <1>1, <2>6, <2>7, <3>3, <3>5, <3>6 DEF PrInv
    <2> QED  BY <2>8, <2>9
  <1> QED  BY <1>1, <1>3, <1>4

(* A handler's character belongs to no call. *)
LEMMA HandlerStep ==
    ASSUME PrInv, FromHandler
    PROVE  PrInv'
  <1>1. out' = Append(out, 0)
        /\ UNCHANGED <<use_console_lock, console_lock, console_lock_depth, frames, panicking, failed, calls>>
    BY DEF FromHandler
  <1>2. out \in Seq(Nat) /\ out' \in Seq(Nat) /\ 0 \in Nat /\ calls \in Nat
    BY SMT, <1>1 DEF PrInv, TypeOK
  <1>3. TypeOK'
    BY <1>1, <1>2 DEF PrInv, TypeOK
  <1>4. Whole(out')
    BY <1>1, <1>2, AppendWhole DEF PrInv
  <1>5. \A i \in DOMAIN out' : out'[i] <= calls
    <2>1. /\ DOMAIN out' = DOMAIN out \cup {Len(out) + 1}
          /\ \A i \in DOMAIN out : out'[i] = out[i]
          /\ out'[Len(out) + 1] = 0
      BY SMT, <1>1, <1>2
    <2>2. 0 <= calls
      BY SMT, <1>2
    <2> QED  BY <2>1, <2>2 DEF PrInv
  <1>6. Output'
    <2> SUFFICES ASSUME NEW u \in Printers, panicking \in {NONE, u}, frames[u] # <<>>
                 PROVE  /\ Top(u).root \in 1 .. calls
                        /\ panicking = NONE /\ console_lock # u => Absent(out', Top(u).root)
                        /\ panicking = u \/ console_lock = u => Together(out', Top(u).root)
      BY <1>1 DEF Output, Top
    <2>1. Top(u).root \in Nat
      BY TopIs DEF PrInv
    <2>2. /\ Top(u).root \in 1 .. calls
          /\ panicking = NONE /\ console_lock # u => Absent(out, Top(u).root)
          /\ panicking = u \/ console_lock = u => Together(out, Top(u).root)
      BY DEF PrInv, Output
    <2>3. Top(u).root # 0
      BY SMT, <2>2
    <2>4. Absent(out, Top(u).root) => Absent(out', Top(u).root)
      BY <1>1, <1>2, <2>1, <2>3, AppendAbsent
    <2>5. Together(out, Top(u).root) => Together(out', Top(u).root)
      BY <1>1, <1>2, <2>1, AppendTogether
    <2> QED  BY <2>2, <2>4, <2>5
  <1>7. Stacks' /\ Roots'
    BY <1>1 DEF PrInv, Stacks, Roots, Top
  <1> QED  BY <1>1, <1>3, <1>4, <1>5, <1>6, <1>7 DEF PrInv

(* From a panic on there is its message only. *)
LEMMA PanicStep ==
    ASSUME PrintingConstants, PrInv, NEW t \in Printers, debug_panic(t)
    PROVE  PrInv'
  <1> DEFINE s == frames[t]
             f == [at |-> "acquire", left |-> NChars, root |-> calls + 1]
             r == Append(s, f)
  <1>1. /\ panicking' = t /\ panicking' # NONE /\ use_console_lock' = FALSE /\ calls' = calls + 1
        /\ UNCHANGED <<console_lock, console_lock_depth, failed, out>>
        /\ frames' = [frames EXCEPT ![t] = r]
    BY DEF debug_panic, PrintingConstants
  <1>2. /\ calls \in Nat /\ calls + 1 \in Nat /\ calls + 1 \in 1 .. calls + 1
        /\ s \in Seq(Frames) /\ NChars \in Int
    BY SMT DEF PrInv, TypeOK, PrintingConstants
  <1>3. f \in Frames /\ f.root = calls + 1
    BY <1>2 DEF Frames, Places
  <1> HIDE DEF f
  <1>4. r \in Seq(Frames) /\ r[Len(r)] = f
    BY SMT, <1>2, <1>3
  <1> HIDE DEF r
  <1>5. Top(t)'.root = calls + 1
    BY <1>1, <1>3, <1>4 DEF Top, PrInv, TypeOK
  <1>6. TypeOK'
    BY <1>1, <1>2, <1>4 DEF PrInv, TypeOK
  <1>7. Together(out, calls + 1)
    BY NewAbsent, AbsentTogether DEF PrInv
  <1>8. Output'
    BY <1>1, <1>2, <1>5, <1>7 DEF Output
  <1>9. \A i \in DOMAIN out : out[i] <= calls + 1
    <2>1. \A i \in DOMAIN out : out[i] \in Nat /\ out[i] <= calls
      <3>1. out \in Seq(Nat)
        BY DEF PrInv, TypeOK
      <3>2. \A i \in DOMAIN out : out[i] \in Nat
        BY SMT, <3>1
      <3> QED  BY <3>2 DEF PrInv
    <2> QED  BY SMT, <1>2, <2>1
  <1> QED  BY <1>1, <1>6, <1>8, <1>9 DEF PrInv, Stacks, Roots

(* Every step keeps the invariant. *)
LEMMA NextPrInv ==
    ASSUME PrintingConstants, PrInv, [Next]_vars
    PROVE  PrInv'
  <1>1. ASSUME NEW t \in Printers, Call(t) PROVE PrInv'
    BY <1>1, CallStep
  <1>2. ASSUME NEW t \in Printers, acquire_console(t) PROVE PrInv'
    BY <1>2, AcquireStep
  <1>3. ASSUME NEW t \in Printers, putchar_have_lock(t) PROVE PrInv'
    BY <1>3, PutStep
  <1>4. ASSUME NEW t \in Printers, release_console(t) PROVE PrInv'
    BY <1>4, ReleaseStep
  <1>5. ASSUME NEW t \in Printers, debug_panic(t) PROVE PrInv'
    BY <1>5, PanicStep
  <1>6. CASE FromHandler
    BY <1>6, HandlerStep
  <1>7. CASE UNCHANGED vars
    BY <1>7 DEF vars, PrInv, TypeOK, Stacks, Roots, Output, Top
  <1> QED  BY <1>1, <1>2, <1>3, <1>4, <1>5, <1>6, <1>7 DEF Next

-----------------------------------------------------------------------------
(* The theorem *)

INSTANCE FiniteSetTheorems

(* Counted one by one, the calls of the holder that have the lock. *)
LEMMA DepthCounts ==
    ASSUME PrInv
    PROVE  DepthExact
  <1> SUFFICES ASSUME panicking = NONE, console_lock # NONE
               PROVE  LET s == frames[console_lock]
                      IN  console_lock_depth = Cardinality({k \in DOMAIN s : s[k].at # "acquire"}) - 1
    BY DEF DepthExact, PrInv, Stacks
  <1> DEFINE s == frames[console_lock]
             inside == {k \in DOMAIN s : s[k].at # "acquire"}
  <1>1. console_lock \in Printers /\ s \in Seq(Frames) /\ Nested(s)
        /\ Holds(s, console_lock_depth) /\ console_lock_depth \in Nat
    BY DEF PrInv, TypeOK, Stacks
  <1>2. DOMAIN s = 1 .. Len(s) /\ Len(s) \in Nat /\ Len(s) # 0
    BY SMT, <1>1 DEF Holds
  <1> HIDE DEF s
  <1>3. PICK n \in Nat : n = console_lock_depth + 1
    BY SMT, <1>1
  <1>4. inside = 1 .. n
    <2>1. CASE s[Len(s)].at = "acquire"
      <3>1. console_lock_depth = Len(s) - 2
        BY <1>1, <2>1 DEF Holds
      <3>2. inside = DOMAIN s \ {Len(s)}
        BY <1>1, <2>1 DEF Nested
      <3>3. 1 .. n = (1 .. Len(s)) \ {Len(s)}
        BY SMT, <1>1, <1>2, <1>3, <3>1
      <3> QED  BY <1>2, <3>2, <3>3
    <2>2. CASE s[Len(s)].at # "acquire"
      <3>1. console_lock_depth = Len(s) - 1
        BY <1>1, <2>2 DEF Holds
      <3>2. inside = DOMAIN s
        BY <1>1, <2>2 DEF Nested
      <3>3. n = Len(s)
        BY SMT, <1>1, <1>2, <1>3, <3>1
      <3> QED  BY <1>2, <3>2, <3>3
    <2> QED  BY <2>1, <2>2
  <1> HIDE DEF inside
  <1>5. Cardinality(1 .. n) = n
    <2>1. Cardinality(1 .. n) = IF 1 > n THEN 0 ELSE n - 1 + 1
      BY SMT, FS_Interval
    <2> QED  BY SMT, <2>1
  <1>6. console_lock_depth = n - 1
    BY SMT, <1>1, <1>3
  <1> QED  BY <1>4, <1>5, <1>6 DEF s, inside

(* However threads, nested calls, interrupt handlers and a panic           *)
(* interleave: the characters of a call come out together,                 *)
(* console_lock_depth is what the nesting says, and the ASSERTs of         *)
(* putchar_have_lock and lock_release hold.                                *)
THEOREM CallsPrintWhole ==
    ASSUME PrintingConstants
    PROVE  Spec => [](PrintsWhole /\ DepthExact /\ PrintAsserts)
  <1>1. Init => PrInv
    BY InitPrInv
  <1>2. PrInv /\ [Next]_vars => PrInv'
    BY NextPrInv
  <1>3. PrInv => PrintsWhole /\ DepthExact /\ PrintAsserts
    BY DepthCounts DEF PrInv, Whole, PrintsWhole, PrintAsserts
  <1> QED  BY <1>1, <1>2, <1>3, PTL DEF Spec
=============================================================================
