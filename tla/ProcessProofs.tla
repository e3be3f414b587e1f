--------------------------- MODULE ProcessProofs ----------------------------
(***************************************************************************)
(* Proofs about module Process, for any number of processes, pages and     *)
(* blocks and any clients: a process that is loading has its parent and    *)
(* its entry there, and exec() reads the outcome of its own child's load,  *)
(* whichever processes start, wait, end, fault or are freed meanwhile.     *)
(***************************************************************************)
EXTENDS Process, TLAPS

(* Zenon proves most steps; the others, with arithmetic or records, name SMT. *)
USE Zenon

-----------------------------------------------------------------------------
(* The inductive invariant *)

head == list_head(all_list)
tail == list_end(all_list)

LoadOps == {"load", "find_load", "load_child", "load_store", "load_sema"}

(* The initial thread never comes as far as leaving all_list. *)
MainOps == {"user", "find_wait", "wait_store", "wait_block", "wait_take", "find_exit",
            "exit_child"}

Live(p) == thread[p].status \in {"READY", "BLOCKED"}
Kids(p) == Range(thread[p].children)
Linked  == {thread[p].page : p \in {q \in Procs : Alive(q)}}

Structs == [status : {"NONE", "READY", "BLOCKED", "DYING"}, page : Pages \cup {NULL},
            parent_tid : Procs, parent_waiting : BOOLEAN, children : Seq(Blocks),
            success_sema : Nat]

Entry == [tid : Procs, exit_code : {-1} \cup Statuses, load_success : BOOLEAN]

HistOK == /\ DOMAIN hist = {"passed", "returned", "loaded", "faulted"}
          /\ hist.loaded \in [Procs -> BOOLEAN \cup {NULL}]

Types ==
    /\ heap \in Heaps
    /\ thread \in [Procs -> Structs]
    /\ child \in [Blocks -> Entry \cup {NULL}]
    /\ frame \in [Procs -> Frames]
    /\ HistOK

(* A process has a page of its own from thread_create to its last switch. *)
Owning ==
    /\ \A p \in Procs : /\ thread[p].page # NULL <=> Live(p)
                        /\ ~ Live(p) => frame[p].op = "user" /\ thread[p].children = <<>>
    /\ \A p, q \in Procs : thread[p].page = thread[q].page /\ thread[p].page # NULL => p = q

(* A fault in the initial thread ends in the ASSERT of exit(), since it    *)
(* finds itself as its parent and has no entry for itself.                 *)
MainFits(f) ==
    /\ f.op \in MainOps
    /\ f.op = "find_exit" => f.tid = Main /\ f.at = thread[Main].page
    /\ f.op = "exit_child" => f.thr = thread[Main].page

MainStays == Live(Main) /\ thread[Main].parent_tid = Main /\ MainFits(frame[Main])

(* The elements L of all_list, of which m is the first, point at each      *)
(* other.                                                                  *)
Chain(h, L, m) ==
    /\ m \in L /\ h.next[head] = m /\ h.prev[m] = head
    /\ \A g \in L : /\ h.prev[g] \in L \cup {head} /\ h.next[h.prev[g]] = g
                    /\ h.next[g] \in L \cup {tail} /\ h.prev[h.next[g]] = g
    /\ h.prev[tail] \in L /\ h.next[h.prev[tail]] = tail

Chained ==
    /\ Chain(heap, Linked, thread[Main].page)
    /\ \A g \in Pages \ FreePages : heap.next[g] \in Pages \cup {tail}
    /\ \A p \in Procs : /\ frame[p].op \in Walks => frame[p].at \in Pages \cup {tail}
                        /\ frame[p].op = "exit_child" => frame[p].thr \in Pages

(* The entries of children: no two processes share one, no two are for one *)
(* tid, and they are for processes that exist or existed.                  *)
Family ==
    /\ \A p \in Procs : \A b \in Kids(p) : child[b] # NULL
    /\ \A p, q \in Procs : p # q => Kids(p) \cap Kids(q) = {}
    /\ \A b, d \in Blocks :
          child[b] # NULL /\ child[d] # NULL /\ child[b].tid = child[d].tid => b = d
    /\ \A b \in Blocks :
          child[b] # NULL => thread[child[b].tid].status # "NONE" /\ child[b].tid # Main

(* A process p in load(), with the frame f: its parent q waits in exec()   *)
(* for it alone, or is the initial thread.                                 *)
LoadFits(p, q, f) ==
    /\ f.op = "find_load" => f.tid = q
    /\ f.op \in {"load_child", "load_store", "load_sema"} => f.thr = thread[q].page
    /\ f.op = "load_store" => /\ f.cld \in Kids(q) /\ f.cld \in Blocks
                              /\ child[f.cld].tid = p
    /\ f.op # "load" => hist.loaded[p] = f.ok
    /\ f.op = "load_sema" =>
          \A b \in Blocks : child[b] # NULL /\ child[b].tid = p =>
                               child[b].load_success = hist.loaded[p]

LoadOK(p, q) ==
    /\ p # Main /\ p # q
    /\ \E b \in Kids(q) : child[b].tid = p
    /\ q # Main => /\ frame[q].op = "exec_sema" /\ frame[q].tid = p
                   /\ thread[q].success_sema = 0
    /\ LoadFits(p, q, frame[p])

Loading ==
    \A p, q \in Procs : frame[p].op \in LoadOps /\ thread[p].parent_tid = q => LoadOK(p, q)

(* What exec() is about to read is what its child's load() has left. *)
Reported(q, u) ==
    /\ u \in Procs /\ frame[u].op \notin LoadOps
    /\ \E b \in Kids(q) : child[b].tid = u /\ child[b].load_success = hist.loaded[u]

Executing ==
    \A q \in Procs \ {Main} :
       /\ thread[q].success_sema \in {0, 1}
       /\ thread[q].success_sema = 1 => frame[q].op = "exec_sema"
       /\ frame[q].op = "exec_check" \/ thread[q].success_sema = 1 => Reported(q, frame[q].tid)

PInv == Types /\ Owning /\ MainStays /\ Chained /\ Family /\ Loading /\ Executing

-----------------------------------------------------------------------------
(* Facts about the operators *)

(* The head and the tail of all_list, NULL, pages, entries: all different. *)
LEMMA Ends ==
    /\ head # tail /\ head \notin Pages /\ tail \notin Pages /\ head # NULL /\ tail # NULL
    /\ NULL \notin Pages /\ NULL \notin Blocks /\ NULL \notin Procs /\ Main \in Procs
    /\ Elems = Pages \cup {head, tail}
    /\ NULL \notin Entry
  BY ProcessAssumption DEF head, tail, list_head, list_end, Elems, Entry

(* The least of a set of indices is one of them: see LeastIndex. *)
Least == \A S \in SUBSET Nat : S # {} => Min(S) \in S

(* thread_get_child_elem returns an entry for the tid, if the list has one. *)
LEMMA ChildElem ==
    ASSUME Least, NEW lst \in Seq(Blocks), NEW tid
    PROVE  LET r == thread_get_child_elem(lst, tid)
           IN  \/ /\ r = NULL
                  /\ \A b \in Range(lst) : child[b] = NULL \/ child[b].tid # tid
               \/ /\ r \in Range(lst) /\ r \in Blocks /\ r # NULL
                  /\ child[r] # NULL /\ child[r].tid = tid
  <1> DEFINE found == {i \in DOMAIN lst : child[lst[i]] # NULL /\ child[lst[i]].tid = tid}
  <1>1. /\ DOMAIN lst \subseteq Nat /\ \A i \in DOMAIN lst : lst[i] \in Blocks
        /\ Range(lst) = {lst[i] : i \in DOMAIN lst}
    BY SMT DEF Range
  <1>2. CASE found = {}
    BY <1>1, <1>2 DEF thread_get_child_elem
  <1>3. CASE found # {}
    <2>1. Min(found) \in found
      BY <1>1, <1>3 DEF Least
    <2>2. thread_get_child_elem(lst, tid) = lst[Min(found)]
      BY <1>3 DEF thread_get_child_elem
    <2> HIDE DEF found
    <2>3. Min(found) \in DOMAIN lst /\ child[lst[Min(found)]] # NULL
          /\ child[lst[Min(found)]].tid = tid
      BY <2>1 DEF found
    <2> QED
      BY <1>1, <2>2, <2>3, Ends
  <1> QED
    BY <1>2, <1>3

(* The owner of a page is unique. *)
LEMMA OwnerOf ==
    ASSUME PInv, NEW g \in Pages \ FreePages
    PROVE  /\ Owner(g) \in Procs /\ thread[Owner(g)].page = g /\ Live(Owner(g))
           /\ \A p \in Procs : thread[p].page = g => p = Owner(g)
  <1>1. PICK p \in Procs : thread[p].page = g
    BY DEF FreePages
  <1>2. Owner(g) \in Procs /\ thread[Owner(g)].page = g
    BY <1>1 DEF Owner
  <1> QED
    BY <1>2, Ends DEF PInv, Owning

-----------------------------------------------------------------------------
(* Inserting and removing elements *)

(* list_push_back of an element that is not in the chain adds it at the end. *)
LEMMA PushChain ==
    ASSUME NEW h \in Heaps, NEW L \in SUBSET Pages, NEW m, Chain(h, L, m), NEW g \in Pages \ L
    PROVE  LET k == list_push_back(h, all_list, g)
           IN  /\ k \in Heaps /\ Chain(k, L \cup {g}, m)
               /\ k.next[g] = tail
               /\ \A e \in Pages : e # g => k.next[e] \in {h.next[e], g}
  <1> DEFINE k == list_push_back(h, all_list, g)
             p == h.prev[tail]
  <1>1. /\ h.next \in [Elems -> Elems \cup {NULL}] /\ h.prev \in [Elems -> Elems \cup {NULL}]
        /\ p \in L /\ g \in Elems /\ p \in Elems /\ tail \in Elems /\ head \in Elems
        /\ L \subseteq Elems
    BY Ends DEF Heaps, Chain
  <1>2. /\ k.next = [h.next EXCEPT ![g] = tail, ![p] = g]
        /\ k.prev = [h.prev EXCEPT ![g] = p, ![tail] = g]
        /\ k = [next |-> k.next, prev |-> k.prev]
    BY DEF list_push_back, list_insert, tail
  <1> HIDE DEF k
  <1>3. k \in Heaps
    BY SMT, <1>1, <1>2 DEF Heaps
  <1>4. g # p /\ g # tail /\ g # head /\ p # tail /\ p # head
    BY <1>1, Ends
  <1>5. /\ k.next[g] = tail /\ k.next[p] = g /\ k.prev[g] = p /\ k.prev[tail] = g
        /\ \A e \in Elems : e \notin {g, p} => k.next[e] = h.next[e]
        /\ \A e \in Elems : e \notin {g, tail} => k.prev[e] = h.prev[e]
    BY <1>1, <1>2, <1>4
  <1>6. m \in L /\ k.next[head] = m /\ k.prev[m] = head
    BY <1>1, <1>4, <1>5, Ends DEF Chain
  <1>7. ASSUME NEW e \in L
        PROVE  /\ k.prev[e] \in L \cup {head} /\ k.next[k.prev[e]] = e
               /\ k.next[e] \in L \cup {g, tail} /\ k.prev[k.next[e]] = e
    <2>1. /\ h.prev[e] \in L \cup {head} /\ h.next[h.prev[e]] = e
          /\ h.next[e] \in L \cup {tail} /\ h.prev[h.next[e]] = e /\ h.next[p] = tail
      BY DEF Chain
    <2>2. e # g /\ e # tail /\ e # head /\ k.prev[e] = h.prev[e] /\ e \in Elems
      BY SMT, <1>1, <1>5, Ends
    <2>3. h.prev[e] # p /\ h.prev[e] # g
      BY <1>4, <2>1, <2>2
    <2>4. k.next[k.prev[e]] = e
      BY SMT, <1>1, <1>5, <2>1, <2>2, <2>3
    <2>5. CASE e = p
      BY <1>5, <2>1, <2>2, <2>4, <2>5
    <2>6. CASE e # p
      <3>1. k.next[e] = h.next[e] /\ h.next[e] # tail /\ h.next[e] # g
        BY <1>1, <1>5, <2>1, <2>2, <2>6, Ends
      <3> QED
        BY <1>1, <1>5, <2>1, <2>2, <2>4, <3>1
    <2> QED
      BY <2>5, <2>6
  <1>8. Chain(k, L \cup {g}, m)
    BY <1>1, <1>5, <1>6, <1>7 DEF Chain
  <1>9. \A e \in Pages : e # g => k.next[e] \in {h.next[e], g}
    BY <1>5, Ends
  <1> QED
    BY <1>3, <1>5, <1>8, <1>9 DEF k

(* list_remove of an element other than the first closes the chain over it. *)
LEMMA RemoveChain ==
    ASSUME NEW h \in Heaps, NEW L \in SUBSET Pages, NEW m, Chain(h, L, m), NEW g \in L, g # m
    PROVE  LET k == list_remove(h, g)
           IN  /\ k \in Heaps /\ Chain(k, L \ {g}, m)
               /\ \A e \in Pages : k.next[e] \in {h.next[e], h.next[g]}
  <1> DEFINE k == list_remove(h, g)
             p == h.prev[g]
             n == h.next[g]
  <1>1. /\ h.next \in [Elems -> Elems \cup {NULL}] /\ h.prev \in [Elems -> Elems \cup {NULL}]
        /\ p \in L \cup {head} /\ n \in L \cup {tail} /\ h.next[p] = g /\ h.prev[n] = g
        /\ g \in Elems /\ p \in Elems /\ n \in Elems /\ tail \in Elems /\ head \in Elems
        /\ L \subseteq Elems
    BY Ends DEF Heaps, Chain
  <1>2. /\ k.next = [h.next EXCEPT ![p] = n]
        /\ k.prev = [h.prev EXCEPT ![n] = p]
        /\ k = [next |-> k.next, prev |-> k.prev]
    BY DEF list_remove
  <1> HIDE DEF k
  <1>3. k \in Heaps
    BY SMT, <1>1, <1>2 DEF Heaps
  <1>4. /\ k.next[p] = n /\ k.prev[n] = p
        /\ \A e \in Elems : e # p => k.next[e] = h.next[e]
        /\ \A e \in Elems : e # n => k.prev[e] = h.prev[e]
    BY <1>1, <1>2
  <1>5. p # head /\ p \in L /\ (p = g <=> n = g)
    BY <1>1, Ends DEF Chain
  <1>6. m \in L \ {g} /\ k.next[head] = m /\ k.prev[m] = head
    BY SMT, <1>1, <1>4, <1>5, Ends DEF Chain
  <1>7. ASSUME NEW e \in L \ {g}
        PROVE  /\ k.prev[e] \in (L \ {g}) \cup {head} /\ k.next[k.prev[e]] = e
               /\ k.next[e] \in (L \ {g}) \cup {tail} /\ k.prev[k.next[e]] = e
    <2>1. /\ h.prev[e] \in L \cup {head} /\ h.next[h.prev[e]] = e
          /\ h.next[e] \in L \cup {tail} /\ h.prev[h.next[e]] = e /\ e \in Elems
      BY <1>1 DEF Chain
    <2>2. k.prev[e] \in (L \ {g}) \cup {head} /\ k.next[k.prev[e]] = e
      <3>1. CASE e = n
        BY <1>4, <1>5, <3>1
      <3>2. CASE e # n
        <4>1. k.prev[e] = h.prev[e] /\ h.prev[e] # g /\ h.prev[e] # p
          BY <1>1, <1>4, <2>1, <3>2
        <4> QED
          BY SMT, <1>1, <1>4, <2>1, <4>1, Ends
      <3> QED
        BY <3>1, <3>2
    <2>3. k.next[e] \in (L \ {g}) \cup {tail} /\ k.prev[k.next[e]] = e
      <3>1. CASE e = p
        BY <1>1, <1>4, <1>5, <3>1
      <3>2. CASE e # p
        <4>1. k.next[e] = h.next[e] /\ h.next[e] # g /\ h.next[e] # n
          BY <1>1, <1>4, <2>1, <3>2
        <4> QED
          BY SMT, <1>1, <1>4, <2>1, <4>1, Ends
      <3> QED
        BY <3>1, <3>2
    <2> QED
      BY <2>2, <2>3
  <1>8. k.prev[tail] \in L \ {g} /\ k.next[k.prev[tail]] = tail
    <2>1. h.prev[tail] \in L /\ h.next[h.prev[tail]] = tail
      BY DEF Chain
    <2>2. CASE n = tail
      BY <1>4, <1>5, <2>2, Ends
    <2>3. CASE n # tail
      <3>1. k.prev[tail] = h.prev[tail] /\ h.prev[tail] # g /\ h.prev[tail] # p
        BY SMT, <1>1, <1>4, <2>1, <2>3, Ends
      <3> QED
        BY <1>1, <1>4, <2>1, <3>1
    <2> QED
      BY <2>2, <2>3
  <1>9. Chain(k, L \ {g}, m)
    BY <1>6, <1>7, <1>8 DEF Chain
  <1>10. \A e \in Pages : k.next[e] \in {h.next[e], h.next[g]}
    BY <1>4, Ends
  <1> QED
    BY <1>3, <1>9, <1>10 DEF k

-----------------------------------------------------------------------------
(* Steps outside exec() and load() *)

(* Nobody starts or ends, or is counted in success_sema. *)
SameThreads ==
    /\ thread' \in [Procs -> Structs]
    /\ \A q \in Procs : /\ thread'[q].page = thread[q].page
                        /\ thread'[q].parent_tid = thread[q].parent_tid
                        /\ thread'[q].children = thread[q].children
                        /\ thread'[q].success_sema = thread[q].success_sema
                        /\ Live(q)' <=> Live(q)
                        /\ thread'[q].status = "NONE" <=> thread[q].status = "NONE"

(* Only exit codes change. *)
SameEntries ==
    /\ child' \in [Blocks -> Entry \cup {NULL}]
    /\ \A b \in Blocks : /\ child'[b] = NULL <=> child[b] = NULL
                         /\ child[b] # NULL => /\ child'[b].tid = child[b].tid
                                               /\ child'[b].load_success = child[b].load_success

Plain(p, f) ==
    /\ Live(p) /\ f \in Frames /\ frame' = [frame EXCEPT ![p] = f]
    /\ heap' = heap /\ SameThreads /\ SameEntries
    /\ HistOK' /\ hist'.loaded = hist.loaded
    /\ frame[p].op \notin {"exec_sema", "exit_free"}
    /\ f.op \notin LoadOps \cup {"exec_check", "exit_free"}
    /\ f.op \in Walks => f.at \in Pages \cup {tail}
    /\ f.op = "exit_child" => f.thr \in Pages
    /\ p = Main => MainFits(f)

(* What is read of the other processes stays. *)
LEMMA Blocks1 ==
    ASSUME PInv, NEW p \in Procs
    PROVE  /\ thread[p] \in Structs /\ frame[p] \in Frames
           /\ thread[p].children \in Seq(Blocks) /\ Kids(p) \subseteq Blocks
           /\ \A b \in Kids(p) : child[b] # NULL /\ child[b] \in Entry
           /\ thread[p].parent_tid \in Procs
  <1>1. thread[p] \in Structs /\ frame[p] \in Frames
    BY DEF PInv, Types
  <1>2. thread[p].children \in Seq(Blocks) /\ thread[p].parent_tid \in Procs
    BY <1>1 DEF Structs
  <1>3. Kids(p) \subseteq Blocks
    BY SMT, <1>2 DEF Kids, Range
  <1>4. \A b \in Kids(p) : child[b] # NULL /\ child[b] \in Entry
    BY <1>3 DEF PInv, Family, Types
  <1> QED
    BY <1>1, <1>2, <1>3, <1>4

(* A plain step keeps the invariant. *)
LEMMA PlainKeeps ==
    ASSUME PInv, NEW p \in Procs, NEW f, Plain(p, f)
    PROVE  PInv'
  <1>1. /\ frame \in [Procs -> Frames] /\ frame' \in [Procs -> Frames] /\ frame'[p] = f
        /\ \A q \in Procs : q # p => frame'[q] = frame[q]
    BY DEF PInv, Types, Plain
  <1>2. heap' = heap /\ SameThreads /\ SameEntries /\ hist'.loaded = hist.loaded /\ HistOK'
    BY DEF Plain
  <1>3. Types'
    BY <1>1, <1>2 DEF Types, PInv, SameThreads, SameEntries
  <1>4. \A q \in Procs : /\ Live(q)' <=> Live(q)
                         /\ Alive(q)' <=> Alive(q)
                         /\ Kids(q)' = Kids(q)
    BY <1>1, <1>2 DEF SameThreads, Alive, Live, Kids, Plain
  <1>5. Owning'
    BY SMT, <1>1, <1>2, <1>4 DEF Owning, PInv, SameThreads, Plain
  <1>6. MainStays'
    BY <1>1, <1>2, <1>4, Ends DEF MainStays, MainFits, PInv, SameThreads, Plain
  <1>7. Chained'
    <2>1. Linked' = Linked
      BY <1>2, <1>4 DEF Linked, SameThreads
    <2>2. FreePages' = FreePages
      BY <1>2 DEF FreePages, SameThreads
    <2>3. thread'[Main].page = thread[Main].page
      BY <1>2, Ends DEF SameThreads
    <2> QED
      BY SMT, <1>1, <1>2, <2>1, <2>2, <2>3 DEF Chained, Chain, PInv, Plain
  <1>8. Family'
    <2>1. \A b \in Blocks : child[b] # NULL => child[b].tid \in Procs
      BY DEF PInv, Types, Entry
    <2>2. \A q \in Procs : \A b \in Kids(q) : child'[b] # NULL
      BY <1>2, Blocks1 DEF SameEntries
    <2>3. \A b \in Blocks : child'[b] # NULL => child[b] # NULL /\ child'[b].tid = child[b].tid
      BY <1>2 DEF SameEntries
    <2> QED
      BY SMT, <1>2, <1>4, <2>1, <2>2, <2>3 DEF Family, PInv, SameThreads
  <1>9. Loading'
    <2> SUFFICES ASSUME NEW r \in Procs, NEW q \in Procs, frame'[r].op \in LoadOps,
                        thread'[r].parent_tid = q
                 PROVE  LoadOK(r, q)'
      BY DEF Loading
    <2>1. r # p /\ frame'[r] = frame[r] /\ frame[r].op \in LoadOps /\ thread[r].parent_tid = q
      BY <1>1, <1>2 DEF Plain, SameThreads
    <2>2. LoadOK(r, q)
      BY <2>1 DEF PInv, Loading
    <2>3. q # Main => frame'[q] = frame[q]
      BY <1>1, <2>2 DEF Plain, LoadOK
    <2>4. \E b \in Kids(q) : child'[b].tid = r
      BY <1>2, <2>2, Blocks1 DEF SameEntries, LoadOK
    <2>5. LoadFits(r, q, frame[r])'
      <3>1. \A b \in Kids(q) : b \in Blocks /\ child[b] # NULL
        BY Blocks1
      <3> QED
        BY SMT, <1>2, <1>4, <2>1, <2>2, <3>1 DEF LoadOK, LoadFits, SameThreads, SameEntries
    <2> QED
      BY <1>2, <1>4, <2>2, <2>3, <2>4, <2>5 DEF SameThreads, LoadOK
  <1>10. Executing'
    <2> SUFFICES ASSUME NEW q \in Procs \ {Main}
                 PROVE  /\ thread'[q].success_sema \in {0, 1}
                        /\ thread'[q].success_sema = 1 => frame'[q].op = "exec_sema"
                        /\ frame'[q].op = "exec_check" \/ thread'[q].success_sema = 1 =>
                              Reported(q, frame[q].tid)'
      BY DEF Executing
    <2>1. /\ thread[q].success_sema \in {0, 1} /\ thread'[q].success_sema = thread[q].success_sema
          /\ thread[q].success_sema = 1 => frame[q].op = "exec_sema"
          /\ frame[q].op = "exec_check" \/ thread[q].success_sema = 1 => Reported(q, frame[q].tid)
      BY <1>2 DEF Executing, PInv, SameThreads
    <2>2. CASE q = p
      BY <1>1, <2>1, <2>2 DEF Plain
    <2>3. CASE q # p
      <3>1. frame'[q] = frame[q]
        BY <1>1, <2>3
      <3>2. Reported(q, frame[q].tid) => Reported(q, frame[q].tid)'
        <4> SUFFICES ASSUME Reported(q, frame[q].tid) PROVE Reported(q, frame[q].tid)'
          OBVIOUS
        <4>1. frame[q].tid \in Procs /\ frame'[frame[q].tid].op \notin LoadOps
          BY <1>1 DEF Reported, Plain
        <4>2. \E b \in Kids(q) : /\ child'[b].tid = frame[q].tid
                                 /\ child'[b].load_success = hist.loaded[frame[q].tid]
          BY <1>2, Blocks1 DEF Reported, SameEntries
        <4> QED
          BY <1>2, <1>4, <3>1, <4>1, <4>2 DEF Reported
      <3> QED
        BY <2>1, <3>1, <3>2
    <2> QED
      BY <2>2, <2>3
  <1> QED
    BY <1>3, <1>5, <1>6, <1>7, <1>8, <1>9, <1>10 DEF PInv

(* Nothing moves in a panic. *)
LEMMA PanicKeeps ==
    ASSUME PInv, NEW why, Panic(why)
    PROVE  PInv'
  <1>1. heap' = heap /\ thread' = thread /\ child' = child /\ frame' = frame /\ hist' = hist
    BY DEF Panic
  <1>2. Types' /\ Owning' /\ MainStays'
    BY <1>1 DEF PInv, Types, HistOK, Owning, MainStays, MainFits, Live
  <1>3. Chained'
    BY SMT, <1>1 DEF PInv, Chained, Chain, Linked, Alive, FreePages
  <1>4. Family' /\ Loading' /\ Executing'
    BY SMT, <1>1 DEF PInv, Family, Kids, Loading, LoadOK, LoadFits, Executing, Reported
  <1> QED
    BY <1>2, <1>3, <1>4 DEF PInv

(* What is unchanged is unchanged in the sense of a plain step. *)
LEMMA Same ==
    ASSUME PInv
    PROVE  /\ thread' = thread => SameThreads
           /\ child' = child => SameEntries
           /\ hist' = hist => HistOK' /\ hist'.loaded = hist.loaded
  BY DEF PInv, Types, HistOK, SameThreads, SameEntries, Live

(* The first element of all_list is the initial thread's. *)
LEMMA First ==
    ASSUME PInv
    PROVE  /\ list_begin(heap, all_list) = thread[Main].page /\ thread[Main].page \in Pages
           /\ list_begin(heap, all_list) \in Elems /\ Main \in Procs /\ Live(Main)
           /\ thread[Main].parent_tid = Main
  <1>1. thread[Main] \in Structs /\ Live(Main) /\ thread[Main].page # NULL
        /\ thread[Main].parent_tid = Main
    BY Ends DEF PInv, Types, MainStays, Owning
  <1>2. thread[Main].page \in Pages
    BY <1>1 DEF Structs
  <1> QED
    BY <1>1, <1>2, Ends DEF PInv, Chained, Chain, list_begin, head

(* The frames that begin in Frame(), Seek() and InUser. *)
LEMMA FrameOK ==
    ASSUME NEW op \in Ops, NEW tid \in Procs \cup {NULL}
    PROVE  /\ Frame(op, tid) \in Frames /\ Frame(op, tid).op = op /\ Frame(op, tid).tid = tid
           /\ InUser \in Frames /\ InUser.op = "user"
  BY ZenonT(40) DEF Frame, InUser, Frames, Ops, Walks

(* A walk begins at the first element of all_list. *)
LEMMA SeekOK ==
    ASSUME PInv, NEW p \in Procs, NEW op \in Walks, NEW tid \in Procs \cup {NULL},
           NEW val \in {-1} \cup Statuses, Seek(p, op, tid, val)
    PROVE  \E f \in Frames : /\ frame' = [frame EXCEPT ![p] = f] /\ f.op = op /\ f.tid = tid
                             /\ f.at = thread[Main].page /\ f.at \in Pages
  <1> DEFINE f == [Frame(op, tid) EXCEPT !.at = list_begin(heap, all_list), !.val = val]
  <1>1. frame' = [frame EXCEPT ![p] = f]
    BY DEF Seek, Goto
  <1>2. f \in Frames /\ f.op = op /\ f.tid = tid /\ f.at = list_begin(heap, all_list)
    BY First DEF Frame, InUser, Frames, Ops, Walks
  <1> QED
    BY <1>1, <1>2, First

(* A page fault in the kernel leads to exit(-1), wherever it happens. *)
LEMMA FaultStep ==
    ASSUME PInv, NEW p \in Procs, Live(p), frame[p].op \notin {"exec_sema", "exit_free"},
           page_fault(p)
    PROVE  PInv'
  <1>1. CASE frame[p].op \in {"find_wake", "exit_wake"}
    BY <1>1, PanicKeeps DEF page_fault
  <1>2. CASE frame[p].op \notin {"find_wake", "exit_wake"}
    <2>1. /\ Seek(p, "find_exit", thread[p].parent_tid, -1)
          /\ heap' = heap /\ thread' = thread /\ child' = child
          /\ hist' = [hist EXCEPT !.faulted = @ \cup {p},
                                  !.passed[p] = IF @ = NULL THEN -1 ELSE @]
      BY <1>2 DEF page_fault
    <2>2. PICK f \in Frames : /\ frame' = [frame EXCEPT ![p] = f] /\ f.op = "find_exit"
                              /\ f.tid = thread[p].parent_tid
                              /\ f.at = thread[Main].page /\ f.at \in Pages
      BY SMT, <2>1, SeekOK, Blocks1 DEF Walks
    <2>3. HistOK' /\ hist'.loaded = hist.loaded
      BY <2>1 DEF PInv, Types, HistOK
    <2>4. p = Main => MainFits(f)
      BY <2>2, First DEF MainFits, MainOps
    <2>5. Plain(p, f)
      BY <2>1, <2>2, <2>3, <2>4, Same DEF Plain, LoadOps
    <2> QED
      BY <2>5, PlainKeeps
  <1> QED
    BY <1>1, <1>2

(* The other steps outside exec() and load(). *)
LEMMA CallSteps ==
    ASSUME PInv, NEW p \in Procs, ExecNoMemory(p) \/ Exit(p) \/ Kill(p) \/ \E c \in Procs : Wait(p, c)
    PROVE  PInv'
  <1>1. /\ Live(p) /\ frame[p].op = "user" /\ p # Main /\ heap' = heap /\ thread' = thread
        /\ child' = child /\ HistOK' /\ hist'.loaded = hist.loaded
    BY DEF ExecNoMemory, Exit, Kill, Wait, At, Live, PInv, Types, HistOK
  <1>2. CASE ExecNoMemory(p)
    <2>1. frame' = [frame EXCEPT ![p] = Frame("exec_sema", NULL)]
      BY <1>2 DEF ExecNoMemory, Goto
    <2>2. Plain(p, Frame("exec_sema", NULL))
      BY SMT, <1>1, <2>1, Same, FrameOK DEF Plain, LoadOps, Ops, Walks
    <2> QED
      BY <2>2, PlainKeeps
  <1>3. CASE Kill(p)
    <2>1. frame' = [frame EXCEPT ![p] = Frame("process_exit", NULL)]
      BY <1>3 DEF Kill, Goto
    <2>2. Plain(p, Frame("process_exit", NULL))
      BY SMT, <1>1, <2>1, Same, FrameOK DEF Plain, LoadOps, Ops, Walks
    <2> QED
      BY <2>2, PlainKeeps
  <1>4. CASE Exit(p) \/ \E c \in Procs : Wait(p, c)
    <2>1. PICK op \in {"find_exit", "find_wait"}, tid \in Procs, val \in {-1} \cup Statuses :
             Seek(p, op, tid, val)
      BY <1>4, Blocks1 DEF Exit, Wait
    <2>2. PICK f \in Frames : frame' = [frame EXCEPT ![p] = f] /\ f.op = op /\ f.at \in Pages
      BY SMT, <2>1, SeekOK DEF Walks
    <2>3. Plain(p, f)
      BY <1>1, <2>1, <2>2, Same DEF Plain, LoadOps
    <2> QED
      BY <2>3, PlainKeeps
  <1> QED
    BY <1>2, <1>3, <1>4

(* exec() reads load_success and returns: a plain step. *)
LEMMA ExecCheckStep ==
    ASSUME PInv, NEW p \in Procs, ExecCheck(p)
    PROVE  PInv'
  <1>1. Live(p) /\ frame[p].op = "exec_check" /\ p # Main
    BY DEF ExecCheck, At, Live, PInv, MainStays, MainFits, MainOps
  <1>2. CASE page_fault(p)
    BY <1>1, <1>2, FaultStep
  <1>3. CASE Goto(p, InUser) /\ UNCHANGED <<heap, thread, child, panic, hist>>
    <2>1. Plain(p, InUser)
      BY <1>1, <1>3, Same, FrameOK DEF Plain, Goto, LoadOps, Ops, Walks
    <2> QED
      BY <2>1, PlainKeeps
  <1> QED
    BY <1>2, <1>3 DEF ExecCheck

(* start_process() enters the program, or exits after a failed load. *)
LEMMA StartStep ==
    ASSUME PInv, NEW p \in Procs, StartProcess(p)
    PROVE  PInv'
  <1> DEFINE f == IF frame[p].ok THEN InUser ELSE Frame("process_exit", NULL)
  <1>1. /\ Live(p) /\ frame[p].op = "start_process" /\ p # Main
        /\ frame' = [frame EXCEPT ![p] = f]
        /\ heap' = heap /\ thread' = thread /\ child' = child /\ HistOK'
        /\ hist'.loaded = hist.loaded
    BY DEF StartProcess, Goto, At, Live, PInv, MainStays, MainFits, MainOps, Types, HistOK
  <1>2. f \in Frames /\ f.op \in {"user", "process_exit"}
    BY FrameOK DEF Ops
  <1> HIDE DEF f
  <1>3. Plain(p, f)
    BY <1>1, <1>2, Same DEF Plain, LoadOps, Walks
  <1> QED
    BY <1>3, PlainKeeps

(* process_wait() sets parent_waiting, and blocks or goes on. *)
LEMMA WaitSteps ==
    ASSUME PInv, NEW p \in Procs, WaitStore(p) \/ WaitBlock(p)
    PROVE  PInv'
  <1>1. CASE WaitStore(p)
    <2> DEFINE f == [frame[p] EXCEPT !.op = "wait_block"]
               g == frame[p].thr
    <2>1. /\ Live(p) /\ frame[p].op = "wait_store" /\ frame' = [frame EXCEPT ![p] = f]
          /\ heap' = heap /\ child' = child /\ hist' = hist
          /\ thread' = IF g \in FreePages THEN thread
                       ELSE [thread EXCEPT ![Owner(g)].parent_waiting = TRUE]
      BY <1>1 DEF WaitStore, Goto, At, Live
    <2>2. f \in Frames /\ f.op = "wait_block"
      BY SMT, Blocks1 DEF Frames, Ops
    <2> HIDE DEF f
    <2>3. SameThreads
      <3>1. \A q \in Procs : thread[q] \in Structs
        BY DEF PInv, Types
      <3>2. CASE g \in FreePages
        BY <2>1, <3>2, Same
      <3>3. CASE g \notin FreePages
        <4>1. \A q \in Procs : thread'[q] = thread[q]
                              \/ thread'[q] = [thread[q] EXCEPT !.parent_waiting = TRUE]
          BY <2>1, <3>3 DEF PInv, Types
        <4>2. DOMAIN thread' = Procs /\ thread' = [q \in Procs |-> thread'[q]]
          BY <2>1, <3>3 DEF PInv, Types
        <4>3. \A q \in Procs : thread'[q] \in Structs
          <5>1. \A r \in Structs : [r EXCEPT !.parent_waiting = TRUE] \in Structs
            BY DEF Structs
          <5> QED
            BY ZenonT(40), <3>1, <4>1, <5>1
        <4> QED
          BY SMT, <3>1, <4>1, <4>2, <4>3 DEF SameThreads, Live, Structs
      <3> QED
        BY <3>2, <3>3
    <2>4. p = Main => MainFits(f)
      BY <2>2 DEF MainFits, MainOps
    <2>5. Plain(p, f)
      BY <2>1, <2>2, <2>3, <2>4, Same DEF Plain, LoadOps, Walks
    <2> QED
      BY <2>5, PlainKeeps
  <1>2. CASE WaitBlock(p)
    <2> DEFINE f == Frame("wait_take", frame[p].tid)
    <2>1. /\ Live(p) /\ frame[p].op = "wait_block" /\ frame' = [frame EXCEPT ![p] = f]
          /\ heap' = heap /\ child' = child /\ hist' = hist
          /\ thread' = [thread EXCEPT ![p].status = "BLOCKED"]
      BY <1>2 DEF WaitBlock, Goto, At, Live
    <2>2. f \in Frames /\ f.op = "wait_take"
      <3>1. frame[p].tid \in Procs \cup {NULL}
        BY Blocks1 DEF Frames
      <3> QED
        BY <3>1, FrameOK DEF Ops
    <2> HIDE DEF f
    <2>3. SameThreads
      BY SMT, <2>1 DEF SameThreads, Live, PInv, Types, Structs
    <2>4. p = Main => MainFits(f)
      BY <2>2 DEF MainFits, MainOps
    <2>5. Plain(p, f)
      BY <2>1, <2>2, <2>3, <2>4, Same DEF Plain, LoadOps, Walks
    <2> QED
      BY <2>5, PlainKeeps
  <1> QED
    BY <1>1, <1>2

(* Storing an exit code in an entry that is there changes nothing else. *)
LEMMA CodeStored ==
    ASSUME PInv, NEW b, NEW v \in {-1} \cup Statuses, ~ (b \in Blocks /\ child[b] = NULL),
           child' = [child EXCEPT ![b].exit_code = v]
    PROVE  SameEntries
  <1>1. /\ \A d \in Blocks : child'[d] = IF d = b THEN [child[d] EXCEPT !.exit_code = v] ELSE child[d]
        /\ child' = [d \in Blocks |-> child'[d]]
    BY DEF PInv, Types
  <1>2. \A d \in Blocks : child[d] = NULL \/ child[d] \in Entry
    BY DEF PInv, Types
  <1>3. ASSUME NEW d \in Blocks
        PROVE  /\ child'[d] \in Entry \cup {NULL}
               /\ child'[d] = NULL <=> child[d] = NULL
               /\ child[d] # NULL => /\ child'[d].tid = child[d].tid
                                     /\ child'[d].load_success = child[d].load_success
    <2>1. CASE d # b
      BY <1>1, <1>2, <2>1
    <2>2. CASE d = b
      <3>1. child[d] \in Entry /\ child[d] # NULL /\ child'[d] = [child[d] EXCEPT !.exit_code = v]
        BY <1>1, <1>2, <2>2
      <3>2. child'[d] \in Entry /\ child'[d].tid = child[d].tid
            /\ child'[d].load_success = child[d].load_success
        BY SMT, <3>1 DEF Entry
      <3> QED
        BY <3>1, <3>2, Ends
    <2> QED
      BY <2>1, <2>2
  <1> QED
    BY <1>1, <1>3 DEF SameEntries

(* process_wait() takes the exit code from the entry. *)
LEMMA WaitTakeStep ==
    ASSUME Least, PInv, NEW p \in Procs, WaitTake(p)
    PROVE  PInv'
  <1> DEFINE b == thread_get_child_elem(thread[p].children, frame[p].tid)
  <1>1. /\ Live(p) /\ frame[p].op = "wait_take" /\ frame' = [frame EXCEPT ![p] = InUser]
        /\ heap' = heap /\ thread' = thread
        /\ child' = [child EXCEPT ![b].exit_code = -1]
    BY DEF WaitTake, Goto, At, Live
  <1>2. HistOK' /\ hist'.loaded = hist.loaded
    BY DEF WaitTake, PInv, Types, HistOK
  <1>3. ~ (b \in Blocks /\ child[b] = NULL)
    BY ChildElem, Blocks1, Ends
  <1> HIDE DEF b
  <1>4. SameEntries
    BY <1>1, <1>3, CodeStored
  <1>5. Plain(p, InUser)
    BY <1>1, <1>2, <1>4, Same, FrameOK DEF Plain, LoadOps, MainFits, MainOps, Ops, Walks
  <1> QED
    BY <1>5, PlainKeeps

(* exit() looks for its entry in its parent's list. *)
LEMMA ExitChildStep ==
    ASSUME Least, PInv, NEW p \in Procs, ExitChild(p)
    PROVE  PInv'
  <1>1. Live(p) /\ frame[p].op = "exit_child"
    BY DEF ExitChild, At, Live
  <1>2. CASE frame[p].thr \in FreePages
    BY <1>1, <1>2, FaultStep DEF ExitChild
  <1>3. CASE frame[p].thr \notin FreePages
    <2> DEFINE c == thread_get_child_elem(thread[Owner(frame[p].thr)].children, p)
    <2>1. CASE c = NULL
      BY <1>3, <2>1, PanicKeeps DEF ExitChild
    <2>2. CASE c # NULL
      <3> DEFINE f == [frame[p] EXCEPT !.op = "exit_store", !.cld = c]
      <3>1. /\ frame' = [frame EXCEPT ![p] = f]
            /\ heap' = heap /\ thread' = thread /\ child' = child /\ hist' = hist
        BY <1>3, <2>2 DEF ExitChild, Goto
      <3>2. frame[p] \in Frames
        BY Blocks1
      <3>3. frame[p].thr \in Pages
        BY <1>1 DEF PInv, Chained
      <3>4. Owner(frame[p].thr) \in Procs
        BY <1>3, <3>3, OwnerOf
      <3>5. c \in Blocks /\ child[c] # NULL /\ child[c].tid = p
        BY <2>2, <3>4, Blocks1, ChildElem
      <3> HIDE DEF c
      <3>6. f \in Frames /\ f.op = "exit_store"
        BY ZenonT(40), <3>2, <3>5 DEF Frames, Ops
      <3> HIDE DEF f
      <3>7. p # Main
        BY <3>5 DEF PInv, Family
      <3>8. Plain(p, f)
        BY <1>1, <3>1, <3>6, <3>7, Same DEF Plain, LoadOps, Walks
      <3> QED
        BY <3>8, PlainKeeps
    <2> QED
      BY <2>1, <2>2
  <1> QED
    BY <1>2, <1>3

(* exit() stores the exit code in the entry. *)
LEMMA ExitStoreStep ==
    ASSUME PInv, NEW p \in Procs, ExitStore(p)
    PROVE  PInv'
  <1>1. Live(p) /\ frame[p].op = "exit_store" /\ p # Main
    BY DEF ExitStore, At, Live, PInv, MainStays, MainFits, MainOps
  <1>2. CASE Panic("malloc")
    BY <1>2, PanicKeeps
  <1>3. CASE ~ Panic("malloc")
    <2>1. /\ frame' = [frame EXCEPT ![p] = Frame("process_exit", NULL)]
          /\ heap' = heap /\ thread' = thread /\ hist' = hist
      BY <1>3 DEF ExitStore, Goto
    <2>2. \/ child' = child
          \/ /\ child' = [child EXCEPT ![frame[p].cld].exit_code = frame[p].val]
             /\ frame[p].cld \notin FreeBlocks
      BY <1>3 DEF ExitStore
    <2>3. frame[p].val \in {-1} \cup Statuses
      BY Blocks1 DEF Frames
    <2>4. SameEntries
      BY <2>2, <2>3, Same, CodeStored DEF FreeBlocks
    <2>5. Plain(p, Frame("process_exit", NULL))
      BY SMT, <1>1, <2>1, <2>4, Same, FrameOK DEF Plain, LoadOps, Ops, Walks
    <2> QED
      BY <2>5, PlainKeeps
  <1> QED
    BY <1>2, <1>3

(* process_exit() looks for its parent if that waits, or goes on to leave. *)
LEMMA ProcessExitStep ==
    ASSUME PInv, NEW p \in Procs, ProcessExit(p)
    PROVE  PInv'
  <1>1. /\ Live(p) /\ frame[p].op = "process_exit" /\ p # Main
        /\ heap' = heap /\ thread' = thread /\ child' = child /\ hist' = hist
    BY DEF ProcessExit, At, Live, PInv, MainStays, MainFits, MainOps
  <1>2. CASE thread[p].parent_waiting
    <2>1. PICK f \in Frames : /\ frame' = [frame EXCEPT ![p] = f] /\ f.op = "find_wake"
                              /\ f.at \in Pages
      BY SMT, <1>2, SeekOK, Blocks1 DEF ProcessExit, Walks
    <2>2. Plain(p, f)
      BY <1>1, <2>1, Same DEF Plain, LoadOps
    <2> QED
      BY <2>2, PlainKeeps
  <1>3. CASE ~ thread[p].parent_waiting
    <2>1. frame' = [frame EXCEPT ![p] = Frame("exit_unlink", NULL)]
      BY <1>3 DEF ProcessExit, Goto
    <2>2. Plain(p, Frame("exit_unlink", NULL))
      BY SMT, <1>1, <2>1, Same, FrameOK DEF Plain, LoadOps, Ops, Walks
    <2> QED
      BY <2>2, PlainKeeps
  <1> QED
    BY <1>2, <1>3

(* The parent that waits is unblocked. *)
LEMMA ExitWakeStep ==
    ASSUME PInv, NEW p \in Procs, ExitWake(p)
    PROVE  PInv'
  <1> DEFINE q == Owner(frame[p].thr)
  <1>1. Live(p) /\ frame[p].op = "exit_wake" /\ p # Main
    BY DEF ExitWake, At, Live, PInv, MainStays, MainFits, MainOps
  <1>2. CASE Panic("thread_unblock")
    BY <1>2, PanicKeeps
  <1>3. CASE ~ Panic("thread_unblock")
    <2>1. /\ frame' = [frame EXCEPT ![p] = Frame("exit_unlink", NULL)]
          /\ heap' = heap /\ child' = child /\ hist' = hist
          /\ thread[q].status = "BLOCKED" /\ thread' = [thread EXCEPT ![q].status = "READY"]
      BY <1>3 DEF ExitWake, Goto
    <2> HIDE DEF q
    <2>2. SameThreads
      <3>1. \A r \in Structs : [r EXCEPT !.status = "READY"] \in Structs
        BY DEF Structs
      <3>2. \A r \in Procs : thread[r] \in Structs
        BY DEF PInv, Types
      <3>3. /\ \A r \in Procs : thread'[r] = IF r = q THEN [thread[r] EXCEPT !.status = "READY"]
                                            ELSE thread[r]
            /\ thread' = [r \in Procs |-> thread'[r]]
        BY <2>1 DEF PInv, Types
      <3>4. \A r \in Procs : thread'[r] \in Structs
        BY <3>1, <3>2, <3>3
      <3>5. ASSUME NEW r \in Procs
            PROVE  /\ thread'[r].page = thread[r].page
                   /\ thread'[r].parent_tid = thread[r].parent_tid
                   /\ thread'[r].children = thread[r].children
                   /\ thread'[r].success_sema = thread[r].success_sema
                   /\ Live(r)' <=> Live(r)
                   /\ thread'[r].status = "NONE" <=> thread[r].status = "NONE"
        <4>1. CASE r # q
          BY <3>3, <4>1 DEF Live
        <4>2. CASE r = q
          <5>1. thread'[r] = [thread[r] EXCEPT !.status = "READY"] /\ thread[r] \in Structs
                /\ thread[r].status = "BLOCKED"
            BY <2>1, <3>2, <3>3, <4>2
          <5> QED
            BY <5>1 DEF Live, Structs
        <4> QED
          BY <4>1, <4>2
      <3> QED
        BY <3>3, <3>4, <3>5 DEF SameThreads
    <2>3. Plain(p, Frame("exit_unlink", NULL))
      BY SMT, <1>1, <2>1, <2>2, Same, FrameOK DEF Plain, LoadOps, Ops, Walks
    <2> QED
      BY <2>3, PlainKeeps
  <1> QED
    BY <1>2, <1>3

-----------------------------------------------------------------------------
(* load() *)

(* A step inside load() writes at most the outcome into the entry of the   *)
(* process that loads.                                                     *)
LoadMove(p, f) ==
    /\ Live(p) /\ frame[p].op \in LoadOps /\ f \in Frames /\ f.op \in LoadOps
    /\ frame' = [frame EXCEPT ![p] = f]
    /\ heap' = heap /\ thread' = thread
    /\ child' \in [Blocks -> Entry \cup {NULL}]
    /\ \A b \in Blocks : /\ child'[b] = NULL <=> child[b] = NULL
                         /\ child[b] # NULL => child'[b].tid = child[b].tid
                         /\ child[b] # NULL /\ child[b].tid # p => child'[b] = child[b]
    /\ HistOK' /\ \A r \in Procs : r # p => hist'.loaded[r] = hist.loaded[r]
    /\ f.op \in Walks => f.at \in Pages \cup {tail}

(* A step inside load() keeps the invariant if its new frame fits. *)
LEMMA LoadMoveKeeps ==
    ASSUME PInv, NEW p \in Procs, NEW f, LoadMove(p, f),
           \A q \in Procs : thread[p].parent_tid = q => LoadFits(p, q, f)'
    PROVE  PInv'
  <1>1. /\ frame \in [Procs -> Frames] /\ frame' \in [Procs -> Frames] /\ frame'[p] = f
        /\ \A q \in Procs : q # p => frame'[q] = frame[q]
    BY DEF PInv, Types, LoadMove
  <1>2. heap' = heap /\ thread' = thread /\ HistOK'
    BY DEF LoadMove
  <1>3. Types'
    BY <1>1, <1>2 DEF Types, PInv, LoadMove
  <1>4. \A q \in Procs : /\ Live(q)' <=> Live(q)
                         /\ Alive(q)' <=> Alive(q)
                         /\ Kids(q)' = Kids(q)
    BY <1>1, <1>2 DEF Alive, Live, Kids, LoadMove, LoadOps
  <1>5. Owning'
    BY SMT, <1>1, <1>2, <1>4 DEF Owning, PInv, LoadMove
  <1>6. p # Main
    BY DEF PInv, MainStays, MainFits, MainOps, LoadMove, LoadOps
  <1>7. MainStays'
    BY <1>1, <1>2, <1>4, <1>6, Ends DEF MainStays, MainFits, PInv
  <1>8. Chained'
    <2>1. Linked' = Linked
      BY <1>2, <1>4 DEF Linked
    <2>2. FreePages' = FreePages
      BY <1>2 DEF FreePages
    <2> QED
      BY SMT, <1>1, <1>2, <2>1, <2>2 DEF Chained, Chain, PInv, LoadMove, LoadOps
  <1>9. /\ \A q \in Procs : \A b \in Kids(q) : b \in Blocks /\ child[b] # NULL
        /\ \A b \in Blocks : child[b] # NULL => child[b].tid \in Procs
    BY Blocks1 DEF PInv, Types, Entry
  <1>10. Family'
    BY SMT, <1>2, <1>4, <1>9 DEF Family, PInv, LoadMove
  <1>11. Loading'
    <2> SUFFICES ASSUME NEW r \in Procs, NEW q \in Procs, frame'[r].op \in LoadOps,
                        thread'[r].parent_tid = q
                 PROVE  LoadOK(r, q)'
      BY DEF Loading
    <2>1. frame[r].op \in LoadOps /\ thread[r].parent_tid = q
      BY <1>1, <1>2 DEF LoadMove
    <2>2. LoadOK(r, q)
      BY <2>1 DEF PInv, Loading
    <2>3. q # Main => frame'[q] = frame[q]
      BY <1>1, <2>2 DEF LoadMove, LoadOK, LoadOps
    <2>4. \E b \in Kids(q) : child'[b].tid = r
      BY <1>9, <2>2 DEF LoadMove, LoadOK
    <2>5. LoadFits(r, q, frame[r])'
      <3>1. CASE r = p
        BY <1>1, <2>1, <3>1 DEF LoadFits
      <3>2. CASE r # p
        <4>1. frame'[r] = frame[r] /\ LoadFits(r, q, frame[r]) /\ hist'.loaded[r] = hist.loaded[r]
          BY <1>1, <2>2, <3>2 DEF LoadOK, LoadMove
        <4>2. \A b \in Blocks : child'[b] # NULL /\ child'[b].tid = r => child'[b] = child[b]
          BY <3>2 DEF LoadMove
        <4>3. frame[r].op = "load_store" => child'[frame[r].cld].tid = r
          BY SMT, <1>9, <4>1 DEF LoadFits, LoadMove
        <4> QED
          BY SMT, <1>2, <1>4, <4>1, <4>2, <4>3 DEF LoadFits
      <3> QED
        BY <3>1, <3>2
    <2> QED
      BY <1>2, <1>4, <2>2, <2>3, <2>4, <2>5 DEF LoadOK
  <1>12. Executing'
    <2> SUFFICES ASSUME NEW q \in Procs \ {Main}
                 PROVE  /\ thread'[q].success_sema \in {0, 1}
                        /\ thread'[q].success_sema = 1 => frame'[q].op = "exec_sema"
                        /\ frame'[q].op = "exec_check" \/ thread'[q].success_sema = 1 =>
                              Reported(q, frame[q].tid)'
      BY DEF Executing
    <2>1. /\ thread[q].success_sema \in {0, 1}
          /\ thread[q].success_sema = 1 => frame[q].op = "exec_sema"
          /\ frame[q].op = "exec_check" \/ thread[q].success_sema = 1 => Reported(q, frame[q].tid)
      BY DEF Executing, PInv
    <2>2. CASE q = p
      BY <1>1, <1>2, <2>1, <2>2 DEF LoadMove, LoadOps
    <2>3. CASE q # p
      <3>1. frame'[q] = frame[q]
        BY <1>1, <2>3
      <3>2. ASSUME NEW u \in Procs, Reported(q, u) PROVE Reported(q, u)'
        <4>1. u # p /\ u \in Procs /\ frame'[u] = frame[u] /\ hist'.loaded[u] = hist.loaded[u]
          BY <1>1, <3>2 DEF Reported, LoadMove
        <4>2. PICK b \in Kids(q) : child[b].tid = u /\ child[b].load_success = hist.loaded[u]
          BY <3>2 DEF Reported
        <4>3. child'[b] = child[b]
          BY <1>9, <4>1, <4>2 DEF LoadMove
        <4> QED
          BY <1>4, <3>2, <4>1, <4>2, <4>3 DEF Reported
      <3>3. Reported(q, frame[q].tid) => Reported(q, frame[q].tid)'
        <4>1. SUFFICES ASSUME Reported(q, frame[q].tid) PROVE Reported(q, frame[q].tid)'
          OBVIOUS
        <4>2. PICK u \in Procs : u = frame[q].tid
          BY <4>1 DEF Reported
        <4>3. Reported(q, u)'
          BY <3>2, <4>1, <4>2
        <4> QED
          BY <3>1, <4>2, <4>3 DEF Reported
      <3> QED
        BY <1>2, <2>1, <3>1, <3>3
    <2> QED
      BY <2>2, <2>3
  <1> QED
    BY <1>3, <1>5, <1>7, <1>8, <1>10, <1>11, <1>12 DEF PInv

(* load() has read the file, or failed to, and looks for its parent. *)
LEMMA LoadStep ==
    ASSUME PInv, NEW p \in Procs, Load(p)
    PROVE  PInv'
  <1>1. PICK ok \in BOOLEAN :
          /\ Goto(p, [Frame("find_load", thread[p].parent_tid) EXCEPT
                        !.at = list_begin(heap, all_list), !.ok = ok])
          /\ hist' = [hist EXCEPT !.loaded[p] = ok]
    BY DEF Load
  <1> DEFINE f == [Frame("find_load", thread[p].parent_tid) EXCEPT
                     !.at = list_begin(heap, all_list), !.ok = ok]
  <1>2. /\ Live(p) /\ frame[p].op = "load" /\ frame' = [frame EXCEPT ![p] = f]
        /\ heap' = heap /\ thread' = thread /\ child' = child
    BY <1>1 DEF Load, At, Live, Goto
  <1>3. /\ f \in Frames /\ f.op = "find_load" /\ f.tid = thread[p].parent_tid /\ f.ok = ok
        /\ f.at \in Pages
    BY ZenonT(40), First, Blocks1 DEF Frame, InUser, Frames, Ops, Walks
  <1>4. PICK k \in Frames : k = f
    BY <1>3
  <1> HIDE DEF f
  <1>5. HistOK' /\ hist'.loaded = [hist.loaded EXCEPT ![p] = ok]
    BY <1>1 DEF PInv, Types, HistOK
  <1>6. hist'.loaded[p] = ok /\ \A r \in Procs : r # p => hist'.loaded[r] = hist.loaded[r]
    BY <1>5 DEF PInv, Types, HistOK
  <1>7. LoadMove(p, k)
    BY <1>2, <1>3, <1>4, <1>5, <1>6 DEF LoadMove, LoadOps, PInv, Types
  <1>8. \A q \in Procs : thread[p].parent_tid = q => LoadFits(p, q, k)'
    BY <1>2, <1>3, <1>4, <1>6 DEF LoadFits
  <1> QED
    BY <1>7, <1>8, LoadMoveKeeps

(* What a process in load() knows of its parent's struct and its entry. *)
LEMMA Parent ==
    ASSUME Least, PInv, NEW p \in Procs, NEW q \in Procs, thread[p].parent_tid = q,
           frame[p].op \in LoadOps
    PROVE  /\ LoadOK(p, q) /\ Live(q) /\ Alive(q) /\ thread[q].page \in Pages \ FreePages
           /\ Owner(thread[q].page) = q
           /\ LET b == thread_get_child_elem(thread[q].children, p)
              IN  b # NULL /\ b \in Kids(q) /\ b \in Blocks /\ child[b] # NULL /\ child[b].tid = p
  <1>1. LoadOK(p, q)
    BY DEF PInv, Loading
  <1>2. Live(q) /\ Alive(q)
    BY <1>1 DEF PInv, MainStays, MainFits, MainOps, Owning, LoadOK, Alive, Live
  <1>3. thread[q].page \in Pages /\ thread[q].page \notin FreePages
    BY <1>2, Blocks1 DEF PInv, Owning, Structs, FreePages
  <1>4. Owner(thread[q].page) = q
    BY <1>3, OwnerOf
  <1>5. \E b \in Kids(q) : child[b] # NULL /\ child[b].tid = p
    BY <1>1, Blocks1 DEF LoadOK
  <1> QED
    BY SMT, <1>1, <1>2, <1>3, <1>4, <1>5, Blocks1, ChildElem DEF Kids

(* load() finds its entry in its parent's list. *)
LEMMA LoadChildStep ==
    ASSUME Least, PInv, NEW p \in Procs, LoadChild(p)
    PROVE  PInv'
  <1>1. PICK q \in Procs : thread[p].parent_tid = q
    BY Blocks1
  <1>2. Live(p) /\ frame[p].op = "load_child" /\ frame[p] \in Frames
    BY Blocks1 DEF LoadChild, At, Live
  <1>3. LoadFits(p, q, frame[p]) /\ frame[p].thr = thread[q].page
    BY SMT, <1>1, <1>2, Parent DEF LoadOK, LoadFits, LoadOps
  <1> DEFINE c == thread_get_child_elem(thread[q].children, p)
             f == [frame[p] EXCEPT !.op = "load_store", !.cld = c]
  <1>4. c # NULL /\ c \in Kids(q) /\ c \in Blocks /\ child[c] # NULL /\ child[c].tid = p
    BY <1>1, <1>2, Parent DEF LoadOps
  <1>5. frame' = [frame EXCEPT ![p] = f] /\ heap' = heap /\ thread' = thread /\ child' = child
        /\ hist' = hist
    BY ZenonT(40), <1>1, <1>2, <1>3, <1>4, Parent DEF LoadChild, Goto, LoadOps
  <1> HIDE DEF c
  <1>6. f \in Frames /\ f.op = "load_store" /\ f.cld = c /\ f.thr = frame[p].thr /\ f.ok = frame[p].ok
    BY ZenonT(40), <1>2, <1>4 DEF Frames, Ops
  <1>7. PICK k \in Frames : k = f
    BY <1>6
  <1> HIDE DEF f
  <1>8. LoadMove(p, k)
    BY <1>2, <1>5, <1>6, <1>7, Same DEF LoadMove, LoadOps, Walks, PInv, Types
  <1>9. LoadFits(p, q, k)'
    BY <1>2, <1>3, <1>4, <1>5, <1>6, <1>7 DEF LoadFits, Kids
  <1> QED
    BY <1>1, <1>8, <1>9, LoadMoveKeeps

(* load() stores its outcome in the entry. *)
LEMMA LoadStoreStep ==
    ASSUME Least, PInv, NEW p \in Procs, LoadStore(p)
    PROVE  PInv'
  <1>1. PICK q \in Procs : thread[p].parent_tid = q
    BY Blocks1
  <1> DEFINE f == [frame[p] EXCEPT !.op = "load_sema"]
             c == frame[p].cld
             ok == frame[p].ok
  <1>2. /\ Live(p) /\ frame[p].op = "load_store" /\ frame[p] \in Frames
        /\ frame' = [frame EXCEPT ![p] = f] /\ heap' = heap /\ thread' = thread /\ hist' = hist
    BY Blocks1 DEF LoadStore, At, Live, Goto
  <1>3. /\ frame[p].thr = thread[q].page /\ c \in Kids(q) /\ c \in Blocks /\ child[c].tid = p
        /\ hist.loaded[p] = ok /\ ok \in BOOLEAN
    BY SMT, <1>1, <1>2, Parent DEF LoadOK, LoadFits, LoadOps, Frames
  <1>4. child[c] \in Entry /\ child[c] # NULL
    BY <1>3, Blocks1
  <1>5. child' = [child EXCEPT ![c].load_success = ok]
    BY <1>4 DEF LoadStore, FreeBlocks
  <1>6. f \in Frames /\ f.op = "load_sema" /\ f.thr = frame[p].thr /\ f.ok = ok
    BY SMT, <1>2 DEF Frames, Ops
  <1>7. PICK k \in Frames : k = f
    BY <1>6
  <1> HIDE DEF f, c, ok
  <1>8. /\ \A d \in Blocks : child'[d] = IF d = c THEN [child[d] EXCEPT !.load_success = ok] ELSE child[d]
        /\ child' = [d \in Blocks |-> child'[d]]
    BY <1>5 DEF PInv, Types
  <1>9. child'[c] \in Entry /\ child'[c].tid = p /\ child'[c].load_success = ok /\ child'[c] # NULL
    <2>1. child'[c] = [child[c] EXCEPT !.load_success = ok]
      BY <1>3, <1>8
    <2>2. child'[c] \in Entry /\ child'[c].tid = p /\ child'[c].load_success = ok
      BY <1>3, <1>4, <2>1 DEF Entry
    <2> QED
      BY <2>2, Ends
  <1>10. child \in [Blocks -> Entry \cup {NULL}] /\ \A d \in Blocks : d # c => child'[d] = child[d]
    BY <1>8 DEF PInv, Types
  <1>11. child' \in [Blocks -> Entry \cup {NULL}]
    BY <1>8, <1>9, <1>10
  <1>12. LoadMove(p, k)
    BY <1>2, <1>3, <1>4, <1>6, <1>7, <1>9, <1>10, <1>11, Same DEF LoadMove, LoadOps, Walks
  <1>13. \A b \in Blocks : child'[b] # NULL /\ child'[b].tid = p => b = c
    <2>1. \A b \in Blocks : child[b] # NULL /\ child[b].tid = p => b = c
      BY <1>3, <1>4 DEF PInv, Family
    <2> QED
      BY <1>10, <2>1
  <1>14. LoadFits(p, q, k)'
    BY <1>2, <1>3, <1>6, <1>7, <1>9, <1>13 DEF LoadFits
  <1> QED
    BY <1>1, <1>12, <1>14, LoadMoveKeeps

(* One turn of the loop of thread_get_from_tid, for each of its callers. *)
LEMMA WalkStep ==
    ASSUME Least, PInv, NEW p \in Procs, Walk1(p)
    PROVE  PInv'
  <1> DEFINE e == frame[p].at
  <1>1. /\ Live(p) /\ frame[p].op \in Walks /\ frame[p] \in Frames /\ e \in Pages \cup {tail}
        /\ frame[p].op \notin {"exec_sema", "exit_free"}
    BY Blocks1 DEF Walk1, At, Live, PInv, Chained, Walks
  <1>2. p = Main => MainFits(frame[p])
    BY DEF PInv, MainStays
  <1>3. CASE page_fault(p)
    BY <1>1, <1>3, FaultStep
  <1>4. CASE \E why : Panic(why)
    BY <1>4, PanicKeeps
  <1>5. CASE /\ e = tail /\ frame[p].op \in {"find_exit", "find_wait"}
             /\ Goto(p, Frame(IF frame[p].op = "find_exit" THEN "process_exit" ELSE "wait_take",
                              frame[p].tid))
             /\ UNCHANGED <<heap, thread, child, panic, hist>>
    <2> DEFINE op == IF frame[p].op = "find_exit" THEN "process_exit" ELSE "wait_take"
               f == Frame(op, frame[p].tid)
    <2>1. op \in {"process_exit", "wait_take"} /\ op \in Ops /\ frame[p].tid \in Procs \cup {NULL}
      BY <1>1 DEF Ops, Frames
    <2>2. p = Main => op = "wait_take"
      BY <1>2, <1>5, First, Ends DEF MainFits
    <2>3. frame' = [frame EXCEPT ![p] = f] /\ heap' = heap /\ thread' = thread /\ child' = child
          /\ hist' = hist
      BY <1>5 DEF Goto
    <2> HIDE DEF op
    <2>4. f \in Frames /\ f.op = op
      BY <2>1, FrameOK
    <2> HIDE DEF f
    <2>5. p = Main => MainFits(f)
      BY <2>2, <2>4 DEF MainFits, MainOps
    <2>6. Plain(p, f)
      BY <1>1, <2>1, <2>3, <2>4, <2>5, Same DEF Plain, LoadOps, Walks
    <2> QED
      BY <2>6, PlainKeeps
  <1>6. CASE e \in Pages \ FreePages /\ Owner(e) = frame[p].tid /\ Found(p, e)
    <2> DEFINE op == CASE frame[p].op = "find_exit" -> "exit_child"
                       [] frame[p].op = "find_load" -> "load_child"
                       [] frame[p].op = "find_wait" -> "wait_store"
                       [] frame[p].op = "find_wake" -> "exit_wake"
               f == [frame[p] EXCEPT !.thr = e, !.at = NULL, !.op = op]
    <2>1. /\ frame[p].op = "find_exit" => op = "exit_child"
          /\ frame[p].op = "find_load" => op = "load_child"
          /\ frame[p].op = "find_wait" => op = "wait_store"
          /\ frame[p].op = "find_wake" => op = "exit_wake"
      OBVIOUS
    <2>2. frame' = [frame EXCEPT ![p] = f] /\ heap' = heap /\ thread' = thread /\ child' = child
          /\ hist' = hist
      BY <1>1, <1>6 DEF Found, Goto, Frames
    <2>3. op \in {"exit_child", "load_child", "wait_store", "exit_wake"} /\ op \in Ops
      BY <1>1, <2>1 DEF Walks, Ops
    <2> HIDE DEF op
    <2>4. f \in Frames /\ f.op = op /\ f.thr = e /\ f.ok = frame[p].ok /\ f.tid = frame[p].tid
      BY <1>1, <1>6, <2>3 DEF Frames
    <2>5. PICK k \in Frames : k = f
      BY <2>4
    <2> HIDE DEF f
    <2>6. CASE frame[p].op # "find_load"
      <3>1. p = Main => MainFits(k)
        BY <1>1, <1>2, <2>1, <2>4, <2>5, <2>6 DEF MainFits, MainOps, Walks
      <3>2. k.op \in {"exit_child", "wait_store", "exit_wake"}
        BY <1>1, <2>1, <2>4, <2>5, <2>6 DEF Walks
      <3>3. Plain(p, k)
        BY <1>1, <1>6, <2>2, <2>4, <2>5, <3>1, <3>2, Same DEF Plain, LoadOps, Walks
      <3> QED
        BY <3>3, PlainKeeps
    <2>7. CASE frame[p].op = "find_load"
      <3>1. PICK q \in Procs : thread[p].parent_tid = q
        BY Blocks1
      <3>2. LoadFits(p, q, frame[p])
        BY <2>7, <3>1, Parent DEF LoadOK, LoadOps
      <3>3. thread[q].page = e /\ k.op = "load_child" /\ hist.loaded[p] = frame[p].ok
        BY SMT, <1>6, <2>1, <2>4, <2>5, <2>7, <3>2, OwnerOf DEF LoadFits
      <3>4. LoadMove(p, k)
        BY <1>1, <2>2, <2>5, <2>7, <3>3, Same DEF LoadMove, LoadOps, Walks, PInv, Types
      <3>5. LoadFits(p, q, k)'
        BY <2>2, <2>4, <2>5, <3>3 DEF LoadFits
      <3> QED
        BY <3>1, <3>4, <3>5, LoadMoveKeeps
    <2> QED
      BY <2>6, <2>7
  <1>7. CASE /\ e \in Pages \ FreePages /\ Owner(e) # frame[p].tid
             /\ Goto(p, [frame[p] EXCEPT !.at = heap.next[e]])
             /\ UNCHANGED <<heap, thread, child, panic, hist>>
    <2> DEFINE f == [frame[p] EXCEPT !.at = heap.next[e]]
    <2>1. heap.next[e] \in Pages \cup {tail} /\ heap.next[e] \in Elems
      BY <1>7, Ends DEF PInv, Chained
    <2>2. frame' = [frame EXCEPT ![p] = f] /\ heap' = heap /\ thread' = thread /\ child' = child
          /\ hist' = hist
      BY <1>7 DEF Goto
    <2>3. /\ f \in Frames /\ f.op = frame[p].op /\ f.at = heap.next[e] /\ f.tid = frame[p].tid
          /\ f.ok = frame[p].ok /\ f.thr = frame[p].thr
      BY <1>1, <2>1 DEF Frames
    <2>4. PICK k \in Frames : k = f
      BY <2>3
    <2> HIDE DEF f
    <2>5. CASE frame[p].op # "find_load"
      <3>1. p = Main => MainFits(k)
        <4>1. p = Main => frame[p].op # "find_exit"
          BY <1>2, <1>7, First, OwnerOf DEF MainFits
        <4> QED
          BY <1>1, <1>2, <2>3, <2>4, <4>1 DEF MainFits, Walks
      <3>2. Plain(p, k)
        BY <1>1, <2>1, <2>2, <2>3, <2>4, <2>5, <3>1, Same DEF Plain, LoadOps, Walks
      <3> QED
        BY <3>2, PlainKeeps
    <2>6. CASE frame[p].op = "find_load"
      <3>1. PICK q \in Procs : thread[p].parent_tid = q
        BY Blocks1
      <3>2. LoadFits(p, q, frame[p])
        BY <2>6, <3>1, Parent DEF LoadOK, LoadOps
      <3>3. LoadMove(p, k)
        BY <1>1, <2>1, <2>2, <2>3, <2>4, <2>6, Same DEF LoadMove, LoadOps, Walks, PInv, Types
      <3>4. LoadFits(p, q, k)'
        BY <2>2, <2>3, <2>4, <2>6, <3>2 DEF LoadFits
      <3> QED
        BY <3>1, <3>3, <3>4, LoadMoveKeeps
    <2> QED
      BY <2>5, <2>6
  <1> QED
    BY <1>1, <1>3, <1>4, <1>5, <1>6, <1>7 DEF Walk1, NotFound, tail

-----------------------------------------------------------------------------
(* success_sema *)

(* A step of p that moves nothing in memory but a status and a semaphore. *)
Quiet(p, f) ==
    /\ Live(p) /\ p # Main /\ frame[p].op # "exit_free"
    /\ f \in Frames /\ frame' = [frame EXCEPT ![p] = f]
    /\ f.op \notin Walks \cup {"exit_free", "exit_child"}
    /\ heap' = heap /\ child' = child /\ hist' = hist
    /\ thread' \in [Procs -> Structs]
    /\ \A q \in Procs : /\ thread'[q].page = thread[q].page
                        /\ thread'[q].parent_tid = thread[q].parent_tid
                        /\ thread'[q].children = thread[q].children
                        /\ Live(q)' <=> Live(q)
                        /\ thread'[q].status = "NONE" <=> thread[q].status = "NONE"

(* A quiet step keeps all but what relates exec() and load(). *)
LEMMA QuietKeeps ==
    ASSUME PInv, NEW p \in Procs, NEW f, Quiet(p, f)
    PROVE  /\ Types' /\ Owning' /\ MainStays' /\ Chained' /\ Family'
           /\ frame'[p] = f /\ \A q \in Procs : q # p => frame'[q] = frame[q]
           /\ \A q \in Procs : Kids(q)' = Kids(q)
  <1>1. /\ frame \in [Procs -> Frames] /\ frame' \in [Procs -> Frames] /\ frame'[p] = f
        /\ \A q \in Procs : q # p => frame'[q] = frame[q]
    BY DEF PInv, Types, Quiet
  <1>2. heap' = heap /\ child' = child /\ hist' = hist
    BY DEF Quiet
  <1>3. Types'
    BY <1>1, <1>2 DEF Types, HistOK, PInv, Quiet
  <1>4. \A q \in Procs : /\ Live(q)' <=> Live(q)
                         /\ Alive(q)' <=> Alive(q)
                         /\ Kids(q)' = Kids(q)
    BY <1>1 DEF Quiet, Alive, Live, Kids
  <1>5. Owning'
    BY SMT, <1>1, <1>4 DEF Owning, PInv, Quiet
  <1>6. MainStays'
    BY <1>1, <1>4, Ends DEF MainStays, MainFits, PInv, Quiet
  <1>7. Chained'
    <2>1. Linked' = Linked
      BY SMT, <1>4 DEF Linked, Quiet
    <2>2. FreePages' = FreePages
      BY DEF FreePages, Quiet
    <2>3. thread'[Main].page = thread[Main].page
      BY Ends DEF Quiet
    <2> QED
      <3>1. Chain(heap', Linked', thread'[Main].page)
        BY <1>2, <2>1, <2>3 DEF PInv, Chained
      <3>2. \A g \in Pages \ FreePages' : heap'.next[g] \in Pages \cup {tail}
        BY <1>2, <2>2 DEF PInv, Chained
      <3>3. ASSUME NEW q \in Procs
            PROVE  /\ frame'[q].op \in Walks => frame'[q].at \in Pages \cup {tail}
                   /\ frame'[q].op = "exit_child" => frame'[q].thr \in Pages
        BY <1>1 DEF PInv, Chained, Quiet
      <3> QED
        BY <3>1, <3>2, <3>3 DEF Chained
  <1>8. Family'
    <2>1. \A b \in Blocks : child[b] # NULL => child[b].tid \in Procs
      BY DEF PInv, Types, Entry
    <2>2. \A q \in Procs : thread'[q].status = "NONE" <=> thread[q].status = "NONE"
      BY DEF Quiet
    <2>3. Family
      BY DEF PInv
    <2>4. \A q \in Procs : \A b \in Kids(q)' : child'[b] # NULL
      BY <1>2, <1>4, <2>3 DEF Family
    <2>5. \A q, r \in Procs : q # r => Kids(q)' \cap Kids(r)' = {}
      BY <1>4, <2>3 DEF Family
    <2>6. \A b, d \in Blocks :
             child'[b] # NULL /\ child'[d] # NULL /\ child'[b].tid = child'[d].tid => b = d
      BY <1>2, <2>3 DEF Family
    <2>7. \A b \in Blocks :
             child'[b] # NULL => thread'[child'[b].tid].status # "NONE" /\ child'[b].tid # Main
      BY <1>2, <2>1, <2>2, <2>3 DEF Family
    <2> QED
      BY <2>4, <2>5, <2>6, <2>7 DEF Family
  <1> QED
    BY <1>1, <1>3, <1>4, <1>5, <1>6, <1>7, <1>8

(* Nobody but the process that moves is a reason why a report, or what a   *)
(* process in load() knows, stops being true.                              *)
LEMMA QuietOthers ==
    ASSUME PInv, NEW p \in Procs, NEW f, Quiet(p, f)
    PROVE  /\ \A q, u \in Procs : Reported(q, u) /\ u # p => Reported(q, u)'
           /\ \A r, q \in Procs :
                 /\ r # p /\ LoadOK(r, q)
                 /\ q # Main => q # p /\ thread'[q].success_sema = 0
                 => LoadOK(r, q)'
  <1>1. /\ child' = child /\ hist' = hist
        /\ \A q \in Procs : thread'[q].page = thread[q].page
    BY DEF Quiet
  <1>2. /\ \A q \in Procs : q # p => frame'[q] = frame[q]
        /\ \A q \in Procs : Kids(q)' = Kids(q)
    BY QuietKeeps
  <1>3. ASSUME NEW q \in Procs, NEW u \in Procs, Reported(q, u), u # p
        PROVE  Reported(q, u)'
    BY <1>1, <1>2, <1>3 DEF Reported
  <1>4. ASSUME NEW r \in Procs, NEW q \in Procs, r # p, LoadOK(r, q),
               q # Main => q # p /\ thread'[q].success_sema = 0
        PROVE  LoadOK(r, q)'
    BY <1>1, <1>2, <1>4 DEF LoadOK, LoadFits
  <1> QED
    BY <1>3, <1>4

(* sema_up by the child: the parent's count goes from 0 to 1, and what it  *)
(* will read is stored.                                                    *)
LEMMA LoadSemaStep ==
    ASSUME Least, PInv, NEW p \in Procs, LoadSema(p)
    PROVE  PInv'
  <1>1. PICK q \in Procs : thread[p].parent_tid = q
    BY Blocks1
  <1> DEFINE f == [frame[p] EXCEPT !.op = "start_process", !.thr = NULL, !.cld = NULL]
             s == thread[q].success_sema + 1
             st == IF frame[q].op = "exec_sema" THEN "READY" ELSE thread[q].status
  <1>2. /\ Live(p) /\ frame[p].op = "load_sema" /\ frame[p] \in Frames
        /\ LoadOK(p, q) /\ LoadFits(p, q, frame[p]) /\ frame[p].thr = thread[q].page
    BY SMT, <1>1, Blocks1, Parent DEF LoadSema, At, Live, LoadOps, LoadOK, LoadFits
  <1>3. Live(q) /\ thread[q].page \notin FreePages /\ Owner(thread[q].page) = q
    BY <1>1, <1>2, Parent DEF LoadOps
  <1>4. /\ frame' = [frame EXCEPT ![p] = f] /\ heap' = heap /\ child' = child /\ hist' = hist
        /\ thread' = [thread EXCEPT ![q].success_sema = s, ![q].status = st]
    BY <1>2, <1>3 DEF LoadSema, Goto, PInv, Types
  <1>5. f \in Frames /\ f.op = "start_process"
    BY <1>2 DEF Frames, Ops
  <1>6. st \in {"READY", "BLOCKED"} /\ s \in Nat /\ thread[q] \in Structs
    BY SMT, <1>3, Blocks1 DEF Live, Structs
  <1> HIDE DEF f, s, st
  <1>7. /\ thread'[q] = [thread[q] EXCEPT !.success_sema = s, !.status = st]
        /\ \A r \in Procs : r # q => thread'[r] = thread[r]
        /\ thread' = [r \in Procs |-> thread'[r]]
    BY <1>4 DEF PInv, Types
  <1>8. /\ thread'[q] \in Structs /\ thread'[q].success_sema = s /\ thread'[q].status = st
        /\ thread'[q].page = thread[q].page /\ thread'[q].parent_tid = thread[q].parent_tid
        /\ thread'[q].children = thread[q].children
    BY <1>6, <1>7 DEF Structs
  <1>9. Quiet(p, f)
    <2>1. p # Main
      BY <1>2 DEF LoadOK
    <2>2. thread' \in [Procs -> Structs]
      BY <1>7, <1>8 DEF PInv, Types
    <2>3. ASSUME NEW r \in Procs
          PROVE  /\ thread'[r].page = thread[r].page
                 /\ thread'[r].parent_tid = thread[r].parent_tid
                 /\ thread'[r].children = thread[r].children
                 /\ Live(r)' <=> Live(r)
                 /\ thread'[r].status = "NONE" <=> thread[r].status = "NONE"
      BY <1>3, <1>6, <1>7, <1>8 DEF Live
    <2> QED
      BY <1>2, <1>4, <1>5, <2>1, <2>2, <2>3 DEF Quiet, Walks
  <1>10. /\ Types' /\ Owning' /\ MainStays' /\ Chained' /\ Family'
         /\ frame'[p] = f /\ \A r \in Procs : r # p => frame'[r] = frame[r]
         /\ \A r \in Procs : Kids(r)' = Kids(r)
         /\ \A r, u \in Procs : Reported(r, u) /\ u # p => Reported(r, u)'
         /\ \A r, t \in Procs : /\ r # p /\ LoadOK(r, t)
                                /\ t # Main => t # p /\ thread'[t].success_sema = 0
                                => LoadOK(r, t)'
    BY <1>9, QuietKeeps, QuietOthers
  <1>11. Loading'
    <2> SUFFICES ASSUME NEW r \in Procs, NEW t \in Procs, frame'[r].op \in LoadOps,
                        thread'[r].parent_tid = t
                 PROVE  LoadOK(r, t)'
      BY DEF Loading
    <2>1. r # p /\ frame[r].op \in LoadOps /\ thread[r].parent_tid = t
      BY <1>5, <1>7, <1>8, <1>10 DEF LoadOps
    <2>2. LoadOK(r, t)
      BY <2>1 DEF PInv, Loading
    <2>3. t # Main => t # p /\ t # q
      BY <1>2, <2>1, <2>2 DEF LoadOK
    <2> QED
      BY SMT, <1>7, <1>10, <2>1, <2>2, <2>3 DEF LoadOK
  <1>12. q # Main => /\ s = 1 /\ frame'[q] = frame[q] /\ frame[q].op = "exec_sema"
                     /\ frame[q].tid = p /\ Reported(q, p)'
    <2>1. q # Main => s = 1 /\ frame[q].op = "exec_sema" /\ frame[q].tid = p /\ q # p
      BY SMT, <1>2 DEF LoadOK, s
    <2>2. PICK b \in Kids(q) : child[b].tid = p
      BY <1>2 DEF LoadOK
    <2>3. child[b].load_success = hist.loaded[p]
      BY <1>2, <2>2, Blocks1 DEF LoadFits
    <2>4. Reported(q, p)'
      BY SMT, <1>4, <1>5, <1>10, <2>2, <2>3 DEF Reported, LoadOps
    <2> QED
      BY <1>10, <2>1, <2>4
  <1>13. Executing'
    <2> SUFFICES ASSUME NEW t \in Procs \ {Main}
                 PROVE  /\ thread'[t].success_sema \in {0, 1}
                        /\ thread'[t].success_sema = 1 => frame'[t].op = "exec_sema"
                        /\ frame'[t].op = "exec_check" \/ thread'[t].success_sema = 1 =>
                              Reported(t, frame[t].tid)'
      BY DEF Executing
    <2>1. CASE t = q
      BY <1>8, <1>12, <2>1 DEF Reported
    <2>2. CASE t # q
      <3>1. /\ thread[t].success_sema \in {0, 1} /\ thread'[t] = thread[t]
            /\ thread[t].success_sema = 1 => frame[t].op = "exec_sema"
            /\ frame[t].op = "exec_check" \/ thread[t].success_sema = 1 =>
                  Reported(t, frame[t].tid)
        BY <1>7, <2>2 DEF PInv, Executing
      <3>2. CASE t = p
        BY <1>2, <1>5, <1>10, <3>1, <3>2
      <3>3. CASE t # p
        <4>1. frame'[t] = frame[t]
          BY <1>10, <3>3
        <4>2. Reported(t, frame[t].tid) => Reported(t, frame[t].tid)'
          <5>1. SUFFICES ASSUME Reported(t, frame[t].tid) PROVE Reported(t, frame[t].tid)'
            OBVIOUS
          <5>2. PICK u \in Procs : u = frame[t].tid
            BY <5>1 DEF Reported
          <5>3. u # p
            BY <1>2, <5>1, <5>2 DEF Reported, LoadOps
          <5>4. Reported(t, u)'
            BY <1>10, <5>1, <5>2, <5>3
          <5> QED
            BY <4>1, <5>2, <5>4 DEF Reported
        <4> QED
          BY <3>1, <4>1, <4>2
      <3> QED
        BY <3>2, <3>3
    <2> QED
      BY <2>1, <2>2
  <1> QED
    BY <1>10, <1>11, <1>13 DEF PInv

(* sema_down by the parent, which takes the count or sleeps. *)
LEMMA ExecSemaStep ==
    ASSUME PInv, NEW p \in Procs, ExecSema(p)
    PROVE  PInv'
  <1> DEFINE take == thread[p].success_sema > 0
             f == IF take THEN [frame[p] EXCEPT !.op = "exec_check"] ELSE frame[p]
             s == IF take THEN thread[p].success_sema - 1 ELSE thread[p].success_sema
             st == IF take THEN thread[p].status ELSE "BLOCKED"
  <1>1. /\ Live(p) /\ frame[p].op = "exec_sema" /\ frame[p] \in Frames /\ p # Main
        /\ thread[p] \in Structs
    BY Blocks1 DEF ExecSema, At, Live, PInv, MainStays, MainFits, MainOps
  <1>2. /\ thread[p].success_sema \in {0, 1}
        /\ thread[p].success_sema = 1 => Reported(p, frame[p].tid)
    BY <1>1 DEF PInv, Executing
  <1>3. heap' = heap /\ child' = child /\ hist' = hist /\ frame' = [frame EXCEPT ![p] = f]
    BY DEF ExecSema, Goto, PInv, Types
  <1>4. /\ thread'[p] = [thread[p] EXCEPT !.success_sema = s, !.status = st]
        /\ \A r \in Procs : r # p => thread'[r] = thread[r]
        /\ thread' = [r \in Procs |-> thread'[r]]
    <2>1. thread' = [thread EXCEPT ![p] = [thread[p] EXCEPT !.success_sema = s, !.status = st]]
      <3>1. CASE take
        <4>1. thread' = [thread EXCEPT ![p].success_sema = thread[p].success_sema - 1]
          BY <3>1 DEF ExecSema
        <4>2. [thread[p] EXCEPT !.success_sema = s, !.status = st]
                 = [thread[p] EXCEPT !.success_sema = thread[p].success_sema - 1]
          BY <1>1, <3>1 DEF Structs
        <4> QED
          BY <4>1, <4>2
      <3>2. CASE ~ take
        <4>1. thread' = [thread EXCEPT ![p].status = "BLOCKED"]
          BY <3>2 DEF ExecSema
        <4>2. [thread[p] EXCEPT !.success_sema = s, !.status = st]
                 = [thread[p] EXCEPT !.status = "BLOCKED"]
          BY <1>1, <3>2 DEF Structs
        <4> QED
          BY <4>1, <4>2
      <3> QED
        BY <3>1, <3>2
    <2> QED
      BY <2>1 DEF PInv, Types
  <1>5. f \in Frames /\ f.op \in {"exec_check", "exec_sema"} /\ f.tid = frame[p].tid
        /\ (f.op = "exec_check" <=> take)
    BY <1>1 DEF Frames, Ops
  <1>6. s = 0 /\ st \in {"READY", "BLOCKED"}
    BY SMT, <1>1, <1>2 DEF Live
  <1>7. take <=> thread[p].success_sema = 1
    BY SMT, <1>2
  <1> HIDE DEF f, s, st, take
  <1>8. /\ thread'[p] \in Structs /\ thread'[p].success_sema = 0 /\ thread'[p].status = st
        /\ thread'[p].page = thread[p].page /\ thread'[p].parent_tid = thread[p].parent_tid
        /\ thread'[p].children = thread[p].children
    <2>1. s \in Nat /\ st \in {"READY", "BLOCKED"}
      BY <1>6
    <2>2. thread'[p] \in Structs /\ thread'[p].success_sema = s
      BY <1>1, <1>4, <2>1 DEF Structs
    <2>3. /\ thread'[p].status = st /\ thread'[p].page = thread[p].page
          /\ thread'[p].parent_tid = thread[p].parent_tid
          /\ thread'[p].children = thread[p].children
      BY <1>1, <1>4 DEF Structs
    <2> QED
      BY <1>6, <2>2, <2>3
  <1>9. Quiet(p, f)
    <2>1. thread' \in [Procs -> Structs]
      BY <1>4, <1>8 DEF PInv, Types
    <2>2. ASSUME NEW r \in Procs
          PROVE  /\ thread'[r].page = thread[r].page
                 /\ thread'[r].parent_tid = thread[r].parent_tid
                 /\ thread'[r].children = thread[r].children
                 /\ Live(r)' <=> Live(r)
                 /\ thread'[r].status = "NONE" <=> thread[r].status = "NONE"
      BY <1>1, <1>4, <1>6, <1>8 DEF Live
    <2> QED
      BY <1>1, <1>3, <1>5, <2>1, <2>2 DEF Quiet, Walks
  <1>10. /\ Types' /\ Owning' /\ MainStays' /\ Chained' /\ Family'
         /\ frame'[p] = f /\ \A r \in Procs : r # p => frame'[r] = frame[r]
         /\ \A r \in Procs : Kids(r)' = Kids(r)
         /\ \A r, u \in Procs : Reported(r, u) /\ u # p => Reported(r, u)'
         /\ \A r, t \in Procs : /\ r # p /\ LoadOK(r, t)
                                /\ t # Main => t # p /\ thread'[t].success_sema = 0
                                => LoadOK(r, t)'
    BY <1>9, QuietKeeps, QuietOthers
  <1>11. Loading'
    <2> SUFFICES ASSUME NEW r \in Procs, NEW t \in Procs, frame'[r].op \in LoadOps,
                        thread'[r].parent_tid = t
                 PROVE  LoadOK(r, t)'
      BY DEF Loading
    <2>1. r # p /\ frame[r].op \in LoadOps /\ thread[r].parent_tid = t
      BY <1>4, <1>5, <1>8, <1>10 DEF LoadOps
    <2>2. LoadOK(r, t)
      BY <2>1 DEF PInv, Loading
    <2>3. CASE t # p
      BY SMT, <1>4, <1>10, <2>1, <2>2, <2>3 DEF LoadOK
    <2>4. CASE t = p
      <3>1. f = frame[p] /\ frame'[p] = frame[p]
        BY SMT, <1>1, <1>7, <1>10, <2>2, <2>4 DEF LoadOK, f
      <3>2. frame'[r] = frame[r] /\ child' = child /\ hist' = hist /\ Kids(p)' = Kids(p)
            /\ thread'[p].page = thread[p].page
        BY <1>3, <1>8, <1>10, <2>1
      <3> QED
        BY <1>8, <2>2, <2>4, <3>1, <3>2 DEF LoadOK, LoadFits
    <2> QED
      BY <2>3, <2>4
  <1>12. Executing'
    <2> SUFFICES ASSUME NEW t \in Procs \ {Main}
                 PROVE  /\ thread'[t].success_sema \in {0, 1}
                        /\ thread'[t].success_sema = 1 => frame'[t].op = "exec_sema"
                        /\ frame'[t].op = "exec_check" \/ thread'[t].success_sema = 1 =>
                              Reported(t, frame[t].tid)'
      BY DEF Executing
    <2>1. ASSUME NEW r \in Procs, Reported(r, frame[r].tid), frame'[r].tid = frame[r].tid
          PROVE  Reported(r, frame[r].tid)'
      <3>1. PICK u \in Procs : u = frame[r].tid
        BY <2>1 DEF Reported
      <3>2. Reported(r, u)'
        <4>1. CASE u # p
          BY <1>10, <2>1, <3>1, <4>1
        <4>2. CASE u = p
          BY SMT, <1>3, <1>5, <1>10, <2>1, <3>1, <4>2 DEF Reported, LoadOps
        <4> QED
          BY <4>1, <4>2
      <3> QED
        BY <2>1, <3>1, <3>2 DEF Reported
    <2>2. CASE t = p
      <3>1. thread'[p].success_sema = 0 /\ frame'[p].tid = frame[p].tid
        BY <1>2, <1>5, <1>8, <1>10
      <3>2. frame'[p].op = "exec_check" => Reported(p, frame[p].tid)
        BY <1>2, <1>5, <1>7, <1>10
      <3> QED
        BY SMT, <2>1, <2>2, <3>1, <3>2
    <2>3. CASE t # p
      <3>1. /\ thread[t].success_sema \in {0, 1} /\ thread'[t] = thread[t]
            /\ thread[t].success_sema = 1 => frame[t].op = "exec_sema"
            /\ frame[t].op = "exec_check" \/ thread[t].success_sema = 1 =>
                  Reported(t, frame[t].tid)
            /\ frame'[t] = frame[t]
        BY <1>4, <1>10, <2>3 DEF PInv, Executing
      <3> QED
        BY <2>1, <3>1
    <2> QED
      BY <2>2, <2>3
  <1> QED
    BY <1>10, <1>11, <1>12 DEF PInv

-----------------------------------------------------------------------------
(* Leaving, and starting a child *)

(* list_remove of a page that is in all_list and is not the first. *)
LEMMA ExitUnlinkStep ==
    ASSUME PInv, NEW p \in Procs, ExitUnlink(p)
    PROVE  PInv'
  <1> DEFINE f == Frame("exit_free", NULL)
             g == thread[p].page
  <1>1. /\ Live(p) /\ frame[p].op = "exit_unlink" /\ p # Main
        /\ frame' = [frame EXCEPT ![p] = f] /\ heap' = list_remove(heap, g)
        /\ thread' = thread /\ child' = child /\ hist' = hist
    BY DEF ExitUnlink, Goto, At, Live, PInv, MainStays, MainFits, MainOps
  <1>2. f \in Frames /\ f.op = "exit_free"
    BY FrameOK DEF Ops
  <1> HIDE DEF f
  <1>3. /\ frame \in [Procs -> Frames] /\ frame' \in [Procs -> Frames] /\ frame'[p] = f
        /\ \A q \in Procs : q # p => frame'[q] = frame[q]
    BY <1>1, <1>2 DEF PInv, Types
  <1>4. g \in Pages /\ g \in Linked /\ g # thread[Main].page /\ g \notin FreePages
    BY SMT, <1>1, Blocks1, Ends DEF PInv, Owning, MainStays, Structs, Linked, Alive, Live, FreePages
  <1>5. Linked \subseteq Pages /\ heap \in Heaps /\ Chain(heap, Linked, thread[Main].page)
    BY SMT DEF PInv, Types, Owning, Structs, Linked, Alive, Live, Chained
  <1>6. /\ heap' \in Heaps /\ Chain(heap', Linked \ {g}, thread[Main].page)
        /\ \A e \in Pages : heap'.next[e] \in {heap.next[e], heap.next[g]}
    <2>1. LET k == list_remove(heap, g)
          IN  /\ k \in Heaps /\ Chain(k, Linked \ {g}, thread[Main].page)
              /\ \A e \in Pages : k.next[e] \in {heap.next[e], heap.next[g]}
      <3> HIDE DEF g
      <3>1. Linked \in SUBSET Pages /\ g \in Linked /\ g # thread[Main].page
        BY <1>4, <1>5
      <3>2. PICK h \in Heaps, L \in SUBSET Pages, m \in Pages, x \in Pages :
               h = heap /\ L = Linked /\ m = thread[Main].page /\ x = g
        BY <1>5, <3>1 DEF Chain
      <3>3. Chain(h, L, m) /\ x # m /\ x \in L
        BY <1>5, <3>1, <3>2
      <3>4. /\ list_remove(h, x) \in Heaps /\ Chain(list_remove(h, x), L \ {x}, m)
            /\ \A e \in Pages : list_remove(h, x).next[e] \in {h.next[e], h.next[x]}
        BY <3>3, RemoveChain
      <3> QED
        BY <3>2, <3>4
    <2> QED
      BY <1>1, <2>1
  <1>7. Types'
    BY <1>1, <1>3, <1>6 DEF PInv, Types, HistOK
  <1>8. \A q \in Procs : /\ Live(q)' <=> Live(q)
                         /\ Alive(q)' <=> Alive(q) /\ q # p
                         /\ Kids(q)' = Kids(q)
    BY <1>1, <1>2, <1>3 DEF Live, Alive, Kids
  <1>9. Owning'
    BY <1>1, <1>3, <1>8 DEF PInv, Owning
  <1>10. MainStays'
    BY <1>1, <1>3, <1>8, Ends DEF PInv, MainStays, MainFits
  <1>11. Chained'
    <2>1. Linked' = Linked \ {g}
      <3>1. ASSUME NEW q \in Procs, Alive(q), q # p PROVE thread[q].page # g
        BY <1>1, <3>1 DEF PInv, Owning, Alive, Live
      <3> HIDE DEF g
      <3>2. Linked' \subseteq Linked \ {g}
        BY <1>1, <1>8, <3>1 DEF Linked
      <3>3. Linked \ {g} \subseteq Linked'
        BY <1>1, <1>8 DEF Linked, g
      <3> QED
        BY <3>2, <3>3
    <2>2. FreePages' = FreePages
      BY <1>1 DEF FreePages
    <2>3. \A e \in Pages \ FreePages : heap'.next[e] \in Pages \cup {tail}
      BY <1>4, <1>6 DEF PInv, Chained
    <2>4. \A q \in Procs : /\ frame'[q].op \in Walks => frame'[q].at \in Pages \cup {tail}
                           /\ frame'[q].op = "exit_child" => frame'[q].thr \in Pages
      BY <1>2, <1>3 DEF PInv, Chained, Walks
    <2> QED
      BY <1>1, <1>6, <2>1, <2>2, <2>3, <2>4 DEF Chained, Chain
  <1>12. Family'
    BY SMT, <1>1, <1>8 DEF PInv, Family
  <1>13. Loading'
    <2> SUFFICES ASSUME NEW r \in Procs, NEW q \in Procs, frame'[r].op \in LoadOps,
                        thread'[r].parent_tid = q
                 PROVE  LoadOK(r, q)'
      BY DEF Loading
    <2>1. r # p /\ frame'[r] = frame[r] /\ LoadOK(r, q)
      BY <1>1, <1>2, <1>3 DEF PInv, Loading, LoadOps
    <2>2. q # Main => frame'[q] = frame[q]
      BY <1>1, <1>3, <2>1 DEF LoadOK
    <2> QED
      BY SMT, <1>1, <1>8, <2>1, <2>2 DEF LoadOK, LoadFits
  <1>14. Executing'
    <2> SUFFICES ASSUME NEW q \in Procs \ {Main}
                 PROVE  /\ thread'[q].success_sema \in {0, 1}
                        /\ thread'[q].success_sema = 1 => frame'[q].op = "exec_sema"
                        /\ frame'[q].op = "exec_check" \/ thread'[q].success_sema = 1 =>
                              Reported(q, frame[q].tid)'
      BY DEF Executing
    <2>1. /\ thread[q].success_sema \in {0, 1}
          /\ thread[q].success_sema = 1 => frame[q].op = "exec_sema"
          /\ frame[q].op = "exec_check" \/ thread[q].success_sema = 1 => Reported(q, frame[q].tid)
      BY DEF PInv, Executing
    <2>2. CASE q = p
      BY <1>1, <1>2, <1>3, <2>1, <2>2
    <2>3. CASE q # p
      <3>1. frame'[q] = frame[q]
        BY <1>3, <2>3
      <3>2. \A u \in Procs : frame[u].op \notin LoadOps => frame'[u].op \notin LoadOps
        BY <1>2, <1>3 DEF LoadOps
      <3>3. Reported(q, frame[q].tid) => Reported(q, frame[q].tid)'
        BY <1>1, <1>8, <3>1, <3>2 DEF Reported
      <3> QED
        BY <1>1, <2>1, <3>1, <3>3
    <2> QED
      BY <2>2, <2>3
  <1> QED
    BY <1>7, <1>9, <1>10, <1>11, <1>12, <1>13, <1>14 DEF PInv

(* The end frees the process's page and the entries of its children, which *)
(* nobody else's list holds.                                               *)
LEMMA ExitFreeStep ==
    ASSUME PInv, NEW p \in Procs, ExitFree(p)
    PROVE  PInv'
  <1>1. /\ Live(p) /\ frame[p].op = "exit_free" /\ p # Main
        /\ frame' = [frame EXCEPT ![p] = InUser] /\ heap' = heap /\ hist' = hist
        /\ child' = [b \in Blocks |-> IF b \in Kids(p) THEN NULL ELSE child[b]]
        /\ thread' = [thread EXCEPT ![p].status = "DYING", ![p].page = NULL, ![p].children = <<>>]
    BY DEF ExitFree, Goto, At, Live, Kids, PInv, MainStays, MainFits, MainOps
  <1>2. InUser \in Frames /\ InUser.op = "user"
    BY DEF InUser, Frames, Ops
  <1>3. /\ frame \in [Procs -> Frames] /\ frame' \in [Procs -> Frames] /\ frame'[p] = InUser
        /\ \A q \in Procs : q # p => frame'[q] = frame[q]
    BY <1>1, <1>2 DEF PInv, Types
  <1>4. /\ thread'[p] = [thread[p] EXCEPT !.status = "DYING", !.page = NULL, !.children = <<>>]
        /\ \A q \in Procs : q # p => thread'[q] = thread[q]
        /\ thread' = [q \in Procs |-> thread'[q]] /\ thread[p] \in Structs
    BY <1>1 DEF PInv, Types
  <1>5. /\ thread'[p] \in Structs /\ thread'[p].status = "DYING" /\ thread'[p].page = NULL
        /\ thread'[p].children = <<>> /\ thread'[p].parent_tid = thread[p].parent_tid
        /\ thread'[p].success_sema = thread[p].success_sema
    <2>1. <<>> \in Seq(Blocks)
      BY SMT
    <2>2. PICK e \in Seq(Blocks) : e = <<>>
      BY <2>1
    <2>3. thread'[p] = [thread[p] EXCEPT !.status = "DYING", !.page = NULL, !.children = e]
      BY <1>4, <2>2
    <2>4. /\ thread'[p] \in Structs /\ thread'[p].status = "DYING" /\ thread'[p].page = NULL
          /\ thread'[p].children = e /\ thread'[p].parent_tid = thread[p].parent_tid
          /\ thread'[p].success_sema = thread[p].success_sema
      BY <1>4, <2>3 DEF Structs
    <2> QED
      BY <2>2, <2>4
  <1>6. Types'
    <2>1. thread' \in [Procs -> Structs]
      BY <1>4, <1>5 DEF PInv, Types
    <2>2. child' \in [Blocks -> Entry \cup {NULL}]
      BY <1>1 DEF PInv, Types
    <2> QED
      BY <1>1, <1>3, <2>1, <2>2 DEF PInv, Types, HistOK
  <1>7. /\ ~ Live(p)' /\ Kids(p)' = {}
        /\ \A q \in Procs : q # p => (Live(q)' <=> Live(q)) /\ Kids(q)' = Kids(q)
        /\ \A q \in Procs : Alive(q)' <=> Alive(q)
    <2>1. ~ Live(p)' /\ ~ Alive(p)' /\ ~ Alive(p)
      BY <1>1, <1>5 DEF Live, Alive
    <2>2. Kids(p)' = {}
      <3>1. DOMAIN <<>> = {}
        BY SMT
      <3> QED
        BY <1>5, <3>1 DEF Kids, Range
    <2>3. \A q \in Procs : q # p => /\ (Live(q)' <=> Live(q)) /\ Kids(q)' = Kids(q)
                                    /\ (Alive(q)' <=> Alive(q))
      BY <1>3, <1>4 DEF Live, Alive, Kids
    <2> QED
      BY <2>1, <2>2, <2>3
  <1>8. /\ \A b \in Blocks : child'[b] = child[b] \/ child'[b] = NULL
        /\ \A q \in Procs : \A b \in Kids(q) : q # p => child'[b] = child[b]
    <2>1. \A q \in Procs : \A b \in Kids(q) : b \in Blocks /\ (q # p => b \notin Kids(p))
      BY Blocks1 DEF PInv, Family
    <2> QED
      BY <1>1, <2>1
  <1>9. Owning'
    <2>1. ASSUME NEW q \in Procs
          PROVE  /\ thread'[q].page # NULL <=> Live(q)'
                 /\ ~ Live(q)' => frame'[q].op = "user" /\ thread'[q].children = <<>>
      <3>1. CASE q = p
        BY <1>2, <1>3, <1>5, <1>7, <3>1
      <3>2. CASE q # p
        BY <1>3, <1>4, <1>7, <3>2 DEF PInv, Owning
      <3> QED
        BY <3>1, <3>2
    <2>2. ASSUME NEW q \in Procs, NEW r \in Procs,
                 thread'[q].page = thread'[r].page, thread'[q].page # NULL
          PROVE  q = r
      <3>1. q # p /\ r # p /\ thread'[q] = thread[q] /\ thread'[r] = thread[r]
        BY <1>4, <1>5, <2>2
      <3> QED
        BY <2>2, <3>1 DEF PInv, Owning
    <2> QED
      BY <2>1, <2>2 DEF Owning
  <1>10. MainStays'
    BY <1>1, <1>3, <1>4, <1>7, Ends DEF PInv, MainStays, MainFits
  <1>11. Chained'
    <2>1. Linked' = Linked
      <3>1. \A q \in Procs : Alive(q) => q # p /\ thread'[q].page = thread[q].page
        BY <1>1, <1>4 DEF Alive
      <3> QED
        BY <1>7, <3>1 DEF Linked
    <2>2. FreePages \subseteq FreePages'
      BY <1>4, <1>5, Ends DEF FreePages
    <2>3. thread'[Main] = thread[Main]
      BY <1>1, <1>4, Ends
    <2>4. \A q \in Procs : /\ frame'[q].op \in Walks => frame'[q].at \in Pages \cup {tail}
                           /\ frame'[q].op = "exit_child" => frame'[q].thr \in Pages
      BY <1>2, <1>3 DEF PInv, Chained, Walks
    <2> QED
      BY SMT, <1>1, <2>1, <2>2, <2>3, <2>4 DEF PInv, Chained, Chain
  <1>12. Family'
    <2>1. \A b \in Blocks : child[b] # NULL => child[b].tid \in Procs
      BY DEF PInv, Types, Entry
    <2>2. \A q \in Procs : thread[q].status # "NONE" => thread'[q].status # "NONE"
      BY <1>4, <1>5
    <2>3. \A q \in Procs : \A b \in Kids(q)' : child'[b] # NULL
      BY SMT, <1>7, <1>8 DEF PInv, Family
    <2> QED
      BY SMT, <1>7, <1>8, <2>1, <2>2, <2>3 DEF PInv, Family
  <1>13. Loading'
    <2> SUFFICES ASSUME NEW r \in Procs, NEW q \in Procs, frame'[r].op \in LoadOps,
                        thread'[r].parent_tid = q
                 PROVE  LoadOK(r, q)'
      BY DEF Loading
    <2>1. r # p /\ frame'[r] = frame[r] /\ LoadOK(r, q)
      BY <1>2, <1>3, <1>4 DEF PInv, Loading, LoadOps
    <2>2. q # p /\ frame'[q] = frame[q] /\ thread'[q] = thread[q] /\ Kids(q)' = Kids(q)
      BY <1>1, <1>3, <1>4, <1>7, <2>1 DEF LoadOK
    <2>3. \A b \in Kids(q) : child'[b] = child[b]
      BY <1>8, <2>2
    <2>4. LoadFits(r, q, frame[r])'
      BY ZenonT(40), <1>1, <1>8, <2>1, <2>2, <2>3 DEF LoadOK, LoadFits
    <2> QED
      BY <2>1, <2>2, <2>3, <2>4 DEF LoadOK
  <1>14. Executing'
    <2> SUFFICES ASSUME NEW q \in Procs \ {Main}
                 PROVE  /\ thread'[q].success_sema \in {0, 1}
                        /\ thread'[q].success_sema = 1 => frame'[q].op = "exec_sema"
                        /\ frame'[q].op = "exec_check" \/ thread'[q].success_sema = 1 =>
                              Reported(q, frame[q].tid)'
      BY DEF Executing
    <2>1. /\ thread[q].success_sema \in {0, 1}
          /\ thread[q].success_sema = 1 => frame[q].op = "exec_sema"
          /\ frame[q].op = "exec_check" \/ thread[q].success_sema = 1 => Reported(q, frame[q].tid)
      BY DEF PInv, Executing
    <2>2. CASE q = p
      BY <1>1, <1>2, <1>3, <1>5, <2>1, <2>2
    <2>3. CASE q # p
      <3>1. frame'[q] = frame[q] /\ thread'[q] = thread[q] /\ Kids(q)' = Kids(q)
            /\ \A b \in Kids(q) : child'[b] = child[b]
        BY <1>3, <1>4, <1>7, <1>8, <2>3
      <3>2. \A u \in Procs : frame[u].op \notin LoadOps => frame'[u].op \notin LoadOps
        BY <1>2, <1>3 DEF LoadOps
      <3>3. Reported(q, frame[q].tid) => Reported(q, frame[q].tid)'
        BY <1>1, <3>1, <3>2 DEF Reported
      <3> QED
        BY <2>1, <3>1, <3>3
    <2> QED
      BY <2>2, <2>3
  <1> QED
    BY <1>6, <1>9, <1>10, <1>11, <1>12, <1>13, <1>14 DEF PInv

(* list_push_back of a free page. *)
LEMMA Pushed ==
    ASSUME PInv, NEW g \in FreePages
    PROVE  LET k == list_push_back(heap, all_list, g)
           IN  /\ k \in Heaps /\ Chain(k, Linked \cup {g}, thread[Main].page)
               /\ k.next[g] = tail
               /\ \A e \in Pages : e # g => k.next[e] \in {heap.next[e], g}
  <1>1. Linked \in SUBSET Pages /\ heap \in Heaps /\ Chain(heap, Linked, thread[Main].page)
    BY SMT DEF PInv, Types, Owning, Structs, Linked, Alive, Live, Chained
  <1>2. g \in Pages /\ g \notin Linked
    BY DEF FreePages, Linked
  <1>3. PICK h \in Heaps, L \in SUBSET Pages, m \in Pages :
           h = heap /\ L = Linked /\ m = thread[Main].page
    BY <1>1, First
  <1>4. Chain(h, L, m) /\ g \in Pages \ L
    BY <1>1, <1>2, <1>3
  <1>5. /\ list_push_back(h, all_list, g) \in Heaps
        /\ Chain(list_push_back(h, all_list, g), L \cup {g}, m)
        /\ list_push_back(h, all_list, g).next[g] = tail
        /\ \A e \in Pages : e # g => list_push_back(h, all_list, g).next[e] \in {h.next[e], g}
    BY ZenonT(40), <1>4, PushChain
  <1> QED
    BY <1>3, <1>5

(* thread_create: the child is in all_list and in its parent's children    *)
(* before it makes a step.                                                 *)
LEMMA ExecStep ==
    ASSUME PInv, NEW p \in Procs, Exec(p)
    PROVE  PInv'
  <1>1. PICK u \in Procs, g \in FreePages, b \in FreeBlocks, garbage \in BOOLEAN :
          /\ thread_create(p, u, g, b, garbage)
          /\ frame' = [frame EXCEPT ![p] = IF p = Main
                                           THEN [Frame("find_wait", u) EXCEPT !.at = list_begin(heap, all_list)]
                                           ELSE Frame("exec_sema", u),
                                    ![u] = Frame("load", NULL)]
    BY DEF Exec
  <1> DEFINE fp == IF p = Main
                   THEN [Frame("find_wait", u) EXCEPT !.at = list_begin(heap, all_list)]
                   ELSE Frame("exec_sema", u)
             fu == Frame("load", NULL)
             new == [tid |-> u, exit_code |-> -1, load_success |-> garbage]
  <1>2. /\ Live(p) /\ frame[p].op = "user" /\ hist' = hist
        /\ thread[u].status = "NONE" /\ g \in Pages /\ b \in Blocks /\ child[b] = NULL
        /\ heap' = list_push_back(heap, all_list, g)
        /\ child' = [child EXCEPT ![b] = new]
    BY <1>1 DEF Exec, At, Live, thread_create, FreePages, FreeBlocks
  <1>3. p # u /\ u # Main /\ ~ Live(u) /\ thread[u].page = NULL /\ thread[u].children = <<>>
        /\ frame[u].op = "user"
    BY <1>2 DEF Live, PInv, Owning, MainStays
  <1>4. /\ fp \in Frames /\ fp.op \in {"find_wait", "exec_sema"} /\ fp.tid = u
        /\ p # Main => fp.op = "exec_sema"
        /\ p = Main => fp.op = "find_wait" /\ fp.at \in Pages
    <2>1. CASE p = Main
      BY <2>1, First DEF Frame, InUser, Frames, Ops, Walks
    <2>2. CASE p # Main
      BY <2>2, FrameOK DEF Ops
    <2> QED
      BY <2>1, <2>2
  <1>5. fu \in Frames /\ fu.op = "load"
    BY FrameOK DEF Ops
  <1>6. new \in Entry /\ new.tid = u /\ new # NULL
    <2>1. new \in Entry /\ new.tid = u
      BY DEF Entry
    <2> QED
      BY <2>1, Ends
  <1>7. frame' = [frame EXCEPT ![p] = fp, ![u] = fu]
    BY <1>1
  <1> HIDE DEF fp, fu, new
  <1>8. /\ frame \in [Procs -> Frames] /\ frame' \in [Procs -> Frames]
        /\ frame'[p] = fp /\ frame'[u] = fu
        /\ \A q \in Procs : q # p /\ q # u => frame'[q] = frame[q]
    BY <1>3, <1>4, <1>5, <1>7 DEF PInv, Types
  <1>9. /\ child'[b] = new /\ \A d \in Blocks : d # b => child'[d] = child[d]
        /\ child' \in [Blocks -> Entry \cup {NULL}]
    BY <1>2, <1>6 DEF PInv, Types
  <1>10. /\ thread'[u] = [status |-> "READY", page |-> g, parent_tid |-> p,
                          parent_waiting |-> FALSE, children |-> <<>>, success_sema |-> 0]
         /\ thread'[p] = [thread[p] EXCEPT !.children = Append(@, b)]
         /\ \A q \in Procs : q # p /\ q # u => thread'[q] = thread[q]
         /\ thread' = [q \in Procs |-> thread'[q]]
    BY <1>1, <1>3 DEF thread_create, PInv, Types
  <1>11. /\ thread'[u] \in Structs /\ thread'[u].status = "READY" /\ thread'[u].page = g
         /\ thread'[u].parent_tid = p /\ thread'[u].children = <<>>
         /\ thread'[u].success_sema = 0
    <2>1. <<>> \in Seq(Blocks)
      BY SMT
    <2>2. PICK e \in Seq(Blocks) : e = <<>>
      BY <2>1
    <2>3. thread'[u] = [status |-> "READY", page |-> g, parent_tid |-> p,
                        parent_waiting |-> FALSE, children |-> e, success_sema |-> 0]
      BY <1>10, <2>2
    <2>4. /\ thread'[u] \in Structs /\ thread'[u].status = "READY" /\ thread'[u].page = g
          /\ thread'[u].parent_tid = p /\ thread'[u].children = e
          /\ thread'[u].success_sema = 0
      BY SMT, <1>2, <2>3 DEF Structs
    <2> QED
      BY <2>2, <2>4
  <1>12. /\ thread'[p] \in Structs /\ thread'[p].children = Append(thread[p].children, b)
         /\ thread'[p].status = thread[p].status /\ thread'[p].page = thread[p].page
         /\ thread'[p].parent_tid = thread[p].parent_tid
         /\ thread'[p].success_sema = thread[p].success_sema
    <2>1. thread[p] \in Structs /\ thread[p].children \in Seq(Blocks)
      BY Blocks1
    <2>2. Append(thread[p].children, b) \in Seq(Blocks)
      BY SMT, <1>2, <2>1
    <2>3. PICK e \in Seq(Blocks) : e = Append(thread[p].children, b)
      BY <2>2
    <2>4. thread'[p] = [thread[p] EXCEPT !.children = e]
      BY <1>10, <2>3
    <2>5. /\ thread'[p] \in Structs /\ thread'[p].children = e
          /\ thread'[p].status = thread[p].status /\ thread'[p].page = thread[p].page
          /\ thread'[p].parent_tid = thread[p].parent_tid
          /\ thread'[p].success_sema = thread[p].success_sema
      BY <2>1, <2>4 DEF Structs
    <2> QED
      BY <2>3, <2>5
  <1>13. Kids(p)' = Kids(p) \cup {b} /\ Kids(u)' = {} /\ Kids(u) = {}
         /\ \A q \in Procs : q # p => Kids(q)' = Kids(q)
    <2>1. Kids(p)' = Kids(p) \cup {b}
      <3>1. PICK e \in Seq(Blocks) : e = thread[p].children
        BY Blocks1
      <3>2. /\ Len(Append(e, b)) = Len(e) + 1 /\ Append(e, b)[Len(e) + 1] = b
            /\ \A i \in 1 .. Len(e) : Append(e, b)[i] = e[i]
            /\ DOMAIN Append(e, b) = 1 .. Len(e) + 1 /\ DOMAIN e = 1 .. Len(e) /\ Len(e) \in Nat
        BY SMT, <1>2
      <3>3. Range(Append(e, b)) = Range(e) \cup {b}
        BY SMT, <3>2 DEF Range
      <3> QED
        BY <1>12, <3>1, <3>3 DEF Kids
    <2>2. Kids(u)' = {} /\ Kids(u) = {}
      <3>1. DOMAIN <<>> = {}
        BY SMT
      <3> QED
        BY <1>3, <1>11, <3>1 DEF Kids, Range
    <2>3. \A q \in Procs : q # p => Kids(q)' = Kids(q)
      BY <1>10, <2>2 DEF Kids
    <2> QED
      BY <2>1, <2>2, <2>3
  <1>14. \A q \in Procs : \A d \in Kids(q) : /\ d \in Blocks /\ d # b /\ child[d] # NULL
                                             /\ child'[d] = child[d]
    BY <1>2, <1>9, Blocks1
  <1>15. \A d \in Blocks : child[d] # NULL => child[d].tid # u /\ child[d].tid \in Procs
    BY <1>2 DEF PInv, Family, Types, Entry
  <1>16. Types'
    <2>1. heap' \in Heaps
      BY <1>2, Pushed
    <2>2. thread' \in [Procs -> Structs]
      BY <1>10, <1>11, <1>12 DEF PInv, Types
    <2> QED
      BY <1>2, <1>8, <1>9, <2>1, <2>2 DEF PInv, Types, HistOK
  <1>17. /\ Live(u)' /\ Alive(u)' /\ (Live(p)' <=> Live(p)) /\ Alive(p)' /\ Alive(p)
         /\ \A q \in Procs : q # u => (Live(q)' <=> Live(q)) /\ (Alive(q)' <=> Alive(q))
    BY ZenonT(40), <1>2, <1>3, <1>4, <1>5, <1>8, <1>10, <1>11, <1>12 DEF Live, Alive
  <1>18. \A q \in Procs : q # u => /\ thread'[q].page = thread[q].page
                                   /\ thread'[q].parent_tid = thread[q].parent_tid
                                   /\ thread'[q].success_sema = thread[q].success_sema
                                   /\ thread'[q].status = thread[q].status
    BY <1>10, <1>12
  <1>19. g \in FreePages /\ g # NULL /\ \A q \in Procs : thread[q].page # g
    BY <1>2, Ends DEF FreePages
  <1>20. Owning'
    <2>1. ASSUME NEW q \in Procs
          PROVE  /\ thread'[q].page # NULL <=> Live(q)'
                 /\ ~ Live(q)' => frame'[q].op = "user" /\ thread'[q].children = <<>>
      <3>1. CASE q = u
        BY <1>11, <1>17, <1>19, <3>1
      <3>2. CASE q = p
        BY <1>2, <1>3, <1>17, <1>18, <3>2 DEF PInv, Owning
      <3>3. CASE q # u /\ q # p
        BY <1>8, <1>10, <1>17, <3>3 DEF PInv, Owning
      <3> QED
        BY <3>1, <3>2, <3>3
    <2>2. ASSUME NEW q \in Procs, NEW r \in Procs,
                 thread'[q].page = thread'[r].page, thread'[q].page # NULL
          PROVE  q = r
      <3>1. q = u <=> r = u
        BY SMT, <1>11, <1>18, <1>19, <2>2
      <3> QED
        BY SMT, <1>18, <2>2, <3>1 DEF PInv, Owning
    <2> QED
      BY <2>1, <2>2 DEF Owning
  <1>21. MainStays'
    <2>1. MainFits(frame[Main])'
      <3>1. CASE p = Main
        BY <1>4, <1>8, <3>1, Ends DEF MainFits, MainOps
      <3>2. CASE p # Main
        BY <1>3, <1>8, <1>18, <3>2, Ends DEF MainFits, PInv, MainStays
      <3> QED
        BY <3>1, <3>2
    <2> QED
      BY <1>3, <1>17, <1>18, <2>1, Ends DEF PInv, MainStays
  <1>22. Chained'
    <2>1. Linked' = Linked \cup {g}
      <3>1. ASSUME NEW x \in Linked' PROVE x \in Linked \cup {g}
        <4>1. PICK q \in Procs : Alive(q)' /\ thread'[q].page = x
          BY <3>1 DEF Linked
        <4>2. CASE q = u
          BY <1>11, <4>1, <4>2
        <4>3. CASE q # u
          BY <1>17, <1>18, <4>1, <4>3 DEF Linked
        <4> QED
          BY <4>2, <4>3
      <3>2. ASSUME NEW x \in Linked PROVE x \in Linked'
        <4>1. PICK q \in Procs : Alive(q) /\ thread[q].page = x
          BY <3>2 DEF Linked
        <4>2. q # u
          BY <1>3, <4>1 DEF Alive, Live
        <4> QED
          BY <1>17, <1>18, <4>1, <4>2 DEF Linked
      <3>3. g \in Linked'
        BY <1>11, <1>17 DEF Linked
      <3> QED
        BY <3>1, <3>2, <3>3
    <2>2. \A e \in Pages : e \notin FreePages' => e = g \/ e \notin FreePages
      BY <1>11, <1>18 DEF FreePages
    <2>3. /\ Chain(heap', Linked \cup {g}, thread[Main].page) /\ heap'.next[g] = tail
          /\ \A e \in Pages : e # g => heap'.next[e] \in {heap.next[e], g}
      BY <1>2, Pushed
    <2>4. \A e \in Pages \ FreePages' : heap'.next[e] \in Pages \cup {tail}
      BY <1>2, <2>2, <2>3 DEF PInv, Chained
    <2>5. \A q \in Procs : /\ frame'[q].op \in Walks => frame'[q].at \in Pages \cup {tail}
                           /\ frame'[q].op = "exit_child" => frame'[q].thr \in Pages
      BY <1>4, <1>5, <1>8 DEF PInv, Chained, Walks
    <2>6. thread'[Main].page = thread[Main].page
      BY <1>3, <1>18, Ends
    <2> QED
      BY <2>1, <2>3, <2>4, <2>5, <2>6 DEF Chained, Chain
  <1>23. Family'
    <2>1. \A q \in Procs : \A d \in Kids(q)' : child'[d] # NULL
      BY SMT, <1>6, <1>9, <1>13, <1>14
    <2>2. \A q, r \in Procs : q # r => Kids(q)' \cap Kids(r)' = {}
      BY SMT, <1>13, <1>14 DEF PInv, Family
    <2>3. \A c, d \in Blocks : child'[c] # NULL /\ child'[d] # NULL /\ child'[c].tid = child'[d].tid
                                  => c = d
      BY SMT, <1>6, <1>9, <1>15 DEF PInv, Family
    <2>4. \A d \in Blocks : child'[d] # NULL =>
                               thread'[child'[d].tid].status # "NONE" /\ child'[d].tid # Main
      <3> SUFFICES ASSUME NEW d \in Blocks, child'[d] # NULL
                   PROVE  thread'[child'[d].tid].status # "NONE" /\ child'[d].tid # Main
        OBVIOUS
      <3>1. CASE d = b
        BY <1>3, <1>6, <1>9, <1>11, <3>1
      <3>2. CASE d # b
        <4>1. child'[d] = child[d] /\ child[d] # NULL
          BY <1>9, <3>2
        <4>2. thread[child[d].tid].status # "NONE" /\ child[d].tid # Main
          BY <4>1 DEF PInv, Family
        <4>3. child[d].tid \in Procs /\ child[d].tid # u
          BY <1>15, <4>1
        <4> QED
          BY SMT, <1>18, <4>1, <4>2, <4>3
      <3> QED
        BY <3>1, <3>2
    <2> QED
      BY <2>1, <2>2, <2>3, <2>4 DEF Family
  <1>24. p # Main => thread'[p].success_sema = 0
    BY <1>2, <1>3, <1>18 DEF PInv, Executing
  <1>25. Loading'
    <2> SUFFICES ASSUME NEW r \in Procs, NEW q \in Procs, frame'[r].op \in LoadOps,
                        thread'[r].parent_tid = q
                 PROVE  LoadOK(r, q)'
      BY DEF Loading
    <2>1. CASE r = u
      <3>1. q = p /\ LoadFits(r, q, frame[r])'
        BY <1>5, <1>8, <1>11, <2>1 DEF LoadFits
      <3>2. \E d \in Kids(q)' : child'[d].tid = r
        BY <1>6, <1>9, <1>13, <2>1, <3>1
      <3> QED
        BY <1>3, <1>4, <1>8, <1>24, <2>1, <3>1, <3>2 DEF LoadOK
    <2>2. CASE r # u
      <3>1. r # p /\ frame'[r] = frame[r] /\ thread[r].parent_tid = q /\ frame[r].op \in LoadOps
        BY <1>4, <1>8, <1>18, <2>2 DEF LoadOps
      <3>2. LoadOK(r, q)
        BY <3>1 DEF PInv, Loading
      <3>3. q # u /\ (q # Main => q # p /\ frame'[q] = frame[q])
        BY <1>2, <1>3, <1>8, <3>2 DEF LoadOK
      <3>4. \A d \in Kids(q) : d \in Kids(q)' /\ d \in Blocks /\ child'[d] = child[d]
        BY <1>13, <1>14
      <3>5. \A d \in Blocks : child'[d] # NULL /\ child'[d].tid = r => child'[d] = child[d]
        BY <1>6, <1>9, <2>2
      <3>6. thread'[q].page = thread[q].page /\ thread'[q].success_sema = thread[q].success_sema
        BY <1>18, <3>3
      <3>7. LoadFits(r, q, frame[r])'
        BY SMT, <1>2, <3>1, <3>2, <3>4, <3>5, <3>6 DEF LoadOK, LoadFits
      <3> QED
        BY <3>2, <3>3, <3>4, <3>6, <3>7 DEF LoadOK
    <2> QED
      BY <2>1, <2>2
  <1>26. Executing'
    <2> SUFFICES ASSUME NEW q \in Procs \ {Main}
                 PROVE  /\ thread'[q].success_sema \in {0, 1}
                        /\ thread'[q].success_sema = 1 => frame'[q].op = "exec_sema"
                        /\ frame'[q].op = "exec_check" \/ thread'[q].success_sema = 1 =>
                              Reported(q, frame[q].tid)'
      BY DEF Executing
    <2>1. CASE q = u
      BY SMT, <1>5, <1>8, <1>11, <2>1
    <2>2. CASE q = p
      BY SMT, <1>4, <1>8, <1>24, <2>2
    <2>3. CASE q # u /\ q # p
      <3>1. /\ thread[q].success_sema \in {0, 1} /\ thread'[q] = thread[q]
            /\ thread[q].success_sema = 1 => frame[q].op = "exec_sema"
            /\ frame[q].op = "exec_check" \/ thread[q].success_sema = 1 =>
                  Reported(q, frame[q].tid)
            /\ frame'[q] = frame[q]
        BY <1>8, <1>10, <2>3 DEF PInv, Executing
      <3>2. Reported(q, frame[q].tid) => Reported(q, frame[q].tid)'
        <4>1. SUFFICES ASSUME Reported(q, frame[q].tid) PROVE Reported(q, frame[q].tid)'
          OBVIOUS
        <4>2. PICK t \in Procs : t = frame[q].tid
          BY <4>1 DEF Reported
        <4>3. PICK d \in Kids(q) : child[d].tid = t /\ child[d].load_success = hist.loaded[t]
          BY <4>1, <4>2 DEF Reported
        <4>4. d \in Kids(q)' /\ child'[d] = child[d] /\ child[d] # NULL /\ d \in Blocks
          BY <1>13, <1>14, <2>3
        <4>5. t # u
          BY <1>15, <4>3, <4>4
        <4>6. frame'[t].op \notin LoadOps
          BY <1>4, <1>8, <4>1, <4>2, <4>5 DEF Reported, LoadOps
        <4> QED
          BY SMT, <1>2, <3>1, <4>2, <4>3, <4>4, <4>6 DEF Reported
      <3> QED
        BY <3>1, <3>2
    <2> QED
      BY <2>1, <2>2, <2>3
  <1> QED
    BY <1>16, <1>20, <1>21, <1>22, <1>23, <1>25, <1>26 DEF PInv

-----------------------------------------------------------------------------
(* The invariant *)

(* The invariant holds when the initial thread starts. *)
LEMMA InitInvariant == Init => PInv
  <1> SUFFICES ASSUME Init PROVE PInv
    OBVIOUS
  <1>1. PICK g \in Pages :
       /\ heap = list_push_back(list_init, all_list, g)
       /\ thread = [p \in Procs |->
                      [status         |-> IF p = Main THEN "READY" ELSE "NONE",
                       page           |-> IF p = Main THEN g ELSE NULL,
                       parent_tid     |-> Main,
                       parent_waiting |-> FALSE,
                       children       |-> <<>>,
                       success_sema   |-> 0]]
    BY DEF Init
  <1>2. /\ child = [b \in Blocks |-> NULL] /\ frame = [p \in Procs |-> InUser]
        /\ hist = [passed   |-> [p \in Procs |-> NULL],
                   returned |-> [p \in Procs |-> <<>>],
                   loaded   |-> [p \in Procs |-> NULL],
                   faulted  |-> {}]
    BY DEF Init
  <1>3. ASSUME NEW p \in Procs
        PROVE  /\ thread[p].status = IF p = Main THEN "READY" ELSE "NONE"
               /\ thread[p].page = IF p = Main THEN g ELSE NULL
               /\ thread[p].parent_tid = Main /\ thread[p].children = <<>>
               /\ thread[p].success_sema = 0 /\ thread[p] \in Structs /\ Kids(p) = {}
    <2>1. <<>> \in Seq(Blocks)
      BY SMT
    <2>2. PICK e \in Seq(Blocks) : e = <<>>
      BY <2>1
    <2>3. thread[p] = [status |-> IF p = Main THEN "READY" ELSE "NONE",
                       page |-> IF p = Main THEN g ELSE NULL, parent_tid |-> Main,
                       parent_waiting |-> FALSE, children |-> e, success_sema |-> 0]
      BY <1>1, <2>2
    <2>4. /\ thread[p].status = IF p = Main THEN "READY" ELSE "NONE"
          /\ thread[p].page = IF p = Main THEN g ELSE NULL
          /\ thread[p].parent_tid = Main /\ thread[p].children = e
          /\ thread[p].success_sema = 0 /\ thread[p] \in Structs
      BY SMT, <2>3, Ends DEF Structs
    <2>5. DOMAIN <<>> = {}
      BY SMT
    <2> QED
      BY <2>2, <2>4, <2>5 DEF Kids, Range
  <1>4. \A p \in Procs : frame[p].op = "user" /\ frame[p] \in Frames
    BY <1>2 DEF InUser, Frames, Ops
  <1>5. /\ heap \in Heaps /\ heap.next[head] = g /\ heap.prev[g] = head
        /\ heap.next[g] = tail /\ heap.prev[tail] = g
    <2>1. /\ list_init \in Heaps /\ list_init.next[head] = tail /\ list_init.prev[tail] = head
      BY Ends DEF list_init, Heaps, head, tail
    <2>2. /\ heap.next = [list_init.next EXCEPT ![g] = tail, ![head] = g]
          /\ heap.prev = [list_init.prev EXCEPT ![g] = head, ![tail] = g]
          /\ heap = [next |-> heap.next, prev |-> heap.prev]
      BY <1>1, <2>1 DEF list_push_back, list_insert, tail, head
    <2> QED
      BY SMT, <2>1, <2>2, Ends DEF Heaps
  <1>6. Types
    BY <1>1, <1>2, <1>3, <1>4, <1>5 DEF Types, HistOK
  <1>7. Owning
    BY SMT, <1>3, <1>4, Ends DEF Owning, Live
  <1>8. MainStays
    BY <1>3, <1>4, Ends DEF MainStays, MainFits, MainOps, Live
  <1>9. Chained
    <2>1. Linked = {g}
      BY SMT, <1>3, <1>4, Ends DEF Linked, Alive
    <2>2. \A e \in Pages \ FreePages : e = g
      BY SMT, <1>3, Ends DEF FreePages
    <2> QED
      BY SMT, <1>3, <1>4, <1>5, <2>1, <2>2, Ends DEF Chained, Chain, Walks
  <1>10. Family
    BY <1>2, <1>3 DEF Family
  <1>11. Loading
    BY <1>4 DEF Loading, LoadOps
  <1>12. Executing
    <2>1. ASSUME NEW q \in Procs \ {Main}
          PROVE  thread[q].success_sema = 0 /\ frame[q].op = "user"
      BY <1>3, <1>4
    <2> QED
      BY SMT, <2>1 DEF Executing
  <1> QED
    BY <1>6, <1>7, <1>8, <1>9, <1>10, <1>11, <1>12 DEF PInv

INSTANCE WellFoundedInduction

(* The least index in a set of indices is one of them. *)
LEMMA MinIndex ==
    ASSUME NEW S \in SUBSET Nat, S # {}
    PROVE  Min(S) \in S
  <1>1. OpToRel(<, Nat) = {ss \in Nat \X Nat : ss[1] < ss[2]}
    BY DEF OpToRel
  <1>2. IsWellFoundedOn({ss \in Nat \X Nat : ss[1] < ss[2]}, Nat)
    BY <1>1, NatLessThanWellFounded
  <1>3. PICK x \in S : \A y \in S : ~ (<<y, x>> \in {ss \in Nat \X Nat : ss[1] < ss[2]})
    BY <1>2, WFMin
  <1>4. ASSUME NEW y \in S PROVE x <= y
    <2>1. x \in Nat /\ y \in Nat
      OBVIOUS
    <2>2. <<y, x>> \in Nat \X Nat /\ <<y, x>>[1] = y /\ <<y, x>>[2] = x
      BY <2>1
    <2>3. ~ (y < x)
      BY <1>3, <2>2
    <2> QED
      BY SMT, <2>1, <2>3
  <1> QED
    BY <1>4 DEF Min

(* The hypothesis of the lemmas on lists of children. *)
LEMMA LeastIndex == Least
  BY MinIndex DEF Least

(* Every step of every process keeps the invariant. *)
LEMMA NextInvariant == PInv /\ [Next]_vars => PInv'
  <1> SUFFICES ASSUME PInv, [Next]_vars PROVE PInv'
    OBVIOUS
  <1>1. CASE UNCHANGED vars
    <2>1. heap' = heap /\ thread' = thread /\ child' = child /\ frame' = frame /\ hist' = hist
          /\ panic' = panic
      BY <1>1 DEF vars
    <2>2. Panic(panic)
      BY <2>1 DEF Panic
    <2> QED
      BY <2>2, PanicKeeps
  <1>2. CASE Next
    <2>1. PICK p \in Procs : \/ KernelStep(p) \/ Exec(p) \/ ExecNoMemory(p)
                             \/ \E c \in Procs : Wait(p, c)
                             \/ Exit(p) \/ Kill(p)
      BY <1>2 DEF Next
    <2>2. CASE Walk1(p)
      BY <2>2, LeastIndex, WalkStep
    <2>3. CASE ExecSema(p)
      BY <2>3, ExecSemaStep
    <2>4. CASE ExecCheck(p)
      BY <2>4, ExecCheckStep
    <2>5. CASE Load(p)
      BY <2>5, LoadStep
    <2>6. CASE LoadChild(p)
      BY <2>6, LeastIndex, LoadChildStep
    <2>7. CASE LoadStore(p)
      BY <2>7, LeastIndex, LoadStoreStep
    <2>8. CASE LoadSema(p)
      BY <2>8, LeastIndex, LoadSemaStep
    <2>9. CASE StartProcess(p)
      BY <2>9, StartStep
    <2>10. CASE WaitStore(p) \/ WaitBlock(p)
      BY <2>10, WaitSteps
    <2>11. CASE WaitTake(p)
      BY <2>11, LeastIndex, WaitTakeStep
    <2>12. CASE ExitChild(p)
      BY <2>12, LeastIndex, ExitChildStep
    <2>13. CASE ExitStore(p)
      BY <2>13, ExitStoreStep
    <2>14. CASE ProcessExit(p)
      BY <2>14, ProcessExitStep
    <2>15. CASE ExitWake(p)
      BY <2>15, ExitWakeStep
    <2>16. CASE ExitUnlink(p)
      BY <2>16, ExitUnlinkStep
    <2>17. CASE ExitFree(p)
      BY <2>17, ExitFreeStep
    <2>18. CASE Exec(p)
      BY <2>18, ExecStep
    <2>19. CASE ExecNoMemory(p) \/ Exit(p) \/ Kill(p) \/ \E c \in Procs : Wait(p, c)
      BY <2>19, CallSteps
    <2> QED
      BY <2>1, <2>2, <2>3, <2>4, <2>5, <2>6, <2>7, <2>8, <2>9, <2>10, <2>11, <2>12, <2>13,
         <2>14, <2>15, <2>16, <2>17, <2>18, <2>19 DEF KernelStep
  <1> QED
    BY <1>1, <1>2

(* The invariant holds in every reachable state. *)
LEMMA Invariance == Spec => []PInv
  BY InitInvariant, NextInvariant, PTL DEF Spec

(* exec() of userprog/syscall.c returns what its own child's load() has    *)
(* stored: when it reads c->load_success the entry is there, and the flag  *)
(* is the outcome of that load.                                            *)
THEOREM ExecReports == Spec => []ExecReportsLoad
  <1>1. PInv => ExecReportsLoad
    <2> SUFFICES ASSUME PInv, NEW p \in Procs, frame[p].op = "exec_check"
                 PROVE  LET b == thread_get_child_elem(thread[p].children, frame[p].tid)
                        IN  b # NULL /\ child[b].load_success = hist.loaded[frame[p].tid]
      BY DEF ExecReportsLoad
    <2>1. p # Main
      BY DEF PInv, MainStays, MainFits, MainOps
    <2>2. PICK d \in Kids(p) : /\ child[d].tid = frame[p].tid
                               /\ child[d].load_success = hist.loaded[frame[p].tid]
      BY <2>1 DEF PInv, Executing, Reported
    <2>3. d \in Blocks /\ child[d] # NULL
      BY <2>2, Blocks1
    <2> DEFINE b == thread_get_child_elem(thread[p].children, frame[p].tid)
    <2>4. b # NULL /\ b \in Blocks /\ child[b] # NULL /\ child[b].tid = frame[p].tid
      <3>1. PICK lst \in Seq(Blocks) : lst = thread[p].children
        BY Blocks1
      <3>2. d \in Range(lst)
        BY <2>2, <3>1 DEF Kids
      <3>3. \/ /\ thread_get_child_elem(lst, frame[p].tid) = NULL
               /\ \A c \in Range(lst) : child[c] = NULL \/ child[c].tid # frame[p].tid
            \/ LET r == thread_get_child_elem(lst, frame[p].tid)
               IN  r \in Blocks /\ r # NULL /\ child[r] # NULL /\ child[r].tid = frame[p].tid
        BY LeastIndex, ChildElem
      <3> QED
        BY <2>2, <2>3, <3>1, <3>2, <3>3
    <2> HIDE DEF b
    <2>5. b = d
      BY <2>2, <2>3, <2>4 DEF PInv, Family
    <2> QED
      BY <2>2, <2>4, <2>5 DEF b
  <1> QED
    BY <1>1, Invariance, PTL

(* load() of userprog/process.c uses the parent's struct thread and its    *)
(* own entry there without a test: both are there while it runs.           *)
THEOREM LoadSafe == Spec => []LoadHasParent
  <1>1. PInv => LoadHasParent
    <2> SUFFICES ASSUME PInv, NEW p \in Procs, frame[p].op \in LoadOps
                 PROVE  LET q == thread[p].parent_tid
                        IN  Alive(q) /\ thread_get_child_elem(thread[q].children, p) # NULL
      BY DEF LoadHasParent, LoadOps
    <2> QED
      BY LeastIndex, Blocks1, Parent
  <1> QED
    BY <1>1, Invariance, PTL
=============================================================================
