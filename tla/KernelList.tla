----------------------------- MODULE KernelList -----------------------------
(***************************************************************************)
(* The intrusive doubly linked lists of lib/kernel/list.c, at the level of *)
(* their pointers.  A heap h is a record of two functions, h.next and      *)
(* h.prev, over every list element of the kernel.  An element taken off a  *)
(* list keeps its pointers, as it does in the code: who removes it a       *)
(* second time writes through them into whatever its former neighbours     *)
(* have become.                                                            *)
(***************************************************************************)
EXTENDS Naturals, Sequences, FiniteSets

CONSTANTS
    NULL,    (* the null pointer *)
    Items,   (* elements embedded in kernel objects (thread, lock, ...) *)
    Lists    (* the lists; each owns a head and a tail element *)

list_head(L) == <<"head", L>>
list_end(L) == <<"tail", L>>

Elems == Items \cup {list_head(L) : L \in Lists} \cup {list_end(L) : L \in Lists}

Heaps == [next : [Elems -> Elems \cup {NULL}], prev : [Elems -> Elems \cup {NULL}]]

(* Every list initialised, every item zeroed by memset. *)
list_init ==
    [next |-> [e \in Elems |->
                 IF \E L \in Lists : e = list_head(L)
                 THEN list_end(CHOOSE L \in Lists : e = list_head(L)) ELSE NULL],
     prev |-> [e \in Elems |->
                 IF \E L \in Lists : e = list_end(L)
                 THEN list_head(CHOOSE L \in Lists : e = list_end(L)) ELSE NULL]]

is_head(h, e)     == h.prev[e] = NULL /\ h.next[e] # NULL
is_interior(h, e) == h.prev[e] # NULL /\ h.next[e] # NULL
is_tail(h, e)     == h.prev[e] # NULL /\ h.next[e] = NULL

list_begin(h, L) == h.next[list_head(L)]
list_empty(h, L) == list_begin(h, L) = list_end(L)

(* The four assignments of list_insert in their order: the third one goes  *)
(* through the old before->prev, which is elem->prev by then.              *)
list_insert(h, before, elem) ==
    LET p == h.prev[before]
    IN  [next |-> [h.next EXCEPT ![elem] = before, ![p] = elem],
         prev |-> [h.prev EXCEPT ![elem] = p, ![before] = elem]]

list_push_back(h, L, elem) == list_insert(h, list_end(L), elem)

(* Guarded by is_interior(h, elem) in the callers; elem keeps its pointers. *)
list_remove(h, elem) ==
    [next |-> [h.next EXCEPT ![h.prev[elem]] = h.next[elem]],
     prev |-> [h.prev EXCEPT ![h.next[elem]] = h.prev[elem]]]

(* What a loop "for (e = list_begin (L); ...; e = list_next (e))" visits   *)
(* until an element without successor, or until it has made more steps     *)
(* than there are items, which it does only on a damaged list.             *)
Walk(h, L) ==
    LET from[e \in Elems \cup {NULL}, n \in 0 .. Cardinality(Items)] ==
            IF e = NULL THEN <<e>>
            ELSE IF n = 0 \/ h.next[e] = NULL THEN <<e>>
            ELSE <<e>> \o from[h.next[e], n - 1]
    IN  from[list_begin(h, L), Cardinality(Items)]

(* The loop ends at L's own tail having met only elements of kind K.  If   *)
(* not, it trips over ASSERT (is_head (elem) || is_interior (elem)) in     *)
(* list_next at the tail of another list, loops for ever, or takes a head  *)
(* for an entry.                                                           *)
WellFormed(h, L, K) ==
    LET w == Walk(h, L)
    IN  /\ w[Len(w)] = list_end(L)
        /\ \A i \in 1 .. Len(w) - 1 : w[i] \in K

(* The entries of a well-formed list, front to back. *)
Entries(h, L) == LET w == Walk(h, L) IN SubSeq(w, 1, Len(w) - 1)

list_size(h, L) == Len(Entries(h, L))

(* The first of the entries with the largest rank; less is "<" on ranks. *)
list_max(h, L, rank) ==
    LET s == Entries(h, L)
        i == CHOOSE i \in 1 .. Len(s) :
               /\ \A j \in 1 .. Len(s) : rank[s[j]] <= rank[s[i]]
               /\ \A j \in 1 .. i - 1 : rank[s[j]] < rank[s[i]]
    IN  s[i]
=============================================================================
