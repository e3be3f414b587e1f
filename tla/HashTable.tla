----------------------------- MODULE HashTable ------------------------------
(***************************************************************************)
(* The hash table of lib/kernel/hash.c, with one caller that uses it as    *)
(* its comments ask: no change while an iterator is in use.  malloc may    *)
(* fail in every call.                                                     *)
(***************************************************************************)
EXTENDS Integers, Sequences, FiniteSets, SequencesExt

CONSTANTS
    HashKeys,           (* keys of the elements *)
    Hash(_),            (* the hash function of a key *)
    Ids,                (* elements with the same key are told apart by these *)
    MinBuckets,         (* at least that many buckets: the 4 of hash_init and rehash *)
    BEST_ELEMS_PER_BUCKET

VARIABLES
    buckets,            (* index from 0 -> sequence of [key, id]; <<>> has no buckets *)
    elem_cnt,
    iter,               (* [bucket, pos], or Off; pos 0 is the head of the list *)
    seen,               (* history: what the last hash_first or hash_apply gave so far *)
    content,            (* history: what the caller put in the table *)
    right               (* history: whether the last call returned what it should *)

vars == <<buckets, elem_cnt, iter, seen, content, right>>

Off == [bucket |-> -1, pos |-> 0]
NULL == [key |-> -1, id |-> 0]
Elems == [key : HashKeys, id : Ids]

bucket_cnt == Cardinality(DOMAIN buckets)

-----------------------------------------------------------------------------
is_power_of_2(x) == \E n \in 0 .. x : x = 2^n

(* turn_off_least_1bit until one bit is left. *)
HighestBit(x) == CHOOSE p \in 1 .. x : is_power_of_2(p) /\ 2 * p > x

(* find_bucket in a table of CNT buckets: cnt is a power of 2. *)
find_bucket(e, cnt) == Hash(e.key) % cnt

(* find_elem in the bucket E belongs in of table B. *)
find_elem(b, e) ==
    LET bucket == b[find_bucket(e, Cardinality(DOMAIN b))]
        S == {i \in DOMAIN bucket : bucket[i].key = e.key}
    IN  IF S = {} THEN NULL ELSE bucket[CHOOSE i \in S : \A j \in S : i <= j]

insert_elem(b, e) == [b EXCEPT ![find_bucket(e, Cardinality(DOMAIN b))] = <<e>> \o @]

(* list_remove of E, whichever bucket it is in. *)
remove_elem(b, e) == [i \in DOMAIN b |-> SelectSeq(b[i], LAMBDA f : f # e)]

(* Faulty variant for the mutation checks. *)
MoveByOldCount(old, cnt) ==
    FoldLeft(LAMBDA b, e : [b EXCEPT ![find_bucket(e, Cardinality(DOMAIN old)) % cnt] = <<e>> \o @],
             [i \in 0 .. cnt - 1 |-> <<>>],
             FlattenSeq([i \in 1 .. Cardinality(DOMAIN old) |-> old[i - 1]]))

(* Each old element moves to the front of its bucket among CNT new ones. *)
Move(old, cnt) ==
    FoldLeft(insert_elem, [i \in 0 .. cnt - 1 |-> <<>>],
             FlattenSeq([i \in 1 .. Cardinality(DOMAIN old) |-> old[i - 1]]))

(* The number of buckets for CNT elements. *)
Ideal(cnt) ==
    LET n == cnt \div BEST_ELEMS_PER_BUCKET
    IN  HighestBit(IF n < MinBuckets THEN MinBuckets ELSE n)

(* The tables that rehash can leave: the same if malloc fails. *)
rehash(b, cnt) ==
    IF Ideal(cnt) = Cardinality(DOMAIN b) THEN {b} ELSE {b, Move(b, Ideal(cnt))}

-----------------------------------------------------------------------------
Idle == iter = Off /\ buckets # <<>>

(* hash_init, with hash_clear of the new buckets. *)
hash_init ==
    /\ buckets = <<>>
    /\ buckets' = [i \in 0 .. MinBuckets - 1 |-> <<>>] /\ elem_cnt' = 0
    /\ content' = {}
    /\ UNCHANGED <<iter, seen, right>>

(* What the caller knows is in the table with the key of E. *)
Known(e) == LET S == {f \in content : f.key = e.key}
            IN  IF S = {} THEN NULL ELSE CHOOSE f \in S : TRUE

Returns(e, x) == right' = (x = Known(e)) /\ seen' = <<>>

hash_insert(e) ==
    LET old == find_elem(buckets, e)
        b == IF old = NULL THEN insert_elem(buckets, e) ELSE buckets
    IN  /\ Idle /\ e \notin content
        /\ elem_cnt' = IF old = NULL THEN elem_cnt + 1 ELSE elem_cnt
        /\ buckets' \in rehash(b, elem_cnt')
        /\ content' = IF Known(e) = NULL THEN content \cup {e} ELSE content
        /\ Returns(e, old)
        /\ UNCHANGED iter

hash_replace(e) ==
    LET old == find_elem(buckets, e)
        b == IF old = NULL THEN buckets ELSE remove_elem(buckets, old)
    IN  /\ Idle /\ e \notin content
        /\ elem_cnt' = IF old = NULL THEN elem_cnt + 1 ELSE elem_cnt
        /\ buckets' \in rehash(insert_elem(b, e), elem_cnt')
        /\ content' = (content \ {Known(e)}) \cup {e}
        /\ Returns(e, old)
        /\ UNCHANGED iter

hash_find(e) ==
    /\ Idle /\ Returns(e, find_elem(buckets, e))
    /\ UNCHANGED <<buckets, elem_cnt, iter, content>>

hash_delete(e) ==
    LET found == find_elem(buckets, e)
    IN  /\ Idle
        /\ IF found = NULL THEN UNCHANGED <<buckets, elem_cnt>>
           ELSE /\ elem_cnt' = elem_cnt - 1
                /\ buckets' \in rehash(remove_elem(buckets, found), elem_cnt')
        /\ content' = content \ {Known(e)}
        /\ Returns(e, found)
        /\ UNCHANGED iter

(* The elements bucket by bucket, the order of hash_apply and hash_clear. *)
InOrder == FlattenSeq([i \in 1 .. bucket_cnt |-> buckets[i - 1]])

(* Every element that the caller put in the table, once. *)
AllOnce(s) == Range(s) = content /\ Len(s) = Cardinality(content)

hash_apply ==
    /\ Idle /\ seen' = InOrder /\ right' = AllOnce(seen')
    /\ UNCHANGED <<buckets, elem_cnt, iter, content>>

(* hash_clear calls the destructor, if there is one, for each element. *)
hash_clear(destructor) ==
    /\ Idle
    /\ seen' = IF destructor THEN InOrder ELSE <<>>
    /\ buckets' = [i \in DOMAIN buckets |-> <<>>] /\ elem_cnt' = 0
    /\ content' = {}
    /\ UNCHANGED <<iter, right>>

hash_destroy(destructor) ==
    /\ Idle
    /\ seen' = IF destructor THEN InOrder ELSE <<>>
    /\ elem_cnt' = IF destructor THEN 0 ELSE elem_cnt
    /\ buckets' = <<>> /\ content' = {}
    /\ UNCHANGED <<iter, right>>

hash_first ==
    /\ Idle /\ iter' = [bucket |-> 0, pos |-> 0] /\ seen' = <<>>
    /\ UNCHANGED <<buckets, elem_cnt, content, right>>

(* hash_next: the next element of the bucket, or the first of the next     *)
(* bucket that has one.                                                    *)
Advance(i) ==
    LET rest == {j \in i.bucket + 1 .. bucket_cnt - 1 : buckets[j] # <<>>}
    IN  IF i.pos < Len(buckets[i.bucket]) THEN [i EXCEPT !.pos = @ + 1]
        ELSE IF rest = {} THEN Off
        ELSE [bucket |-> CHOOSE j \in rest : \A k \in rest : j <= k, pos |-> 1]

hash_next ==
    /\ iter # Off /\ iter' = Advance(iter)
    /\ seen' = IF iter' = Off THEN seen ELSE Append(seen, buckets[iter'.bucket][iter'.pos])
    /\ right' = (iter' = Off => AllOnce(seen))
    /\ UNCHANGED <<buckets, elem_cnt, content>>

Init ==
    /\ buckets = <<>> /\ elem_cnt = 0 /\ iter = Off /\ seen = <<>> /\ content = {}
    /\ right = TRUE

Next ==
    \/ hash_init \/ hash_apply \/ hash_first \/ hash_next
    \/ \E e \in Elems : hash_insert(e) \/ hash_replace(e) \/ hash_find(e) \/ hash_delete(e)
    \/ \E destructor \in BOOLEAN : hash_clear(destructor) \/ hash_destroy(destructor)

Spec == Init /\ [][Next]_vars

-----------------------------------------------------------------------------
(* Properties *)

(* Every element is in the bucket in which find_elem will look for it, and *)
(* elem_cnt counts them, also after a rehash for which there was no memory *)
(* and later ones that start from more or fewer buckets than they should.  *)
TableExact ==
    buckets # <<>> =>
        /\ \A i \in DOMAIN buckets : \A e \in Range(buckets[i]) : find_bucket(e, bucket_cnt) = i
        /\ Range(InOrder) = content /\ Len(InOrder) = elem_cnt

(* find_bucket masks the hash, which reaches every bucket only if their    *)
(* number is a power of 2, and there are never fewer than the least.       *)
MaskReaches == buckets # <<>> => is_power_of_2(bucket_cnt) /\ bucket_cnt >= MinBuckets

(* hash_insert, hash_replace, hash_find and hash_delete return the element *)
(* that was in the table, and hash_apply and an iteration to its end meet  *)
(* every element once.                                                     *)
AnswersRight == right

=============================================================================
