------------------------------ MODULE MCCaches ------------------------------
(***************************************************************************)
(* Which threads get the processor is chosen at the start: both clients    *)
(* and write-behind, or one client and read-ahead.                         *)
(***************************************************************************)
EXTENDS MCCache

Absent == [Idle EXCEPT !.op = "absent"]

MCInit ==
    /\ cache_init
    /\ \E S \in {{"read_ahead"}} \cup {{"write_behind", c} : c \in Clients} :
          frame = [t \in Threads |-> IF t \in S THEN Absent ELSE Idle]

(* Only read_ahead looks at the ring. *)
View ==
    <<table_lock, cache, lru, disk, frame, panic, hist,
      IF frame["read_ahead"] = Absent THEN NULL ELSE ring>>

MCSpec == MCInit /\ [][Next]_vars

=============================================================================
