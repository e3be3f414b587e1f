-------------------------------- MODULE MCVm --------------------------------
(***************************************************************************)
(* Instances of Vm for TLC.                                                *)
(***************************************************************************)
EXTENDS Vm

(* A program of one page, half of it filled from the file, at page 1, or   *)
(* of one page that is read-only.                                          *)
MCSegments == <<[page |-> 1, ofs |-> 0, read |-> 1, zero |-> PGSIZE - 1, writable |-> TRUE]>>
MCReadOnly == <<[page |-> 1, ofs |-> 0, read |-> PGSIZE, zero |-> 0, writable |-> FALSE]>>

(* In the first stack page, and at the start of the last one there can be. *)
MCEsps == {[page |-> NPages - 1, low |-> FALSE], [page |-> NPages - MAX_PAGES, low |-> TRUE]}

=============================================================================
