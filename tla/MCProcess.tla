----------------------------- MODULE MCProcess ------------------------------
(***************************************************************************)
(* Instances of Process for TLC.                                           *)
(***************************************************************************)
EXTENDS Process, TLC

(* Tids, pages and blocks are interchangeable. *)
Symmetry == Permutations(Procs \ {Main}) \cup Permutations(Pages) \cup Permutations(Blocks)

(* Symmetry cannot be used with liveness; since pages are interchangeable, *)
(* one initial page stands for all.                                        *)
LiveSpec ==
    /\ Init /\ thread[Main].page = CHOOSE g \in Pages : TRUE
    /\ [][Next]_vars
    /\ \A p \in Procs : WF_vars(KernelStep(p))
=============================================================================
