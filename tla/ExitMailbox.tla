---------------------------- MODULE ExitMailbox -----------------------------
(***************************************************************************)
(* What the wait system call promises of each child: it ends once, with a  *)
(* status; the first wait that returns returns that status, every later    *)
(* one returns -1.                                                         *)
(***************************************************************************)
EXTENDS Integers, Sequences

CONSTANTS NULL, Children, Statuses

VARIABLES
    exited,     (* the status each child ended with, NULL while it runs *)
    returned    (* what the waits for each child have returned, in order *)

Init ==
    /\ exited = [c \in Children |-> NULL]
    /\ returned = [c \in Children |-> <<>>]

(* The child calls exit, or the kernel ends it with status -1. *)
End(c) ==
    /\ exited[c] = NULL
    /\ \E s \in Statuses \cup {-1} : exited' = [exited EXCEPT ![c] = s]
    /\ UNCHANGED returned

(* A wait for the child returns to its parent. *)
Return(c) ==
    /\ exited[c] # NULL
    /\ returned' = [returned EXCEPT ![c] = Append(@, IF @ = <<>> THEN exited[c] ELSE -1)]
    /\ UNCHANGED exited

Next == \E c \in Children : End(c) \/ Return(c)

Spec == Init /\ [][Next]_<<exited, returned>>
=============================================================================
