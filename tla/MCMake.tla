---- MODULE MCMake ----
(***************************************************************************)
(* An instance of Jobserver: a root with a recursive job, a job of two     *)
(* lines whose first ignores errors; the submake has two.*)
(***************************************************************************)
EXTENDS Jobserver

CONSTANTS root, sub, j1, j2, k1, k2, none

OwnerOf == [j \in Jobs |-> IF j \in {k1, k2} THEN sub ELSE root]

Command == [submake |-> none, noerror |-> FALSE]
Ignored == [submake |-> none, noerror |-> TRUE]
Recursive == [submake |-> sub, noerror |-> FALSE]

Lines == [j \in Jobs |-> CASE j = j1 -> <<Recursive>>
                           [] j = j2 -> <<Ignored, Command>>
                           [] OTHER -> <<Command>>]
====
