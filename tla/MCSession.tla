---------------------------- MODULE MCSession ----------------------------
(***************************************************************************)
(* Option combinations for model checking Session.                         *)
(***************************************************************************)
EXTENDS Session

\* A fault-free recursive transfer of a list with two subdirectories, plain options.
TwoSubdirectories ==
    {[dir |-> dir, inc |-> TRUE, groups |-> 3, sync |-> TRUE, delete |-> FALSE,
      prune |-> FALSE, list_only |-> FALSE, dry_run |-> FALSE, append |-> FALSE,
      remove |-> FALSE, read_only |-> FALSE, faults |-> {}] : dir \in {"push", "pull"}}
=============================================================================
