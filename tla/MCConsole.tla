----------------------------- MODULE MCConsole -----------------------------
(***************************************************************************)
(* Model values for Console.  Processes are interchangeable.               *)
(***************************************************************************)
EXTENDS Console, TLC

Symmetric == Permutations(Procs)
=============================================================================
