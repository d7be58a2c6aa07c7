------------------------------- MODULE MCDisk -------------------------------
(***************************************************************************)
(* Model values for Disk.  Processes, buffers, contents and readable       *)
(* blocks are interchangeable: no formula names one of them, and the first *)
(* order of the list is any.                                               *)
(***************************************************************************)
EXTENDS Disk, TLC

Symmetric ==
  Permutations(Procs) \union Permutations(Bufs) \union Permutations(Blocks \ Bad)
    \union Permutations(Values)
=============================================================================
