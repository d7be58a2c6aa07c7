------------------------------- MODULE MCCoW -------------------------------
(***************************************************************************)
(* Model values for CoW.  Frames are interchangeable, and so are the       *)
(* process slots other than initproc's: permuting either maps behaviours   *)
(* to behaviours and every checked formula to itself.                      *)
(***************************************************************************)
EXTENDS CoW, TLC

Symmetric == Permutations(Frames) \union Permutations(Procs \ {InitProc})
=============================================================================
