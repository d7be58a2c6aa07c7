------------------------------ MODULE MCShell ------------------------------
(***************************************************************************)
(* The lines that are carried out: a program by itself, which may open     *)
(* more than there are descriptors or files; a pipeline; one without its   *)
(* right-hand command; two writers at the same time; a pipeline that finds *)
(* only one free file; a redirection in the background.                    *)
(***************************************************************************)
EXTENDS Shell
MCRunLines ==
  {<<"w">>, <<"w", "|", "w">>, <<"w", "|">>, <<"(", "w", "&", ";", "w", ")", "|", "w">>,
   <<"(", "w", "|", "w", ")", "<", "w">>, <<"w", ">", "w", "&">>}
=============================================================================
