------------------------------- MODULE MCFs -------------------------------
(***************************************************************************)
(* A file b in the root, a directory a and a name b in it.  No directory   *)
(* is made inside a, so the ".." of a leads to the root, which stays.      *)
(***************************************************************************)
EXTENDS Fs, TLC
Abs(op, to) == [op |-> op, abs |-> TRUE, path |-> to, new |-> <<>>]
Rel(op, to) == [op |-> op, abs |-> FALSE, path |-> to, new |-> <<>>]
LinkTo(from, to) == [op |-> "link", abs |-> TRUE, path |-> from, new |-> to]
MCFiles == <<[name |-> "b", blocks |-> 2]>>
MCCalls ==
  {Abs("mkdir", <<"a">>), Abs("create", <<"a", "b">>), Abs("unlink", <<"a", "b">>),
   Abs("unlink", <<"a">>), Abs("unlink", <<"b">>), Abs("chdir", <<"a">>), Rel("mknod", <<"b">>), Rel("chdir", <<"b">>),
   Abs("chdir", <<>>), Rel("open", <<"..">>), LinkTo(<<"b">>, <<"a", "b">>), LinkTo(<<"a">>, <<"b">>),
   LinkTo(<<"b">>, <<>>)}
Perms == Permutations(Procs)
=============================================================================
