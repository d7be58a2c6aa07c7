----------------------------- MODULE LineInput -----------------------------
(***************************************************************************)
(* What the console promises to its readers: characters typed into a line  *)
(* can be taken back until the line is complete; complete lines are read   *)
(* in the order in which they were typed, each character once.             *)
(***************************************************************************)
EXTENDS Integers, Sequences

CONSTANTS Chars, Enders,   \* characters, and those that complete a line
          Limit            \* characters kept; a full buffer completes its line

VARIABLES lines, edit
vars == <<lines, edit>>

Init == lines = <<>> /\ edit = <<>>

Type(c) ==
  /\ Len(lines) + Len(edit) < Limit
  /\ IF c \in Enders \/ Len(lines) + Len(edit) = Limit - 1
       THEN lines' = lines \o Append(edit, c) /\ edit' = <<>>
       ELSE edit' = Append(edit, c) /\ UNCHANGED lines

Erase(n) == n \in 1 .. Len(edit) /\ edit' = SubSeq(edit, 1, Len(edit) - n) /\ UNCHANGED lines
Read     == lines # <<>> /\ lines' = Tail(lines) /\ UNCHANGED edit

Next == Read \/ (\E c \in Chars : Type(c)) \/ \E n \in 1 .. Limit : Erase(n)

Spec == Init /\ [][Next]_vars
=============================================================================
