----------------------------- MODULE BlockStore -----------------------------
(***************************************************************************)
(* What bio.c promises (bio.c:7-16): one copy of every disk block, used by *)
(* one process at a time.  A process takes a block, may change what it     *)
(* holds any number of times, and gives the block back.                    *)
(***************************************************************************)
CONSTANTS Procs, Blocks, Values, None

VARIABLES content, owner

vars == <<content, owner>>

Init ==
  /\ content \in [Blocks -> Values]
  /\ owner = [b \in Blocks |-> None]

Take(p, b) ==
  /\ owner[b] = None /\ \A c \in Blocks : owner[c] # p
  /\ owner' = [owner EXCEPT ![b] = p]
  /\ UNCHANGED content

Change(p, b, v) ==
  /\ owner[b] = p
  /\ content' = [content EXCEPT ![b] = v]
  /\ UNCHANGED owner

Give(p, b) ==
  /\ owner[b] = p
  /\ owner' = [owner EXCEPT ![b] = None]
  /\ UNCHANGED content

Next ==
  \E p \in Procs, b \in Blocks :
    Take(p, b) \/ Give(p, b) \/ \E v \in Values : Change(p, b, v)

Spec == Init /\ [][Next]_vars
=============================================================================
