--------------------------- MODULE PrivateMemory ---------------------------
(***************************************************************************)
(* What fork, sbrk, exec and the page-fault handler promise the processes: *)
(* every process has a memory of its own.  fork gives the child a copy of  *)
(* the whole of the parent's memory at one instant; after that a write of  *)
(* one process is never seen by another.  There are no frames, reference   *)
(* counts or page tables here.                                             *)
(***************************************************************************)
EXTENDS Integers

CONSTANTS Procs, VA, Values, Zero, Text, None

VARIABLES
  alive,      \* the processes that can touch their memory
  mem         \* mem[p][va]: the content of a page, or None

Blank == [va \in VA |-> None]

Init ==
  \E p \in Procs, first \in VA, v \in Values :
     /\ alive = {p}
     /\ mem = [q \in Procs |-> IF q = p THEN [Blank EXCEPT ![first] = v] ELSE Blank]

Write(p, va, v) ==
  /\ p \in alive /\ mem[p][va] # None
  /\ mem' = [mem EXCEPT ![p][va] = v]
  /\ UNCHANGED alive

Fork(p, c) ==
  /\ p \in alive /\ c \notin alive
  /\ alive' = alive \union {c}
  /\ mem' = [mem EXCEPT ![c] = mem[p]]

\* sbrk(n > 0): fresh pages are zero, the others keep their content.
Grow(p, new) ==
  /\ p \in alive /\ \A va \in new : mem[p][va] = None
  /\ mem' = [mem EXCEPT ![p] = [va \in VA |-> IF va \in new THEN Zero ELSE @[va]]]
  /\ UNCHANGED alive

\* sbrk(n < 0) gives one page back.
Release(p, va) ==
  /\ p \in alive
  /\ mem' = [mem EXCEPT ![p][va] = None]
  /\ UNCHANGED alive

\* The pages up to top become those of the program: its text, a page below the
\* stack, and the stack.  Nothing of the old memory remains.
Exec(p, top) ==
  /\ p \in alive
  /\ mem' = [mem EXCEPT ![p] = [va \in VA |->
               IF va > top THEN None ELSE IF va = top - 1 THEN Zero ELSE Text]]
  /\ UNCHANGED alive

Exit(p) ==
  /\ p \in alive
  /\ alive' = alive \ {p}
  /\ mem' = [mem EXCEPT ![p] = Blank]

\* What p may do: no other memory changes, but for the child's at its birth.
Step(p) ==
  \/ \E va \in VA : Release(p, va) \/ Exec(p, va) \/ \E v \in Values : Write(p, va, v)
  \/ \E c \in Procs : Fork(p, c)
  \/ \E new \in SUBSET VA : Grow(p, new)
  \/ Exit(p)

Next == \E p \in Procs : Step(p)

vars == <<alive, mem>>

Spec == Init /\ [][Next]_vars
=============================================================================
