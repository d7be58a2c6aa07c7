--------------------------- MODULE PageAllocator ---------------------------
(***************************************************************************)
(* What kalloc.c promises the rest of the kernel: a pool of physical page  *)
(* frames, each with a reference count, in which every call of kalloc,     *)
(* kfree, incr_refc and decr_refc takes effect in one step.                *)
(*                                                                         *)
(* Kmem.tla shows that the code of kalloc.c, statement by statement,       *)
(* implements this module on one CPU; CoW.tla builds the copy-on-write     *)
(* address spaces on the four operations below.                            *)
(***************************************************************************)
EXTENDS Integers, FiniteSets

CONSTANT Frames       \* the physical pages between `end' and PHYSTOP

VARIABLES
  refc,               \* kmem.refc_cnt, indexed by frame
  free                \* the frames on kmem.freelist

(***************************************************************************)
(* The four operations.  kalloc takes a frame off the list and gives it a  *)
(* count of one; kfree drops one reference and puts the frame back when    *)
(* none is left; decr_refc drops a reference and never frees the frame.    *)
(***************************************************************************)
kalloc(f) ==
  /\ f \in free
  /\ free' = free \ {f}
  /\ refc' = [refc EXCEPT ![f] = 1]

kfree(f) ==
  LET left == IF refc[f] > 0 THEN refc[f] - 1 ELSE refc[f] IN
  /\ refc' = [refc EXCEPT ![f] = left]
  /\ free' = IF left = 0 THEN free \union {f} ELSE free

incr_refc(f) ==
  /\ refc' = [refc EXCEPT ![f] = @ + 1]
  /\ UNCHANGED free

decr_refc(f) ==
  /\ refc' = [refc EXCEPT ![f] = @ - 1]
  /\ UNCHANGED free

\* kalloc returns 0.
OutOfMemory == free = {}
-----------------------------------------------------------------------------
(***************************************************************************)
(* The pool on its own.  freerange hands frames over while the kernel      *)
(* boots (kfree of a frame nobody references); after that a caller drops   *)
(* or adds a reference only to a frame that is referenced.                 *)
(***************************************************************************)
Init ==
  /\ refc = [f \in Frames |-> 0]
  /\ free = {}

Donate(f) == refc[f] = 0 /\ f \notin free /\ kfree(f)
Alloc(f)  == kalloc(f)
Drop(f)   == refc[f] > 0 /\ kfree(f)
Share(f)  == refc[f] > 0 /\ incr_refc(f)
Unshare(f) == refc[f] > 1 /\ decr_refc(f)

Next == \E f \in Frames :
          Donate(f) \/ Alloc(f) \/ Drop(f) \/ Share(f) \/ Unshare(f)

vars == <<refc, free>>

Spec == Init /\ [][Next]_vars
=============================================================================
