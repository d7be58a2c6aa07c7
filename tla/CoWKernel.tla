----------------------------- MODULE CoWKernel -----------------------------
(***************************************************************************)
(* CoW with programs that also touch the kernel half of their address      *)
(* space.  setupkvm maps every frame there, at P2V of its address and not  *)
(* for user mode, so the access faults; and CoW_handler takes whatever     *)
(* entry walkpgdir finds, without a look at KERNBASE or PTE_U (vm.c:400).  *)
(*                                                                         *)
(* A frame with one reference only gets PTE_W set in the kernel entry: the *)
(* access faults for ever, and nothing here changes.  A shared frame is    *)
(* copied, the kernel entry is made to point to the copy and the count of  *)
(* the frame goes down although no user entry is gone.  One step, which is *)
(* exact on one processor: a page fault is an interrupt gate.              *)
(*                                                                         *)
(* What the kernel itself then reads and writes through the changed entry  *)
(* is not modelled, nor are addresses of devices.                          *)
(***************************************************************************)
EXTENDS CoW

VARIABLE kpte   \* the frames p's kernel mapping of which the handler has replaced

anyVars == <<vars, kpte>>

KernelFault(p, f) ==
  /\ At(p, "user") /\ p # InitProc /\ f \notin kpte[p] /\ refc[f] > 1
  /\ \/ /\ \E g \in free :
             /\ free' = free \ {g}
             /\ refc' = [refc EXCEPT ![g] = 1, ![f] = @ - 1]
             /\ content' = [content EXCEPT ![g] = content[f]]
        /\ kpte' = [kpte EXCEPT ![p] = @ \union {f}]
        /\ lcr3(p, pte)
        /\ UNCHANGED <<pte, proc, regs, hold, panicked>>
     \/ /\ Pool!OutOfMemory
        /\ panic("oom")
        /\ UNCHANGED kpte

\* A new page table has the kernel mappings of setupkvm.
Below ==
  /\ Next
  /\ kpte' = [p \in Procs |->
       IF mode'[p] \in {"unused", "embryo"} \/ pgdir'[p] # pgdir[p] THEN {} ELSE kpte[p]]

NextAny == Below \/ \E p \in Procs, f \in Frames : KernelFault(p, f)

SpecAny == Init /\ kpte = [p \in Procs |-> {}] /\ [][NextAny]_anyVars

\* No program touches an address at or above KERNBASE.
UserOnly == [][\A p \in Procs, f \in Frames : ~KernelFault(p, f)]_anyVars
=============================================================================
