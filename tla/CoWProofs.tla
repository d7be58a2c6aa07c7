----------------------------- MODULE CoWProofs -----------------------------
(***************************************************************************)
(* Proofs about CoW: the counts of the frames, what is shared is not       *)
(* writable; and on top of these what processes see of their memory:       *)
(* mappages and copyuvm never panic, no cached translation is dangerously  *)
(* out of date, on one processor no frame is lost, and CoW implements      *)
(* PrivateMemory.                                                          *)
(*                                                                         *)
(* The hypothesis MinSize > 0 says that no program shrinks itself to       *)
(* nothing: growproc takes that for an error, and leaves a size that the   *)
(* page table no longer matches.                                           *)
(***************************************************************************)
EXTENDS CoWKernel, FiniteSetTheorems, TLAPS

\* An entry of a process's own page table is an entry.
LEMMA SlotType ==
  ASSUME TypeOK, NEW p \in Procs, NEW va \in VA
  PROVE  Slot(p, va) \in Slots /\ pte[Slot(p, va)] \in Entry
BY DEF TypeOK, Slot, Slots

\* Setting or clearing PTE_W in one entry leaves the others, and the frames, alone.
LEMMA SetWrite ==
  ASSUME TypeOK, NEW s \in Slots, NEW b \in BOOLEAN, pte' = [pte EXCEPT ![s].w = b]
  PROVE  /\ pte' \in [Slots -> Entry]
         /\ \A t \in Slots : t # s => pte'[t] = pte[t]
         /\ pte'[s].pa = pte[s].pa /\ pte'[s].w = b
<1>1. pte \in [Slots -> Entry] /\ pte[s] \in Entry  BY DEF TypeOK
<1> DEFINE e == [pte[s] EXCEPT !.w = b]
<1>2. e \in Entry /\ e.pa = pte[s].pa /\ e.w = b  BY <1>1 DEF Entry
<1>3. pte' = [pte EXCEPT ![s] = e]  OBVIOUS
<1> HIDE DEF e
<1> QED BY <1>1, <1>2, <1>3

\* The translations of a page table are translations.
LEMMA TranslationsType ==
  ASSUME NEW t \in [Slots -> Entry], NEW p \in Procs, NEW k \in Tables
  PROVE  Translations(t, p, k) \subseteq VA \X Frames \X BOOLEAN
<1> SUFFICES ASSUME NEW va \in VA, t[p, k, va].pa # None
             PROVE  <<va, t[p, k, va].pa, t[p, k, va].w>> \in VA \X Frames \X BOOLEAN
  BY DEF Translations
<1>1. <<p, k, va>> \in Slots  BY DEF Slots
<1>2. t[p, k, va] \in Entry  BY <1>1
<1> QED BY <1>2 DEF Entry

TlbTypes == [Procs -> SUBSET (VA \X Frames \X BOOLEAN)]

\* A load of cr3, and a return without one, leave tlb well typed.
LEMMA TlbType ==
  ASSUME TypeOK, NEW t \in [Slots -> Entry], NEW p \in Procs, NEW k \in Tables
  PROVE  /\ [tlb EXCEPT ![p] = Translations(t, p, k)] \in TlbTypes
         /\ [tlb EXCEPT ![p] = @ \union Translations(t, p, k)] \in TlbTypes
<1>1. Translations(t, p, k) \subseteq VA \X Frames \X BOOLEAN  BY TranslationsType
<1>2. tlb \in TlbTypes  BY DEF TypeOK, TlbTypes
<1> QED BY <1>1, <1>2 DEF TlbTypes

\* What deallocuvm frees is an entry of some page table.
LEMMA DoomedType ==
  ASSUME TypeOK, ForkShape, ReapShape, NEW p \in Procs, NEW s \in Present(Doomed(p))
  PROVE  s \in Slots /\ pte[s].pa \in Frames
<1>1. mode[p] \in {"unfork", "reap"} => kid[p] \in Procs
  BY DEF ForkShape, Forkers, ReapShape
<1>2. /\ s \in Doomed(p) /\ pte[s].pa # None
      /\ NPages \in Nat /\ sz[p] \in Nat /\ tgt[p] \in Nat
      /\ pgdir \in [Procs -> Tables] /\ Spare(p) \in Tables /\ Table(p) \in Tables
  BY CoWAssumption DEF Present, TypeOK, Spare, Table, Tables
<1>3. s \in Slots  BY <1>1, <1>2 DEF Doomed, Slots, Slot, VA
<1> QED BY <1>2, <1>3 DEF TypeOK, Entry

USE DEF Pool!kalloc, Pool!kfree, Pool!incr_refc, Pool!decr_refc, Pool!OutOfMemory

LEMMA TypeStep ==
  ASSUME RefInv, [Next]_vars
  PROVE  TypeOK'
<1> USE DEF At, Goto, ClearRegs, Return, lcr3, keepTlb, pool, regs, proc, Modes, Tables
<1> SUFFICES ASSUME Next PROVE TypeOK'
  BY DEF RefInv, vars, TypeOK
<1>0. TypeOK  BY DEF RefInv
<1>h. CASE Halted  BY <1>h, <1>0 DEF Halted, vars, TypeOK
<1>n. ASSUME NEW p \in Procs, UserStep(p) \/ KernelStep(p)
      PROVE  TypeOK'
  <2>1. ASSUME NEW va \in VA, NEW v \in Values, Write(p, va, v) PROVE TypeOK'
    BY <2>1, <1>0 DEF Write, TypeOK
  <2>2. ASSUME NEW va \in VA, Fault(p, va) PROVE TypeOK'
    BY <2>2, <1>0, CoWAssumption DEF Fault, TypeOK, VA
  <2>3. ASSUME NEW c \in Procs, Fork(p, c) PROVE TypeOK'
    BY <2>3, <1>0 DEF Fork, TypeOK
  <2>4. ASSUME NEW c \in Procs, Wait(p, c) PROVE TypeOK'
    BY <2>4, <1>0 DEF Wait, TypeOK
  <2>5. ASSUME NEW n \in 0 .. NPages, Grow(p, n) PROVE TypeOK'
    BY <2>5, <1>0 DEF Grow, TypeOK
  <2>6. ASSUME NEW n \in 0 .. NPages, Shrink(p, n) PROVE TypeOK'
    BY <2>6, <1>0 DEF Shrink, TypeOK
  <2>7. ASSUME NEW n \in Images, Exec(p, n) PROVE TypeOK'
    BY <2>7, <1>0, CoWAssumption DEF Exec, TypeOK
  <2>8. CASE Exit(p)
    BY <2>8, <1>0, CoWAssumption DEF Exit, TypeOK
  <2>9. CASE CoWCheck(p)  BY <2>9, <1>0 DEF CoWCheck, TypeOK
  <2>10. CASE CoWSetW(p)
    <3>1. Slot(p, at[p]) \in Slots  BY <2>10, <1>0, SlotType DEF RefInv, FaultShape, CoWSetW
    <3>2. pte' \in [Slots -> Entry]  BY <2>10, <1>0, <3>1, SetWrite DEF CoWSetW
    <3>3. /\ tlb' = [tlb EXCEPT ![p] = Translations(pte', p, pgdir[p])]
          /\ Return(p)
          /\ UNCHANGED <<pool, sz, parent, pgdir, hold, content, panicked>>
      BY <2>10 DEF CoWSetW
    <3>4. pgdir[p] \in Tables  BY <1>0 DEF TypeOK
    <3>5. tlb' \in TlbTypes  BY <1>0, <3>2, <3>3, <3>4, TlbType
    <3> QED BY <1>0, <3>2, <3>3, <3>5, CoWAssumption DEF TypeOK, TlbTypes
  <2>11. CASE CoWAlloc(p)  BY <2>11, <1>0 DEF CoWAlloc, TypeOK
  <2>12. CASE CoWOutOfMemory(p)  BY <2>12, <1>0 DEF CoWOutOfMemory, panic, TypeOK
  <2>13. CASE CoWCopy(p)
    <3>1. /\ Slot(p, at[p]) \in Slots /\ pte[Slot(p, at[p])].pa \in Frames
          /\ hold[p] \in Frames
      BY <2>13, <1>0, SlotType DEF RefInv, FaultShape, HoldShape, CoWCopy
    <3>2. pte' \in [Slots -> Entry]  BY <2>13, <1>0, <3>1 DEF CoWCopy, TypeOK, Entry
    <3> QED BY <2>13, <1>0, <3>1, <3>2 DEF CoWCopy, TypeOK
  <2>14. CASE CoWDrop(p)
    <3>1. tlb' \in TlbTypes  BY <2>14, <1>0, TlbType DEF CoWDrop, TypeOK
    <3>2. hold[p] \in Frames  BY <2>14 DEF RefInv, HoldShape, CoWDrop
    <3> QED BY <2>14, <1>0, <3>1, <3>2, CoWAssumption DEF CoWDrop, TypeOK, TlbTypes
  <2>15. CASE CopyPage(p)
    <3>1. CASE UNCHANGED pte  BY <2>15, <1>0, <3>1 DEF CopyPage, panic, TypeOK
    <3>2. CASE ~UNCHANGED pte
      <4>1. at[p] \in VA /\ kid[p] \in Procs
        BY <2>15, <1>0, CoWAssumption DEF RefInv, ForkShape, Forkers, CopyPage, TypeOK, VA
      <4>2. /\ Slot(p, at[p]) \in Slots /\ pte[Slot(p, at[p])] \in Entry
            /\ Slot(kid[p], at[p]) \in Slots
        BY <4>1, <1>0, SlotType
      <4> DEFINE e == pte[Slot(p, at[p])]
                 ro == [e EXCEPT !.w = FALSE]
      <4>a. ro \in Entry  BY <4>2 DEF Entry
      <4>b. pte' = [pte EXCEPT ![Slot(p, at[p])] = ro, ![Slot(kid[p], at[p])] = ro]
        BY <2>15, <1>0, <3>2, <4>2 DEF CopyPage, panic, TypeOK, Entry
      <4>3. pte' \in [Slots -> Entry]
        BY <1>0, <4>2, <4>a, <4>b DEF TypeOK
      <4> QED BY <2>15, <1>0, <3>2, <4>3 DEF CopyPage, panic, TypeOK
    <3> QED BY <3>1, <3>2
  <2>16. CASE CopyIncr(p)
    <3>1. at[p] \in VA /\ pte[Slot(p, at[p])].pa \in Frames
      BY <2>16, <1>0 DEF RefInv, ForkShape, CopyIncr
    <3> QED BY <2>16, <1>0, <3>1, CoWAssumption DEF CopyIncr, TypeOK, VA
  <2>17. CASE CopyBad(p)
    <3>1. at[p] \in VA  BY <2>17, <1>0, CoWAssumption DEF CopyBad, TypeOK, VA
    <3>2. Slot(p, at[p]) \in Slots  BY <3>1, <1>0, SlotType
    <3>3. pte' \in [Slots -> Entry]  BY <2>17, <1>0, <3>2, SetWrite DEF CopyBad
    <3> QED BY <2>17, <1>0, <3>3 DEF CopyBad, TypeOK
  <2>18. CASE ForkDone(p)
    <3>1. kid[p] \in Procs  BY <2>18, <1>0 DEF RefInv, ForkShape, Forkers, ForkDone
    <3>2. /\ Translations(pte, p, pgdir[p]) \subseteq VA \X Frames \X BOOLEAN
          /\ Translations(pte, kid[p], pgdir[kid[p]]) \subseteq VA \X Frames \X BOOLEAN
      BY <3>1, <1>0, TranslationsType DEF TypeOK
    <3>3. tlb' \in TlbTypes  BY <2>18, <1>0, <3>2 DEF ForkDone, TypeOK, TlbTypes
    <3> QED BY <2>18, <1>0, <3>1, <3>3, CoWAssumption DEF ForkDone, TypeOK, TlbTypes
  <2>19. CASE AllocPage(p)
    <3>1. Fresh(p) \in Values  BY CoWAssumption DEF Fresh
    <3> QED BY <2>19, <1>0, <3>1 DEF AllocPage, TypeOK
  <2>20. CASE MapPage(p)
    <3>1. at[p] \in VA /\ hold[p] \in Frames
      BY <2>20, <1>0 DEF RefInv, FaultShape, HoldShape, MapPage
    <3>2. <<p, Table(p), at[p]>> \in Slots
      BY <3>1, <1>0 DEF Table, Spare, TypeOK, Slots
    <3>3. CASE UNCHANGED pte /\ UNCHANGED at  BY <2>20, <1>0, <3>1, <3>2, <3>3 DEF MapPage, panic, TypeOK
    <3>4. CASE ~(UNCHANGED pte /\ UNCHANGED at)
      <4> DEFINE g == dir[p] = "image" /\ at[p] = tgt[p] - 2
      <4>a. [pa |-> hold[p], w |-> TRUE, u |-> ~g] \in Entry  BY <3>1 DEF Entry
      <4>b. pte' = [pte EXCEPT ![<<p, Table(p), at[p]>>] = [pa |-> hold[p], w |-> TRUE, u |-> ~g]]
        BY <2>20, <3>4 DEF MapPage, panic
      <4> HIDE DEF g
      <4>1. pte' \in [Slots -> Entry]  BY <1>0, <3>2, <4>a, <4>b DEF TypeOK
      <4>2. /\ hold' = [hold EXCEPT ![p] = None] /\ at' = [at EXCEPT ![p] = at[p] + 1]
            /\ mode' = [mode EXCEPT ![p] = "grow"]
            /\ UNCHANGED <<refc, free, sz, parent, pgdir, tgt, dir, kid, content, tlb, panicked>>
        BY <2>20, <3>4 DEF MapPage, panic
      <4>3. at[p] + 1 \in 0 .. NPages  BY <3>1, CoWAssumption DEF VA
      <4> QED BY <1>0, <4>1, <4>2, <4>3 DEF TypeOK
    <3> QED BY <3>3, <3>4
  <2>21. CASE MapFails(p)  BY <2>21, <1>0 DEF MapFails, TypeOK
  <2>22. CASE ExecBad(p)  BY <2>22, <1>0 DEF ExecBad, TypeOK
  <2>23. CASE GrowDone(p)
    <3>1. tlb' \in TlbTypes  BY <2>23, <1>0, TlbType DEF GrowDone, TypeOK
    <3> QED BY <2>23, <1>0, <3>1, CoWAssumption DEF GrowDone, TypeOK, TlbTypes
  <2>24. CASE ExecCommit(p)
    <3>1. Spare(p) \in Tables  BY DEF Spare
    <3>2. tlb' \in TlbTypes  BY <2>24, <1>0, <3>1, TlbType DEF ExecCommit, TypeOK
    <3> QED BY <2>24, <1>0, <3>1, <3>2, CoWAssumption DEF ExecCommit, TypeOK, TlbTypes
  <2>25. CASE deallocuvm(p)
    <3>1. PICK s \in Present(Doomed(p)) :
            /\ Pool!kfree(pte[s].pa)
            /\ content' = [content EXCEPT ![pte[s].pa] = IF pte[s].pa \in free' THEN Junk ELSE @]
            /\ pte' = [pte EXCEPT ![s] = NoPte]
      BY <2>25 DEF deallocuvm
    <3>2. s \in Slots /\ pte[s].pa \in Frames  BY <1>0, DoomedType DEF RefInv
    <3>3. pte' \in [Slots -> Entry]  BY <3>1, <3>2, <1>0 DEF TypeOK, Entry, NoPte
    <3>4. refc' \in [Frames -> Int] /\ free' \subseteq Frames /\ content' \in [Frames -> Values \union {Junk}]
      BY <3>1, <3>2, <1>0 DEF TypeOK
    <3> QED BY <2>25, <1>0, <3>3, <3>4 DEF deallocuvm, TypeOK
  <2>26. CASE UnforkDone(p)
    <3>1. tlb' \in TlbTypes  BY <2>26, <1>0, TlbType DEF UnforkDone, TypeOK
    <3>2. kid[p] \in Procs  BY <2>26 DEF RefInv, ForkShape, Forkers, UnforkDone, Freed
    <3> QED BY <2>26, <1>0, <3>1, <3>2, CoWAssumption DEF UnforkDone, Freed, TypeOK, TlbTypes
  <2>27. CASE UngrowDone(p)
    <3>1. tlb' \in TlbTypes  BY <2>27, <1>0, TlbType DEF UngrowDone, TypeOK
    <3>2. refc' \in [Frames -> Int] /\ free' \subseteq Frames /\ content' \in [Frames -> Values \union {Junk}]
      BY <2>27, <1>0 DEF UngrowDone, TypeOK
    <3> QED BY <2>27, <1>0, <3>1, <3>2, CoWAssumption DEF UngrowDone, Freed, TypeOK, TlbTypes
  <2>28. CASE FreeOldDone(p)
    <3>1. tlb' \in TlbTypes  BY <2>28, <1>0, TlbType DEF FreeOldDone, TypeOK
    <3> QED BY <2>28, <1>0, <3>1, CoWAssumption DEF FreeOldDone, Freed, TypeOK, TlbTypes
  <2>29. CASE ShrinkDone(p)
    <3>0. /\ pgdir[p] \in Tables /\ pte \in [Slots -> Entry]
          /\ \/ tlb' = [tlb EXCEPT ![p] = Translations(pte, p, pgdir[p])]
             \/ tlb' = [tlb EXCEPT ![p] = @ \union Translations(pte, p, pgdir[p])]
      BY <2>29, <1>0 DEF ShrinkDone, TypeOK
    <3>a. /\ [tlb EXCEPT ![p] = Translations(pte, p, pgdir[p])] \in TlbTypes
          /\ [tlb EXCEPT ![p] = @ \union Translations(pte, p, pgdir[p])] \in TlbTypes
      BY <3>0, <1>0, TlbType
    <3>1. tlb' \in TlbTypes  BY <3>0, <3>a
    <3> QED BY <2>29, <1>0, <3>1, CoWAssumption DEF ShrinkDone, Freed, TypeOK, TlbTypes
  <2>30. CASE ReapDone(p)
    <3>1. tlb' \in TlbTypes  BY <2>30, <1>0, TlbType DEF ReapDone, TypeOK
    <3>2. kid[p] \in Procs  BY <2>30 DEF RefInv, ReapShape, ReapDone, Freed
    <3> QED BY <2>30, <1>0, <3>1, <3>2, CoWAssumption DEF ReapDone, Freed, TypeOK, TlbTypes
  <2> QED
    BY <1>n, <2>1, <2>2, <2>3, <2>4, <2>5, <2>6, <2>7, <2>8, <2>9, <2>10, <2>11, <2>12, <2>13,
       <2>14, <2>15, <2>16, <2>17, <2>18, <2>19, <2>20, <2>21, <2>22, <2>23, <2>24, <2>25,
       <2>26, <2>27, <2>28, <2>29, <2>30
    DEF UserStep, KernelStep
<1> QED BY <1>h, <1>n DEF Next
-----------------------------------------------------------------------------
(***************************************************************************)
(* What a step of p does to the others.  Their locals stay; another        *)
(* process changes its mode only if it is the child p creates, gives up or *)
(* reaps; the only page tables written are p's and that child's; a frame   *)
(* is newly mapped only where copyuvm shares it or p has just allocated    *)
(* it.                                                                     *)
(***************************************************************************)
Effects(p) ==
  /\ \A q \in Procs \ {p} : at'[q] = at[q] /\ kid'[q] = kid[q] /\ hold'[q] = hold[q]
  /\ \A q \in Procs \ {p} :
       \/ mode'[q] = mode[q] /\ pgdir'[q] = pgdir[q]
       \/ mode[q] = "unused" /\ mode'[q] = "embryo" /\ mode[p] = "user" /\ mode'[p] = "fork" /\ kid'[p] = q
       \/ mode[p] \in {"fork", "unfork"} /\ mode'[p] = "user" /\ kid[p] = q /\ mode'[q] \in {"user", "unused"}
       \/ mode[p] = "reap" /\ mode'[p] = "user" /\ kid[p] = q /\ mode'[q] = "unused"
  /\ \A q \in Procs, k \in Tables, va \in VA :
       pte'[<<q, k, va>>] = pte[<<q, k, va>>]
         \/ q = p \/ (mode[p] \in {"fork", "unfork", "reap"} /\ q = kid[p])
  /\ \A s \in Slots :
       \/ pte'[s].pa = pte[s].pa \/ pte'[s].pa = None
       \/ mode[p] = "fork" /\ mode'[p] = "incr" /\ pte'[s].pa = pte[Slot(p, at[p])].pa
       \/ mode[p] \in {"copy", "map"} /\ pte'[s].pa = hold[p]

LEMMA EffectsStep ==
  ASSUME RefInv, NEW p \in Procs, UserStep(p) \/ KernelStep(p)
  PROVE  Effects(p)
<1> USE DEF At, Goto, ClearRegs, Return, pool, regs, proc
<1>0. TypeOK  BY DEF RefInv
<1>0a. /\ \A q \in Procs, k \in Tables, va \in VA : <<q, k, va>> \in Slots
       /\ DOMAIN pte = Slots
  BY <1>0 DEF Slots, TypeOK
<1>0b. \A va \in VA : Slot(p, va) \in Slots  BY <1>0, SlotType
<1>1. ASSUME NEW va \in VA, NEW v \in Values, Write(p, va, v) PROVE Effects(p)
  BY <1>1, <1>0 DEF Write, Effects, TypeOK
<1>2. ASSUME NEW va \in VA, Fault(p, va) PROVE Effects(p)
  BY <1>2, <1>0 DEF Fault, Effects, TypeOK
<1>3. ASSUME NEW c \in Procs, Fork(p, c) PROVE Effects(p)
  BY <1>3, <1>0 DEF Fork, Effects, TypeOK
<1>4. ASSUME NEW c \in Procs, Wait(p, c) PROVE Effects(p)
  BY <1>4, <1>0 DEF Wait, Effects, TypeOK
<1>5. ASSUME NEW n \in 0 .. NPages, Grow(p, n) PROVE Effects(p)
  BY <1>5, <1>0 DEF Grow, Effects, TypeOK
<1>6. ASSUME NEW n \in 0 .. NPages, Shrink(p, n) PROVE Effects(p)
  BY <1>6, <1>0 DEF Shrink, Effects, TypeOK
<1>7. ASSUME NEW n \in Images, Exec(p, n) PROVE Effects(p)
  BY <1>7, <1>0 DEF Exec, Effects, TypeOK
<1>8. CASE Exit(p)  BY <1>8, <1>0 DEF Exit, Effects, TypeOK
<1>9. CASE CoWCheck(p)  BY <1>9, <1>0 DEF CoWCheck, Effects, TypeOK
<1>10. CASE CoWSetW(p)
  <2>1. Slot(p, at[p]) \in Slots  BY <1>10, <1>0, <1>0b, CoWAssumption DEF RefInv, FaultShape, CoWSetW, TypeOK, VA
  <2>2. \A s \in Slots : pte'[s].pa = pte[s].pa /\ (s # Slot(p, at[p]) => pte'[s] = pte[s])
    BY <1>10, <1>0, <2>1, SetWrite DEF CoWSetW
  <2> QED BY <1>10, <1>0, <1>0a, <2>2 DEF CoWSetW, Effects, TypeOK, Slot
<1>11. CASE CoWAlloc(p)  BY <1>11, <1>0 DEF CoWAlloc, Effects, TypeOK
<1>12. CASE CoWOutOfMemory(p)  BY <1>12, <1>0 DEF CoWOutOfMemory, panic, Effects, TypeOK
<1>13. CASE CoWCopy(p)
  <2>1. Slot(p, at[p]) \in Slots  BY <1>13, <1>0b DEF RefInv, FaultShape, CoWCopy
  <2>2. \A s \in Slots : IF s = Slot(p, at[p]) THEN pte'[s].pa = hold[p] ELSE pte'[s] = pte[s]
    BY <1>13, <1>0, <2>1 DEF CoWCopy, TypeOK
  <2> QED BY <1>13, <1>0, <1>0a, <2>2 DEF CoWCopy, Effects, TypeOK, Slot
<1>14. CASE CoWDrop(p)  BY <1>14, <1>0 DEF CoWDrop, Effects, TypeOK
<1>15. CASE CopyPage(p)
  <2>1. CASE UNCHANGED pte  BY <1>15, <1>0, <2>1 DEF CopyPage, panic, Effects, TypeOK
  <2>2. CASE ~UNCHANGED pte
    <3>1. at[p] \in VA /\ kid[p] \in Procs
      BY <1>15, <1>0, CoWAssumption DEF RefInv, ForkShape, Forkers, CopyPage, TypeOK, VA
    <3>2. Slot(p, at[p]) \in Slots /\ Slot(kid[p], at[p]) \in Slots /\ pte[Slot(p, at[p])] \in Entry
      BY <3>1, <1>0, SlotType
    <3>3. \A s \in Slots :
            /\ s \notin {Slot(p, at[p]), Slot(kid[p], at[p])} => pte'[s] = pte[s]
            /\ pte'[s].pa = pte[s].pa \/ pte'[s].pa = pte[Slot(p, at[p])].pa
      BY <1>15, <1>0, <2>2, <3>2 DEF CopyPage, panic, TypeOK, Entry
    <3> QED BY <1>15, <1>0, <1>0a, <2>2, <3>3 DEF CopyPage, panic, Effects, TypeOK, Slot
  <2> QED BY <2>1, <2>2
<1>16. CASE CopyIncr(p)  BY <1>16, <1>0 DEF CopyIncr, Effects, TypeOK
<1>17. CASE CopyBad(p)
  <2>1. Slot(p, at[p]) \in Slots  BY <1>17, <1>0, <1>0b, CoWAssumption DEF RefInv, FaultShape, CopyBad, TypeOK, VA
  <2>2. \A s \in Slots : pte'[s].pa = pte[s].pa /\ (s # Slot(p, at[p]) => pte'[s] = pte[s])
    BY <1>17, <1>0, <2>1, SetWrite DEF CopyBad
  <2> QED BY <1>17, <1>0, <1>0a, <2>2 DEF CopyBad, Effects, TypeOK, Slot
<1>18. CASE ForkDone(p)
  <2>1. kid[p] \in Procs  BY <1>18 DEF RefInv, ForkShape, ReapShape, Forkers, ForkDone, Freed
  <2> QED BY <1>18, <1>0, <2>1 DEF ForkDone, Freed, Effects, TypeOK
<1>19. CASE AllocPage(p)  BY <1>19, <1>0 DEF AllocPage, Effects, TypeOK
<1>20. CASE MapPage(p)
  <2>1. <<p, Table(p), at[p]>> \in Slots
    BY <1>20, <1>0 DEF RefInv, FaultShape, MapPage, Table, Spare, TypeOK, Slots, Tables
  <2>2. \A s \in Slots :
          \/ pte'[s] = pte[s]
          \/ s = <<p, Table(p), at[p]>> /\ pte'[s].pa = hold[p]
    BY <1>20, <1>0, <2>1 DEF MapPage, panic, TypeOK
  <2> QED BY <1>20, <1>0, <1>0a, <2>2 DEF MapPage, panic, Effects, TypeOK
<1>21. CASE MapFails(p)  BY <1>21, <1>0 DEF MapFails, Effects, TypeOK
<1>22. CASE ExecBad(p)  BY <1>22, <1>0 DEF ExecBad, Effects, TypeOK
<1>23. CASE GrowDone(p)  BY <1>23, <1>0 DEF GrowDone, Effects, TypeOK
<1>24. CASE ExecCommit(p)  BY <1>24, <1>0 DEF ExecCommit, Effects, TypeOK
<1>25. CASE deallocuvm(p)
  <2>1. PICK s \in Present(Doomed(p)) : pte' = [pte EXCEPT ![s] = NoPte]
    BY <1>25 DEF deallocuvm
  <2>2. s \in Slots  BY <1>0, DoomedType DEF RefInv
  <2>3. s[1] = p \/ (mode[p] \in {"unfork", "reap"} /\ s[1] = kid[p])
    BY DEF Present, Doomed, Slot
  <2>4. \A t \in Slots : pte'[t] = IF t = s THEN NoPte ELSE pte[t]
    BY <1>0, <2>1, <2>2 DEF TypeOK
  <2>5. UNCHANGED <<mode, pgdir, at, kid, hold>>  BY <1>25 DEF deallocuvm
  <2> QED BY <1>0a, <2>3, <2>4, <2>5 DEF Effects, NoPte
<1>26. CASE UnforkDone(p)
  <2>1. kid[p] \in Procs  BY <1>26 DEF RefInv, ForkShape, ReapShape, Forkers, UnforkDone, Freed
  <2> QED BY <1>26, <1>0, <2>1 DEF UnforkDone, Freed, Effects, TypeOK
<1>27. CASE UngrowDone(p)  BY <1>27, <1>0 DEF UngrowDone, Freed, Effects, TypeOK
<1>28. CASE FreeOldDone(p)  BY <1>28, <1>0 DEF FreeOldDone, Freed, Effects, TypeOK
<1>29. CASE ShrinkDone(p)  BY <1>29, <1>0 DEF ShrinkDone, Freed, Effects, TypeOK
<1>30. CASE ReapDone(p)
  <2>1. kid[p] \in Procs  BY <1>30 DEF RefInv, ForkShape, ReapShape, Forkers, ReapDone, Freed
  <2> QED BY <1>30, <1>0, <2>1 DEF ReapDone, Freed, Effects, TypeOK
<1> QED
  BY <1>1, <1>2, <1>3, <1>4, <1>5, <1>6, <1>7, <1>8, <1>9, <1>10, <1>11, <1>12, <1>13, <1>14, <1>15, <1>16, <1>17, <1>18, <1>19, <1>20, <1>21, <1>22, <1>23, <1>24, <1>25, <1>26, <1>27, <1>28, <1>29, <1>30
  DEF UserStep, KernelStep
-----------------------------------------------------------------------------
(***************************************************************************)
(* What a step of p does to p itself: how it gets into the modes the       *)
(* invariant speaks of.                                                    *)
(***************************************************************************)
OwnEffects(p) ==
  /\ mode[p] \notin {"unused", "embryo", "zombie"}
  /\ mode'[p] = "reap" =>
       \/ mode[p] = "reap" /\ kid'[p] = kid[p]
       \/ PtableFree /\ kid'[p] \in Procs /\ mode[kid'[p]] = "zombie" /\ mode[p] = "user"
  /\ mode'[p] \in {"fork", "incr", "unfork"} =>
       \/ mode[p] \in {"fork", "incr", "unfork"} /\ kid'[p] = kid[p]
       \/ mode[p] = "user" /\ mode'[p] = "fork" /\ kid'[p] \in Procs
          /\ mode[kid'[p]] = "unused" /\ mode'[kid'[p]] = "embryo"
  /\ mode'[p] = "incr" =>
       /\ mode[p] = "fork" /\ at[p] \in VA /\ UNCHANGED <<at, kid, pgdir>>
       /\ pte[Slot(p, at[p])].pa \in Frames
       /\ pte'[Slot(p, at[p])].pa = pte[Slot(p, at[p])].pa
       /\ pte'[Slot(kid[p], at[p])].pa = pte[Slot(p, at[p])].pa
       /\ pte[Slot(kid[p], at[p])].pa = None
  /\ mode'[p] = "fault" => at'[p] \in VA
  /\ mode'[p] \in {"setw", "alloc"} =>
       /\ UNCHANGED <<pte, at, pgdir>>
       /\ mode[p] \in {"fault", "alloc"}
       /\ pte[Slot(p, at[p])].pa # None
       /\ mode'[p] = "setw" => mode[p] = "fault" /\ ~(refc[pte[Slot(p, at[p])].pa] > 1)
  /\ mode'[p] = "copy" => mode[p] = "alloc" /\ UNCHANGED <<pte, at, pgdir>> /\ hold'[p] \in free
  /\ mode'[p] = "map" =>
       \/ mode[p] = "map" /\ UNCHANGED <<pte, at, hold>>
       \/ mode[p] = "grow" /\ UNCHANGED <<pte, at>> /\ at[p] \in VA /\ hold'[p] \in free
  /\ mode'[p] = "drop" => mode[p] = "copy" /\ UNCHANGED at /\ hold'[p] \in Frames
  /\ hold'[p] # None => mode'[p] \in {"copy", "map", "drop", "ungrow"}

LEMMA OwnEffectsStep ==
  ASSUME RefInv, NEW p \in Procs, UserStep(p) \/ KernelStep(p)
  PROVE  OwnEffects(p)
<1> USE DEF At, Goto, ClearRegs, Return, pool, regs, proc
<1>0. TypeOK  BY DEF RefInv
<1>0a. hold[p] # None => mode[p] \in {"copy", "map", "drop", "ungrow"}
  BY DEF RefInv, HoldShape
<1>1. ASSUME NEW va \in VA, NEW v \in Values, Write(p, va, v) PROVE OwnEffects(p)
  BY <1>1, <1>0, <1>0a DEF Write, OwnEffects, TypeOK
<1>2. ASSUME NEW va \in VA, Fault(p, va) PROVE OwnEffects(p)
  BY <1>2, <1>0, <1>0a DEF Fault, OwnEffects, TypeOK
<1>3. ASSUME NEW c \in Procs, Fork(p, c) PROVE OwnEffects(p)
  BY <1>3, <1>0, <1>0a DEF Fork, OwnEffects, TypeOK
<1>4. ASSUME NEW c \in Procs, Wait(p, c) PROVE OwnEffects(p)
  BY <1>4, <1>0, <1>0a DEF Wait, OwnEffects, TypeOK
<1>5. ASSUME NEW n \in 0 .. NPages, Grow(p, n) PROVE OwnEffects(p)
  BY <1>5, <1>0, <1>0a DEF Grow, OwnEffects, TypeOK
<1>6. ASSUME NEW n \in 0 .. NPages, Shrink(p, n) PROVE OwnEffects(p)
  BY <1>6, <1>0, <1>0a DEF Shrink, OwnEffects, TypeOK
<1>7. ASSUME NEW n \in Images, Exec(p, n) PROVE OwnEffects(p)
  BY <1>7, <1>0, <1>0a DEF Exec, OwnEffects, TypeOK
<1>8. CASE Exit(p)  BY <1>8, <1>0, <1>0a DEF Exit, OwnEffects, TypeOK
<1>9. CASE CoWCheck(p)  BY <1>9, <1>0, <1>0a DEF CoWCheck, OwnEffects, TypeOK
<1>10. CASE CoWSetW(p)  BY <1>10, <1>0, <1>0a DEF CoWSetW, OwnEffects, TypeOK
<1>11. CASE CoWAlloc(p)  BY <1>11, <1>0, <1>0a DEF CoWAlloc, OwnEffects, TypeOK
<1>12. CASE CoWOutOfMemory(p)
  <2>1. pte[Slot(p, at[p])].pa \in Frames  BY <1>12 DEF RefInv, FaultShape, CoWOutOfMemory
  <2> QED BY <1>12, <1>0, <1>0a, <2>1, CoWAssumption DEF CoWOutOfMemory, panic, OwnEffects, TypeOK
<1>13. CASE CoWCopy(p)
  <2>1. pte[Slot(p, at[p])].pa \in Frames  BY <1>13 DEF RefInv, FaultShape, CoWCopy
  <2> QED BY <1>13, <1>0, <1>0a, <2>1 DEF CoWCopy, OwnEffects, TypeOK
<1>14. CASE CoWDrop(p)  BY <1>14, <1>0, <1>0a DEF CoWDrop, OwnEffects, TypeOK
<1>15. CASE CopyPage(p)
  <2>1. CASE UNCHANGED mode  BY <1>15, <1>0, <1>0a, <2>1 DEF CopyPage, panic, OwnEffects, TypeOK
  <2>2. CASE ~UNCHANGED mode
    <3>1. at[p] \in VA /\ kid[p] \in Procs
      BY <1>15, <1>0, CoWAssumption DEF RefInv, ForkShape, Forkers, CopyPage, TypeOK, VA
    <3>2. Slot(p, at[p]) \in Slots /\ Slot(kid[p], at[p]) \in Slots /\ pte[Slot(p, at[p])] \in Entry
      BY <3>1, <1>0, SlotType
    <3>3. /\ pte'[Slot(p, at[p])].pa = pte[Slot(p, at[p])].pa
          /\ pte'[Slot(kid[p], at[p])].pa = pte[Slot(p, at[p])].pa
          /\ pte[Slot(p, at[p])].pa \in Frames
          /\ pte[Slot(kid[p], at[p])].pa = None
      BY <1>15, <1>0, <2>2, <3>2 DEF CopyPage, panic, TypeOK, Entry
    <3> QED BY <1>15, <1>0, <1>0a, <2>2, <3>1, <3>3 DEF CopyPage, panic, OwnEffects, TypeOK
  <2> QED BY <2>1, <2>2
<1>16. CASE CopyIncr(p)  BY <1>16, <1>0, <1>0a DEF CopyIncr, OwnEffects, TypeOK
<1>17. CASE CopyBad(p)  BY <1>17, <1>0, <1>0a DEF CopyBad, OwnEffects, TypeOK
<1>18. CASE ForkDone(p)
  <2>1. kid[p] \in Procs /\ kid[p] # p
    BY <1>18 DEF RefInv, ForkShape, ReapShape, Forkers, ForkDone, Freed
  <2> QED BY <1>18, <1>0, <1>0a, <2>1 DEF ForkDone, Freed, OwnEffects, TypeOK
<1>19. CASE AllocPage(p)
  <2>1. at[p] \in VA  BY <1>19, <1>0, CoWAssumption DEF AllocPage, TypeOK, VA
  <2> QED BY <1>19, <1>0, <1>0a, <2>1 DEF AllocPage, OwnEffects, TypeOK
<1>20. CASE MapPage(p)  BY <1>20, <1>0, <1>0a DEF MapPage, panic, OwnEffects, TypeOK
<1>21. CASE MapFails(p)  BY <1>21, <1>0, <1>0a DEF MapFails, OwnEffects, TypeOK
<1>22. CASE ExecBad(p)  BY <1>22, <1>0, <1>0a DEF ExecBad, OwnEffects, TypeOK
<1>23. CASE GrowDone(p)  BY <1>23, <1>0, <1>0a DEF GrowDone, OwnEffects, TypeOK
<1>24. CASE ExecCommit(p)  BY <1>24, <1>0, <1>0a DEF ExecCommit, OwnEffects, TypeOK
<1>25. CASE deallocuvm(p)
  <2>1. mode[p] \in {"unfork", "reap", "freeold", "shrink", "ungrow"}
    BY <1>25 DEF deallocuvm, Present, Doomed
  <2> QED BY <1>25, <1>0, <1>0a, <2>1 DEF deallocuvm, OwnEffects, TypeOK
<1>26. CASE UnforkDone(p)
  <2>1. kid[p] \in Procs /\ kid[p] # p
    BY <1>26 DEF RefInv, ForkShape, ReapShape, Forkers, UnforkDone, Freed
  <2> QED BY <1>26, <1>0, <1>0a, <2>1 DEF UnforkDone, Freed, OwnEffects, TypeOK
<1>27. CASE UngrowDone(p)  BY <1>27, <1>0, <1>0a DEF UngrowDone, Freed, OwnEffects, TypeOK
<1>28. CASE FreeOldDone(p)  BY <1>28, <1>0, <1>0a DEF FreeOldDone, Freed, OwnEffects, TypeOK
<1>29. CASE ShrinkDone(p)  BY <1>29, <1>0, <1>0a DEF ShrinkDone, Freed, OwnEffects, TypeOK
<1>30. CASE ReapDone(p)
  <2>1. kid[p] \in Procs /\ kid[p] # p
    BY <1>30 DEF RefInv, ForkShape, ReapShape, Forkers, ReapDone, Freed
  <2> QED BY <1>30, <1>0, <1>0a, <2>1 DEF ReapDone, Freed, OwnEffects, TypeOK
<1> QED
  BY <1>1, <1>2, <1>3, <1>4, <1>5, <1>6, <1>7, <1>8, <1>9, <1>10, <1>11, <1>12, <1>13, <1>14, <1>15, <1>16, <1>17, <1>18, <1>19, <1>20, <1>21, <1>22, <1>23, <1>24, <1>25, <1>26, <1>27, <1>28, <1>29, <1>30
  DEF UserStep, KernelStep
-----------------------------------------------------------------------------
(***************************************************************************)
(* The shape of the kernel operations is preserved.                        *)
(***************************************************************************)
LEMMA ReapShapeStep ==
  ASSUME RefInv, NEW p \in Procs, UserStep(p) \/ KernelStep(p)
  PROVE  ReapShape'
<1>1. Effects(p) /\ OwnEffects(p)  BY EffectsStep, OwnEffectsStep
<1>2. TypeOK /\ ReapShape /\ ForkShape  BY DEF RefInv
<1>3. ASSUME NEW q \in Procs, mode[q] = "zombie", mode[p] = "reap" => kid[p] # q \/ mode'[p] = "reap"
      PROVE  mode'[q] = "zombie"
  BY <1>1, <1>2, <1>3 DEF Effects, OwnEffects, ForkShape, Forkers
<1>4. ASSUME NEW q \in Procs, q # p, mode'[q] = "reap"
      PROVE  mode[q] = "reap" /\ kid'[q] = kid[q]
  BY <1>1, <1>4 DEF Effects
<1>5. ASSUME NEW q \in Procs, mode'[q] = "reap" PROVE kid'[q] \in Procs /\ mode'[kid'[q]] = "zombie"
  <2>1. CASE q # p  BY <1>2, <1>3, <1>4, <1>5, <2>1 DEF ReapShape
  <2>2. CASE q = p  BY <1>1, <1>2, <1>3, <1>5, <2>2 DEF OwnEffects, ReapShape
  <2> QED BY <2>1, <2>2
<1>6. ASSUME NEW q \in Procs, NEW r \in Procs, mode'[q] = "reap", mode'[r] = "reap" PROVE q = r
  BY <1>1, <1>2, <1>4, <1>6 DEF OwnEffects, ReapShape, PtableFree
<1> QED BY <1>5, <1>6 DEF ReapShape

\* Where the frame in p's local variable comes from.
LEMMA HoldChange ==
  ASSUME RefInv, NEW p \in Procs, UserStep(p) \/ KernelStep(p)
  PROVE  hold'[p] \in {hold[p], None} \union free \union {pte[s].pa : s \in Slots}
<1> USE DEF At, Goto, ClearRegs, Return, pool, regs, proc, TypeOK, panic, Freed
<1>0. TypeOK  BY DEF RefInv
<1>1. CASE UserStep(p)
  BY <1>1, <1>0 DEF UserStep, Write, Fault, Fork, Wait, Grow, Shrink, Exec, Exit
<1>2. CASE CoWCopy(p)
  <2>1. Slot(p, at[p]) \in Slots  BY <1>2, <1>0, SlotType DEF RefInv, FaultShape, CoWCopy
  <2> QED BY <1>2, <1>0, <2>1 DEF CoWCopy
<1>3. CASE CoWAlloc(p) \/ AllocPage(p)  BY <1>3, <1>0 DEF CoWAlloc, AllocPage
<1>4. CASE CoWDrop(p) \/ MapPage(p) \/ UngrowDone(p)  BY <1>4, <1>0 DEF CoWDrop, MapPage, UngrowDone
<1>5. CASE CoWCheck(p) \/ CoWSetW(p) \/ CoWOutOfMemory(p) \/ CopyPage(p) \/ CopyIncr(p) \/ CopyBad(p) \/ ForkDone(p)
  BY <1>5, <1>0 DEF CoWCheck, CoWSetW, CoWOutOfMemory, CopyPage, CopyIncr, CopyBad, ForkDone
<1>6. CASE MapFails(p) \/ ExecBad(p) \/ GrowDone(p) \/ ExecCommit(p) \/ deallocuvm(p) \/ UnforkDone(p)
           \/ FreeOldDone(p) \/ ShrinkDone(p) \/ ReapDone(p) \/ Exit(p)
  BY <1>6, <1>0 DEF MapFails, ExecBad, GrowDone, ExecCommit, deallocuvm, UnforkDone, FreeOldDone,
                    ShrinkDone, ReapDone, Exit
<1> QED BY <1>1, <1>2, <1>3, <1>4, <1>5, <1>6 DEF KernelStep

LEMMA HoldShapeStep ==
  ASSUME RefInv, NEW p \in Procs, UserStep(p) \/ KernelStep(p)
  PROVE  HoldShape'
<1>1. Effects(p) /\ OwnEffects(p)  BY EffectsStep, OwnEffectsStep
<1>2. /\ TypeOK /\ HoldShape /\ ForkShape /\ ReapShape /\ FaultShape /\ FreeNotInUse
      /\ None \notin Frames
  BY CoWAssumption DEF RefInv
<1>3. ASSUME NEW q \in Procs, q # p
      PROVE  /\ hold'[q] = hold[q]
             /\ mode'[q] \in {"copy", "map", "drop"} => hold'[q] \in Frames
             /\ hold'[q] # None => mode'[q] \in {"copy", "map", "drop", "ungrow"}
             /\ mode'[q] \in {"copy", "map"} => mode[q] \in {"copy", "map"}
  BY <1>1, <1>2, <1>3 DEF Effects, HoldShape, ForkShape, ReapShape, Forkers
<1>4. /\ mode'[p] \in {"copy", "map", "drop"} => hold'[p] \in Frames
      /\ hold'[p] # None => mode'[p] \in {"copy", "map", "drop", "ungrow"}
      /\ mode'[p] \in {"copy", "map"} =>
           \/ hold'[p] \in free /\ UNCHANGED pte
           \/ mode[p] = "map" /\ UNCHANGED <<pte, hold>>
  BY <1>1, <1>2 DEF OwnEffects, HoldShape, TypeOK
<1>5. \A f \in free : (\A s \in Slots : pte[s].pa # f) /\ (\A q \in Procs : hold[q] # f)
  BY <1>2 DEF FreeNotInUse, MappedAt, HeldBy
<1>6. ASSUME NEW q \in Procs, mode'[q] \in {"copy", "map"}
      PROVE  (\A s \in Slots : pte'[s].pa # hold'[q]) /\ (\A r \in Procs : hold'[r] = hold'[q] => r = q)
  <2>1. CASE q = p
    BY <1>2, <1>3, <1>4, <1>5, <1>6, <2>1 DEF HoldShape, TypeOK
  <2>2. CASE q # p
    <3>1. /\ hold'[q] = hold[q] /\ hold[q] \in Frames
          /\ \A s \in Slots : pte[s].pa # hold[q]
          /\ \A r \in Procs : hold[r] = hold[q] => r = q
      BY <1>2, <1>3, <1>6, <2>2 DEF HoldShape
    <3>2. \A s \in Slots : pte'[s].pa # hold'[q]
      <4>1. mode'[p] = "incr" => at[p] \in VA  BY <1>1 DEF OwnEffects
      <4>2. mode'[p] = "incr" => Slot(p, at[p]) \in Slots  BY <1>2, <4>1, SlotType
      <4> QED BY <1>1, <1>2, <2>2, <3>1, <4>2 DEF Effects
    <3>3. hold'[p] # hold[q]
      <4>1. hold'[p] \in {hold[p], None} \union free \union {pte[s].pa : s \in Slots}
        BY HoldChange DEF RefInv
      <4> QED BY <1>2, <1>5, <2>2, <3>1, <4>1
    <3> QED BY <1>3, <2>2, <3>1, <3>2, <3>3
  <2> QED BY <2>1, <2>2
<1> QED BY <1>3, <1>4, <1>6 DEF HoldShape

LEMMA ForkShapeStep ==
  ASSUME RefInv, NEW p \in Procs, UserStep(p) \/ KernelStep(p)
  PROVE  ForkShape'
<1>1. Effects(p) /\ OwnEffects(p)  BY EffectsStep, OwnEffectsStep
<1>2. TypeOK /\ ReapShape /\ ForkShape  BY DEF RefInv
<1> DEFINE F == {"fork", "incr", "unfork"}
<1>3. ASSUME NEW q \in Procs, q # p, mode'[q] \in F
      PROVE  mode'[q] = mode[q] /\ kid'[q] = kid[q] /\ at'[q] = at[q] /\ pgdir'[q] = pgdir[q]
  BY <1>1, <1>3 DEF Effects
<1>4. ASSUME NEW q \in Procs, q # p, mode'[q] \in F
      PROVE  /\ kid[q] \in Procs /\ kid[q] # p /\ mode[kid[q]] = "embryo"
             /\ mode[p] \in F => kid[p] # kid[q]
             /\ mode[p] = "reap" => kid[p] # kid[q]
             /\ mode'[kid[q]] = "embryo" /\ pgdir'[kid[q]] = pgdir[kid[q]]
  <2>1. kid[q] \in Procs /\ mode[kid[q]] = "embryo" /\ (mode[p] \in F => kid[p] # kid[q])
    BY <1>2, <1>3, <1>4 DEF ForkShape, Forkers
  <2>2. kid[q] # p  BY <1>1, <2>1 DEF OwnEffects
  <2>3. mode[p] = "reap" => kid[p] # kid[q]  BY <1>2, <2>1 DEF ReapShape
  <2> QED BY <1>1, <2>1, <2>2, <2>3 DEF Effects
<1>5. mode'[p] \in F => kid'[p] \in Procs /\ mode'[kid'[p]] = "embryo"
  <2>1. CASE mode[p] \in F
    <3>1. kid[p] \in Procs /\ kid[p] # p /\ mode[kid[p]] = "embryo"
      BY <1>2, <2>1 DEF ForkShape, Forkers
    <3> QED BY <1>1, <2>1, <3>1 DEF Effects, OwnEffects
  <2>2. CASE mode[p] \notin F  BY <1>1, <2>2 DEF OwnEffects
  <2> QED BY <2>1, <2>2
<1>6. ASSUME NEW q \in Procs, q # p, mode'[q] \in F, mode'[p] \in F PROVE kid'[q] # kid'[p]
  BY <1>1, <1>3, <1>4, <1>6 DEF OwnEffects
<1>7. ASSUME NEW q \in Procs, mode'[q] = "incr"
      PROVE  /\ at'[q] \in VA
             /\ pte'[<<q, pgdir'[q], at'[q]>>].pa \in Frames
             /\ pte'[<<kid'[q], pgdir'[kid'[q]], at'[q]>>].pa = pte'[<<q, pgdir'[q], at'[q]>>].pa
  <2>1. CASE q = p  BY <1>1, <1>7, <2>1 DEF OwnEffects, Slot
  <2>2. CASE q # p
    <3>1. /\ at[q] \in VA /\ pte[<<q, pgdir[q], at[q]>>].pa \in Frames
          /\ pte[<<kid[q], pgdir[kid[q]], at[q]>>].pa = pte[<<q, pgdir[q], at[q]>>].pa
      BY <1>2, <1>3, <1>7, <2>2 DEF ForkShape, Slot
    <3>2. pgdir[q] \in Tables /\ pgdir[kid[q]] \in Tables  BY <1>2, <1>4, <1>7, <2>2 DEF TypeOK
    <3>3. mode[q] = "incr"  BY <1>3, <1>7, <2>2
    <3>4. mode[p] \in {"fork", "unfork", "reap"} => kid[p] # q
      BY <1>2, <3>3 DEF ForkShape, ReapShape, Forkers
    <3>5. pte'[<<q, pgdir[q], at[q]>>] = pte[<<q, pgdir[q], at[q]>>]
      BY <1>1, <2>2, <3>1, <3>2, <3>4 DEF Effects
    <3>6. pte'[<<kid[q], pgdir[kid[q]], at[q]>>] = pte[<<kid[q], pgdir[kid[q]], at[q]>>]
      BY <1>1, <1>4, <1>7, <2>2, <3>1, <3>2 DEF Effects
    <3> QED BY <1>3, <1>4, <1>7, <2>2, <3>1, <3>5, <3>6
  <2> QED BY <2>1, <2>2
<1>8. \A q \in Forkers' : q \in Procs /\ mode'[q] \in F  BY DEF Forkers
<1>9. \A q \in Forkers' : kid'[q] \in Procs /\ mode'[kid'[q]] = "embryo"
  BY <1>3, <1>4, <1>5, <1>8
<1>10. \A q, r \in Forkers' : kid'[q] = kid'[r] => q = r
  <2> SUFFICES ASSUME NEW q \in Forkers', NEW r \in Forkers', kid'[q] = kid'[r] PROVE q = r
    OBVIOUS
  <2>1. CASE q = p \/ r = p  BY <1>6, <1>8, <2>1
  <2>2. CASE q # p /\ r # p
    <3>1. q \in Forkers /\ r \in Forkers /\ kid[q] = kid[r]  BY <1>3, <1>8, <2>2 DEF Forkers
    <3> QED BY <1>2, <3>1 DEF ForkShape
  <2> QED BY <2>1, <2>2
<1> QED BY <1>7, <1>9, <1>10 DEF ForkShape, Slot
-----------------------------------------------------------------------------
(***************************************************************************)
(* Counting references.                                                    *)
(***************************************************************************)
Counted(f) == MappedAt(f) \ Uncounted

LEMMA SlotsFinite == IsFiniteSet(Slots)
<1> DEFINE T == Procs \X (Tables \X VA)
           m == [s \in Slots |-> <<s[1], <<s[2], s[3]>>>>]
<1>1. IsFiniteSet(VA)  BY FS_Interval, CoWAssumption DEF VA
<1>2. IsFiniteSet(Tables)
  <2>1. IsFiniteSet({"A"})  BY FS_Singleton
  <2>2. IsFiniteSet({"A"} \union {"B"})  BY <2>1, FS_AddElement
  <2> QED BY <2>2 DEF Tables
<1>3. IsFiniteSet(Tables \X VA)  BY <1>1, <1>2, FS_Product
<1>4. IsFiniteSet(T)  BY <1>3, FS_Product, CoWAssumption
<1>5. m \in Injection(Slots, T)
  <2>1. m \in [Slots -> T]  BY DEF Slots
  <2>2. \A a, b \in Slots : m[a] = m[b] => a = b  BY DEF Slots
  <2> HIDE DEF m, T
  <2> QED BY <2>1, <2>2 DEF Injection, IsInjective
<1> QED BY <1>4, <1>5, FS_Injection

LEMMA OwnersFinite ==
  ASSUME NEW f
  PROVE  /\ IsFiniteSet(Counted(f)) /\ Cardinality(Counted(f)) \in Nat
         /\ IsFiniteSet(HeldBy(f)) /\ Cardinality(HeldBy(f)) \in Nat
<1>1. Counted(f) \in SUBSET Slots  BY DEF Counted, MappedAt
<1>2. HeldBy(f) \in SUBSET Procs  BY DEF HeldBy
<1>3. IsFiniteSet(Counted(f)) /\ IsFiniteSet(HeldBy(f))
  BY <1>1, <1>2, SlotsFinite, FS_Subset, CoWAssumption
<1> QED BY <1>3, FS_CardinalityType

\* The entry the parent and the child share while it is not counted is counted
\* once, as the parent's: an uncounted entry never is the only one.
LEMMA UncountedPartner ==
  ASSUME RefInv, NEW f, NEW s \in MappedAt(f), s \in Uncounted
  PROVE  \E q \in Procs : mode[q] = "incr" /\ s = Slot(kid[q], at[q]) /\ Slot(q, at[q]) \in Counted(f)
<1>1. TypeOK /\ ForkShape  BY DEF RefInv
<1>2. PICK q \in Procs : mode[q] = "incr" /\ s = Slot(kid[q], at[q])  BY DEF Uncounted
<1>3. at[q] \in VA /\ pte[Slot(q, at[q])].pa = pte[s].pa  BY <1>1, <1>2 DEF ForkShape
<1>4. Slot(q, at[q]) \in MappedAt(f)  BY <1>1, <1>3, SlotType DEF MappedAt
<1>5. Slot(q, at[q]) \notin Uncounted
  BY <1>1, <1>2 DEF Uncounted, Slot, ForkShape, Forkers
<1> QED BY <1>2, <1>4, <1>5 DEF Counted

\* Entries of processes that are not being created are counted.
LEMMA OwnCounted ==
  ASSUME RefInv, NEW q \in Procs, mode[q] # "embryo", NEW k \in Tables, NEW va \in VA,
         NEW f, pte[<<q, k, va>>].pa = f
  PROVE  <<q, k, va>> \in Counted(f)
<1>1. <<q, k, va>> \in MappedAt(f)  BY DEF MappedAt, Slots
<1>2. <<q, k, va>> \notin Uncounted  BY DEF RefInv, ForkShape, Forkers, Uncounted, Slot
<1> QED BY <1>1, <1>2 DEF Counted

\* get_refc returned at most one: the faulting entry is the only one.
LEMMA SoleOwner ==
  ASSUME RefInv, NEW p \in Procs, mode[p] = "fault", at[p] \in VA,
         NEW f \in Frames, pte[Slot(p, at[p])].pa = f, ~(refc[f] > 1),
         NEW s \in MappedAt(f)
  PROVE  s = Slot(p, at[p])
<1>1. TypeOK /\ RefcExact  BY DEF RefInv
<1>2. Slot(p, at[p]) \in Counted(f)
  <2>1. pgdir[p] \in Tables  BY <1>1 DEF TypeOK
  <2> QED BY <2>1, OwnCounted DEF Slot
<1>3. refc[f] = Cardinality(Counted(f)) + Cardinality(HeldBy(f))
  BY <1>1 DEF RefcExact, Counted
<1>4. Cardinality(Counted(f)) <= 1  BY <1>1, <1>3, OwnersFinite DEF TypeOK
<1>5. \A t \in Counted(f) : t = Slot(p, at[p])
  <2> SUFFICES ASSUME NEW t \in Counted(f), t # Slot(p, at[p]) PROVE FALSE
    OBVIOUS
  <2> DEFINE R == Counted(f) \ {t}
  <2>1. IsFiniteSet(R) /\ Cardinality(R) = Cardinality(Counted(f)) - 1
    <3>1. IsFiniteSet(Counted(f))  BY OwnersFinite
    <3> QED BY <3>1, FS_RemoveElement
  <2>2. Cardinality(R) = 0  BY <1>4, <2>1, OwnersFinite, FS_CardinalityType
  <2>3. R = {}  BY <2>1, <2>2, FS_EmptySet
  <2> QED BY <1>2, <2>3
<1>6. CASE s \in Uncounted
  <2>1. PICK q \in Procs : mode[q] = "incr" /\ Slot(q, at[q]) \in Counted(f)
    BY <1>6, UncountedPartner
  <2>2. q = p  BY <1>5, <2>1 DEF Slot
  <2> QED BY <2>1, <2>2
<1> QED BY <1>5, <1>6 DEF Counted

LEMMA FaultShapeStep ==
  ASSUME RefInv, NEW p \in Procs, UserStep(p) \/ KernelStep(p)
  PROVE  FaultShape'
<1>1. Effects(p) /\ OwnEffects(p)  BY EffectsStep, OwnEffectsStep
<1>2. /\ TypeOK /\ ForkShape /\ ReapShape /\ FaultShape /\ HoldShape
      /\ None \notin Frames
  BY CoWAssumption DEF RefInv
<1> DEFINE Own(q) == <<q, pgdir'[q], at'[q]>>
<1>3. ASSUME NEW q \in Procs, q # p,
             mode'[q] \in {"fault", "setw", "alloc", "copy", "drop", "map"}
      PROVE  /\ mode[q] = mode'[q] /\ at'[q] = at[q] /\ pgdir'[q] = pgdir[q] /\ at[q] \in VA
             /\ pgdir[q] \in Tables
             /\ pte'[Own(q)] = pte[Slot(q, at[q])]
  <2>1. mode[q] = mode'[q] /\ at'[q] = at[q] /\ pgdir'[q] = pgdir[q]
    BY <1>1, <1>3 DEF Effects
  <2>2. at[q] \in VA /\ pgdir[q] \in Tables  BY <1>2, <1>3, <2>1 DEF FaultShape, TypeOK
  <2>3. mode[p] \in {"fork", "unfork", "reap"} => kid[p] # q
    BY <1>2, <1>3, <2>1 DEF ForkShape, ReapShape, Forkers
  <2> QED BY <1>1, <1>3, <2>1, <2>2, <2>3 DEF Effects, Slot
<1>4. ASSUME NEW q \in Procs,
             mode'[q] \in {"fault", "setw", "alloc", "copy", "drop", "map"}
      PROVE  at'[q] \in VA
  <2>1. CASE q # p  BY <1>3, <1>4, <2>1
  <2>2. CASE q = p  BY <1>1, <1>2, <1>4, <2>2 DEF OwnEffects, FaultShape
  <2> QED BY <2>1, <2>2
<1>5. ASSUME NEW q \in Procs, mode'[q] \in {"setw", "alloc", "copy"}
      PROVE  pte'[Own(q)].pa \in Frames
  <2>1. CASE q # p  BY <1>2, <1>3, <1>5, <2>1 DEF FaultShape
  <2>2. CASE q = p
    <3>1. /\ mode[p] \in {"fault", "alloc"} /\ pte' = pte /\ at' = at /\ pgdir' = pgdir
          /\ pte[Slot(p, at[p])].pa # None \/ mode[p] = "alloc"
      BY <1>1, <1>5, <2>2 DEF OwnEffects
    <3>2. at[p] \in VA /\ pte[Slot(p, at[p])].pa # None
      BY <1>2, <3>1 DEF FaultShape
    <3>3. pte[Slot(p, at[p])].pa \in Frames  BY <1>2, <3>2, SlotType DEF Entry
    <3> QED BY <2>2, <3>1, <3>3 DEF Slot
  <2> QED BY <2>1, <2>2
<1>6. ASSUME NEW q \in Procs, mode'[q] = "setw", NEW s \in Slots, pte'[s].pa = pte'[Own(q)].pa
      PROVE  s = Own(q)
  <2>1. CASE q # p
    <3>1. /\ at[q] \in VA /\ pte[Slot(q, at[q])].pa \in Frames
          /\ \A t \in Slots : pte[t].pa = pte[Slot(q, at[q])].pa => t = Slot(q, at[q])
          /\ Own(q) = Slot(q, at[q]) /\ pte'[Own(q)] = pte[Slot(q, at[q])]
          /\ Slot(q, at[q]) \in Slots
      BY <1>2, <1>3, <1>6, <2>1, SlotType DEF FaultShape, Slot
    <3>2. mode'[p] = "incr" => Slot(p, at[p]) \in Slots /\ Slot(p, at[p]) # Slot(q, at[q])
      BY <1>1, <1>2, <2>1, SlotType DEF OwnEffects, Slot
    <3>3. mode[p] \in {"copy", "map"} => hold[p] # pte[Slot(q, at[q])].pa
      BY <1>2, <3>1 DEF HoldShape
    <3>4. pte'[s].pa = pte[s].pa
      BY <1>1, <1>2, <1>6, <3>1, <3>2, <3>3 DEF Effects
    <3> QED BY <1>6, <3>1, <3>4
  <2>2. CASE q = p
    <3>1. /\ mode[p] = "fault" /\ pte' = pte /\ at' = at /\ pgdir' = pgdir
          /\ pte[Slot(p, at[p])].pa # None /\ ~(refc[pte[Slot(p, at[p])].pa] > 1)
      BY <1>1, <1>6, <2>2 DEF OwnEffects
    <3>2. at[p] \in VA  BY <1>2, <3>1 DEF FaultShape
    <3>3. pte[Slot(p, at[p])].pa \in Frames  BY <1>2, <3>1, <3>2, SlotType DEF Entry
    <3>4. s \in MappedAt(pte[Slot(p, at[p])].pa)  BY <1>6, <2>2, <3>1 DEF MappedAt, Slot
    <3>5. s = Slot(p, at[p])  BY <3>1, <3>2, <3>3, <3>4, SoleOwner
    <3> QED BY <2>2, <3>1, <3>5 DEF Slot
  <2> QED BY <2>1, <2>2
<1> QED BY <1>4, <1>5, <1>6 DEF FaultShape, Slot
-----------------------------------------------------------------------------
(***************************************************************************)
(* The counts are preserved.  First what is not counted yet.               *)
(***************************************************************************)
LEMMA UncountedOthers ==
  ASSUME RefInv, NEW p \in Procs, UserStep(p) \/ KernelStep(p), NEW q \in Procs, q # p
  PROVE  /\ mode'[q] = "incr" <=> mode[q] = "incr"
         /\ mode[q] = "incr" => /\ kid'[q] = kid[q] /\ at'[q] = at[q]
                                /\ kid[q] \in Procs /\ kid[q] # p
                                /\ mode[p] \in {"fork", "incr", "unfork", "reap"} => kid[p] # kid[q]
                                /\ pgdir'[kid[q]] = pgdir[kid[q]]
<1>1. Effects(p) /\ OwnEffects(p)  BY EffectsStep, OwnEffectsStep
<1>2. ForkShape /\ ReapShape  BY DEF RefInv
<1>3. mode'[q] = "incr" <=> mode[q] = "incr"
  BY <1>1, <1>2 DEF Effects, ForkShape, ReapShape, Forkers
<1>4. ASSUME mode[q] = "incr"
      PROVE  /\ kid[q] \in Procs /\ mode[kid[q]] = "embryo" /\ kid[q] # p
             /\ mode[p] \in {"fork", "incr", "unfork", "reap"} => kid[p] # kid[q]
  BY <1>1, <1>2, <1>4 DEF OwnEffects, ForkShape, ReapShape, Forkers
<1>5. ASSUME mode[q] = "incr"
      PROVE  /\ kid'[q] = kid[q] /\ at'[q] = at[q] /\ pgdir'[kid[q]] = pgdir[kid[q]]
  BY <1>1, <1>4, <1>5 DEF Effects
<1> QED BY <1>3, <1>4, <1>5

OthersUncounted(p) == {Slot(kid[q], at[q]) : q \in {r \in Procs \ {p} : mode[r] = "incr"}}

LEMMA UncountedSplit ==
  ASSUME NEW p \in Procs
  PROVE  Uncounted = OthersUncounted(p) \union (IF mode[p] = "incr" THEN {Slot(kid[p], at[p])} ELSE {})
BY DEF Uncounted, OthersUncounted

LEMMA UncountedSplitNext ==
  ASSUME RefInv, NEW p \in Procs, UserStep(p) \/ KernelStep(p)
  PROVE  Uncounted' = OthersUncounted(p)
           \union (IF mode'[p] = "incr" THEN {<<kid'[p], pgdir'[kid'[p]], at'[p]>>} ELSE {})
<1>1. \A q \in Procs \ {p} : mode'[q] = "incr" <=> mode[q] = "incr"  BY UncountedOthers
<1>2. \A q \in Procs \ {p} : mode[q] = "incr" =>
         <<kid'[q], pgdir'[kid'[q]], at'[q]>> = Slot(kid[q], at[q])
  BY UncountedOthers DEF Slot
<1>3. Uncounted' = {<<kid'[q], pgdir'[kid'[q]], at'[q]>> : q \in {r \in Procs : mode'[r] = "incr"}}
  BY DEF Uncounted, Slot
<1> QED BY <1>1, <1>2, <1>3 DEF OthersUncounted

\* A step that maps and holds the same frames and counts nothing.
LEMMA CountsKept ==
  ASSUME RefInv, UNCHANGED <<refc, free, hold>>, \A s \in Slots : pte'[s].pa = pte[s].pa,
         Uncounted' = Uncounted
  PROVE  RefcExact' /\ FreeNotInUse'
<1>1. \A f : MappedAt(f)' = MappedAt(f) /\ HeldBy(f)' = HeldBy(f)
  BY DEF MappedAt, HeldBy
<1>2. \A f : (MappedAt(f) \ Uncounted)' = MappedAt(f) \ Uncounted  BY <1>1
<1>3. RefcExact /\ FreeNotInUse  BY DEF RefInv
<1>4. RefcExact'
  <2> SUFFICES ASSUME NEW f \in Frames
               PROVE  refc'[f] = Cardinality((MappedAt(f) \ Uncounted)') + Cardinality(HeldBy(f)')
    BY DEF RefcExact
  <2> QED BY <1>1, <1>2, <1>3 DEF RefcExact
<1>5. FreeNotInUse'
  <2> SUFFICES ASSUME NEW f \in free'
               PROVE  refc'[f] = 0 /\ MappedAt(f)' = {} /\ HeldBy(f)' = {}
    BY DEF FreeNotInUse
  <2> QED BY <1>1, <1>3 DEF FreeNotInUse
<1> QED BY <1>4, <1>5

\* Outside copyuvm nothing becomes uncounted or counted.
LEMMA UncountedKept ==
  ASSUME RefInv, NEW p \in Procs, UserStep(p) \/ KernelStep(p), mode[p] # "incr", mode'[p] # "incr"
  PROVE  Uncounted' = Uncounted
BY UncountedSplit, UncountedSplitNext

\* The steps that leave frames, counts and locals alone.
LEMMA QuietUser ==
  ASSUME RefInv, NEW p \in Procs, UserStep(p) \/ KernelStep(p), UserStep(p) \/ Exit(p)
  PROVE  RefcExact' /\ FreeNotInUse'
<1> USE DEF At, Goto, ClearRegs, pool, regs, proc
<1>0. TypeOK  BY DEF RefInv
<1>1. UNCHANGED <<refc, free, hold, pte>>
  BY DEF UserStep, Write, Fault, Fork, Wait, Grow, Shrink, Exec, Exit
<1>2. mode[p] # "incr" /\ mode'[p] # "incr"
  BY <1>0 DEF UserStep, Write, Fault, Fork, Wait, Grow, Shrink, Exec, Exit, TypeOK
<1>3. Uncounted' = Uncounted  BY <1>2, UncountedKept
<1> QED BY <1>1, <1>3, CountsKept

LEMMA QuietKernel ==
  ASSUME RefInv, NEW p \in Procs, UserStep(p) \/ KernelStep(p),
         \/ CoWCheck(p) \/ CoWOutOfMemory(p) \/ ForkDone(p) \/ MapFails(p) \/ ExecBad(p)
         \/ GrowDone(p) \/ ExecCommit(p) \/ UnforkDone(p) \/ FreeOldDone(p) \/ ShrinkDone(p) \/ ReapDone(p)
  PROVE  RefcExact' /\ FreeNotInUse'
<1> USE DEF At, Goto, ClearRegs, Return, Freed, panic, pool, regs, proc
<1>0. TypeOK  BY DEF RefInv
<1>1. UNCHANGED <<refc, free, hold, pte>>
  BY DEF CoWCheck, CoWOutOfMemory, ForkDone, MapFails, ExecBad, GrowDone, ExecCommit,
         UnforkDone, FreeOldDone, ShrinkDone, ReapDone
<1>2. mode[p] # "incr"
  BY DEF CoWCheck, CoWOutOfMemory, ForkDone, MapFails, ExecBad, GrowDone, ExecCommit,
         UnforkDone, FreeOldDone, ShrinkDone, ReapDone
<1>3. mode'[p] # "incr"
  <2>1. OwnEffects(p)  BY OwnEffectsStep
  <2> QED BY <1>1, <2>1, CoWAssumption DEF OwnEffects
<1>4. Uncounted' = Uncounted  BY <1>2, <1>3, UncountedKept
<1> QED BY <1>1, <1>4, CountsKept

\* kalloc: the frame gets its one reference, p's local variable.
LEMMA AllocCounts ==
  ASSUME RefInv, UNCHANGED pte, Uncounted' = Uncounted, NEW p \in Procs, hold[p] = None, NEW f \in Frames,
         Pool!kalloc(f), hold' = [hold EXCEPT ![p] = f]
  PROVE  RefcExact' /\ FreeNotInUse'
<1>0. TypeOK /\ RefcExact /\ FreeNotInUse /\ None \notin Frames  BY CoWAssumption DEF RefInv
<1>1. \A g \in Frames : MappedAt(g)' = MappedAt(g) /\ Counted(g)' = Counted(g)
  BY DEF MappedAt, Counted
<1>2. \A g \in Frames : g # f => HeldBy(g)' = HeldBy(g)  BY <1>0 DEF HeldBy, TypeOK
<1>3. MappedAt(f) = {} /\ HeldBy(f) = {}  BY <1>0 DEF FreeNotInUse
<1>4. HeldBy(f)' = {p}  BY <1>0, <1>3 DEF HeldBy, TypeOK
<1>5. Counted(f) = {}  BY <1>3 DEF Counted
<1>6. ASSUME NEW g \in Frames PROVE refc'[g] = Cardinality(Counted(g)') + Cardinality(HeldBy(g)')
  <2>1. CASE g = f
    <3>1. Cardinality(Counted(g)') = 0 /\ Cardinality(HeldBy(g)') = 1
      BY <1>1, <1>4, <1>5, <2>1, FS_EmptySet, FS_Singleton
    <3> QED BY <1>0, <2>1, <3>1 DEF TypeOK
  <2>2. CASE g # f
    <3>1. refc'[g] = refc[g]  BY <1>0, <2>2 DEF TypeOK
    <3>2. refc[g] = Cardinality(Counted(g)) + Cardinality(HeldBy(g))  BY <1>0 DEF RefcExact, Counted
    <3> QED BY <1>1, <1>2, <2>2, <3>1, <3>2
  <2> QED BY <2>1, <2>2
<1>7. FreeNotInUse'
  <2> SUFFICES ASSUME NEW g \in free' PROVE refc'[g] = 0 /\ MappedAt(g)' = {} /\ HeldBy(g)' = {}
    BY DEF FreeNotInUse
  <2> QED BY <1>0, <1>1, <1>2 DEF FreeNotInUse, TypeOK
<1> QED BY <1>6, <1>7 DEF RefcExact, Counted

\* A frame without a counted entry is not mapped at all.
LEMMA UnmappedIfUncounted ==
  ASSUME RefInv, NEW f, Counted(f) = {}
  PROVE  MappedAt(f) = {}
BY UncountedPartner DEF Counted

\* p gives up the frame in its local variable; kfree puts it back on the list
\* when that was the last reference, decr_refc never does.
LEMMA UnholdCounts ==
  ASSUME RefInv, UNCHANGED pte, Uncounted' = Uncounted, NEW p \in Procs, NEW h \in Frames, hold[p] = h,
         hold' = [hold EXCEPT ![p] = None],
         Pool!kfree(h) \/ Pool!decr_refc(h)
  PROVE  RefcExact' /\ FreeNotInUse'
<1>0. TypeOK /\ RefcExact /\ FreeNotInUse /\ None \notin Frames  BY CoWAssumption DEF RefInv
<1>1. \A g \in Frames : MappedAt(g)' = MappedAt(g) /\ Counted(g)' = Counted(g)
  BY DEF MappedAt, Counted
<1>2. \A g \in Frames : HeldBy(g)' = HeldBy(g) \ {p} /\ (g # h => HeldBy(g)' = HeldBy(g))
  BY <1>0 DEF HeldBy, TypeOK
<1>3. p \in HeldBy(h)  BY DEF HeldBy
<1>4. /\ Cardinality(HeldBy(h)') = Cardinality(HeldBy(h)) - 1
      /\ Cardinality(Counted(h)) \in Nat /\ Cardinality(HeldBy(h)') \in Nat
      /\ IsFiniteSet(Counted(h)) /\ IsFiniteSet(HeldBy(h)')
  <2>1. IsFiniteSet(HeldBy(h)) /\ Cardinality(HeldBy(h)) \in Nat
        /\ IsFiniteSet(Counted(h)) /\ Cardinality(Counted(h)) \in Nat
    BY OwnersFinite
  <2>2. HeldBy(h)' = HeldBy(h) \ {p}  BY <1>2
  <2>3. Cardinality(HeldBy(h) \ {p}) = Cardinality(HeldBy(h)) - 1 /\ IsFiniteSet(HeldBy(h) \ {p})
    BY <1>3, <2>1, FS_RemoveElement
  <2> QED BY <2>1, <2>2, <2>3, FS_CardinalityType
<1>5. refc[h] = Cardinality(Counted(h)) + Cardinality(HeldBy(h)) /\ refc[h] \in Int
  BY <1>0 DEF RefcExact, Counted, TypeOK
<1>6. refc[h] > 0  BY <1>4, <1>5, OwnersFinite
<1>7. refc' = [refc EXCEPT ![h] = refc[h] - 1]  BY <1>6
<1>8. ASSUME NEW g \in Frames PROVE refc'[g] = Cardinality(Counted(g)') + Cardinality(HeldBy(g)')
  <2>1. CASE g = h
    <3>1. refc'[g] = refc[h] - 1  BY <1>0, <1>7, <2>1 DEF TypeOK
    <3>2. Cardinality(Counted(g)') = Cardinality(Counted(h))  BY <1>1, <2>1
    <3>3. Cardinality(HeldBy(h)) \in Nat  BY OwnersFinite
    <3> QED BY <1>4, <1>5, <2>1, <3>1, <3>2, <3>3
  <2>2. CASE g # h
    <3>1. refc'[g] = refc[g]  BY <1>0, <1>7, <2>2 DEF TypeOK
    <3>2. refc[g] = Cardinality(Counted(g)) + Cardinality(HeldBy(g))  BY <1>0 DEF RefcExact, Counted
    <3> QED BY <1>1, <1>2, <2>2, <3>1, <3>2
  <2> QED BY <2>1, <2>2
<1>9. FreeNotInUse'
  <2> SUFFICES ASSUME NEW g \in free' PROVE refc'[g] = 0 /\ MappedAt(g)' = {} /\ HeldBy(g)' = {}
    BY DEF FreeNotInUse
  <2>1. CASE g \in free
    <3>1. g # h  BY <1>0, <1>3, <2>1 DEF FreeNotInUse
    <3> QED BY <1>0, <1>1, <1>2, <1>7, <2>1, <3>1 DEF FreeNotInUse, TypeOK
  <2>2. CASE g \notin free
    <3>1. g = h /\ refc[h] - 1 = 0  BY <1>6, <2>2
    <3>2. Cardinality(Counted(h)) = 0 /\ Cardinality(HeldBy(h)') = 0
      BY <1>4, <1>5, <3>1, OwnersFinite
    <3>3. Counted(h) = {} /\ HeldBy(h)' = {}  BY <1>4, <3>2, FS_EmptySet
    <3>4. MappedAt(h) = {}  BY <3>3, UnmappedIfUncounted
    <3> QED BY <1>0, <1>1, <1>7, <3>1, <3>3, <3>4 DEF TypeOK
  <2> QED BY <2>1, <2>2
<1> QED BY <1>8, <1>9 DEF RefcExact, Counted

\* deallocuvm frees counted entries of processes that are not inside copyuvm:
\* p's own or those of the child it gives up or reaps.
LEMMA DoomedCounted ==
  ASSUME RefInv, NEW p \in Procs, NEW s \in Present(Doomed(p))
  PROVE  /\ s \in Counted(pte[s].pa)
         /\ \A q \in Procs : mode[q] = "incr" => s # Slot(q, at[q])
<1>1. TypeOK /\ ForkShape /\ ReapShape  BY DEF RefInv
<1>2. s \in Slots  BY <1>1, DoomedType
<1>3. /\ mode[p] \in {"unfork", "reap", "freeold", "shrink", "ungrow"}
      /\ s[1] = p \/ (mode[p] \in {"unfork", "reap"} /\ s[1] = kid[p])
  BY DEF Present, Doomed, Slot
<1>4. \A q \in Procs : mode[q] = "incr" => s # Slot(q, at[q])
  BY <1>1, <1>3 DEF ForkShape, ReapShape, Forkers, Slot
<1>5. \A q \in Procs : mode[q] = "incr" => s # Slot(kid[q], at[q])
  BY <1>1, <1>3 DEF ForkShape, ReapShape, Forkers, Slot
<1> QED BY <1>2, <1>4, <1>5 DEF Counted, MappedAt, Uncounted

LEMMA FreeCounts ==
  ASSUME RefInv, UNCHANGED hold, Uncounted' = Uncounted, NEW p \in Procs,
         NEW s \in Present(Doomed(p)), NEW f \in Frames, pte[s].pa = f,
         pte' = [pte EXCEPT ![s] = NoPte], Pool!kfree(f)
  PROVE  RefcExact' /\ FreeNotInUse'
<1>0. TypeOK /\ RefcExact /\ FreeNotInUse /\ None \notin Frames  BY CoWAssumption DEF RefInv
<1>a. s \in Slots  BY DoomedType DEF RefInv
<1>b. s \in Counted(f) /\ \A q \in Procs : mode[q] = "incr" => s # Slot(q, at[q])
  BY DoomedCounted
<1>1. \A g \in Frames : /\ MappedAt(g)' = MappedAt(g) \ {s}
                        /\ g # f => s \notin MappedAt(g)
  BY <1>0, <1>a DEF MappedAt, TypeOK, NoPte
<1>2. \A g \in Frames : Counted(g)' = Counted(g) \ {s}  BY <1>1 DEF Counted
<1>3. \A g \in Frames : HeldBy(g)' = HeldBy(g)  BY DEF HeldBy
<1>4. /\ Cardinality(Counted(f)) \in Nat /\ Cardinality(HeldBy(f)) \in Nat
      /\ IsFiniteSet(HeldBy(f)) /\ IsFiniteSet(Counted(f) \ {s})
      /\ Cardinality(Counted(f) \ {s}) = Cardinality(Counted(f)) - 1
      /\ Cardinality(Counted(f) \ {s}) \in Nat
  BY <1>b, OwnersFinite, FS_RemoveElement, FS_CardinalityType
<1>5. refc[f] = Cardinality(Counted(f)) + Cardinality(HeldBy(f)) /\ refc[f] \in Int
  BY <1>0 DEF RefcExact, Counted, TypeOK
<1>6. refc[f] > 0  BY <1>4, <1>5
<1>7. refc' = [refc EXCEPT ![f] = refc[f] - 1]  BY <1>6
<1>8. ASSUME NEW g \in Frames PROVE refc'[g] = Cardinality(Counted(g)') + Cardinality(HeldBy(g)')
  <2>1. CASE g = f
    <3>1. refc'[g] = refc[f] - 1  BY <1>0, <1>7, <2>1 DEF TypeOK
    <3>2. Counted(g)' = Counted(f) \ {s} /\ HeldBy(g)' = HeldBy(f)  BY <1>2, <1>3, <2>1
    <3>3. refc[f] - 1 = (Cardinality(Counted(f)) - 1) + Cardinality(HeldBy(f))  BY <1>4, <1>5
    <3> QED BY <1>4, <3>1, <3>2, <3>3
  <2>2. CASE g # f
    <3>1. refc'[g] = refc[g]  BY <1>0, <1>7, <2>2 DEF TypeOK
    <3>2. refc[g] = Cardinality(Counted(g)) + Cardinality(HeldBy(g))  BY <1>0 DEF RefcExact, Counted
    <3>3. Counted(g)' = Counted(g)  BY <1>1, <1>2, <2>2 DEF Counted
    <3> QED BY <1>3, <2>2, <3>1, <3>2, <3>3
  <2> QED BY <2>1, <2>2
<1>9. FreeNotInUse'
  <2> SUFFICES ASSUME NEW g \in free' PROVE refc'[g] = 0 /\ MappedAt(g)' = {} /\ HeldBy(g)' = {}
    BY DEF FreeNotInUse
  <2>1. CASE g \in free
    <3>1. g # f /\ g \in Frames  BY <1>0, <1>b, <2>1 DEF FreeNotInUse, Counted, TypeOK
    <3> QED BY <1>0, <1>1, <1>3, <1>7, <2>1, <3>1 DEF FreeNotInUse, TypeOK
  <2>2. CASE g \notin free
    <3>1. g = f /\ refc[f] - 1 = 0  BY <1>6, <2>2
    <3>2. Cardinality(Counted(f) \ {s}) = 0 /\ Cardinality(HeldBy(f)) = 0
      BY <1>4, <1>5, <3>1
    <3>3. Counted(f) \ {s} = {} /\ HeldBy(f) = {}  BY <1>4, <3>2, FS_EmptySet
    <3>4. MappedAt(f) \ {s} = {}
      <4> SUFFICES ASSUME NEW t \in MappedAt(f), t # s PROVE FALSE
        OBVIOUS
      <4>1. t \in Uncounted  BY <3>3 DEF Counted
      <4>2. PICK q \in Procs : mode[q] = "incr" /\ Slot(q, at[q]) \in Counted(f)
        BY <4>1, UncountedPartner
      <4> QED BY <1>b, <3>3, <4>2
    <3> QED BY <1>0, <1>1, <1>3, <1>7, <3>1, <3>3, <3>4 DEF TypeOK
  <2> QED BY <2>1, <2>2
<1> QED BY <1>8, <1>9 DEF RefcExact, Counted

\* mappages: the reference moves from the local variable to the entry.
LEMMA MapCounts ==
  ASSUME RefInv, UNCHANGED <<refc, free>>, Uncounted' = Uncounted, NEW p \in Procs, NEW s \in Slots,
         NEW h \in Frames, hold[p] = h, mode[p] = "map", pte[s].pa = None, s \notin Uncounted,
         NEW e, e.pa = h, pte' = [pte EXCEPT ![s] = e], hold' = [hold EXCEPT ![p] = None]
  PROVE  RefcExact' /\ FreeNotInUse'
<1>0. TypeOK /\ RefcExact /\ FreeNotInUse /\ HoldShape /\ None \notin Frames  BY CoWAssumption DEF RefInv
<1>1. MappedAt(h) = {} /\ HeldBy(h) = {p}  BY <1>0 DEF HoldShape, MappedAt, HeldBy
<1>2. MappedAt(h)' = {s} /\ HeldBy(h)' = {}
  BY <1>0, <1>1 DEF MappedAt, HeldBy, TypeOK
<1>3. \A g \in Frames : g # h => MappedAt(g)' = MappedAt(g) /\ HeldBy(g)' = HeldBy(g)
  BY <1>0 DEF MappedAt, HeldBy, TypeOK
<1>4. Counted(h) = {} /\ Counted(h)' = {s}  BY <1>1, <1>2 DEF Counted
<1>5. \A g \in Frames : g # h => Counted(g)' = Counted(g)  BY <1>3 DEF Counted
<1>6. \A g \in Frames : refc[g] = Cardinality(Counted(g)) + Cardinality(HeldBy(g))
  BY <1>0 DEF RefcExact, Counted
<1>7. ASSUME NEW g \in Frames PROVE refc'[g] = Cardinality(Counted(g)') + Cardinality(HeldBy(g)')
  <2>1. CASE g = h
    <3>1. /\ Cardinality(Counted(h)) = 0 /\ Cardinality(Counted(h)') = 1
          /\ Cardinality(HeldBy(h)) = 1 /\ Cardinality(HeldBy(h)') = 0
      BY <1>1, <1>2, <1>4, FS_EmptySet, FS_Singleton
    <3> QED BY <1>6, <2>1, <3>1
  <2>2. CASE g # h  BY <1>3, <1>5, <1>6, <2>2
  <2> QED BY <2>1, <2>2
<1>8. FreeNotInUse'
  <2> SUFFICES ASSUME NEW g \in free PROVE refc[g] = 0 /\ MappedAt(g)' = {} /\ HeldBy(g)' = {}
    BY DEF FreeNotInUse
  <2>1. g # h /\ g \in Frames  BY <1>0, <1>1 DEF FreeNotInUse, TypeOK
  <2> QED BY <1>0, <1>3, <2>1 DEF FreeNotInUse
<1> QED BY <1>7, <1>8 DEF RefcExact, Counted

\* memmove: the new frame's reference moves from the local variable to the
\* entry, the old frame's from the entry to the local variable.
LEMMA CopyCounts ==
  ASSUME RefInv, UNCHANGED <<refc, free>>, Uncounted' = Uncounted, NEW p \in Procs, NEW s \in Slots,
         NEW h \in Frames, hold[p] = h, mode[p] = "copy", NEW f \in Frames, pte[s].pa = f,
         s \notin Uncounted, NEW e, e.pa = h,
         pte' = [pte EXCEPT ![s] = e], hold' = [hold EXCEPT ![p] = f]
  PROVE  RefcExact' /\ FreeNotInUse'
<1>0. TypeOK /\ RefcExact /\ FreeNotInUse /\ HoldShape /\ None \notin Frames  BY CoWAssumption DEF RefInv
<1>1. MappedAt(h) = {} /\ HeldBy(h) = {p} /\ h # f  BY <1>0 DEF HoldShape, MappedAt, HeldBy
<1>2. MappedAt(h)' = {s} /\ HeldBy(h)' = {}
  BY <1>0, <1>1 DEF MappedAt, HeldBy, TypeOK
<1>3. \A g \in Frames : g # h /\ g # f => MappedAt(g)' = MappedAt(g) /\ HeldBy(g)' = HeldBy(g)
  BY <1>0 DEF MappedAt, HeldBy, TypeOK
<1>4. MappedAt(f)' = MappedAt(f) \ {s} /\ s \in MappedAt(f)
  BY <1>0, <1>1 DEF MappedAt, TypeOK
<1>5. HeldBy(f)' = HeldBy(f) \union {p} /\ p \notin HeldBy(f)
  BY <1>0, <1>1 DEF HeldBy, TypeOK
<1>6. /\ Counted(h) = {} /\ Counted(h)' = {s}
      /\ Counted(f)' = Counted(f) \ {s} /\ s \in Counted(f)
      /\ \A g \in Frames : g # h /\ g # f => Counted(g)' = Counted(g)
  BY <1>1, <1>2, <1>3, <1>4 DEF Counted
<1>7. \A g \in Frames : refc[g] = Cardinality(Counted(g)) + Cardinality(HeldBy(g))
  BY <1>0 DEF RefcExact, Counted
<1>8. ASSUME NEW g \in Frames PROVE refc'[g] = Cardinality(Counted(g)') + Cardinality(HeldBy(g)')
  <2>1. CASE g = h
    <3>1. /\ Cardinality(Counted(h)) = 0 /\ Cardinality(Counted(h)') = 1
          /\ Cardinality(HeldBy(h)) = 1 /\ Cardinality(HeldBy(h)') = 0
      BY <1>1, <1>2, <1>6, FS_EmptySet, FS_Singleton
    <3> QED BY <1>7, <2>1, <3>1
  <2>2. CASE g = f
    <3>1. /\ Cardinality(Counted(f)) \in Nat /\ Cardinality(HeldBy(f)) \in Nat
          /\ Cardinality(Counted(f) \ {s}) = Cardinality(Counted(f)) - 1
          /\ Cardinality(HeldBy(f) \union {p}) = Cardinality(HeldBy(f)) + 1
      <4>1. /\ IsFiniteSet(Counted(f)) /\ IsFiniteSet(HeldBy(f))
            /\ Cardinality(Counted(f)) \in Nat /\ Cardinality(HeldBy(f)) \in Nat
        BY OwnersFinite
      <4>2. Cardinality(Counted(f) \ {s}) = Cardinality(Counted(f)) - 1
        BY <1>6, <4>1, FS_RemoveElement
      <4>3. Cardinality(HeldBy(f) \union {p}) = Cardinality(HeldBy(f)) + 1
        BY <1>5, <4>1, FS_AddElement
      <4> QED BY <4>1, <4>2, <4>3
    <3>2. Counted(g)' = Counted(f) \ {s} /\ HeldBy(g)' = HeldBy(f) \union {p}
      BY <1>5, <1>6, <2>2
    <3>3. refc'[g] = Cardinality(Counted(f)) + Cardinality(HeldBy(f))  BY <1>7, <2>2
    <3> QED BY <3>1, <3>2, <3>3
  <2>3. CASE g # h /\ g # f  BY <1>3, <1>6, <1>7, <2>3
  <2> QED BY <2>1, <2>2, <2>3
<1>9. FreeNotInUse'
  <2> SUFFICES ASSUME NEW g \in free PROVE refc[g] = 0 /\ MappedAt(g)' = {} /\ HeldBy(g)' = {}
    BY DEF FreeNotInUse
  <2>1. g # h /\ g # f /\ g \in Frames  BY <1>0, <1>1, <1>4 DEF FreeNotInUse, TypeOK
  <2> QED BY <1>0, <1>3, <2>1 DEF FreeNotInUse
<1> QED BY <1>8, <1>9 DEF RefcExact, Counted

\* copyuvm: mappages adds an entry that is not counted yet ...
LEMMA ShareCounts ==
  ASSUME RefInv, UNCHANGED <<refc, free, hold>>, NEW t \in Slots, pte[t].pa = None,
         NEW f \in Frames, MappedAt(f) # {}, Uncounted' = Uncounted \union {t},
         \A s \in Slots : pte'[s].pa = IF s = t THEN f ELSE pte[s].pa
  PROVE  RefcExact' /\ FreeNotInUse'
<1>0. TypeOK /\ RefcExact /\ FreeNotInUse /\ None \notin Frames  BY CoWAssumption DEF RefInv
<1>1. \A g \in Frames : /\ MappedAt(g)' = IF g = f THEN MappedAt(g) \union {t} ELSE MappedAt(g)
                        /\ t \notin MappedAt(g)
                        /\ HeldBy(g)' = HeldBy(g)
  BY <1>0 DEF MappedAt, HeldBy
<1>2. \A g \in Frames : Counted(g)' = Counted(g)  BY <1>1 DEF Counted
<1>3. ASSUME NEW g \in Frames PROVE refc'[g] = Cardinality(Counted(g)') + Cardinality(HeldBy(g)')
  <2>1. refc[g] = Cardinality(Counted(g)) + Cardinality(HeldBy(g))  BY <1>0 DEF RefcExact, Counted
  <2> QED BY <1>1, <1>2, <2>1
<1>4. FreeNotInUse'
  <2> SUFFICES ASSUME NEW g \in free PROVE refc[g] = 0 /\ MappedAt(g)' = {} /\ HeldBy(g)' = {}
    BY DEF FreeNotInUse
  <2>1. g # f /\ g \in Frames  BY <1>0 DEF FreeNotInUse, TypeOK
  <2> QED BY <1>0, <1>1, <2>1 DEF FreeNotInUse
<1> QED BY <1>3, <1>4 DEF RefcExact, Counted

\* ... and incr_refc counts it.
LEMMA IncrCounts ==
  ASSUME RefInv, UNCHANGED <<pte, hold>>, NEW f \in Frames, NEW t \in MappedAt(f),
         Pool!incr_refc(f), t \in Uncounted, Uncounted' = Uncounted \ {t}
  PROVE  RefcExact' /\ FreeNotInUse'
<1>0. TypeOK /\ RefcExact /\ FreeNotInUse  BY DEF RefInv
<1>1. \A g \in Frames : MappedAt(g)' = MappedAt(g) /\ HeldBy(g)' = HeldBy(g)
  BY DEF MappedAt, HeldBy
<1>2. \A g \in Frames : g # f => t \notin MappedAt(g)  BY DEF MappedAt
<1>3. \A g \in Frames : g # f => Counted(g)' = Counted(g)  BY <1>1, <1>2 DEF Counted
<1>4. Counted(f)' = Counted(f) \union {t} /\ t \notin Counted(f)  BY <1>1 DEF Counted
<1>5. ASSUME NEW g \in Frames PROVE refc'[g] = Cardinality(Counted(g)') + Cardinality(HeldBy(g)')
  <2>1. refc[g] = Cardinality(Counted(g)) + Cardinality(HeldBy(g)) /\ refc[g] \in Int
    BY <1>0 DEF RefcExact, Counted, TypeOK
  <2>2. CASE g = f
    <3>1. /\ Cardinality(Counted(f)) \in Nat /\ Cardinality(HeldBy(f)) \in Nat
          /\ Cardinality(Counted(f) \union {t}) = Cardinality(Counted(f)) + 1
      BY <1>4, OwnersFinite, FS_AddElement
    <3>2. refc'[g] = refc[g] + 1  BY <1>0, <2>2 DEF TypeOK
    <3>3. Counted(g)' = Counted(f) \union {t} /\ HeldBy(g)' = HeldBy(f)  BY <1>1, <1>4, <2>2
    <3> QED BY <2>1, <2>2, <3>1, <3>2, <3>3
  <2>3. CASE g # f
    <3>1. refc'[g] = refc[g]  BY <1>0, <2>3 DEF TypeOK
    <3> QED BY <1>1, <1>3, <2>1, <2>3, <3>1
  <2> QED BY <2>2, <2>3
<1>6. FreeNotInUse'
  <2> SUFFICES ASSUME NEW g \in free PROVE refc'[g] = 0 /\ MappedAt(g)' = {} /\ HeldBy(g)' = {}
    BY DEF FreeNotInUse
  <2>1. g # f /\ g \in Frames  BY <1>0 DEF FreeNotInUse, TypeOK
  <2>2. refc'[g] = refc[g]  BY <1>0, <2>1 DEF TypeOK
  <2> QED BY <1>0, <1>1, <2>1, <2>2 DEF FreeNotInUse
<1> QED BY <1>5, <1>6 DEF RefcExact, Counted

\* Every step preserves what the counts say.
LEMMA CountsStep ==
  ASSUME RefInv, NEW p \in Procs, UserStep(p) \/ KernelStep(p)
  PROVE  RefcExact' /\ FreeNotInUse'
<1> USE DEF At, Goto, ClearRegs, Return, pool, regs, proc
<1>0. TypeOK /\ ForkShape /\ FaultShape /\ HoldShape /\ None \notin Frames  BY CoWAssumption DEF RefInv
<1>a. ASSUME mode[p] # "incr", mode'[p] # "incr" PROVE Uncounted' = Uncounted
  BY <1>a, UncountedKept
<1>b. ASSUME NEW va \in VA, mode[p] # "embryo", NEW k \in Tables PROVE <<p, k, va>> \notin Uncounted
  BY <1>0, <1>b DEF ForkShape, Forkers, Uncounted, Slot
<1>1. CASE UserStep(p) \/ Exit(p)  BY <1>1, QuietUser
<1>2. CASE \/ CoWCheck(p) \/ CoWOutOfMemory(p) \/ ForkDone(p) \/ MapFails(p) \/ ExecBad(p)
           \/ GrowDone(p) \/ ExecCommit(p) \/ UnforkDone(p) \/ FreeOldDone(p) \/ ShrinkDone(p)
           \/ ReapDone(p)
  BY <1>2, QuietKernel
<1>3. CASE CoWSetW(p) \/ CopyBad(p)
  <2>1. at[p] \in VA  BY <1>0, <1>3, CoWAssumption DEF FaultShape, CoWSetW, CopyBad, TypeOK, VA
  <2>2. Slot(p, at[p]) \in Slots  BY <1>0, <2>1, SlotType
  <2>3. \A s \in Slots : pte'[s].pa = pte[s].pa
    BY <1>0, <1>3, <2>2, SetWrite DEF CoWSetW, CopyBad
  <2>4. mode[p] # "incr" /\ mode'[p] # "incr"  BY <1>0, <1>3 DEF CoWSetW, CopyBad, TypeOK
  <2>5. UNCHANGED <<refc, free, hold>>  BY <1>3 DEF CoWSetW, CopyBad
  <2> QED BY <1>a, <2>3, <2>4, <2>5, CountsKept
<1>4. CASE CoWAlloc(p)
  <2>1. PICK f \in Frames : Pool!kalloc(f) /\ hold' = [hold EXCEPT ![p] = f]
    BY <1>4 DEF CoWAlloc
  <2>2. hold[p] = None  BY <1>0, <1>4 DEF HoldShape, CoWAlloc
  <2>3. mode[p] # "incr" /\ mode'[p] # "incr" /\ UNCHANGED pte  BY <1>0, <1>4 DEF CoWAlloc, TypeOK
  <2> QED BY <1>a, <2>1, <2>2, <2>3, AllocCounts
<1>5. CASE AllocPage(p)
  <2>1. hold[p] = None  BY <1>0, <1>5 DEF HoldShape, AllocPage
  <2>2. mode[p] # "incr" /\ mode'[p] # "incr" /\ UNCHANGED pte  BY <1>0, <1>5 DEF AllocPage, TypeOK
  <2>3. CASE \E f \in Frames : Pool!kalloc(f) /\ hold' = [hold EXCEPT ![p] = f]
    <3>1. PICK f \in Frames : Pool!kalloc(f) /\ hold' = [hold EXCEPT ![p] = f]  BY <2>3
    <3> QED BY <1>a, <2>1, <2>2, <3>1, AllocCounts
  <2>4. CASE UNCHANGED <<refc, free, hold>>
    BY <1>a, <2>2, <2>4, CountsKept
  <2> QED BY <1>5, <2>3, <2>4 DEF AllocPage
<1>6. CASE CoWCopy(p)
  <2> DEFINE s == Slot(p, at[p])
  <2>1. at[p] \in VA /\ pte[s].pa \in Frames /\ hold[p] \in Frames
    BY <1>0, <1>6 DEF FaultShape, HoldShape, CoWCopy
  <2>2. s \in Slots /\ s \notin Uncounted
    <3>1. pgdir[p] \in Tables  BY <1>0 DEF TypeOK
    <3>2. mode[p] # "embryo"  BY <1>6 DEF CoWCopy
    <3> QED BY <1>0, <1>b, <2>1, <3>1, <3>2, SlotType DEF Slot
  <2>3. /\ mode[p] = "copy" /\ mode'[p] # "incr" /\ UNCHANGED <<refc, free>>
        /\ pte' = [pte EXCEPT ![s] = [pa |-> hold[p], w |-> TRUE, u |-> TRUE]]
        /\ hold' = [hold EXCEPT ![p] = pte[s].pa]
    BY <1>0, <1>6 DEF CoWCopy, TypeOK
  <2>4. [pa |-> hold[p], w |-> TRUE, u |-> TRUE].pa = hold[p]  OBVIOUS
  <2> HIDE DEF s
  <2> QED BY <1>a, <2>1, <2>2, <2>3, <2>4, CopyCounts
<1>7. CASE CoWDrop(p)
  <2>1. /\ hold[p] \in Frames /\ mode[p] # "incr" /\ mode'[p] # "incr" /\ UNCHANGED pte
        /\ Pool!decr_refc(hold[p]) /\ hold' = [hold EXCEPT ![p] = None]
    BY <1>0, <1>7 DEF HoldShape, CoWDrop, TypeOK
  <2> QED BY <1>a, <2>1, UnholdCounts
<1>8. CASE UngrowDone(p)
  <2>1. /\ mode[p] # "incr" /\ mode'[p] # "incr" /\ UNCHANGED pte
        /\ hold' = [hold EXCEPT ![p] = None] /\ hold[p] \in Frames \union {None}
    BY <1>0, <1>8 DEF UngrowDone, Freed, TypeOK
  <2>2. CASE hold[p] = None
    <3>1. UNCHANGED <<refc, free, hold>>  BY <1>0, <1>8, <2>1, <2>2 DEF UngrowDone, TypeOK
    <3> QED BY <1>a, <2>1, <3>1, CountsKept
  <2>3. CASE hold[p] # None
    <3>1. Pool!kfree(hold[p]) /\ hold[p] \in Frames  BY <1>8, <2>1, <2>3 DEF UngrowDone
    <3> QED BY <1>a, <2>1, <3>1, UnholdCounts
  <2> QED BY <2>2, <2>3
<1>9. CASE CopyPage(p)
  <2> DEFINE s == Slot(p, at[p])
             t == Slot(kid[p], at[p])
  <2>1. CASE panicked' # panicked
    <3>1. UNCHANGED <<refc, free, hold, pte, mode>> /\ mode[p] # "incr"
      BY <1>9, <2>1 DEF CopyPage, panic
    <3> QED BY <1>a, <3>1, CountsKept
  <2>2. CASE panicked' = panicked
    <3>1. at[p] \in VA /\ kid[p] \in Procs
      BY <1>0, <1>9, CoWAssumption DEF ForkShape, Forkers, CopyPage, TypeOK, VA
    <3>2. s \in Slots /\ t \in Slots /\ pte[s] \in Entry  BY <1>0, <3>1, SlotType
    <3>3. /\ pte[s].pa # None /\ pte[t].pa = None /\ mode[p] = "fork" /\ mode'[p] = "incr"
          /\ pte' = [pte EXCEPT ![s].w = FALSE, ![t] = [pte[s] EXCEPT !.w = FALSE]]
          /\ UNCHANGED <<refc, free, hold, at, kid, pgdir>>
      BY <1>0, <1>9, <2>2 DEF CopyPage, panic, CanRun, TypeOK
    <3>4. pte[s].pa \in Frames /\ s # t  BY <3>2, <3>3 DEF Entry
    <3>5. \A x \in Slots : pte'[x].pa = IF x = t THEN pte[s].pa ELSE pte[x].pa
      <4> HIDE DEF s, t
      <4> QED BY <1>0, <3>2, <3>3, <3>4 DEF TypeOK, Entry
    <3>6. Uncounted' = Uncounted \union {t}
      BY <3>3, UncountedSplit, UncountedSplitNext DEF Slot
    <3>7. MappedAt(pte[s].pa) # {}  BY <3>2 DEF MappedAt
    <3> HIDE DEF s, t
    <3> QED BY <3>2, <3>3, <3>4, <3>5, <3>6, <3>7, ShareCounts
  <2> QED BY <2>1, <2>2
<1>10. CASE CopyIncr(p)
  <2> DEFINE t == Slot(kid[p], at[p])
  <2>1. /\ mode[p] = "incr" /\ mode'[p] = "fork" /\ UNCHANGED <<pte, hold>>
        /\ Pool!incr_refc(pte[Slot(p, at[p])].pa)
    BY <1>0, <1>10 DEF CopyIncr, TypeOK
  <2>2. /\ at[p] \in VA /\ kid[p] \in Procs /\ pte[Slot(p, at[p])].pa \in Frames
        /\ pte[t].pa = pte[Slot(p, at[p])].pa
    BY <1>0, <2>1 DEF ForkShape, Forkers
  <2>3. t \in MappedAt(pte[Slot(p, at[p])].pa)  BY <1>0, <2>2, SlotType DEF MappedAt
  <2>4. t \notin OthersUncounted(p)
    BY <1>0, <2>1 DEF ForkShape, Forkers, OthersUncounted, Slot
  <2>5. t \in Uncounted /\ Uncounted' = Uncounted \ {t}
    BY <2>1, <2>4, UncountedSplit, UncountedSplitNext
  <2> HIDE DEF t
  <2> QED BY <2>1, <2>2, <2>3, <2>5, IncrCounts
<1>11. CASE MapPage(p)
  <2> DEFINE s == <<p, Table(p), at[p]>>
             e == [pa |-> hold[p], w |-> TRUE, u |-> ~(dir[p] = "image" /\ at[p] = tgt[p] - 2)]
  <2>1. mode[p] = "map" /\ mode'[p] # "incr" /\ UNCHANGED <<refc, free>>
    BY <1>0, <1>11 DEF MapPage, panic, TypeOK
  <2>2. CASE panicked' # panicked
    <3>1. UNCHANGED <<refc, free, hold, pte>>  BY <1>11, <2>2 DEF MapPage, panic
    <3> QED BY <1>a, <2>1, <3>1, CountsKept
  <2>3. CASE panicked' = panicked
    <3>1. /\ pte[s].pa = None /\ hold' = [hold EXCEPT ![p] = None]
          /\ pte' = [pte EXCEPT ![s] = e]
      BY <1>11, <2>3 DEF MapPage, panic, CanRun
    <3>2. hold[p] \in Frames /\ at[p] \in VA  BY <1>0, <2>1 DEF HoldShape, FaultShape
    <3>3. Table(p) \in Tables  BY <1>0 DEF Table, Spare, TypeOK, Tables
    <3>4. s \in Slots /\ s \notin Uncounted  BY <1>b, <2>1, <3>2, <3>3 DEF Slots
    <3>5. e.pa = hold[p]  OBVIOUS
    <3> HIDE DEF s, e
    <3> QED BY <1>a, <2>1, <3>1, <3>2, <3>4, <3>5, MapCounts
  <2> QED BY <2>2, <2>3
<1>12. CASE deallocuvm(p)
  <2>1. PICK s \in Present(Doomed(p)) :
          Pool!kfree(pte[s].pa) /\ pte' = [pte EXCEPT ![s] = NoPte]
    BY <1>12 DEF deallocuvm
  <2>2. pte[s].pa \in Frames  BY DoomedType DEF RefInv
  <2>3. UNCHANGED <<hold, mode>> /\ mode[p] # "incr"
    BY <1>12, <2>1 DEF deallocuvm, Present, Doomed
  <2> QED BY <1>a, <2>1, <2>2, <2>3, FreeCounts
<1> QED BY <1>1, <1>2, <1>3, <1>4, <1>5, <1>6, <1>7, <1>8, <1>9, <1>10, <1>11, <1>12 DEF KernelStep
-----------------------------------------------------------------------------
\* A step that changes no entry but s, which ends up not writable, no longer
\* mapped, or pointing to a frame nobody else maps, keeps writable frames private.
LEMMA OneEntry ==
  ASSUME WritableNotShared, NEW s \in Slots, \A t \in Slots : t # s => pte'[t] = pte[t],
         \/ pte'[s].pa = None
         \/ pte'[s].pa = pte[s].pa /\ ~pte'[s].w
         \/ \A t \in Slots : pte[t].pa = pte'[s].pa => t = s
  PROVE  WritableNotShared'
<1> SUFFICES ASSUME NEW a \in Slots, NEW b \in Slots, pte'[a].pa # None, pte'[a].w,
                    pte'[b].pa = pte'[a].pa
             PROVE  a = b
  BY DEF WritableNotShared
<1>1. CASE a = s /\ b # s  BY <1>1
<1>2. CASE a # s /\ b = s
  <2>1. pte'[s].pa = pte[s].pa \/ \A t \in Slots : pte[t].pa = pte'[s].pa => t = s
    BY <1>2
  <2> QED BY <1>2, <2>1 DEF WritableNotShared
<1>3. CASE a # s /\ b # s  BY <1>3 DEF WritableNotShared
<1> QED BY <1>1, <1>2, <1>3

LEMMA WritableStep ==
  ASSUME RefInv, NEW p \in Procs, UserStep(p) \/ KernelStep(p)
  PROVE  WritableNotShared'
<1> USE DEF At, Goto, ClearRegs, Return, pool, regs, proc
<1>0. /\ TypeOK /\ ForkShape /\ FaultShape /\ HoldShape /\ WritableNotShared
      /\ None \notin Frames
  BY CoWAssumption DEF RefInv
<1>1. CASE UNCHANGED pte  BY <1>0, <1>1 DEF WritableNotShared
<1>2. CASE CoWSetW(p) \/ CopyBad(p)
  <2> DEFINE s == Slot(p, at[p])
  <2>1. at[p] \in VA  BY <1>0, <1>2, CoWAssumption DEF FaultShape, CoWSetW, CopyBad, TypeOK, VA
  <2>2. s \in Slots  BY <1>0, <2>1, SlotType
  <2>3. /\ \A t \in Slots : t # s => pte'[t] = pte[t]
        /\ pte'[s].pa = pte[s].pa /\ (CopyBad(p) => ~pte'[s].w)
    BY <1>0, <1>2, <2>2, SetWrite DEF CoWSetW, CopyBad
  <2>5. CoWSetW(p) => \A t \in Slots : pte[t].pa = pte[s].pa => t = s
    BY <1>0 DEF FaultShape, CoWSetW
  <2> HIDE DEF s
  <2>6. \/ pte'[s].pa = pte[s].pa /\ ~pte'[s].w
        \/ \A t \in Slots : pte[t].pa = pte'[s].pa => t = s
    BY <1>2, <2>3, <2>5
  <2> QED BY <1>0, <2>2, <2>3, <2>6, OneEntry
<1>3. CASE CoWCopy(p)
  <2> DEFINE s == Slot(p, at[p])
  <2>1. at[p] \in VA /\ mode[p] = "copy"  BY <1>0, <1>3 DEF FaultShape, CoWCopy
  <2>2. s \in Slots  BY <1>0, <2>1, SlotType
  <2>3. (\A t \in Slots : t # s => pte'[t] = pte[t]) /\ pte'[s].pa = hold[p]
    BY <1>0, <1>3, <2>2 DEF CoWCopy, TypeOK
  <2>4. \A t \in Slots : pte[t].pa # hold[p]  BY <1>0, <2>1 DEF HoldShape
  <2> HIDE DEF s
  <2> QED BY <1>0, <2>2, <2>3, <2>4, OneEntry
<1>4. CASE MapPage(p) /\ ~UNCHANGED pte
  <2> DEFINE s == <<p, Table(p), at[p]>>
  <2>1. at[p] \in VA /\ mode[p] = "map" /\ Table(p) \in Tables
    BY <1>0, <1>4 DEF FaultShape, MapPage, Table, Spare, TypeOK, Tables
  <2>2. s \in Slots  BY <2>1 DEF Slots
  <2>3. (\A t \in Slots : t # s => pte'[t] = pte[t]) /\ pte'[s].pa = hold[p]
    BY <1>0, <1>4, <2>2 DEF MapPage, panic, TypeOK
  <2>4. \A t \in Slots : pte[t].pa # hold[p]  BY <1>0, <2>1 DEF HoldShape
  <2> HIDE DEF s
  <2> QED BY <1>0, <2>2, <2>3, <2>4, OneEntry
<1>5. CASE deallocuvm(p)
  <2>1. PICK s \in Present(Doomed(p)) : pte' = [pte EXCEPT ![s] = NoPte]
    BY <1>5 DEF deallocuvm
  <2>2. s \in Slots  BY DoomedType DEF RefInv
  <2>3. (\A t \in Slots : t # s => pte'[t] = pte[t]) /\ pte'[s].pa = None
    BY <1>0, <2>1, <2>2 DEF TypeOK, NoPte
  <2> QED BY <1>0, <2>2, <2>3, OneEntry
<1>6. CASE CopyPage(p) /\ ~UNCHANGED pte
  <2> DEFINE s == Slot(p, at[p])
             t == Slot(kid[p], at[p])
  <2>1. at[p] \in VA /\ kid[p] \in Procs
    BY <1>0, <1>6, CoWAssumption DEF ForkShape, Forkers, CopyPage, TypeOK, VA
  <2>2. s \in Slots /\ t \in Slots /\ pte[s] \in Entry  BY <1>0, <2>1, SlotType
  <2>3. /\ pte[s].pa # None /\ pte[t].pa = None
        /\ pte' = [pte EXCEPT ![s].w = FALSE, ![t] = [pte[s] EXCEPT !.w = FALSE]]
    BY <1>6 DEF CopyPage, panic
  <2> HIDE DEF s, t
  <2>4. /\ s # t /\ ~pte'[s].w /\ ~pte'[t].w
        /\ pte'[s].pa = pte[s].pa /\ pte'[t].pa = pte[s].pa
        /\ \A x \in Slots : x # s /\ x # t => pte'[x] = pte[x]
    BY <1>0, <2>2, <2>3 DEF TypeOK, Entry
  <2> SUFFICES ASSUME NEW a \in Slots, NEW b \in Slots, pte'[a].pa # None, pte'[a].w,
                      pte'[b].pa = pte'[a].pa
               PROVE  a = b
    BY DEF WritableNotShared
  <2>5. a # s /\ a # t /\ pte'[a] = pte[a]  BY <2>4
  <2>6. b # s /\ b # t  BY <1>0, <2>2, <2>4, <2>5 DEF WritableNotShared
  <2> QED BY <1>0, <2>4, <2>5, <2>6 DEF WritableNotShared
<1>7. CASE UserStep(p)
  BY <1>0, <1>1, <1>7 DEF UserStep, Write, Fault, Fork, Wait, Grow, Shrink, Exec, Exit
<1>8. CASE KernelStep(p)
  BY <1>0, <1>1, <1>2, <1>3, <1>4, <1>5, <1>6, <1>8
  DEF KernelStep, CoWCheck, CoWAlloc, CoWOutOfMemory, panic, CoWDrop, CopyIncr, ForkDone, AllocPage,
      MapFails, ExecBad, GrowDone, ExecCommit, UnforkDone, UngrowDone, FreeOldDone, ShrinkDone, ReapDone, Exit
<1> QED BY <1>7, <1>8
-----------------------------------------------------------------------------
LEMMA InitRefInv == Init => RefInv
<1> SUFFICES ASSUME Init PROVE RefInv
  OBVIOUS
<1>1. PICK f \in Frames :
        /\ free = Frames \ {f}
        /\ refc = [g \in Frames |-> IF g = f THEN 1 ELSE 0]
        /\ pte = [s \in Slots |-> IF s = <<InitProc, "A", 0>>
                                    THEN [pa |-> f, w |-> TRUE, u |-> TRUE] ELSE NoPte]
        /\ content = [g \in Frames |-> IF g = f THEN Text ELSE Junk]
        /\ tlb = [p \in Procs |-> IF p = InitProc THEN {<<0, f, TRUE>>} ELSE {}]
  BY DEF Init
<1>2. 0 \in VA /\ 0 \in 0 .. NPages /\ 1 \in 0 .. NPages  BY CoWAssumption DEF VA
<1>3. pte \in [Slots -> Entry]  BY <1>1 DEF Entry, NoPte
<1>4. tlb \in TlbTypes
  <2> DEFINE T == VA \X Frames \X BOOLEAN
  <2>1. <<0, f, TRUE>> \in T  BY <1>2
  <2> HIDE DEF T
  <2>2. tlb \in [Procs -> SUBSET T]  BY <1>1, <2>1
  <2> QED BY <2>2 DEF TlbTypes, T
<1>5. TypeOK
  <2>1. refc \in [Frames -> Int] /\ free \subseteq Frames /\ content \in [Frames -> Values \union {Junk}]
    BY <1>1, CoWAssumption
  <2>2. /\ pgdir \in [Procs -> Tables] /\ sz \in [Procs -> 0 .. NPages]
        /\ parent \in [Procs -> Procs \union {None}] /\ mode \in [Procs -> Modes]
        /\ at \in [Procs -> 0 .. NPages] /\ tgt \in [Procs -> 0 .. NPages]
        /\ dir \in [Procs -> {"pgdir", "image"}] /\ kid \in [Procs -> Procs \union {None}]
        /\ hold \in [Procs -> Frames \union {None}] /\ panicked \in {"no", "oom", "remap", "copyuvm"}
    BY <1>2 DEF Init, Tables, Modes
  <2> QED BY <1>3, <1>4, <2>1, <2>2 DEF TypeOK, TlbTypes
<1>6. ForkShape /\ ReapShape /\ FaultShape /\ HoldShape
  BY DEF Init, ForkShape, Forkers, ReapShape, FaultShape, HoldShape
<1>7. <<InitProc, "A", 0>> \in Slots  BY <1>2, CoWAssumption DEF Slots, Tables
<1>8. WritableNotShared  BY <1>1, <1>7 DEF WritableNotShared, NoPte
<1>9. Uncounted = {}  BY DEF Uncounted, Init
<1>10. MappedAt(f) = {<<InitProc, "A", 0>>} /\ \A g \in Frames : g # f => MappedAt(g) = {}
  BY <1>1, <1>7, CoWAssumption DEF MappedAt, NoPte
<1>11. \A g \in Frames : HeldBy(g) = {}  BY CoWAssumption DEF Init, HeldBy
<1>12. RefcExact
  <2> SUFFICES ASSUME NEW g \in Frames
               PROVE  refc[g] = Cardinality(MappedAt(g) \ Uncounted) + Cardinality(HeldBy(g))
    BY DEF RefcExact
  <2>1. MappedAt(g) \ Uncounted = MappedAt(g)  BY <1>9
  <2>2. Cardinality(HeldBy(g)) = 0  BY <1>11, FS_EmptySet
  <2>3. CASE g = f
    <3>1. Cardinality(MappedAt(g)) = 1  BY <1>10, <2>3, FS_Singleton
    <3>2. refc[g] = 1  BY <1>1, <2>3
    <3> QED BY <2>1, <2>2, <3>1, <3>2
  <2>4. CASE g # f
    <3>1. Cardinality(MappedAt(g)) = 0  BY <1>10, <2>4, FS_EmptySet
    <3>2. refc[g] = 0  BY <1>1, <2>4
    <3> QED BY <2>1, <2>2, <3>1, <3>2
  <2> QED BY <2>3, <2>4
<1>13. FreeNotInUse  BY <1>1, <1>10, <1>11 DEF FreeNotInUse
<1> QED BY <1>5, <1>6, <1>8, <1>12, <1>13 DEF RefInv

LEMMA NextRefInv == RefInv /\ [Next]_vars => RefInv'
<1> SUFFICES ASSUME RefInv, [Next]_vars PROVE RefInv'
  OBVIOUS
<1>1. TypeOK'  BY TypeStep
<1>2. ASSUME NEW p \in Procs, UserStep(p) \/ KernelStep(p) PROVE RefInv'
  BY <1>1, <1>2, ForkShapeStep, ReapShapeStep, FaultShapeStep, HoldShapeStep, CountsStep, WritableStep
  DEF RefInv
<1>3. CASE UNCHANGED vars
  BY <1>3 DEF vars, pool, regs, proc, RefInv, TypeOK, ForkShape, ReapShape, FaultShape, HoldShape,
              RefcExact, FreeNotInUse, WritableNotShared, Forkers, MappedAt, HeldBy, Uncounted, Slot
<1> QED BY <1>2, <1>3 DEF Next, Halted

LEMMA RefInvariant == Spec => []RefInv
BY InitRefInv, NextRefInv, PTL DEF Spec

\* Without faults at kernel addresses the steps are those of CoW.
LEMMA BelowKernbase == SpecAny /\ UserOnly => Spec
<1>1. [NextAny]_anyVars /\ [\A p \in Procs, f \in Frames : ~KernelFault(p, f)]_anyVars => [Next]_vars
  BY DEF NextAny, Below, anyVars
<1> QED BY <1>1, PTL DEF SpecAny, UserOnly, Spec

(***************************************************************************)
(* The theorems about behaviours in which no program touches an address at *)
(* or above KERNBASE (UserOnly); the run cow_kernel shows what happens     *)
(* otherwise.                                                              *)
(***************************************************************************)
\* The inductive invariant, for every number of processes, frames, pages and
\* processors.
THEOREM Invariant == SpecAny /\ UserOnly => []RefInv
BY RefInvariant, BelowKernbase, PTL

\* Type correctness of the copy-on-write module.
THEOREM TypeCorrect == SpecAny /\ UserOnly => []TypeOK
<1>1. RefInv => TypeOK  BY DEF RefInv
<1> QED BY <1>1, Invariant, PTL

\* kmem.refc_cnt is exact for every number of processes, frames, pages and
\* processors: no interleaving of page faults, fork (failed or not), sbrk, exec,
\* exit and wait loses a reference or counts one twice.
THEOREM RefcCorrect == SpecAny /\ UserOnly => []RefcExact
<1>1. RefInv => RefcExact  BY DEF RefInv
<1> QED BY <1>1, Invariant, PTL

\* kalloc never hands out a frame that a page table or a kernel operation still
\* refers to.
THEOREM FreeCorrect == SpecAny /\ UserOnly => []FreeNotInUse
<1>1. RefInv => FreeNotInUse  BY DEF RefInv
<1> QED BY <1>1, Invariant, PTL

\* A page table entry that allows writing is the only entry for its frame: what
\* fork shares stays read-only until CoW_handler has made it private.
THEOREM CoWCorrect == SpecAny /\ UserOnly => []WritableNotShared
<1>1. RefInv => WritableNotShared  BY DEF RefInv
<1> QED BY <1>1, Invariant, PTL
-----------------------------------------------------------------------------
\* Table k of p has exactly the pages below n.
Exactly(p, k, n) == \A va \in VA : pte[<<p, k, va>>].pa # None <=> va < n

Building == {"grow", "map", "ungrow", "freeold"}

\* What the locals of an operation are while it runs.
RegsOk(p) ==
  /\ mode[p] \in {"unused", "embryo", "user", "zombie", "reap", "shrink"} => at[p] = 0
  /\ mode[p] \notin Building => dir[p] = "pgdir"
  /\ mode[p] \in {"fork", "unfork"} => at[p] <= sz[p]
  /\ mode[p] = "incr" => at[p] < sz[p]
  /\ mode[p] \in {"grow", "map"} => at[p] <= tgt[p] /\ (dir[p] = "pgdir" => sz[p] <= at[p])
  /\ mode[p] = "map" => at[p] < tgt[p]
  /\ mode[p] = "shrink" => 0 < tgt[p] /\ tgt[p] < sz[p]
  /\ mode[p] = "freeold" => dir[p] = "image"

\* The pages of a process are those below sz, except where allocuvm and deallocuvm are
\* at work; the table it does not run on is empty unless exec builds or frees it.
Steady == Modes \ {"unused", "embryo", "zombie", "grow", "map", "ungrow", "shrink"}

LayoutOk(p) ==
  /\ dir[p] = "pgdir" => Exactly(p, Spare(p), 0)
  /\ mode[p] = "unused" => Exactly(p, pgdir[p], 0)
  /\ mode[p] \in Steady \/ dir[p] = "image" => Exactly(p, pgdir[p], sz[p])
  /\ mode[p] \in {"grow", "map"} => Exactly(p, Table(p), at[p])
  /\ mode[p] = "ungrow" => \A va \in VA : va < sz[p] => pte[Slot(p, va)].pa # None
  /\ mode[p] = "shrink" =>
       \A va \in VA : /\ va < tgt[p] => pte[Slot(p, va)].pa # None
                      /\ pte[Slot(p, va)].pa # None => va < sz[p]

\* copyuvm has mapped the parent's frames in the child, up to the page it is at.
CopiedOk(p) ==
  /\ mode[p] = "fork" => Exactly(kid[p], pgdir[kid[p]], at[p])
  /\ mode[p] = "incr" => Exactly(kid[p], pgdir[kid[p]], at[p] + 1)
  /\ mode[p] \in {"fork", "incr"} =>
       \A va \in VA : va < at[p] => pte[Slot(kid[p], va)].pa = pte[Slot(p, va)].pa

\* What exec puts in page va of the image.
Laid(p, va) == IF va # tgt[p] - 2 THEN Text ELSE Zero

\* Mapped pages have been filled; those that sbrk has added are zero, those of an
\* image are what exec has loaded.
Contents == \A s \in Slots : pte[s].pa # None => content[pte[s].pa] \in Values

FilledOk(p) ==
  /\ mode[p] = "map" => content[hold[p]] = Fresh(p)
  /\ mode[p] \in {"grow", "map"} /\ dir[p] = "pgdir" =>
       \A va \in VA : sz[p] <= va /\ va < at[p] => content[pte[Slot(p, va)].pa] = Zero
  /\ mode[p] \in {"grow", "map"} /\ dir[p] = "image" =>
       /\ tgt[p] >= 2
       /\ \A va \in VA : va < at[p] => content[pte[<<p, Spare(p), va>>].pa] = Laid(p, va)

\* Where a process may return to user mode without a load of cr3, its cached
\* translations are of pages below sz and name the right frames, and a writable one is
\* shared at most with the child a fork is still building.
Cached == {"user", "fork", "incr", "unfork", "reap"} \union Building

CachedOk(p, e) ==
  /\ e[1] < sz[p] /\ pte[Slot(p, e[1])].pa = e[2]
  /\ e[3] => \A s \in MappedAt(e[2]) :
               s = Slot(p, e[1]) \/ (p \in Forkers /\ s = Slot(kid[p], e[1]))

TlbOk(p) == mode[p] \in Cached => \A e \in tlb[p] : CachedOk(p, e)

MemInv ==
  /\ RefInv /\ AssertionsHold /\ Contents
  /\ \A p \in Procs : RegsOk(p) /\ LayoutOk(p) /\ CopiedOk(p) /\ FilledOk(p) /\ TlbOk(p)

\* On one processor nobody else runs while CoW_handler does, and the count it has read
\* stays.
LeakInv ==
  /\ \A f \in Frames : refc[f] = 0 => f \in free
  /\ \A p, q \in Busy : p = q
  /\ \A p \in Procs :
       /\ mode[p] \in {"alloc", "copy"} => refc[pte[Slot(p, at[p])].pa] > 1
       /\ mode[p] = "drop" => refc[hold[p]] > 1
-----------------------------------------------------------------------------
(***************************************************************************)
(* What a step of p does to the others, beyond Effects.  A process that is *)
(* not the child p creates, completes, gives up or reaps is left alone.    *)
(***************************************************************************)
MoreEffects(p) ==
  \A q \in Procs \ {p} :
    /\ tgt'[q] = tgt[q] /\ dir'[q] = dir[q]
    /\ \/ sz'[q] = sz[q] /\ tlb'[q] = tlb[q]
       \/ mode[p] = "fork" /\ mode'[p] = "user" /\ q = kid[p]

LEMMA MoreEffectsStep ==
  ASSUME TypeOK, NEW p \in Procs, UserStep(p) \/ KernelStep(p)
  PROVE  MoreEffects(p)
<1> USE DEF At, Goto, ClearRegs, Return, lcr3, keepTlb, pool, regs, proc, panic, Freed, TypeOK, MoreEffects
<1>1. CASE UserStep(p)
  BY <1>1 DEF UserStep, Write, Fault, Fork, Wait, Grow, Shrink, Exec, Exit
<1>2. CASE CoWCheck(p) \/ CoWSetW(p) \/ CoWAlloc(p) \/ CoWOutOfMemory(p) \/ CoWCopy(p) \/ CoWDrop(p)
  BY <1>2 DEF CoWCheck, CoWSetW, CoWAlloc, CoWOutOfMemory, CoWCopy, CoWDrop
<1>3. CASE CopyPage(p) \/ CopyIncr(p) \/ CopyBad(p)
  BY <1>3 DEF CopyPage, CopyIncr, CopyBad
<1>4. CASE ForkDone(p)
  <2>1. mode'[p] = "user" \/ kid[p] = p  BY <1>4 DEF ForkDone
  <2>2. \A q \in Procs \ {p} : tgt'[q] = tgt[q] /\ dir'[q] = dir[q]  BY <1>4 DEF ForkDone
  <2>3. \A q \in Procs \ {p} : q # kid[p] => sz'[q] = sz[q] /\ tlb'[q] = tlb[q]  BY <1>4 DEF ForkDone
  <2>4. mode[p] = "fork"  BY <1>4 DEF ForkDone
  <2> QED BY <2>1, <2>2, <2>3, <2>4
<1>5. CASE AllocPage(p) \/ MapPage(p) \/ MapFails(p) \/ ExecBad(p) \/ GrowDone(p) \/ ExecCommit(p)
  BY <1>5 DEF AllocPage, MapPage, MapFails, ExecBad, GrowDone, ExecCommit
<1>6. CASE deallocuvm(p) \/ UnforkDone(p) \/ UngrowDone(p) \/ FreeOldDone(p) \/ ReapDone(p)
  BY <1>6 DEF deallocuvm, UnforkDone, UngrowDone, FreeOldDone, ReapDone
<1>7. CASE ShrinkDone(p) \/ Exit(p)  BY <1>7 DEF ShrinkDone, Exit
<1> QED BY <1>1, <1>2, <1>3, <1>4, <1>5, <1>6, <1>7 DEF KernelStep

\* The child a step of p is about.
Involved(p, q) ==
  \/ mode[p] \in {"fork", "unfork", "reap"} /\ q = kid[p]
  \/ mode[p] = "user" /\ mode'[p] = "fork" /\ q = kid'[p]

Untouched(q) ==
  /\ mode'[q] = mode[q] /\ at'[q] = at[q] /\ tgt'[q] = tgt[q] /\ dir'[q] = dir[q]
  /\ kid'[q] = kid[q] /\ hold'[q] = hold[q] /\ sz'[q] = sz[q] /\ pgdir'[q] = pgdir[q]
  /\ tlb'[q] = tlb[q]
  /\ \A k \in Tables, va \in VA : pte'[<<q, k, va>>] = pte[<<q, k, va>>]

LEMMA Bystander ==
  ASSUME RefInv, NEW p \in Procs, UserStep(p) \/ KernelStep(p),
         NEW q \in Procs, q # p, ~Involved(p, q)
  PROVE  Untouched(q)
<1>1. Effects(p) /\ MoreEffects(p)  BY EffectsStep, MoreEffectsStep DEF RefInv
<1> QED BY <1>1 DEF Effects, MoreEffects, Involved, Untouched
-----------------------------------------------------------------------------
(***************************************************************************)
(* What the steps that change page-table entries do to the frames in them. *)
(***************************************************************************)
\* The parts of the invariant, for one process.
LEMMA MemParts ==
  ASSUME MemInv, NEW p \in Procs
  PROVE  /\ TypeOK /\ ForkShape /\ ReapShape /\ FaultShape /\ HoldShape
         /\ FreeNotInUse /\ WritableNotShared /\ AssertionsHold /\ Contents
         /\ RegsOk(p) /\ LayoutOk(p) /\ CopiedOk(p) /\ FilledOk(p) /\ TlbOk(p)
BY DEF MemInv, RefInv

\* The ranges of the state of one process.
LEMMA ProcType ==
  ASSUME TypeOK, NEW p \in Procs
  PROVE  /\ NPages \in Nat \ {0} /\ VA = 0 .. NPages - 1 /\ None \notin Frames /\ None \notin Procs
         /\ pgdir[p] \in Tables /\ Spare(p) \in Tables /\ Table(p) \in Tables
         /\ Spare(p) # pgdir[p] /\ \A k \in Tables : k = pgdir[p] \/ k = Spare(p)
         /\ sz[p] \in 0 .. NPages /\ at[p] \in 0 .. NPages /\ tgt[p] \in 0 .. NPages
         /\ mode[p] \in Modes /\ dir[p] \in {"pgdir", "image"}
         /\ kid[p] \in Procs \union {None} /\ hold[p] \in Frames \union {None}
BY CoWAssumption DEF TypeOK, VA, Spare, Table, Tables

LEMMA SlotIn ==
  ASSUME NEW p \in Procs, NEW k \in Tables, NEW va \in VA
  PROVE  <<p, k, va>> \in Slots
BY DEF Slots

\* copyuvm finds its page, and no page of the child in the way.
LEMMA CopyPageEntry ==
  ASSUME MemInv, NEW p \in Procs, CopyPage(p)
  PROVE  /\ at[p] \in VA /\ at[p] < sz[p] /\ kid[p] \in Procs /\ kid[p] # p
         /\ mode[p] = "fork" /\ mode' = [mode EXCEPT ![p] = "incr"]
         /\ pte[Slot(p, at[p])].pa \in Frames /\ pte[Slot(kid[p], at[p])].pa = None
         /\ \A s \in Slots :
              pte'[s].pa = IF s = Slot(kid[p], at[p]) THEN pte[Slot(p, at[p])].pa ELSE pte[s].pa
         /\ \A s \in Slots : s # Slot(p, at[p]) /\ s # Slot(kid[p], at[p]) => pte'[s] = pte[s]
         /\ UNCHANGED <<refc, free, sz, parent, pgdir, at, tgt, dir, kid, hold, content, tlb, panicked>>
<1>1. TypeOK /\ ForkShape /\ RegsOk(p) /\ LayoutOk(p) /\ CopiedOk(p)  BY MemParts
<1>2. mode[p] = "fork" /\ at[p] < sz[p]  BY DEF CopyPage, At
<1>3. at[p] \in VA  BY <1>1, <1>2, ProcType
<1>4. kid[p] \in Procs /\ kid[p] # p  BY <1>1, <1>2 DEF ForkShape, Forkers
<1> DEFINE s == Slot(p, at[p])
           t == Slot(kid[p], at[p])
<1>5. s \in Slots /\ t \in Slots /\ pte[s] \in Entry /\ s # t
  BY <1>1, <1>3, <1>4, SlotType DEF Slot
<1>6. pte[s].pa # None
  BY <1>1, <1>2, <1>3 DEF LayoutOk, Steady, Modes, Exactly, Slot
<1>7. pte[t].pa = None
  <2>1. Exactly(kid[p], pgdir[kid[p]], at[p])  BY <1>1, <1>2 DEF CopiedOk
  <2>2. ~(at[p] < at[p])  BY <1>1, ProcType
  <2> QED BY <1>3, <2>1, <2>2 DEF Exactly, Slot
<1>8. /\ pte' = [pte EXCEPT ![s].w = FALSE, ![t] = [pte[s] EXCEPT !.w = FALSE]]
      /\ mode' = [mode EXCEPT ![p] = "incr"]
      /\ UNCHANGED <<refc, free, sz, parent, pgdir, at, tgt, dir, kid, hold, content, tlb, panicked>>
  BY <1>6, <1>7 DEF CopyPage, Goto, pool, regs
<1>9. pte[s].pa \in Frames  BY <1>5, <1>6 DEF Entry
<1> HIDE DEF s, t
<1>10. \A x \in Slots : pte'[x].pa = IF x = t THEN pte[s].pa ELSE pte[x].pa
  BY <1>1, <1>5, <1>8 DEF TypeOK, Entry
<1>11. \A x \in Slots : x # s /\ x # t => pte'[x] = pte[x]
  BY <1>1, <1>5, <1>8 DEF TypeOK, Entry
<1> QED BY <1>2, <1>3, <1>4, <1>7, <1>8, <1>9, <1>10, <1>11 DEF s, t

\* mappages finds no page in the way of allocuvm's.
LEMMA MapPageEntry ==
  ASSUME MemInv, NEW p \in Procs, MapPage(p)
  PROVE  /\ at[p] \in VA /\ mode[p] = "map" /\ mode' = [mode EXCEPT ![p] = "grow"]
         /\ hold[p] \in Frames /\ <<p, Table(p), at[p]>> \in Slots
         /\ pte[<<p, Table(p), at[p]>>].pa = None
         /\ \A s \in Slots :
              pte'[s].pa = IF s = <<p, Table(p), at[p]>> THEN hold[p] ELSE pte[s].pa
         /\ hold' = [hold EXCEPT ![p] = None] /\ at' = [at EXCEPT ![p] = at[p] + 1]
         /\ UNCHANGED <<refc, free, sz, parent, pgdir, tgt, dir, kid, content, tlb, panicked>>
<1>1. TypeOK /\ FaultShape /\ HoldShape /\ RegsOk(p) /\ LayoutOk(p)  BY MemParts
<1>2. mode[p] = "map"  BY DEF MapPage, At
<1>3. at[p] \in VA /\ hold[p] \in Frames  BY <1>1, <1>2 DEF FaultShape, HoldShape
<1> DEFINE s == <<p, Table(p), at[p]>>
           e == [pa |-> hold[p], w |-> TRUE, u |-> ~(dir[p] = "image" /\ at[p] = tgt[p] - 2)]
<1>4. s \in Slots  BY <1>1, <1>3, ProcType, SlotIn
<1>5. pte[s].pa = None
  <2>1. Exactly(p, Table(p), at[p])  BY <1>1, <1>2 DEF LayoutOk
  <2>2. ~(at[p] < at[p])  BY <1>1, ProcType
  <2> QED BY <1>3, <2>1, <2>2 DEF Exactly
<1>6. /\ pte' = [pte EXCEPT ![s] = e]
      /\ hold' = [hold EXCEPT ![p] = None] /\ at' = [at EXCEPT ![p] = at[p] + 1]
      /\ mode' = [mode EXCEPT ![p] = "grow"]
      /\ UNCHANGED <<refc, free, sz, parent, pgdir, tgt, dir, kid, content, tlb, panicked>>
  BY <1>5 DEF MapPage, Goto, pool
<1>7. e.pa = hold[p]  OBVIOUS
<1> HIDE DEF s, e
<1>8. \A x \in Slots : pte'[x].pa = IF x = s THEN hold[p] ELSE pte[x].pa
  BY <1>1, <1>4, <1>6, <1>7 DEF TypeOK
<1> QED BY <1>2, <1>3, <1>4, <1>5, <1>6, <1>8 DEF s

\* deallocuvm empties one doomed entry.
LEMMA FreeEntry ==
  ASSUME MemInv, NEW p \in Procs, deallocuvm(p)
  PROVE  \E s \in Slots :
           /\ s \in Doomed(p) /\ pte[s].pa \in Frames
           /\ \A t \in Slots : pte'[t].pa = IF t = s THEN None ELSE pte[t].pa
           /\ Pool!kfree(pte[s].pa)
           /\ content' = [content EXCEPT ![pte[s].pa] = IF pte[s].pa \in free' THEN Junk ELSE @]
<1>1. TypeOK /\ ForkShape /\ ReapShape  BY MemParts
<1>2. PICK s \in Present(Doomed(p)) :
        /\ Pool!kfree(pte[s].pa)
        /\ content' = [content EXCEPT ![pte[s].pa] = IF pte[s].pa \in free' THEN Junk ELSE @]
        /\ pte' = [pte EXCEPT ![s] = NoPte]
  BY DEF deallocuvm
<1>3. s \in Slots /\ pte[s].pa \in Frames /\ s \in Doomed(p)  BY <1>1, DoomedType DEF Present
<1>4. \A t \in Slots : pte'[t].pa = IF t = s THEN None ELSE pte[t].pa
  BY <1>1, <1>2, <1>3 DEF TypeOK, NoPte
<1> QED BY <1>2, <1>3, <1>4
-----------------------------------------------------------------------------
(***************************************************************************)
(* The locals and the layout, for p itself.                                *)
(***************************************************************************)
LEMMA OwnRegs ==
  ASSUME MinSize > 0, MemInv, NEW p \in Procs, UserStep(p) \/ KernelStep(p)
  PROVE  RegsOk(p)'
<1> USE DEF At, Goto, ClearRegs, Return, pool, regs, proc, panic, Freed, RegsOk, Building
<1>0. TypeOK /\ RegsOk(p) /\ ForkShape /\ ReapShape  BY MemParts
<1>a. /\ NPages \in Nat /\ MinSize \in Nat /\ VA \subseteq 0 .. NPages
      /\ sz[p] \in 0 .. NPages /\ at[p] \in 0 .. NPages /\ tgt[p] \in 0 .. NPages
  BY <1>0, ProcType, CoWAssumption
<1>b. /\ at \in [Procs -> 0 .. NPages] /\ tgt \in [Procs -> 0 .. NPages] /\ sz \in [Procs -> 0 .. NPages]
      /\ mode \in [Procs -> Modes] /\ dir \in [Procs -> {"pgdir", "image"}] /\ kid \in [Procs -> Procs \union {None}]
  BY <1>0 DEF TypeOK
<1>1. CASE UserStep(p)
  <2>1. ASSUME NEW va \in VA, NEW v \in Values, Write(p, va, v) PROVE RegsOk(p)'
    BY <2>1, <1>0 DEF Write
  <2>2. ASSUME NEW va \in VA, Fault(p, va) PROVE RegsOk(p)'
    BY <2>2, <1>0, <1>b DEF Fault
  <2>3. ASSUME NEW c \in Procs, Fork(p, c) PROVE RegsOk(p)'
    BY <2>3, <1>0, <1>a, <1>b DEF Fork
  <2>4. ASSUME NEW c \in Procs, Wait(p, c) PROVE RegsOk(p)'
    BY <2>4, <1>0, <1>b DEF Wait
  <2>5. ASSUME NEW n \in 0 .. NPages, Grow(p, n) PROVE RegsOk(p)'
    BY <2>5, <1>0, <1>a, <1>b DEF Grow
  <2>6. ASSUME NEW n \in 0 .. NPages, Shrink(p, n) PROVE RegsOk(p)'
    BY <2>6, <1>0, <1>a, <1>b DEF Shrink
  <2>7. ASSUME NEW n \in Images, Exec(p, n) PROVE RegsOk(p)'
    <3>1. n \in Nat  BY CoWAssumption
    <3> QED BY <2>7, <3>1, <1>0, <1>a, <1>b DEF Exec
  <2>8. CASE Exit(p)  BY <2>8, <1>0, <1>b DEF Exit
  <2> QED BY <1>1, <2>1, <2>2, <2>3, <2>4, <2>5, <2>6, <2>7, <2>8 DEF UserStep
<1>2. CASE CoWCheck(p) \/ CoWSetW(p) \/ CoWAlloc(p) \/ CoWOutOfMemory(p) \/ CoWCopy(p) \/ CoWDrop(p)
  BY <1>2, <1>0, <1>b DEF CoWCheck, CoWSetW, CoWAlloc, CoWOutOfMemory, CoWCopy, CoWDrop
<1>3. CASE CopyPage(p)
  <2>1. /\ at[p] < sz[p] /\ mode[p] = "fork" /\ mode'[p] = "incr"
        /\ UNCHANGED <<sz, at, tgt, dir>>
    BY <1>3, <1>b, CopyPageEntry
  <2> QED BY <2>1, <1>0
<1>4. CASE CopyIncr(p) \/ CopyBad(p)
  BY <1>4, <1>0, <1>a, <1>b DEF CopyIncr, CopyBad
<1>5. CASE ForkDone(p) \/ UnforkDone(p) \/ ReapDone(p)
  <2>1. kid[p] \in Procs /\ kid[p] # p
    BY <1>5, <1>0 DEF ForkShape, ReapShape, Forkers, ForkDone, UnforkDone, ReapDone
  <2>2. mode'[p] = "user" /\ at'[p] = 0 /\ dir'[p] = "pgdir"
    BY <1>5, <1>b, <2>1 DEF ForkDone, UnforkDone, ReapDone
  <2> QED BY <2>2
<1>6. CASE AllocPage(p)  BY <1>6, <1>0, <1>b DEF AllocPage
<1>7. CASE MapPage(p)
  <2>1. /\ mode[p] = "map" /\ mode'[p] = "grow" /\ at'[p] = at[p] + 1
        /\ UNCHANGED <<sz, tgt, dir>>
    BY <1>7, <1>b, MapPageEntry
  <2>2. at[p] < tgt[p] /\ (dir[p] = "pgdir" => sz[p] <= at[p])  BY <1>0, <2>1
  <2> QED BY <2>1, <2>2, <1>a
<1>8. CASE MapFails(p) \/ ExecBad(p) \/ GrowDone(p) \/ ExecCommit(p)
  BY <1>8, <1>0, <1>b DEF MapFails, ExecBad, GrowDone, ExecCommit
<1>9. CASE deallocuvm(p)  BY <1>9, <1>0 DEF deallocuvm
<1>10. CASE UngrowDone(p) \/ FreeOldDone(p) \/ ShrinkDone(p) \/ Exit(p)
  BY <1>10, <1>b DEF UngrowDone, FreeOldDone, ShrinkDone, Exit
<1> QED BY <1>1, <1>2, <1>3, <1>4, <1>5, <1>6, <1>7, <1>8, <1>9, <1>10 DEF KernelStep

LEMMA OwnLayout ==
  ASSUME MemInv, NEW p \in Procs, UserStep(p) \/ KernelStep(p)
  PROVE  LayoutOk(p)'
<1> USE DEF At, Goto, ClearRegs, Return, pool, regs, proc, panic, Freed, Building, Steady, Modes
<1>0. TypeOK /\ RegsOk(p) /\ LayoutOk(p) /\ ForkShape /\ ReapShape /\ FaultShape /\ HoldShape  BY MemParts
<1>a. /\ VA = 0 .. NPages - 1 /\ None \notin Frames
      /\ pgdir[p] \in Tables /\ Spare(p) \in Tables /\ Table(p) \in Tables /\ Spare(p) # pgdir[p]
      /\ sz[p] \in 0 .. NPages /\ at[p] \in 0 .. NPages /\ tgt[p] \in 0 .. NPages
      /\ NPages \in Nat /\ dir[p] \in {"pgdir", "image"}
  BY <1>0, ProcType
<1>b. /\ at \in [Procs -> 0 .. NPages] /\ tgt \in [Procs -> 0 .. NPages] /\ sz \in [Procs -> 0 .. NPages]
      /\ mode \in [Procs -> Modes] /\ dir \in [Procs -> {"pgdir", "image"}] /\ kid \in [Procs -> Procs \union {None}]
      /\ pgdir \in [Procs -> Tables]
  BY <1>0 DEF TypeOK
<1>c. \A k \in Tables, va \in VA : <<p, k, va>> \in Slots  BY DEF Slots
\* Where p stays on its table and has the same pages, only the mode and the locals count.
<1> DEFINE Same == /\ pgdir'[p] = pgdir[p]
                   /\ \A k \in Tables, va \in VA :
                        pte'[<<p, k, va>>].pa # None <=> pte[<<p, k, va>>].pa # None
<1>d. ASSUME Same, sz'[p] = sz[p], dir'[p] = "pgdir", dir[p] = "pgdir",
             mode[p] \in Steady, mode'[p] \in Steady \union {"zombie"}
      PROVE  LayoutOk(p)'
  BY <1>0, <1>a, <1>d DEF LayoutOk, Exactly, Spare, Table, Slot
<1>1. CASE UserStep(p)
  <2>0. mode[p] = "user" /\ dir[p] = "pgdir" /\ at[p] = 0
    BY <1>0, <1>1 DEF UserStep, Write, Fault, Fork, Wait, Grow, Shrink, Exec, Exit, RegsOk
  <2>1. ASSUME NEW va \in VA, NEW v \in Values, Write(p, va, v) PROVE LayoutOk(p)'
    BY <2>0, <2>1, <1>d DEF Write
  <2>2. ASSUME NEW va \in VA, Fault(p, va) PROVE LayoutOk(p)'
    BY <2>0, <2>2, <1>b, <1>d DEF Fault
  <2>3. ASSUME NEW c \in Procs, Fork(p, c) PROVE LayoutOk(p)'
    BY <2>0, <2>3, <1>b, <1>d DEF Fork
  <2>4. ASSUME NEW c \in Procs, Wait(p, c) PROVE LayoutOk(p)'
    BY <2>0, <2>4, <1>b, <1>d DEF Wait
  <2>5. ASSUME NEW n \in 0 .. NPages, Grow(p, n) PROVE LayoutOk(p)'
    <3>1. mode'[p] = "grow" /\ at'[p] = sz[p] /\ dir'[p] = "pgdir" /\ UNCHANGED <<pte, pgdir, sz>>
      BY <2>0, <2>5, <1>b DEF Grow
    <3> QED BY <2>0, <3>1, <1>0, <1>a DEF LayoutOk, Exactly, Spare, Table, Slot
  <2>6. ASSUME NEW n \in 0 .. NPages, Shrink(p, n) PROVE LayoutOk(p)'
    <3>1. mode'[p] = "shrink" /\ tgt'[p] = n /\ n < sz[p] /\ dir'[p] = "pgdir" /\ UNCHANGED <<pte, pgdir, sz>>
      BY <2>0, <2>6, <1>b DEF Shrink
    <3> QED BY <2>0, <3>1, <1>0, <1>a DEF LayoutOk, Exactly, Spare, Table, Slot
  <2>7. ASSUME NEW n \in Images, Exec(p, n) PROVE LayoutOk(p)'
    <3>1. mode'[p] = "grow" /\ at'[p] = 0 /\ dir'[p] = "image" /\ UNCHANGED <<pte, pgdir, sz>>
      BY <2>0, <2>7, <1>b DEF Exec
    <3> QED BY <2>0, <3>1, <1>0, <1>a DEF LayoutOk, Exactly, Spare, Table, Slot
  <2>8. CASE Exit(p)  BY <2>0, <2>8, <1>b, <1>d DEF Exit
  <2> QED BY <1>1, <2>1, <2>2, <2>3, <2>4, <2>5, <2>6, <2>7, <2>8 DEF UserStep
<1>2. CASE CoWCheck(p) \/ CoWAlloc(p) \/ CoWOutOfMemory(p) \/ CoWDrop(p) \/ CopyIncr(p)
  BY <1>2, <1>0, <1>b, <1>d
  DEF CoWCheck, CoWAlloc, CoWOutOfMemory, CoWDrop, CopyIncr, RegsOk
<1>3. CASE CoWSetW(p) \/ CopyBad(p)
  <2>1. at[p] \in VA /\ mode[p] \in {"setw", "fork"}
    BY <1>0, <1>a, <1>3 DEF FaultShape, CoWSetW, CopyBad
  <2>2. \A s \in Slots : pte'[s].pa = pte[s].pa
    BY <1>0, <1>3, <2>1, SlotType, SetWrite DEF CoWSetW, CopyBad
  <2>3. /\ mode'[p] \in {"user", "unfork"} /\ UNCHANGED <<sz, pgdir>>
        /\ dir'[p] = "pgdir" /\ dir[p] = "pgdir"
    BY <1>0, <1>b, <1>3 DEF CoWSetW, CopyBad, RegsOk
  <2> QED BY <1>c, <1>d, <2>1, <2>2, <2>3
<1>4. CASE CoWCopy(p)
  <2>1. at[p] \in VA /\ mode[p] = "copy" /\ pte[Slot(p, at[p])].pa \in Frames /\ hold[p] \in Frames
    BY <1>0, <1>4 DEF FaultShape, HoldShape, CoWCopy
  <2>2. \A s \in Slots : pte'[s].pa = IF s = Slot(p, at[p]) THEN hold[p] ELSE pte[s].pa
    BY <1>0, <1>4 DEF CoWCopy, TypeOK
  <2>3. mode'[p] = "drop" /\ UNCHANGED <<sz, pgdir, dir>> /\ dir[p] = "pgdir"
    BY <1>0, <1>b, <1>4 DEF CoWCopy, RegsOk
  <2>4. Same  BY <1>a, <1>c, <2>1, <2>2, <2>3
  <2> QED BY <1>d, <2>1, <2>3, <2>4
<1>5. CASE CopyPage(p)
  <2>1. /\ mode[p] = "fork" /\ mode'[p] = "incr" /\ kid[p] # p
        /\ UNCHANGED <<sz, pgdir, dir>> /\ dir[p] = "pgdir"
    BY <1>0, <1>b, <1>5, CopyPageEntry DEF RegsOk
  <2>2. \A s \in Slots : s # Slot(kid[p], at[p]) => pte'[s].pa = pte[s].pa  BY <1>5, CopyPageEntry
  <2>3. Same  BY <1>c, <2>1, <2>2 DEF Slot
  <2> QED BY <1>d, <2>1, <2>3
<1>6. CASE ForkDone(p) \/ UnforkDone(p) \/ ReapDone(p)
  <2>1. kid[p] \in Procs /\ kid[p] # p
    BY <1>6, <1>0 DEF ForkShape, ReapShape, Forkers, ForkDone, UnforkDone, ReapDone
  <2>2. /\ mode'[p] = "user" /\ dir'[p] = "pgdir" /\ UNCHANGED <<pte, pgdir>> /\ sz'[p] = sz[p]
        /\ mode[p] \in {"fork", "unfork", "reap"} /\ dir[p] = "pgdir"
    BY <1>0, <1>6, <1>b, <2>1 DEF ForkDone, UnforkDone, ReapDone, RegsOk
  <2> QED BY <1>d, <2>2
<1>7. CASE AllocPage(p) \/ MapFails(p) \/ ExecBad(p)
  <2>1. /\ mode[p] \in {"grow", "map"} /\ mode'[p] \in {"map", "ungrow"}
        /\ UNCHANGED <<pte, pgdir, sz, at, dir>>
    BY <1>7, <1>b DEF AllocPage, MapFails, ExecBad
  <2>2. dir[p] = "pgdir" => sz[p] <= at[p]  BY <1>0, <2>1 DEF RegsOk
  <2>3. CASE dir[p] = "pgdir"
    BY <2>1, <2>2, <2>3, <1>0, <1>a DEF LayoutOk, Exactly, Spare, Table, Slot
  <2>4. CASE dir[p] = "image"
    BY <2>1, <2>4, <1>0, <1>a DEF LayoutOk, Exactly, Spare, Table, Slot
  <2> QED BY <1>a, <2>3, <2>4
<1>8. CASE MapPage(p)
  <2>1. /\ mode[p] = "map" /\ mode'[p] = "grow" /\ at'[p] = at[p] + 1 /\ at[p] \in VA
        /\ hold[p] \in Frames /\ UNCHANGED <<pgdir, sz, dir>>
    BY <1>8, <1>b, MapPageEntry
  <2>2. \A s \in Slots : pte'[s].pa = IF s = <<p, Table(p), at[p]>> THEN hold[p] ELSE pte[s].pa
    BY <1>8, MapPageEntry
  <2>3. Exactly(p, Table(p), at[p])  BY <1>0, <2>1 DEF LayoutOk
  <2>4. \A va \in VA : pte'[<<p, Table(p), va>>].pa # None <=> va < at[p] + 1
    BY <1>a, <1>c, <2>1, <2>2, <2>3 DEF Exactly
  <2>5. \A k \in Tables, va \in VA : k # Table(p) => pte'[<<p, k, va>>].pa = pte[<<p, k, va>>].pa
    BY <1>c, <2>2
  <2>6. Spare(p)' = Spare(p) /\ Table(p)' = Table(p)  BY <2>1 DEF Spare, Table
  <2>7. /\ dir[p] = "pgdir" => Table(p) = pgdir[p] /\ Exactly(p, Spare(p), 0)
        /\ dir[p] = "image" => Table(p) = Spare(p) /\ Exactly(p, pgdir[p], sz[p])
    BY <1>0 DEF LayoutOk, Table
  <2> QED BY <1>a, <2>1, <2>4, <2>5, <2>6, <2>7 DEF LayoutOk, Exactly
<1>9. CASE GrowDone(p)
  <2>1. /\ mode[p] = "grow" /\ mode'[p] = "user" /\ dir[p] = "pgdir" /\ dir'[p] = "pgdir"
        /\ UNCHANGED <<pte, pgdir>> /\ sz'[p] = at[p]
    BY <1>9, <1>b DEF GrowDone
  <2> QED BY <1>0, <1>a, <2>1 DEF LayoutOk, Exactly, Spare, Table, Slot
<1>10. CASE ExecCommit(p)
  <2>1. /\ mode[p] = "grow" /\ mode'[p] = "freeold" /\ dir[p] = "image" /\ dir'[p] = "image"
        /\ UNCHANGED pte /\ sz'[p] = at[p] /\ pgdir'[p] = Spare(p)
    BY <1>10, <1>b DEF ExecCommit
  <2> QED BY <1>0, <1>a, <2>1 DEF LayoutOk, Exactly, Spare, Table, Slot
<1>11. CASE deallocuvm(p)
  <2>1. PICK s \in Slots : /\ s \in Doomed(p)
                           /\ \A t \in Slots : pte'[t].pa = IF t = s THEN None ELSE pte[t].pa
    BY <1>11, FreeEntry
  <2>2. UNCHANGED <<sz, mode, pgdir, at, tgt, dir, kid>>  BY <1>11 DEF deallocuvm
  <2>3. Spare(p)' = Spare(p) /\ Table(p)' = Table(p)  BY <2>2 DEF Spare, Table
  <2>4. CASE mode[p] \in {"unfork", "reap"}
    <3>1. kid[p] # p /\ dir[p] = "pgdir"  BY <1>0, <2>4 DEF ForkShape, ReapShape, Forkers, RegsOk
    <3>2. s[1] # p  BY <2>1, <2>4, <3>1 DEF Doomed, Slot
    <3>3. \A k \in Tables, va \in VA : <<p, k, va>> # s  BY <3>2
    <3>4. Same  BY <1>c, <2>1, <2>2, <3>3
    <3> QED BY <1>d, <2>2, <2>4, <3>1, <3>4
  <2>5. CASE mode[p] = "freeold"
    <3>1. s[2] = Spare(p)  BY <2>1, <2>5 DEF Doomed
    <3>2. \A va \in VA : pte'[<<p, pgdir[p], va>>].pa = pte[<<p, pgdir[p], va>>].pa
      BY <1>a, <1>c, <2>1, <3>1
    <3>3. dir[p] = "image"  BY <1>0, <2>5 DEF RegsOk
    <3> QED BY <1>0, <2>2, <2>5, <3>2, <3>3 DEF LayoutOk, Exactly
  <2>6. CASE mode[p] = "shrink"
    <3>1. s[2] = pgdir[p] /\ s[3] \in tgt[p] .. NPages - 1 /\ dir[p] = "pgdir"
      BY <1>0, <2>1, <2>6 DEF Doomed, Slot, RegsOk
    <3>2. \A va \in VA : pte'[<<p, Spare(p), va>>].pa = pte[<<p, Spare(p), va>>].pa
      BY <1>a, <1>c, <2>1, <3>1
    <3>3. \A va \in VA : /\ va < tgt[p] => pte'[<<p, pgdir[p], va>>].pa = pte[<<p, pgdir[p], va>>].pa
                         /\ pte'[<<p, pgdir[p], va>>].pa \in {None, pte[<<p, pgdir[p], va>>].pa}
      BY <1>a, <1>c, <2>1, <3>1
    <3> QED BY <1>0, <2>2, <2>3, <2>6, <3>1, <3>2, <3>3 DEF LayoutOk, Exactly, Slot
  <2>7. CASE mode[p] = "ungrow" /\ dir[p] = "image"
    <3>1. s[2] = Spare(p)  BY <2>1, <2>7 DEF Doomed, Table
    <3>2. \A va \in VA : pte'[<<p, pgdir[p], va>>].pa = pte[<<p, pgdir[p], va>>].pa
      BY <1>a, <1>c, <2>1, <3>1
    <3> QED BY <1>0, <2>2, <2>7, <3>2 DEF LayoutOk, Exactly, Slot
  <2>8. CASE mode[p] = "ungrow" /\ dir[p] = "pgdir"
    <3>1. s[2] = pgdir[p] /\ s[3] \in sz[p] .. NPages - 1  BY <2>1, <2>8 DEF Doomed, Table
    <3>2. \A va \in VA : pte'[<<p, Spare(p), va>>].pa = pte[<<p, Spare(p), va>>].pa
      BY <1>a, <1>c, <2>1, <3>1
    <3>3. \A va \in VA : va < sz[p] => pte'[<<p, pgdir[p], va>>].pa = pte[<<p, pgdir[p], va>>].pa
      BY <1>a, <1>c, <2>1, <3>1
    <3> QED BY <1>0, <2>2, <2>3, <2>8, <3>2, <3>3 DEF LayoutOk, Exactly, Slot
  <2>9. mode[p] \in {"unfork", "reap", "freeold", "shrink", "ungrow"}  BY <2>1 DEF Doomed
  <2> QED BY <1>a, <2>4, <2>5, <2>6, <2>7, <2>8, <2>9
<1>12. CASE UngrowDone(p)
  <2>1. /\ mode[p] = "ungrow" /\ mode'[p] = "user" /\ dir'[p] = "pgdir" /\ UNCHANGED <<pte, pgdir, sz>>
        /\ Present(Doomed(p)) = {}
    BY <1>12, <1>b DEF UngrowDone
  <2>2. \A va \in VA : va >= (IF dir[p] = "image" THEN 0 ELSE sz[p]) => pte[<<p, Table(p), va>>].pa = None
    BY <1>a, <2>1 DEF Present, Doomed
  <2>3. CASE dir[p] = "pgdir"
    BY <2>1, <2>2, <2>3, <1>0, <1>a DEF LayoutOk, Exactly, Spare, Table, Slot
  <2>4. CASE dir[p] = "image"
    BY <2>1, <2>2, <2>4, <1>0, <1>a DEF LayoutOk, Exactly, Spare, Table, Slot
  <2> QED BY <1>a, <2>3, <2>4
<1>13. CASE FreeOldDone(p)
  <2>1. /\ mode[p] = "freeold" /\ mode'[p] = "user" /\ dir'[p] = "pgdir" /\ UNCHANGED <<pte, pgdir, sz>>
        /\ Present(Doomed(p)) = {}
    BY <1>13, <1>b DEF FreeOldDone
  <2>2. \A va \in VA : pte[<<p, Spare(p), va>>].pa = None
    BY <1>a, <2>1 DEF Present, Doomed
  <2> QED BY <2>1, <2>2, <1>0, <1>a DEF LayoutOk, Exactly, Spare, Table, Slot
<1>14. CASE ShrinkDone(p)
  <2>0. mode[p] = "shrink" /\ tgt[p] # 0 /\ dir[p] = "pgdir"
    BY <1>0, <1>a, <1>14 DEF ShrinkDone, RegsOk
  <2>1. /\ mode'[p] = "user" /\ dir'[p] = "pgdir" /\ UNCHANGED <<pte, pgdir>> /\ sz'[p] = tgt[p]
        /\ Present(Doomed(p)) = {}
    BY <1>14, <1>b, <2>0 DEF ShrinkDone
  <2>2. \A va \in VA : va >= tgt[p] => pte[<<p, pgdir[p], va>>].pa = None
    BY <1>a, <2>0, <2>1 DEF Present, Doomed, Slot
  <2> QED BY <2>0, <2>1, <2>2, <1>0, <1>a DEF LayoutOk, Exactly, Spare, Table, Slot
<1>15. CASE mode[p] = "exiting" /\ Exit(p)
  <2>1. /\ mode'[p] = "zombie" /\ dir'[p] = "pgdir" /\ UNCHANGED <<pte, pgdir, sz>> /\ dir[p] = "pgdir"
    BY <1>0, <1>15, <1>b DEF Exit, RegsOk
  <2> QED BY <1>d, <1>15, <2>1
<1> QED BY <1>1, <1>2, <1>3, <1>4, <1>5, <1>6, <1>7, <1>8, <1>9, <1>10, <1>11, <1>12, <1>13, <1>14, <1>15
        DEF KernelStep

\* The child a step is about is an embryo or a zombie, or about to be one; what p does
\* not write of it stays.
LEMMA KidStep ==
  ASSUME RefInv, NEW p \in Procs, UserStep(p) \/ KernelStep(p),
         NEW c \in Procs, Involved(p, c)
  PROVE  /\ c # p /\ at'[c] = at[c] /\ tgt'[c] = tgt[c] /\ dir'[c] = dir[c]
         /\ mode[c] \in {"unused", "embryo", "zombie"}
         /\ \/ mode'[c] = mode[c] /\ pgdir'[c] = pgdir[c]
            \/ mode[c] = "unused" /\ mode'[c] = "embryo" /\ (\E d \in Procs : Fork(p, d) /\ d = c)
            \/ mode[c] = "embryo" /\ mode'[c] = "user" /\ ForkDone(p) /\ c = kid[p]
            \/ mode'[c] = "unused" /\ (UnforkDone(p) \/ ReapDone(p)) /\ c = kid[p]
<1> USE DEF At, Goto, ClearRegs, Return, pool, regs, proc, panic, Freed
<1>0. TypeOK /\ ForkShape /\ ReapShape  BY DEF RefInv
<1>1. Effects(p) /\ MoreEffects(p) /\ OwnEffects(p)  BY <1>0, EffectsStep, MoreEffectsStep, OwnEffectsStep
<1>2. CASE mode[p] \in {"fork", "unfork", "reap"} /\ c = kid[p]
  <2>1. /\ c # p
        /\ mode[p] \in {"fork", "unfork"} => mode[c] = "embryo"
        /\ mode[p] = "reap" => mode[c] = "zombie"
    BY <1>0, <1>2 DEF ForkShape, ReapShape, Forkers
  <2>2. c # p /\ at'[c] = at[c] /\ tgt'[c] = tgt[c] /\ dir'[c] = dir[c]
    BY <1>1, <1>2, <2>1 DEF Effects, MoreEffects
  <2>3. KernelStep(p)
    BY <1>2 DEF UserStep, Write, Fault, Fork, Wait, Grow, Shrink, Exec, Exit
  <2>4. CASE ForkDone(p)  BY <1>0, <1>2, <2>1, <2>2, <2>4 DEF ForkDone, TypeOK
  <2>5. CASE UnforkDone(p) \/ ReapDone(p)
    BY <1>0, <1>2, <2>1, <2>2, <2>5 DEF UnforkDone, ReapDone, TypeOK
  <2>6. CASE CopyPage(p) \/ CopyBad(p) \/ deallocuvm(p)
    BY <1>0, <1>2, <2>1, <2>2, <2>6 DEF CopyPage, CopyBad, deallocuvm, TypeOK
  <2> QED BY <1>2, <2>3, <2>4, <2>5, <2>6
          DEF KernelStep, CoWCheck, CoWSetW, CoWAlloc, CoWOutOfMemory, CoWCopy, CoWDrop, CopyIncr,
              AllocPage, MapPage, MapFails, ExecBad, GrowDone, ExecCommit, UngrowDone, FreeOldDone,
              ShrinkDone, Exit
<1>3. CASE mode[p] = "user" /\ mode'[p] = "fork" /\ c = kid'[p]
  <2>1. c # p /\ mode[c] = "unused" /\ mode'[c] = "embryo"  BY <1>1, <1>3 DEF OwnEffects
  <2>2. at'[c] = at[c] /\ tgt'[c] = tgt[c] /\ dir'[c] = dir[c]
    BY <1>1, <2>1 DEF Effects, MoreEffects
  <2>3. UserStep(p)
    BY <1>0, <1>3 DEF KernelStep, CoWCheck, CoWSetW, CoWAlloc, CoWOutOfMemory, CoWCopy, CoWDrop, CopyIncr,
              CopyPage, CopyBad, ForkDone, deallocuvm, UnforkDone, ReapDone,
              AllocPage, MapPage, MapFails, ExecBad, GrowDone, ExecCommit, UngrowDone, FreeOldDone,
              ShrinkDone, Exit, TypeOK
  <2>4. PICK d \in Procs : Fork(p, d)
    BY <1>0, <1>3, <2>3 DEF UserStep, Write, Fault, Wait, Grow, Shrink, Exec, Exit, TypeOK
  <2>5. d = c  BY <1>0, <1>3, <2>4 DEF Fork, TypeOK
  <2> QED BY <2>1, <2>2, <2>4, <2>5
<1> QED BY <1>2, <1>3 DEF Involved

LEMMA LayoutStep ==
  ASSUME MinSize > 0, MemInv, NEW p \in Procs, UserStep(p) \/ KernelStep(p), NEW q \in Procs
  PROVE  RegsOk(q)' /\ LayoutOk(q)'
<1> USE DEF At, Goto, pool, regs, proc, Freed, Building, Steady, Modes
<1>0. /\ RefInv /\ TypeOK /\ RegsOk(q) /\ LayoutOk(q) /\ RegsOk(p) /\ CopiedOk(p) /\ ForkShape /\ ReapShape
  BY MemParts DEF MemInv
<1>a. /\ VA = 0 .. NPages - 1
      /\ pgdir[q] \in Tables /\ Spare(q) \in Tables /\ Spare(q) # pgdir[q]
      /\ \A k \in Tables : k = pgdir[q] \/ k = Spare(q)
      /\ sz[p] \in 0 .. NPages /\ at[p] \in 0 .. NPages /\ NPages \in Nat
  BY <1>0, ProcType
<1>1. CASE q = p  BY <1>1, OwnRegs, OwnLayout
<1>2. CASE q # p /\ ~Involved(p, q)
  <2>1. Untouched(q)  BY <1>0, <1>2, Bystander
  <2>2. Spare(q) \in Tables /\ Table(q) \in Tables /\ pgdir[q] \in Tables /\ Spare(q)' = Spare(q) /\ Table(q)' = Table(q)
    BY <1>a, <2>1 DEF Untouched, Spare, Table
  <2>3. RegsOk(q)'  BY <1>0, <2>1 DEF Untouched, RegsOk
  <2>4. LayoutOk(q)'  BY <1>0, <2>1, <2>2 DEF Untouched, LayoutOk, Exactly, Slot
  <2> QED BY <2>3, <2>4
<1>3. CASE Involved(p, q)
  <2>1. /\ q # p /\ at'[q] = at[q] /\ tgt'[q] = tgt[q] /\ dir'[q] = dir[q]
        /\ mode[q] \in {"unused", "embryo", "zombie"} /\ mode'[q] \in {"unused", "embryo", "zombie", "user"}
    BY <1>0, <1>3, KidStep
  <2>2. RegsOk(q)' /\ dir[q] = "pgdir" /\ dir'[q] = "pgdir"  BY <1>0, <2>1 DEF RegsOk
  <2>3. Exactly(q, Spare(q), 0)  BY <1>0, <2>2 DEF LayoutOk
  <2>4. CASE mode'[q] = mode[q] /\ pgdir'[q] = pgdir[q]
    <3>1. mode[p] # "user" \/ mode'[p] # "fork" \/ q # kid'[p]
      BY <1>0, <2>1, <2>4, OwnEffectsStep DEF OwnEffects
    <3>2. mode[p] \in {"fork", "unfork", "reap"} /\ q = kid[p]  BY <1>3, <3>1 DEF Involved
    <3>3. mode[q] # "unused"  BY <1>0, <3>2 DEF ForkShape, ReapShape, Forkers
    <3>4. \A va \in VA : pte'[<<q, Spare(q), va>>].pa = pte[<<q, Spare(q), va>>].pa
      <4>1. KernelStep(p)
        BY <3>2 DEF UserStep, Write, Fault, Fork, Wait, Grow, Shrink, Exec, Exit
      <4>2. CASE CopyPage(p)
        <5>1. \A s \in Slots : s # Slot(kid[p], at[p]) => pte'[s].pa = pte[s].pa  BY <4>2, CopyPageEntry
        <5>2. \A va \in VA : <<q, Spare(q), va>> \in Slots  BY <1>a, SlotIn
        <5> QED BY <1>a, <3>2, <5>1, <5>2 DEF Slot
      <4>3. CASE CopyBad(p)
        <5>1. at[p] \in VA  BY <1>a, <4>3 DEF CopyBad
        <5> QED BY <1>0, <1>a, <4>3, <5>1, SetWrite, SlotType, SlotIn DEF CopyBad
      <4>4. CASE deallocuvm(p)
        <5>1. PICK s \in Slots : /\ s \in Doomed(p)
                                 /\ \A t \in Slots : pte'[t].pa = IF t = s THEN None ELSE pte[t].pa
          BY <4>4, FreeEntry
        <5>2. mode[p] \in {"unfork", "reap"}  BY <3>2, <5>1 DEF Doomed
        <5>3. s[2] = pgdir[q]  BY <3>2, <5>1, <5>2 DEF Doomed, Slot
        <5> QED BY <1>a, <5>1, <5>3, SlotIn
      <4>5. CASE UNCHANGED pte  BY <4>5
      <4> QED BY <3>2, <4>1, <4>2, <4>3, <4>4, <4>5
          DEF KernelStep, CoWCheck, CoWSetW, CoWAlloc, CoWOutOfMemory, CoWCopy, CoWDrop, CopyIncr,
              ForkDone, UnforkDone, ReapDone,
              AllocPage, MapPage, MapFails, ExecBad, GrowDone, ExecCommit, UngrowDone, FreeOldDone,
              ShrinkDone, Exit
    <3>5. Spare(q)' = Spare(q)  BY <2>4 DEF Spare
    <3> QED BY <2>1, <2>2, <2>3, <2>4, <3>3, <3>4, <3>5 DEF LayoutOk, Exactly
  <2>5. CASE mode[q] = "unused" /\ mode'[q] = "embryo" /\ (\E d \in Procs : Fork(p, d) /\ d = q)
    <3>1. UNCHANGED pte  BY <2>5 DEF Fork
    <3>2. Exactly(q, pgdir[q], 0)  BY <1>0, <2>5 DEF LayoutOk
    <3>3. \A k \in Tables, va \in VA : pte[<<q, k, va>>].pa # None <=> va < 0
      BY <1>a, <2>3, <3>2 DEF Exactly
    <3>4. Spare(q)' \in Tables  BY DEF Spare, Tables
    <3> QED BY <2>2, <2>5, <3>1, <3>3, <3>4 DEF LayoutOk, Exactly
  <2>6. CASE mode'[q] = "user" /\ ForkDone(p) /\ q = kid[p]
    <3>1. UNCHANGED <<pte, pgdir>> /\ sz'[q] = sz[p] /\ mode[p] = "fork" /\ at[p] >= sz[p]
      BY <1>0, <2>6 DEF ForkDone, TypeOK
    <3>2. at[p] = sz[p]  BY <1>0, <1>a, <3>1 DEF RegsOk
    <3>3. Exactly(q, pgdir[q], at[p])  BY <1>0, <2>6, <3>1 DEF CopiedOk
    <3>4. Spare(q)' = Spare(q)  BY <3>1 DEF Spare
    <3> QED BY <2>2, <2>3, <2>6, <3>1, <3>2, <3>3, <3>4 DEF LayoutOk, Exactly
  <2>7. CASE mode'[q] = "unused" /\ (UnforkDone(p) \/ ReapDone(p)) /\ q = kid[p]
    <3>1. UNCHANGED <<pte, pgdir>> /\ mode[p] \in {"unfork", "reap"} /\ Present(Doomed(p)) = {}
      BY <2>7 DEF UnforkDone, ReapDone
    <3>2. \A va \in VA : pte[<<q, pgdir[q], va>>].pa = None  BY <2>7, <3>1 DEF Present, Doomed, Slot
    <3>3. Spare(q)' = Spare(q)  BY <3>1 DEF Spare
    <3>4. \A va \in VA : ~(va < 0)  BY <1>a
    <3> QED BY <2>2, <2>3, <2>7, <3>1, <3>2, <3>3, <3>4 DEF LayoutOk, Exactly
  <2>8. \/ mode'[q] = mode[q] /\ pgdir'[q] = pgdir[q]
        \/ mode[q] = "unused" /\ mode'[q] = "embryo" /\ (\E d \in Procs : Fork(p, d) /\ d = q)
        \/ mode[q] = "embryo" /\ mode'[q] = "user" /\ ForkDone(p) /\ q = kid[p]
        \/ mode'[q] = "unused" /\ (UnforkDone(p) \/ ReapDone(p)) /\ q = kid[p]
    BY <1>0, <1>3, KidStep
  <2> QED BY <2>2, <2>4, <2>5, <2>6, <2>7, <2>8
<1> QED BY <1>1, <1>2, <1>3
-----------------------------------------------------------------------------
(***************************************************************************)
(* What fork has copied.                                                   *)
(***************************************************************************)
LEMMA CopiedStep ==
  ASSUME MemInv, NEW p \in Procs, UserStep(p) \/ KernelStep(p), NEW q \in Procs
  PROVE  CopiedOk(q)'
<1> USE DEF At, Goto, pool, regs, proc
<1>0. /\ RefInv /\ TypeOK /\ CopiedOk(q) /\ RegsOk(p) /\ ForkShape /\ ReapShape
  BY MemParts DEF MemInv
<1>a. VA = 0 .. NPages - 1 /\ NPages \in Nat /\ at[p] \in 0 .. NPages  BY <1>0, ProcType
<1> SUFFICES ASSUME mode'[q] \in {"fork", "incr"} PROVE CopiedOk(q)'
  BY DEF CopiedOk
<1>b. Effects(p) /\ OwnEffects(p)  BY <1>0, EffectsStep, OwnEffectsStep
<1>1. CASE q # p
  <2>1. ~Involved(p, q)  BY <1>0, <1>1, KidStep
  <2>2. Untouched(q)  BY <1>0, <1>1, <2>1, Bystander
  <2>3. mode[q] \in {"fork", "incr"}  BY <2>2 DEF Untouched
  <2>4. kid[q] \in Procs /\ mode[kid[q]] = "embryo"  BY <1>0, <2>3 DEF ForkShape, Forkers
  <2>5. kid[q] # p  BY <1>b, <2>4 DEF OwnEffects
  <2>6. ~Involved(p, kid[q])
    BY <1>0, <1>1, <1>b, <2>3, <2>4 DEF Involved, ForkShape, ReapShape, Forkers, OwnEffects
  <2>7. Untouched(kid[q])  BY <1>0, <2>4, <2>5, <2>6, Bystander
  <2>8. pgdir[q] \in Tables /\ pgdir[kid[q]] \in Tables  BY <1>0, <2>4 DEF TypeOK
  <2> QED BY <1>0, <2>2, <2>7, <2>8 DEF Untouched, CopiedOk, Exactly, Slot
<1>2. CASE q = p /\ mode[p] = "user"
  <2>1. \E c \in Procs : Fork(p, c)
    <3>1. Involved(p, kid'[p]) /\ kid'[p] \in Procs /\ mode[kid'[p]] = "unused" /\ mode'[kid'[p]] = "embryo"
      BY <1>b, <1>2 DEF Involved, OwnEffects
    <3> QED BY <1>0, <3>1, KidStep
  <2>2. PICK c \in Procs : Fork(p, c)  BY <2>1
  <2>3. /\ mode[c] = "unused" /\ mode'[p] = "fork" /\ kid'[p] = c /\ at'[p] = 0 /\ pgdir'[c] = "A"
        /\ UNCHANGED pte
    BY <1>0, <1>2, <2>2 DEF Fork, TypeOK, RegsOk
  <2>4. dir[c] = "pgdir" /\ LayoutOk(c)  BY <2>3, MemParts DEF RegsOk, Building
  <2>5. \A k \in Tables, va \in VA : pte[<<c, k, va>>].pa # None <=> va < 0
    BY <1>0, <2>3, <2>4, ProcType DEF LayoutOk, Exactly
  <2>6. \A va \in VA : ~(va < 0)  BY <1>a
  <2> QED BY <1>2, <2>3, <2>5, <2>6 DEF CopiedOk, Exactly, Tables
<1>3. CASE q = p /\ CopyPage(p)
  <2> DEFINE c == kid[p]
  <2>1. /\ mode[p] = "fork" /\ mode'[p] = "incr" /\ c \in Procs /\ c # p /\ at[p] \in VA
        /\ UNCHANGED <<kid, at, pgdir>> /\ pte[Slot(p, at[p])].pa \in Frames
        /\ \A s \in Slots :
              pte'[s].pa = IF s = Slot(c, at[p]) THEN pte[Slot(p, at[p])].pa ELSE pte[s].pa
    BY <1>0, <1>3, CopyPageEntry DEF TypeOK
  <2>2. pgdir[p] \in Tables /\ pgdir[c] \in Tables /\ None \notin Frames  BY <1>0, <2>1, ProcType
  <2>3. \A va \in VA : <<c, pgdir[c], va>> \in Slots /\ <<p, pgdir[p], va>> \in Slots
    BY <2>1, <2>2, SlotIn
  <2> HIDE DEF c
  <2>4. \A va \in VA : /\ pte'[<<p, pgdir[p], va>>].pa = pte[<<p, pgdir[p], va>>].pa
                       /\ va # at[p] => pte'[<<c, pgdir[c], va>>].pa = pte[<<c, pgdir[c], va>>].pa
    BY <2>1, <2>3 DEF Slot
  <2>5. pte'[<<c, pgdir[c], at[p]>>].pa = pte[Slot(p, at[p])].pa
    BY <2>1, <2>3 DEF Slot
  <2>6. Exactly(c, pgdir[c], at[p]) /\ \A va \in VA : va < at[p] => pte[Slot(c, va)].pa = pte[Slot(p, va)].pa
    BY <1>0, <1>3, <2>1 DEF CopiedOk, c
  <2>7. \A va \in VA : pte'[<<c, pgdir[c], va>>].pa # None <=> va < at[p] + 1
    <3> SUFFICES ASSUME NEW va \in VA PROVE pte'[<<c, pgdir[c], va>>].pa # None <=> va < at[p] + 1
      OBVIOUS
    <3>1. CASE va = at[p]
      <4>1. pte'[<<c, pgdir[c], va>>].pa # None  BY <2>1, <2>2, <2>5, <3>1
      <4> QED BY <1>a, <3>1, <4>1
    <3>2. CASE va # at[p]
      <4>1. pte[<<c, pgdir[c], va>>].pa # None <=> va < at[p]  BY <2>6 DEF Exactly
      <4>2. pte'[<<c, pgdir[c], va>>].pa = pte[<<c, pgdir[c], va>>].pa  BY <2>4, <3>2
      <4>3. va < at[p] + 1 <=> va < at[p]  BY <1>a, <3>2
      <4> QED BY <4>1, <4>2, <4>3
    <3> QED BY <3>1, <3>2
  <2>8. \A va \in VA : va < at[p] => pte'[<<c, pgdir[c], va>>].pa = pte'[<<p, pgdir[p], va>>].pa
    BY <1>a, <2>4, <2>6 DEF Slot
  <2> QED BY <1>3, <2>1, <2>7, <2>8 DEF CopiedOk, Exactly, Slot, c
<1>4. CASE q = p /\ CopyIncr(p)
  <2>1. /\ mode[p] = "incr" /\ mode'[p] = "fork" /\ at'[p] = at[p] + 1 /\ UNCHANGED <<kid, pgdir, pte>>
    BY <1>0, <1>4 DEF CopyIncr, TypeOK
  <2>2. at[p] \in VA /\ pte[Slot(kid[p], at[p])].pa = pte[Slot(p, at[p])].pa
    BY <1>0, <2>1 DEF ForkShape
  <2>3. \A va \in VA : va < at[p] + 1 => pte[Slot(kid[p], va)].pa = pte[Slot(p, va)].pa
    BY <1>0, <1>4, <1>a, <2>1, <2>2 DEF CopiedOk
  <2> QED BY <1>0, <1>4, <2>1, <2>3 DEF CopiedOk, Exactly, Slot
<1>5. CASE q = p /\ mode[p] # "user"
  <2>1. KernelStep(p)
    BY <1>5 DEF UserStep, Write, Fault, Fork, Wait, Grow, Shrink, Exec, Exit
  <2>2. mode[p] \in {"fork", "incr", "unfork"}  BY <1>b, <1>5 DEF OwnEffects
  <2>3. mode[p] = "unfork" => ~(mode'[p] \in {"fork", "incr"})
    BY <1>0, <2>1 DEF KernelStep, CoWCheck, CoWSetW, CoWAlloc, CoWOutOfMemory, CoWCopy, CoWDrop, CopyIncr,
              CopyPage, CopyBad, ForkDone, deallocuvm, UnforkDone, ReapDone, Freed, panic,
              AllocPage, MapPage, MapFails, ExecBad, GrowDone, ExecCommit, UngrowDone, FreeOldDone,
              ShrinkDone, Exit, TypeOK
  <2>4. CopyPage(p) \/ CopyIncr(p) \/ CopyBad(p) \/ ForkDone(p)
    BY <1>5, <2>1, <2>2, <2>3 DEF KernelStep, CoWCheck, CoWSetW, CoWAlloc, CoWOutOfMemory, CoWCopy, CoWDrop, 
              deallocuvm, UnforkDone, ReapDone, Freed, Present, Doomed,
              AllocPage, MapPage, MapFails, ExecBad, GrowDone, ExecCommit, UngrowDone, FreeOldDone,
              ShrinkDone, Exit
  <2>5. CopyBad(p) => mode'[p] = "unfork"  BY <1>0 DEF CopyBad, TypeOK
  <2>6. ForkDone(p) => mode'[p] = "user"
    BY <1>0, <2>2 DEF ForkDone, TypeOK, ForkShape, Forkers
  <2> QED BY <1>3, <1>4, <1>5, <2>4, <2>5, <2>6
<1> QED BY <1>1, <1>2, <1>5
-----------------------------------------------------------------------------
(***************************************************************************)
(* What is in the frames.  A step changes the content only of a frame that *)
(* was or becomes free, of one CoW_handler alone knows, or, in a write, of *)
(* one that is mapped once, where the program wrote.                       *)
(***************************************************************************)
LEMMA WriteTarget ==
  ASSUME MemInv, NEW p \in Procs, NEW va \in VA, NEW v \in Values, Write(p, va, v)
  PROVE  \E f \in Frames :
           /\ content' = [content EXCEPT ![f] = v]
           /\ MappedAt(f) = {Slot(p, va)} /\ pte[Slot(p, va)].pa = f /\ va < sz[p]
<1>0. TypeOK /\ TlbOk(p) /\ mode[p] = "user"  BY MemParts DEF Write, At
<1>1. PICK e \in tlb[p] : e[1] = va /\ e[3] /\ content' = [content EXCEPT ![e[2]] = v]
  BY DEF Write
<1>2. e \in VA \X Frames \X BOOLEAN  BY <1>0, <1>1 DEF TypeOK
<1>3. e[2] \in Frames  BY <1>2
<1>4. /\ va < sz[p] /\ pte[Slot(p, va)].pa = e[2]
      /\ \A s \in MappedAt(e[2]) : s = Slot(p, va)
  BY <1>0, <1>1 DEF TlbOk, CachedOk, Cached, Forkers
<1>5. Slot(p, va) \in MappedAt(e[2])  BY <1>0, <1>4, SlotType DEF MappedAt
<1> QED BY <1>1, <1>3, <1>4, <1>5

LEMMA ContentStep ==
  ASSUME MemInv, NEW p \in Procs, UserStep(p) \/ KernelStep(p),
         NEW f \in Frames, content'[f] # content[f]
  PROVE  \/ f \in free \/ f \in free'
         \/ mode[p] = "copy" /\ f = hold[p]
         \/ \E va \in VA, v \in Values :
              /\ Write(p, va, v) /\ MappedAt(f) = {Slot(p, va)} /\ content'[f] = v
              /\ va < sz[p] /\ pte[Slot(p, va)].pa = f
<1> USE DEF At, pool, regs, proc, panic, Freed
<1>0. TypeOK /\ HoldShape  BY MemParts
<1>c. content \in [Frames -> Values \union {Junk}] /\ DOMAIN content = Frames  BY <1>0 DEF TypeOK
<1>1. ASSUME NEW va \in VA, NEW v \in Values, Write(p, va, v)
      PROVE  \E x \in VA, w \in Values :
               /\ Write(p, x, w) /\ MappedAt(f) = {Slot(p, x)} /\ content'[f] = w
               /\ x < sz[p] /\ pte[Slot(p, x)].pa = f
  <2>1. PICK g \in Frames : /\ content' = [content EXCEPT ![g] = v]
                            /\ MappedAt(g) = {Slot(p, va)} /\ pte[Slot(p, va)].pa = g /\ va < sz[p]
    BY <1>1, WriteTarget
  <2>2. g = f  BY <1>c, <2>1
  <2>3. content'[f] = v  BY <1>c, <2>1, <2>2
  <2> QED BY <1>1, <2>1, <2>2, <2>3
<1>2. CASE deallocuvm(p)
  <2>1. PICK s \in Slots :
          content' = [content EXCEPT ![pte[s].pa] = IF pte[s].pa \in free' THEN Junk ELSE @]
    BY <1>2, FreeEntry
  <2> QED BY <1>c, <2>1
<1>3. CASE UngrowDone(p)  BY <1>3, <1>c DEF UngrowDone
<1>4. CASE AllocPage(p)
  <2>1. UNCHANGED content \/ \E g \in Frames : g \in free /\ content' = [content EXCEPT ![g] = Fresh(p)]
    BY <1>4 DEF AllocPage, Pool!kalloc
  <2>2. PICK g \in Frames : g \in free /\ content' = [content EXCEPT ![g] = Fresh(p)]  BY <2>1
  <2> QED BY <1>c, <2>2
<1>5. CASE CoWCopy(p)  BY <1>5, <1>c DEF CoWCopy
<1>6. CASE UserStep(p)
  BY <1>1, <1>6 DEF UserStep, Fault, Fork, Wait, Grow, Shrink, Exec, Exit
<1>7. CASE KernelStep(p)
  BY <1>2, <1>3, <1>4, <1>5, <1>7
  DEF KernelStep, CoWCheck, CoWSetW, CoWAlloc, CoWOutOfMemory, CoWDrop, CopyIncr,
      CopyPage, CopyBad, ForkDone, UnforkDone, ReapDone,
      MapPage, MapFails, ExecBad, GrowDone, ExecCommit, FreeOldDone, ShrinkDone, Exit
<1> QED BY <1>6, <1>7

\* A page that stays mapped keeps its content, unless its process writes it.
LEMMA KeptContent ==
  ASSUME MemInv, FreeNotInUse', NEW p \in Procs, UserStep(p) \/ KernelStep(p),
         NEW s \in Slots, pte[s].pa \in Frames, pte'[s].pa = pte[s].pa
  PROVE  \/ content'[pte[s].pa] = content[pte[s].pa]
         \/ \E va \in VA, v \in Values :
              Write(p, va, v) /\ s = Slot(p, va) /\ content'[pte[s].pa] = v /\ va < sz[p]
<1>0. TypeOK /\ HoldShape /\ FreeNotInUse  BY MemParts
<1>1. pte[s].pa \notin free  BY <1>0 DEF FreeNotInUse, MappedAt
<1>2. pte[s].pa \notin free'
  <2>1. \A g \in free' : \A t \in Slots : pte'[t].pa # g  BY DEF FreeNotInUse, MappedAt
  <2> QED BY <2>1
<1>3. mode[p] = "copy" => pte[s].pa # hold[p]  BY <1>0 DEF HoldShape
<1>4. s \in MappedAt(pte[s].pa)  BY DEF MappedAt
<1> QED BY <1>1, <1>2, <1>3, <1>4, ContentStep

\* The steps out of two places in the kernel.
LEMMA StepsOf ==
  ASSUME NEW p \in Procs, UserStep(p) \/ KernelStep(p)
  PROVE  /\ mode[p] = "copy" => CoWCopy(p)
         /\ mode[p] = "map" => MapPage(p) \/ MapFails(p)
         /\ mode[p] = "grow" => AllocPage(p) \/ ExecBad(p) \/ GrowDone(p) \/ ExecCommit(p)
<1> SUFFICES ASSUME mode[p] \in {"copy", "map", "grow"}
             PROVE  /\ mode[p] = "copy" => CoWCopy(p)
                    /\ mode[p] = "map" => MapPage(p) \/ MapFails(p)
                    /\ mode[p] = "grow" => AllocPage(p) \/ ExecBad(p) \/ GrowDone(p) \/ ExecCommit(p)
  OBVIOUS
<1>1. KernelStep(p)  BY DEF UserStep, Write, Fault, Fork, Wait, Grow, Shrink, Exec, At
<1>2. ~deallocuvm(p)
  <2>1. Doomed(p) = {}  BY DEF Doomed
  <2> QED BY <2>1 DEF deallocuvm, Present
<1>3. ~(CopyPage(p) \/ CopyIncr(p) \/ CopyBad(p) \/ ForkDone(p))
  BY DEF CopyPage, CopyIncr, CopyBad, ForkDone, At
<1>4. ~(CoWCheck(p) \/ CoWSetW(p) \/ CoWAlloc(p) \/ CoWOutOfMemory(p) \/ CoWDrop(p))
  BY DEF CoWCheck, CoWSetW, CoWAlloc, CoWOutOfMemory, CoWDrop, At
<1>5. ~(UnforkDone(p) \/ UngrowDone(p) \/ FreeOldDone(p) \/ ShrinkDone(p) \/ ReapDone(p))
  BY DEF UnforkDone, UngrowDone, FreeOldDone, ShrinkDone, ReapDone, Freed, At
<1>6. /\ CoWCopy(p) => mode[p] = "copy"
      /\ MapPage(p) \/ MapFails(p) => mode[p] = "map"
      /\ AllocPage(p) \/ ExecBad(p) \/ GrowDone(p) \/ ExecCommit(p) => mode[p] = "grow"
  BY DEF CoWCopy, MapPage, MapFails, AllocPage, ExecBad, GrowDone, ExecCommit, At
<1> QED BY <1>1, <1>2, <1>3, <1>4, <1>5, <1>6 DEF KernelStep

LEMMA ContentsStep ==
  ASSUME MemInv, FreeNotInUse', TypeOK', NEW p \in Procs, UserStep(p) \/ KernelStep(p)
  PROVE  Contents'
<1>0. TypeOK /\ FaultShape /\ HoldShape /\ Contents /\ FilledOk(p) /\ RefInv  BY MemParts DEF MemInv
<1>1. Effects(p) /\ OwnEffects(p)  BY <1>0, EffectsStep, OwnEffectsStep
<1>2. \A s \in Slots : pte[s] \in Entry /\ (pte[s].pa # None => pte[s].pa \in Frames)
  BY <1>0 DEF TypeOK, Entry
<1>3. ASSUME NEW s \in Slots, pte[s].pa # None, pte'[s].pa = pte[s].pa
      PROVE  content'[pte[s].pa] \in Values
  <2>1. content[pte[s].pa] \in Values  BY <1>0, <1>3 DEF Contents
  <2> QED BY <1>2, <1>3, <2>1, KeptContent
<1> SUFFICES ASSUME NEW s \in Slots, pte'[s].pa # None PROVE content'[pte'[s].pa] \in Values
  BY DEF Contents
<1>4. CASE pte'[s].pa = pte[s].pa  BY <1>3, <1>4
<1>5. CASE mode[p] = "fork" /\ mode'[p] = "incr" /\ pte'[s].pa = pte[Slot(p, at[p])].pa
  <2>1. at[p] \in VA /\ pte'[Slot(p, at[p])].pa = pte[Slot(p, at[p])].pa  BY <1>1, <1>5 DEF OwnEffects
  <2>2. Slot(p, at[p]) \in Slots  BY <1>0, <2>1, SlotType
  <2> QED BY <1>3, <1>5, <2>1, <2>2
<1>6. CASE mode[p] = "copy" /\ pte'[s].pa = hold[p]
  <2>1. CoWCopy(p)  BY <1>6, StepsOf
  <2>2. /\ at[p] \in VA /\ pte[Slot(p, at[p])].pa \in Frames /\ hold[p] \in Frames
    BY <1>0, <1>6 DEF FaultShape, HoldShape
  <2>3. Slot(p, at[p]) \in Slots  BY <1>0, <2>2, SlotType
  <2>4. content[pte[Slot(p, at[p])].pa] \in Values  BY <1>0, <1>2, <2>2, <2>3, CoWAssumption DEF Contents
  <2>5. content'[hold[p]] = content[pte[Slot(p, at[p])].pa]  BY <1>0, <2>1, <2>2 DEF CoWCopy, TypeOK
  <2> QED BY <1>6, <2>4, <2>5
<1>7. CASE mode[p] = "map" /\ pte'[s].pa = hold[p]
  <2>1. UNCHANGED content  BY <1>7, StepsOf DEF MapPage, MapFails, panic
  <2>2. content[hold[p]] \in Values  BY <1>0, <1>7, CoWAssumption DEF FilledOk, Fresh
  <2> QED BY <1>7, <2>1, <2>2
<1> QED BY <1>1, <1>4, <1>5, <1>6, <1>7 DEF Effects

LEMMA FilledStep ==
  ASSUME MemInv, FreeNotInUse', NEW p \in Procs, UserStep(p) \/ KernelStep(p), NEW q \in Procs
  PROVE  FilledOk(q)'
<1>0. /\ RefInv /\ TypeOK /\ HoldShape /\ FreeNotInUse /\ FilledOk(q) /\ LayoutOk(q) /\ RegsOk(q)
  BY MemParts DEF MemInv
<1>a. /\ VA = 0 .. NPages - 1 /\ NPages \in Nat /\ at[q] \in 0 .. NPages /\ sz[q] \in 0 .. NPages
      /\ pgdir[q] \in Tables /\ None \notin Frames
  BY <1>0, ProcType
<1>b. \A va \in VA : Slot(q, va) \in Slots /\ (pte[Slot(q, va)].pa # None => pte[Slot(q, va)].pa \in Frames)
  BY <1>0, SlotType DEF Entry
<1>s. /\ Spare(q) \in Tables
      /\ \A va \in VA : /\ <<q, Spare(q), va>> \in Slots
                        /\ pte[<<q, Spare(q), va>>].pa # None => pte[<<q, Spare(q), va>>].pa \in Frames
  <2>1. Spare(q) \in Tables  BY DEF Spare, Tables
  <2>2. \A va \in VA : <<q, Spare(q), va>> \in Slots  BY <2>1, SlotIn
  <2> QED BY <1>0, <2>1, <2>2 DEF TypeOK, Entry
<1> SUFFICES ASSUME mode'[q] \in {"grow", "map"} PROVE FilledOk(q)'
  BY DEF FilledOk
<1>1. CASE q # p
  <2>1. ~Involved(p, q)  BY <1>0, <1>1, KidStep
  <2>2. Untouched(q)  BY <1>0, <1>1, <2>1, Bystander
  <2>3. Fresh(q)' = Fresh(q)  BY <2>2 DEF Untouched, Fresh
  <2>4. mode[q] = "map" => content'[hold[q]] = content[hold[q]]
    <3> SUFFICES ASSUME mode[q] = "map" PROVE content'[hold[q]] = content[hold[q]]
      OBVIOUS
    <3>1. /\ hold[q] \in Frames /\ \A s \in Slots : pte[s].pa # hold[q]
          /\ \A r \in Procs : hold[r] = hold[q] => r = q
      BY <1>0 DEF HoldShape
    <3>2. hold[q] \notin free  BY <1>0 DEF FreeNotInUse, HeldBy
    <3>3. hold[q] \notin free'
      <4>1. \A g \in free' : \A r \in Procs : hold'[r] # g  BY DEF FreeNotInUse, HeldBy
      <4> QED BY <2>2, <4>1 DEF Untouched
    <3>4. MappedAt(hold[q]) = {}  BY <3>1 DEF MappedAt
    <3> QED BY <1>1, <3>1, <3>2, <3>3, <3>4, ContentStep
  <2>5. ASSUME mode[q] \in {"grow", "map"}, dir[q] = "pgdir", NEW va \in VA, va < at[q]
        PROVE  content'[pte[Slot(q, va)].pa] = content[pte[Slot(q, va)].pa]
    <3>1. pte[Slot(q, va)].pa \in Frames
      BY <1>0, <1>b, <2>5 DEF LayoutOk, Exactly, Table, Slot
    <3>2. pte'[Slot(q, va)].pa = pte[Slot(q, va)].pa  BY <1>a, <2>2 DEF Untouched, Slot
    <3>3. \A x \in VA : Slot(q, va) # Slot(p, x)  BY <1>1 DEF Slot
    <3> QED BY <1>b, <3>1, <3>2, <3>3, KeptContent
  <2>6. \A va \in VA : pte'[Slot(q, va)].pa = pte[Slot(q, va)].pa /\ Slot(q, va)' = Slot(q, va)
    BY <1>a, <2>2 DEF Untouched, Slot
  <2>7. ASSUME mode[q] \in {"grow", "map"}, dir[q] = "image", NEW va \in VA, va < at[q]
        PROVE  content'[pte[<<q, Spare(q), va>>].pa] = content[pte[<<q, Spare(q), va>>].pa]
    <3>1. pte[<<q, Spare(q), va>>].pa \in Frames
      BY <1>0, <1>s, <2>7 DEF LayoutOk, Exactly, Table
    <3>2. pte'[<<q, Spare(q), va>>].pa = pte[<<q, Spare(q), va>>].pa  BY <1>s, <2>2 DEF Untouched
    <3>3. \A x \in VA : <<q, Spare(q), va>> # Slot(p, x)  BY <1>1 DEF Slot
    <3> QED BY <1>s, <3>1, <3>2, <3>3, KeptContent
  <2>8. \A va \in VA : /\ pte'[<<q, Spare(q), va>>].pa = pte[<<q, Spare(q), va>>].pa
                      /\ Laid(q, va)' = Laid(q, va)
    BY <1>s, <2>2 DEF Untouched, Laid
  <2>9. Spare(q)' = Spare(q)  BY <2>2 DEF Untouched, Spare
  <2>10. mode'[q] = "map" => content'[hold'[q]] = Fresh(q)'
    BY <1>0, <2>2, <2>3, <2>4 DEF Untouched, FilledOk
  <2>11. mode'[q] \in {"grow", "map"} /\ dir'[q] = "pgdir" =>
           \A va \in VA : sz'[q] <= va /\ va < at'[q] => content'[pte'[Slot(q, va)'].pa] = Zero
    BY <1>0, <2>2, <2>5, <2>6 DEF Untouched, FilledOk
  <2>12. mode'[q] \in {"grow", "map"} /\ dir'[q] = "image" =>
           /\ tgt'[q] >= 2
           /\ \A va \in VA : va < at'[q] => content'[pte'[<<q, Spare(q)', va>>].pa] = Laid(q, va)'
    BY <1>0, <2>2, <2>7, <2>8, <2>9 DEF Untouched, FilledOk
  <2> QED BY <2>10, <2>11, <2>12 DEF FilledOk
<1>2. CASE q = p /\ mode[p] = "user"
  <2>1. mode'[p] = "grow" /\ (dir'[p] = "pgdir" => at'[p] = sz'[p])
    BY <1>0, <1>2 DEF UserStep, Write, Fault, Fork, Wait, Grow, Shrink, Exec, Exit, TypeOK, At, Goto,
           RegsOk, Building, proc, regs, pool,
           KernelStep, CoWCheck, CoWSetW, CoWAlloc, CoWOutOfMemory, CoWCopy, CoWDrop, CopyIncr,
           CopyPage, CopyBad, ForkDone, UnforkDone, ReapDone, deallocuvm, Present, Doomed, Freed,
           MapPage, MapFails, ExecBad, GrowDone, ExecCommit, FreeOldDone, ShrinkDone, UngrowDone,
           AllocPage
  <2>2. sz'[p] = sz[p]
    BY <1>0, <1>2, <2>1 DEF UserStep, Write, Fault, Fork, Wait, Grow, Shrink, Exec, Exit, TypeOK, At, Goto,
           proc, regs, pool,
           KernelStep, CoWCheck, CoWSetW, CoWAlloc, CoWOutOfMemory, CoWCopy, CoWDrop, CopyIncr,
           CopyPage, CopyBad, ForkDone, UnforkDone, ReapDone, deallocuvm, Present, Doomed, Freed,
           MapPage, MapFails, ExecBad, GrowDone, ExecCommit, FreeOldDone, ShrinkDone, UngrowDone,
           AllocPage
  <2>3. \A va \in VA : ~(sz[p] <= va /\ va < sz[p])  BY <1>2, <1>a
  <2>4. dir'[p] = "image" => tgt'[p] >= 2 /\ at'[p] = 0
    <3>1. dir[p] = "pgdir" /\ at[p] = 0  BY <1>0, <1>2 DEF RegsOk, Building
    <3>2. UserStep(p)  BY <1>2 DEF KernelStep, CoWCheck, CoWSetW, CoWAlloc, CoWOutOfMemory, CoWCopy, CoWDrop, CopyIncr,
           CopyPage, CopyBad, ForkDone, UnforkDone, ReapDone, deallocuvm, Present, Doomed, Freed, At,
           MapPage, MapFails, ExecBad, GrowDone, ExecCommit, FreeOldDone, ShrinkDone, UngrowDone, AllocPage
    <3>3. ASSUME NEW n \in Images, Exec(p, n) PROVE tgt'[p] >= 2 /\ at'[p] = 0
      <4>1. n \in Nat /\ tgt' = [tgt EXCEPT ![p] = n + 2] /\ at' = at  BY <3>3, CoWAssumption DEF Exec
      <4> QED BY <1>0, <3>1, <4>1 DEF TypeOK
    <3>4. (\E n \in Images : Exec(p, n)) \/ dir'[p] = dir[p] \/ mode'[p] = "zombie"
      BY <1>0, <3>2 DEF UserStep, Write, Fault, Fork, Wait, Grow, Shrink, Exit, TypeOK, Goto, ClearRegs, regs
    <3> QED BY <2>1, <3>1, <3>3, <3>4
  <2>5. \A va \in VA : ~(va < 0)  BY <1>a
  <2> QED BY <1>2, <2>1, <2>2, <2>3, <2>4, <2>5 DEF FilledOk
<1>3. CASE q = p /\ AllocPage(p)
  <2>1. PICK f \in Frames : /\ f \in free /\ hold'[p] = f /\ content' = [content EXCEPT ![f] = Fresh(p)]
                            /\ mode'[p] = "map"
    <3>1. mode' = [mode EXCEPT ![p] = "ungrow"] \/
          \E f \in Frames : /\ f \in free /\ hold' = [hold EXCEPT ![p] = f]
                            /\ content' = [content EXCEPT ![f] = Fresh(p)]
                            /\ mode' = [mode EXCEPT ![p] = "map"]
      BY <1>3 DEF AllocPage, Goto, Pool!kalloc
    <3>2. mode'[p] # "ungrow"  BY <1>3
    <3>3. mode' # [mode EXCEPT ![p] = "ungrow"]  BY <1>0, <3>2 DEF TypeOK
    <3>4. PICK f \in Frames : /\ f \in free /\ hold' = [hold EXCEPT ![p] = f]
                              /\ content' = [content EXCEPT ![f] = Fresh(p)]
                              /\ mode' = [mode EXCEPT ![p] = "map"]
      BY <3>1, <3>3
    <3>5. hold'[p] = f /\ mode'[p] = "map"  BY <1>0, <3>4 DEF TypeOK
    <3> QED BY <3>4, <3>5
  <2>2. UNCHANGED <<pte, sz, pgdir, at, tgt, dir>> /\ mode[p] = "grow"  BY <1>3 DEF AllocPage, At, regs
  <2>3. Fresh(p)' = Fresh(p)  BY <2>2 DEF Fresh
  <2>4. content'[hold'[p]] = Fresh(p)'  BY <1>0, <2>1, <2>3 DEF TypeOK
  <2>5. \A va \in VA : pte[Slot(p, va)].pa # f  BY <1>0, <1>3, <1>b, <2>1 DEF FreeNotInUse, MappedAt
  <2>6. \A va \in VA : pte[Slot(p, va)].pa \in Frames =>
                         content'[pte[Slot(p, va)].pa] = content[pte[Slot(p, va)].pa]
    BY <1>0, <2>1, <2>5 DEF TypeOK
  <2>7. dir[p] = "pgdir" => \A va \in VA : va < at[p] => pte[Slot(p, va)].pa \in Frames
    BY <1>0, <1>3, <1>b, <2>2 DEF LayoutOk, Exactly, Table, Slot
  <2>8. \A va \in VA : pte[<<p, Spare(p), va>>].pa \in Frames =>
                         content'[pte[<<p, Spare(p), va>>].pa] = content[pte[<<p, Spare(p), va>>].pa]
    <3>1. \A va \in VA : pte[<<p, Spare(p), va>>].pa # f  BY <1>0, <1>3, <1>s, <2>1 DEF FreeNotInUse, MappedAt
    <3> QED BY <1>0, <2>1, <3>1 DEF TypeOK
  <2>9. dir[p] = "image" => \A va \in VA : va < at[p] => pte[<<p, Spare(p), va>>].pa \in Frames
    BY <1>0, <1>3, <1>s, <2>2 DEF LayoutOk, Exactly, Table
  <2>10. \A va \in VA : Laid(p, va)' = Laid(p, va) /\ Spare(p)' = Spare(p)  BY <2>2 DEF Laid, Spare
  <2>11. dir[p] = "image" =>
           /\ tgt'[p] >= 2
           /\ \A va \in VA : va < at'[p] => content'[pte'[<<p, Spare(p)', va>>].pa] = Laid(p, va)'
    BY <1>0, <1>3, <2>2, <2>8, <2>9, <2>10 DEF FilledOk
  <2>12. dir[p] = "pgdir" =>
           \A va \in VA : sz'[p] <= va /\ va < at'[p] => content'[pte'[Slot(p, va)'].pa] = Zero
    BY <1>0, <1>3, <2>2, <2>6, <2>7 DEF FilledOk, Slot
  <2> QED BY <1>3, <2>2, <2>4, <2>11, <2>12 DEF FilledOk
<1>4. CASE q = p /\ MapPage(p)
  <2>1. /\ mode[p] = "map" /\ mode'[p] = "grow" /\ at'[p] = at[p] + 1 /\ at[p] \in VA
        /\ UNCHANGED <<sz, pgdir, dir, content, tgt>>
    <3>1. /\ mode[p] = "map" /\ mode' = [mode EXCEPT ![p] = "grow"] /\ at' = [at EXCEPT ![p] = at[p] + 1]
          /\ at[p] \in VA /\ UNCHANGED <<sz, pgdir, dir, content>>
      BY <1>4, MapPageEntry
    <3>2. UNCHANGED tgt  BY <1>4 DEF MapPage, panic, regs
    <3> QED BY <1>0, <3>1, <3>2 DEF TypeOK
  <2>2. \A s \in Slots : pte'[s].pa = IF s = <<p, Table(p), at[p]>> THEN hold[p] ELSE pte[s].pa
    BY <1>4, MapPageEntry
  <2>3. CASE dir[p] = "pgdir"
    <3>1. content[hold[p]] = Zero  BY <1>0, <1>4, <2>1, <2>3 DEF FilledOk, Fresh
    <3>2. \A va \in VA : pte'[Slot(p, va)].pa = IF va = at[p] THEN hold[p] ELSE pte[Slot(p, va)].pa
      BY <1>4, <1>b, <2>2, <2>3 DEF Table, Slot
    <3>3. \A va \in VA : sz[p] <= va /\ va < at[p] => content[pte[Slot(p, va)].pa] = Zero
      BY <1>0, <1>4, <2>1, <2>3 DEF FilledOk
    <3>4. \A va \in VA : sz[p] <= va /\ va < at[p] + 1 => content[pte'[Slot(p, va)].pa] = Zero
      BY <1>4, <1>a, <3>1, <3>2, <3>3
    <3>5. \A va \in VA : Slot(p, va)' = Slot(p, va)  BY <2>1 DEF Slot
    <3> QED BY <1>4, <2>1, <2>3, <3>4, <3>5 DEF FilledOk
  <2>4. CASE dir[p] = "image"
    <3>1. content[hold[p]] = Laid(p, at[p])  BY <1>0, <1>4, <2>1, <2>4 DEF FilledOk, Fresh, Laid
    <3>2. \A va \in VA : pte'[<<p, Spare(p), va>>].pa = IF va = at[p] THEN hold[p] ELSE pte[<<p, Spare(p), va>>].pa
      BY <1>4, <1>s, <2>2, <2>4 DEF Table
    <3>3. tgt[p] >= 2 /\ \A va \in VA : va < at[p] => content[pte[<<p, Spare(p), va>>].pa] = Laid(p, va)
      BY <1>0, <1>4, <2>1, <2>4 DEF FilledOk
    <3>4. \A va \in VA : va < at[p] + 1 => content[pte'[<<p, Spare(p), va>>].pa] = Laid(p, va)
      BY <1>4, <1>a, <3>1, <3>2, <3>3
    <3>5. Spare(p)' = Spare(p) /\ \A va \in VA : Laid(p, va)' = Laid(p, va)  BY <2>1 DEF Spare, Laid
    <3> QED BY <1>4, <2>1, <2>4, <3>3, <3>4, <3>5 DEF FilledOk
  <2>5. dir[p] \in {"pgdir", "image"}  BY <1>0 DEF TypeOK
  <2> QED BY <2>3, <2>4, <2>5
<1>5. CASE q = p /\ mode[p] # "user"
  <2>1. mode[p] \in {"grow", "map"}
    BY <1>0, <1>5 DEF UserStep, Write, Fault, Fork, Wait, Grow, Shrink, Exec, Exit, TypeOK, At, Goto, Return,
           proc, regs, pool, panic, RefInv, ForkShape, ReapShape, Forkers,
           KernelStep, CoWCheck, CoWSetW, CoWAlloc, CoWOutOfMemory, CoWCopy, CoWDrop, CopyIncr,
           CopyPage, CopyBad, ForkDone, UnforkDone, ReapDone, deallocuvm, Present, Doomed, Freed,
           MapPage, MapFails, ExecBad, GrowDone, ExecCommit, FreeOldDone, ShrinkDone, UngrowDone,
           AllocPage
  <2>2. MapPage(p) \/ AllocPage(p)
    <3>1. MapFails(p) \/ ExecBad(p) \/ GrowDone(p) \/ ExecCommit(p) => mode'[p] \in {"ungrow", "user", "freeold"}
      BY <1>0 DEF MapFails, ExecBad, GrowDone, ExecCommit, Goto, Return, TypeOK
    <3> QED BY <1>5, <2>1, <3>1, StepsOf
  <2> QED BY <1>3, <1>4, <1>5, <2>2
<1> QED BY <1>1, <1>2, <1>5
-----------------------------------------------------------------------------
(***************************************************************************)
(* Cached translations.                                                    *)
(***************************************************************************)
\* What a load of cr3 makes available is right.
LEMMA Loaded ==
  TypeOK /\ WritableNotShared =>
    \A q \in Procs : Exactly(q, pgdir[q], sz[q]) =>
      \A e \in Translations(pte, q, pgdir[q]) : CachedOk(q, e)
<1> SUFFICES ASSUME TypeOK, WritableNotShared, NEW q \in Procs, Exactly(q, pgdir[q], sz[q]),
                    NEW e \in Translations(pte, q, pgdir[q])
             PROVE  CachedOk(q, e)
  OBVIOUS
<1>1. PICK va \in VA : pte[q, pgdir[q], va].pa # None /\ e = <<va, pte[q, pgdir[q], va].pa, pte[q, pgdir[q], va].w>>
  BY DEF Translations
<1> DEFINE s == <<q, pgdir[q], va>>
<1>2. s \in Slots /\ s = Slot(q, va)  BY ProcType, SlotIn DEF Slot
<1>3. /\ e[1] = va /\ e[2] = pte[s].pa /\ e[3] = pte[s].w /\ pte[s].pa # None
  BY <1>1
<1>4. va < sz[q]  BY <1>3 DEF Exactly
<1>5. e[3] => \A t \in MappedAt(e[2]) : t = s  BY <1>2, <1>3 DEF WritableNotShared, MappedAt
<1> QED BY <1>2, <1>3, <1>4, <1>5 DEF CachedOk

LEMMA LoadedNext ==
  (TypeOK /\ WritableNotShared =>
    \A q \in Procs : Exactly(q, pgdir[q], sz[q]) =>
      \A e \in Translations(pte, q, pgdir[q]) : CachedOk(q, e))'
BY Loaded, PTL

\* A translation of p stays right in a step of p that leaves the frames in the page tables
\* alone, and of the child at most the pages it gets or has lost.
LEMMA CachedKept ==
  ASSUME TypeOK, NEW p \in Procs, NEW e \in tlb[p], CachedOk(p, e),
         sz'[p] = sz[p], pgdir'[p] = pgdir[p],
         \A s \in Slots : pte'[s].pa = pte[s].pa,
         \/ p \notin Forkers
         \/ p \in Forkers' /\ kid'[p] = kid[p] /\ pgdir'[kid[p]] = pgdir[kid[p]]
         \/ \A va \in VA : pte[Slot(kid[p], va)].pa = None
  PROVE  CachedOk(p, e)'
<1>1. e \in VA \X Frames \X BOOLEAN  BY DEF TypeOK
<1>2. e[1] \in VA /\ e[2] \in Frames /\ None \notin Frames  BY <1>1, CoWAssumption
<1>3. Slot(p, e[1]) \in Slots /\ Slot(p, e[1])' = Slot(p, e[1])  BY <1>2, SlotType DEF Slot
<1>4. MappedAt(e[2])' = MappedAt(e[2])  BY DEF MappedAt
<1>5. e[3] => \A s \in MappedAt(e[2]) : s = Slot(p, e[1]) \/ (p \in Forkers' /\ s = Slot(kid[p], e[1])')
  <2>1. CASE p \notin Forkers  BY <2>1 DEF CachedOk
  <2>2. CASE p \in Forkers' /\ kid'[p] = kid[p] /\ pgdir'[kid[p]] = pgdir[kid[p]]
    BY <2>2 DEF CachedOk, Slot
  <2>3. CASE \A va \in VA : pte[Slot(kid[p], va)].pa = None
    <3>1. Slot(kid[p], e[1]) \notin MappedAt(e[2])  BY <1>2, <2>3 DEF MappedAt
    <3> QED BY <3>1 DEF CachedOk
  <2> QED BY <2>1, <2>2, <2>3
<1> QED BY <1>3, <1>4, <1>5 DEF CachedOk

LEMMA OwnTlb ==
  ASSUME MemInv, RefInv', NEW p \in Procs, LayoutOk(p)', UserStep(p) \/ KernelStep(p)
  PROVE  TlbOk(p)'
<1> USE DEF At, Goto, ClearRegs, Return, pool, regs, proc, panic, Freed, Steady, Modes, Building, Cached
<1>0. /\ TypeOK /\ ForkShape /\ ReapShape /\ HoldShape /\ RegsOk(p) /\ TlbOk(p) /\ LayoutOk(p)  BY MemParts
<1>a. /\ VA = 0 .. NPages - 1 /\ NPages \in Nat /\ sz[p] \in 0 .. NPages /\ at[p] \in 0 .. NPages
      /\ tgt[p] \in 0 .. NPages /\ None \notin Frames /\ Spare(p) # pgdir[p]
  BY <1>0, ProcType
<1>b. /\ mode \in [Procs -> Modes] /\ sz \in [Procs -> 0 .. NPages] /\ pgdir \in [Procs -> Tables]
      /\ kid \in [Procs -> Procs \union {None}] /\ DOMAIN tlb = Procs
  BY <1>0 DEF TypeOK
<1>c. \A e \in tlb[p] : e[1] \in VA /\ e[2] \in Frames
  <2> SUFFICES ASSUME NEW e \in tlb[p] PROVE e[1] \in VA /\ e[2] \in Frames
    OBVIOUS
  <2>1. e \in VA \X Frames \X BOOLEAN  BY <1>0 DEF TypeOK
  <2> QED BY <2>1
\* After a load of cr3.
<1>d. ASSUME mode'[p] \in {"user", "freeold"}, tlb'[p] = Translations(pte', p, pgdir'[p])
      PROVE  TlbOk(p)'
  <2>1. Exactly(p, pgdir[p], sz[p])'  BY <1>d DEF LayoutOk
  <2>2. \A e \in Translations(pte, p, pgdir[p])' : CachedOk(p, e)'
    BY <2>1, LoadedNext DEF RefInv
  <2> QED BY <1>d, <2>2 DEF TlbOk
\* A step inside an operation that keeps the frames in the page tables.
<1>e. ASSUME mode[p] \in Cached, tlb'[p] = tlb[p], sz'[p] = sz[p], pgdir'[p] = pgdir[p],
             \A s \in Slots : pte'[s].pa = pte[s].pa,
             \/ p \notin Forkers
             \/ p \in Forkers' /\ kid'[p] = kid[p] /\ pgdir'[kid[p]] = pgdir[kid[p]]
      PROVE  TlbOk(p)'
  <2>1. \A e \in tlb[p] : CachedOk(p, e)  BY <1>0, <1>e DEF TlbOk
  <2>2. \A e \in tlb[p] : CachedOk(p, e)'  BY <1>0, <1>e, <2>1, CachedKept
  <2> QED BY <1>e, <2>2 DEF TlbOk
\* A return without a load of cr3.
<1>f. ASSUME mode[p] \in Cached, mode'[p] = "user", tlb'[p] = tlb[p] \union Translations(pte, p, pgdir[p]),
             sz'[p] = sz[p], UNCHANGED <<pte, pgdir>>,
             p \notin Forkers \/ \A va \in VA : pte[Slot(kid[p], va)].pa = None
      PROVE  TlbOk(p)'
  <2>1. \A e \in tlb[p] : CachedOk(p, e)  BY <1>0, <1>f DEF TlbOk
  <2>2. \A e \in tlb[p] : CachedOk(p, e)'  BY <1>0, <1>f, <2>1, CachedKept
  <2>3. Exactly(p, pgdir[p], sz[p])'  BY <1>f DEF LayoutOk
  <2>4. \A e \in Translations(pte, p, pgdir[p])' : CachedOk(p, e)'
    BY <2>3, LoadedNext DEF RefInv
  <2>5. Translations(pte, p, pgdir[p])' = Translations(pte, p, pgdir[p])  BY <1>f
  <2> QED BY <1>f, <2>2, <2>4, <2>5 DEF TlbOk
<1>1. CASE UserStep(p)
  <2>0. mode[p] = "user" /\ p \notin Forkers
    BY <1>1 DEF UserStep, Write, Fault, Fork, Wait, Grow, Shrink, Exec, Exit, Forkers
  <2>1. ASSUME NEW va \in VA, NEW v \in Values, Write(p, va, v) PROVE TlbOk(p)'
    BY <2>0, <2>1, <1>e DEF Write
  <2>2. ASSUME NEW va \in VA, Fault(p, va) PROVE TlbOk(p)'
    BY <2>2, <1>b DEF Fault, TlbOk
  <2>3. ASSUME NEW c \in Procs, Fork(p, c) PROVE TlbOk(p)'
    <3>1. pgdir'[p] = pgdir[p] /\ UNCHANGED <<sz, pte, tlb>>  BY <2>0, <2>3, <1>b DEF Fork
    <3> QED BY <2>0, <3>1, <1>e
  <2>4. ASSUME NEW c \in Procs, Wait(p, c) PROVE TlbOk(p)'
    BY <2>0, <2>4, <1>e DEF Wait
  <2>5. ASSUME NEW n \in 0 .. NPages, Grow(p, n) PROVE TlbOk(p)'
    BY <2>0, <2>5, <1>e DEF Grow
  <2>6. ASSUME NEW n \in 0 .. NPages, Shrink(p, n) PROVE TlbOk(p)'
    BY <2>6, <1>b DEF Shrink, TlbOk
  <2>7. ASSUME NEW n \in Images, Exec(p, n) PROVE TlbOk(p)'
    BY <2>0, <2>7, <1>e DEF Exec
  <2>8. CASE Exit(p)  BY <2>8, <1>b DEF Exit, TlbOk
  <2> QED BY <1>1, <2>1, <2>2, <2>3, <2>4, <2>5, <2>6, <2>7, <2>8 DEF UserStep
<1>2. CASE CoWCheck(p) \/ CoWAlloc(p) \/ CoWOutOfMemory(p) \/ CoWCopy(p) \/ Exit(p)
  BY <1>2, <1>b DEF CoWCheck, CoWAlloc, CoWOutOfMemory, CoWCopy, Exit, TlbOk
<1>3. CASE CoWSetW(p) \/ CoWDrop(p) \/ GrowDone(p)
  <2>1. mode'[p] = "user" /\ UNCHANGED pgdir /\ tlb'[p] = Translations(pte', p, pgdir[p])
    BY <1>3, <1>b DEF CoWSetW, CoWDrop, GrowDone, lcr3
  <2> QED BY <1>d, <2>1
<1>4. CASE ExecCommit(p)
  <2>1. mode'[p] = "freeold" /\ pgdir'[p] = Spare(p) /\ tlb'[p] = Translations(pte', p, Spare(p))
    BY <1>4, <1>b DEF ExecCommit
  <2> QED BY <1>d, <2>1
<1>5. CASE ShrinkDone(p)
  <2>1. tgt[p] # 0  BY <1>0, <1>a, <1>5 DEF RegsOk, ShrinkDone
  <2>2. mode'[p] = "user" /\ UNCHANGED <<pgdir, pte>> /\ tlb'[p] = Translations(pte, p, pgdir[p])
    BY <1>5, <1>b, <2>1 DEF ShrinkDone, lcr3
  <2> QED BY <1>d, <2>2
<1>6. CASE ForkDone(p)
  <2>1. kid[p] \in Procs /\ kid[p] # p  BY <1>6, <1>0 DEF ForkShape, Forkers, ForkDone
  <2>2. mode'[p] = "user" /\ UNCHANGED <<pgdir, pte>> /\ tlb'[p] = Translations(pte, p, pgdir[p])
    BY <1>6, <1>b, <2>1 DEF ForkDone
  <2> QED BY <1>d, <2>2
<1>7. CASE UnforkDone(p)
  <2>1. kid[p] \in Procs /\ kid[p] # p /\ mode[p] = "unfork"  BY <1>7, <1>0 DEF ForkShape, Forkers, UnforkDone
  <2>2. /\ mode'[p] = "user" /\ UNCHANGED <<pgdir, pte, sz>>
        /\ tlb'[p] = tlb[p] \union Translations(pte, p, pgdir[p])
    BY <1>7, <1>b, <2>1 DEF UnforkDone, keepTlb
  <2>3. \A va \in VA : pte[Slot(kid[p], va)].pa = None
    BY <1>7, <2>1 DEF UnforkDone, Present, Doomed
  <2> QED BY <1>f, <2>1, <2>2, <2>3
<1>8. CASE UngrowDone(p) \/ FreeOldDone(p) \/ ReapDone(p)
  <2>1. mode[p] \in {"ungrow", "freeold", "reap"} /\ p \notin Forkers
    BY <1>8 DEF UngrowDone, FreeOldDone, ReapDone, Forkers
  <2>2. mode[p] = "reap" => kid[p] \in Procs /\ kid[p] # p  BY <1>0 DEF ReapShape
  <2>3. /\ mode'[p] = "user" /\ UNCHANGED <<pgdir, pte, sz>>
        /\ tlb'[p] = tlb[p] \union Translations(pte, p, pgdir[p])
    BY <1>8, <1>b, <2>2 DEF UngrowDone, FreeOldDone, ReapDone, keepTlb
  <2> QED BY <1>f, <2>1, <2>3
<1>9. CASE AllocPage(p) \/ MapFails(p) \/ ExecBad(p)
  <2>1. mode[p] \in {"grow", "map"} /\ UNCHANGED <<pte, sz, pgdir, tlb>>
    BY <1>9 DEF AllocPage, MapFails, ExecBad
  <2> QED BY <1>e, <2>1 DEF Forkers
<1>10. CASE CopyIncr(p) \/ CopyBad(p)
  <2>1. mode[p] \in {"incr", "fork"} /\ mode'[p] \in {"fork", "unfork"} /\ UNCHANGED <<sz, pgdir, tlb, kid>>
    BY <1>10, <1>b DEF CopyIncr, CopyBad
  <2>2. \A s \in Slots : pte'[s].pa = pte[s].pa
    <3>1. CASE CopyIncr(p)  BY <3>1 DEF CopyIncr
    <3>2. CASE CopyBad(p)
      <4>1. at[p] \in VA  BY <1>a, <3>2 DEF CopyBad
      <4> QED BY <1>0, <3>2, <4>1, SlotType, SetWrite DEF CopyBad
    <3> QED BY <1>10, <3>1, <3>2
  <2>3. p \in Forkers'  BY <2>1 DEF Forkers
  <2> QED BY <1>e, <2>1, <2>2, <2>3
<1>11. CASE CopyPage(p)
  <2> DEFINE c == kid[p]
  <2>1. /\ mode[p] = "fork" /\ mode'[p] = "incr" /\ c \in Procs /\ c # p /\ at[p] \in VA
        /\ UNCHANGED <<kid, at, pgdir, sz, tlb>>
        /\ \A s \in Slots :
              pte'[s].pa = IF s = Slot(c, at[p]) THEN pte[Slot(p, at[p])].pa ELSE pte[s].pa
    BY <1>b, <1>11, CopyPageEntry
  <2>2. p \in Forkers' /\ p \in Forkers  BY <2>1 DEF Forkers
  <2>3. Slot(p, at[p]) \in Slots  BY <1>0, <2>1, SlotType
  <2> SUFFICES ASSUME NEW e \in tlb[p] PROVE CachedOk(p, e)'
    BY <2>1 DEF TlbOk
  <2>4. /\ e[1] < sz[p] /\ pte[Slot(p, e[1])].pa = e[2]
        /\ e[3] => \A s \in MappedAt(e[2]) : s = Slot(p, e[1]) \/ s = Slot(c, e[1])
    BY <1>0, <2>1 DEF TlbOk, CachedOk
  <2>5. Slot(p, e[1]) \in Slots  BY <1>0, <1>c, SlotType
  <2>6. pte'[Slot(p, e[1])].pa = e[2]  BY <2>1, <2>4, <2>5 DEF Slot
  <2>7. ASSUME e[3], NEW s \in MappedAt(e[2])' PROVE s = Slot(p, e[1]) \/ s = Slot(c, e[1])
    <3>1. s \in Slots /\ pte'[s].pa = e[2]  BY <2>7 DEF MappedAt
    <3>2. CASE s # Slot(c, at[p])
      <4>1. s \in MappedAt(e[2])  BY <2>1, <3>1, <3>2 DEF MappedAt
      <4> QED BY <2>4, <2>7, <4>1
    <3>3. CASE s = Slot(c, at[p])
      <4>1. Slot(p, at[p]) \in MappedAt(e[2])  BY <2>1, <2>3, <3>1, <3>3 DEF MappedAt
      <4>2. at[p] = e[1]  BY <2>1, <2>4, <2>7, <4>1 DEF Slot
      <4> QED BY <3>3, <4>2
    <3> QED BY <3>2, <3>3
  <2>8. Slot(p, e[1])' = Slot(p, e[1]) /\ Slot(kid[p], e[1])' = Slot(c, e[1]) /\ sz'[p] = sz[p]  BY <2>1 DEF Slot
  <2> QED BY <2>2, <2>4, <2>6, <2>7, <2>8 DEF CachedOk
<1>12. CASE MapPage(p)
  <2> DEFINE m == <<p, Table(p), at[p]>>
  <2>1. /\ mode[p] = "map" /\ hold[p] \in Frames
        /\ UNCHANGED <<pgdir, sz, tlb>>
        /\ \A s \in Slots : pte'[s].pa = IF s = m THEN hold[p] ELSE pte[s].pa
    BY <1>12, MapPageEntry
  <2>2. \A s \in Slots : pte[s].pa # hold[p]  BY <1>0, <2>1 DEF HoldShape
  <2>3. p \notin Forkers  BY <2>1 DEF Forkers
  <2> SUFFICES ASSUME NEW e \in tlb[p] PROVE CachedOk(p, e)'
    BY <2>1 DEF TlbOk
  <2>4. /\ e[1] < sz[p] /\ pte[Slot(p, e[1])].pa = e[2] /\ e[1] \in VA
        /\ e[3] => \A s \in MappedAt(e[2]) : s = Slot(p, e[1])
    BY <1>0, <1>c, <2>1, <2>3 DEF TlbOk, CachedOk
  <2>5. Slot(p, e[1]) \in Slots  BY <1>0, <2>4, SlotType
  <2>6. Slot(p, e[1]) # m
    <3>1. CASE dir[p] = "pgdir"
      <4>1. sz[p] <= at[p]  BY <1>0, <2>1, <3>1 DEF RegsOk
      <4>2. e[1] # at[p]  BY <1>a, <2>4, <4>1
      <4> QED BY <4>2 DEF Slot
    <3>2. CASE dir[p] # "pgdir"
      <4>1. Table(p) = Spare(p)  BY <1>0, <3>2 DEF Table, TypeOK
      <4> QED BY <1>a, <4>1 DEF Slot
    <3> QED BY <3>1, <3>2
  <2>7. hold[p] # e[2]  BY <2>2, <2>4, <2>5
  <2> HIDE DEF m
  <2>8. pte'[Slot(p, e[1])].pa = e[2]  BY <2>1, <2>4, <2>5, <2>6
  <2>9. MappedAt(e[2])' \subseteq MappedAt(e[2])  BY <2>1, <2>7 DEF MappedAt
  <2>10. Slot(p, e[1])' = Slot(p, e[1]) /\ sz'[p] = sz[p]  BY <2>1 DEF Slot
  <2> QED BY <2>4, <2>8, <2>9, <2>10 DEF CachedOk
<1>13. CASE deallocuvm(p)
  <2>1. PICK s \in Slots : /\ s \in Doomed(p)
                           /\ \A t \in Slots : pte'[t].pa = IF t = s THEN None ELSE pte[t].pa
    BY <1>13, FreeEntry
  <2>2. UNCHANGED <<mode, sz, pgdir, kid, tlb>>  BY <1>13 DEF deallocuvm
  <2>3. Forkers' = Forkers  BY <2>2 DEF Forkers
  <2> SUFFICES ASSUME mode[p] \in Cached, NEW e \in tlb[p] PROVE CachedOk(p, e)'
    BY <2>2 DEF TlbOk
  <2>4. CachedOk(p, e) /\ e[1] \in VA /\ e[2] \in Frames  BY <1>0, <1>c DEF TlbOk
  <2>5. Slot(p, e[1]) \in Slots  BY <1>0, <2>4, SlotType
  <2>6. Slot(p, e[1]) # s
    <3>1. mode[p] \in {"unfork", "reap", "freeold", "ungrow"}  BY <2>1 DEF Doomed
    <3>2. CASE mode[p] \in {"unfork", "reap"}
      <4>1. kid[p] # p  BY <1>0, <3>2 DEF ForkShape, ReapShape, Forkers
      <4> QED BY <2>1, <3>2, <4>1 DEF Doomed, Slot
    <3>3. CASE mode[p] = "freeold"  BY <1>a, <2>1, <3>3 DEF Doomed, Slot
    <3>4. CASE mode[p] = "ungrow" /\ dir[p] = "image"  BY <1>a, <2>1, <3>4 DEF Doomed, Slot, Table
    <3>5. CASE mode[p] = "ungrow" /\ dir[p] # "image"
      <4>1. s[3] \in sz[p] .. NPages - 1  BY <2>1, <3>5 DEF Doomed
      <4>2. e[1] < sz[p]  BY <2>4 DEF CachedOk
      <4> QED BY <1>a, <2>4, <4>1, <4>2 DEF Slot
    <3> QED BY <3>1, <3>2, <3>3, <3>4, <3>5
  <2>7. pte'[Slot(p, e[1])].pa = pte[Slot(p, e[1])].pa  BY <2>1, <2>5, <2>6
  <2>8. MappedAt(e[2])' \subseteq MappedAt(e[2])  BY <1>a, <2>1, <2>4 DEF MappedAt
  <2> QED BY <2>2, <2>3, <2>4, <2>7, <2>8 DEF CachedOk, Slot
<1> QED BY <1>1, <1>2, <1>3, <1>4, <1>5, <1>6, <1>7, <1>8, <1>9, <1>10, <1>11, <1>12, <1>13 DEF KernelStep

LEMMA TlbStep ==
  ASSUME MemInv, RefInv', NEW p \in Procs, UserStep(p) \/ KernelStep(p), NEW q \in Procs, LayoutOk(q)'
  PROVE  TlbOk(q)'
<1>0. /\ RefInv /\ TypeOK /\ ForkShape /\ ReapShape /\ HoldShape /\ TlbOk(q)  BY MemParts DEF MemInv
<1>1. Effects(p) /\ OwnEffects(p)  BY <1>0, EffectsStep, OwnEffectsStep
<1>2. CASE q = p  BY <1>2, OwnTlb
<1>3. CASE q # p /\ ~Involved(p, q)
  <2>1. Untouched(q)  BY <1>0, <1>3, Bystander
  <2> SUFFICES ASSUME mode[q] \in Cached, NEW e \in tlb[q] PROVE CachedOk(q, e)'
    BY <2>1 DEF Untouched, TlbOk
  <2>2. e \in VA \X Frames \X BOOLEAN /\ CachedOk(q, e)  BY <1>0 DEF TypeOK, TlbOk
  <2>3. e[1] \in VA /\ e[2] \in Frames /\ None \notin Frames  BY <2>2, CoWAssumption
  <2>4. /\ Slot(q, e[1]) \in Slots /\ Slot(q, e[1])' = Slot(q, e[1])
        /\ pte'[Slot(q, e[1])].pa = pte[Slot(q, e[1])].pa /\ sz'[q] = sz[q]
    BY <1>0, <2>1, <2>3, SlotType, ProcType DEF Untouched, Slot
  <2>5. q \in Forkers' <=> q \in Forkers  BY <2>1 DEF Untouched, Forkers
  <2>6. q \in Forkers => Slot(kid[q], e[1])' = Slot(kid[q], e[1]) /\ kid[q] # p
    <3> SUFFICES ASSUME q \in Forkers PROVE Slot(kid[q], e[1])' = Slot(kid[q], e[1]) /\ kid[q] # p
      OBVIOUS
    <3>1. kid[q] \in Procs /\ mode[kid[q]] = "embryo"  BY <1>0 DEF ForkShape
    <3>2. kid[q] # p  BY <1>1, <3>1 DEF OwnEffects
    <3>3. ~Involved(p, kid[q])
      BY <1>0, <1>1, <1>3, <3>1 DEF Involved, ForkShape, ReapShape, Forkers, OwnEffects
    <3>4. Untouched(kid[q])  BY <1>0, <3>1, <3>2, <3>3, Bystander
    <3> QED BY <2>1, <3>2, <3>4 DEF Untouched, Slot
  <2>7. ASSUME e[3], NEW s \in MappedAt(e[2])' PROVE s \in MappedAt(e[2])
    <3>1. s \in Slots /\ pte'[s].pa = e[2]  BY <2>7 DEF MappedAt
    <3>2. pte'[s].pa = pte[s].pa \/ pte'[s].pa = None => s \in MappedAt(e[2])  BY <2>3, <3>1 DEF MappedAt
    <3>3. ~(mode[p] = "fork" /\ mode'[p] = "incr" /\ pte'[s].pa = pte[Slot(p, at[p])].pa)
      <4> SUFFICES ASSUME mode[p] = "fork", mode'[p] = "incr", pte'[s].pa = pte[Slot(p, at[p])].pa PROVE FALSE
        OBVIOUS
      <4>1. at[p] \in VA  BY <1>1 DEF OwnEffects
      <4>2. Slot(p, at[p]) \in MappedAt(e[2])  BY <1>0, <3>1, <4>1, SlotType DEF MappedAt
      <4> QED BY <1>3, <2>2, <2>6, <2>7, <4>2 DEF CachedOk, Slot
    <3>4. ~(mode[p] \in {"copy", "map"} /\ pte'[s].pa = hold[p])
      <4>1. pte[Slot(q, e[1])].pa = e[2]  BY <2>2 DEF CachedOk
      <4> QED BY <1>0, <2>4, <3>1, <4>1 DEF HoldShape
    <3> QED BY <1>1, <3>1, <3>2, <3>3, <3>4 DEF Effects
  <2>8. kid'[q] = kid[q]  BY <2>1 DEF Untouched
  <2> QED BY <2>2, <2>4, <2>5, <2>6, <2>7, <2>8 DEF CachedOk
<1>4. CASE Involved(p, q)
  <2>1. CASE ForkDone(p) /\ q = kid[p] /\ mode'[q] = "user"
    <3>1. UNCHANGED <<pte, pgdir>> /\ tlb'[q] = Translations(pte, q, pgdir[q])
      BY <1>0, <2>1 DEF ForkDone, TypeOK
    <3>2. Exactly(q, pgdir[q], sz[q])'  BY <2>1 DEF LayoutOk, Steady, Modes
    <3>3. \A e \in Translations(pte, q, pgdir[q])' : CachedOk(q, e)'
      BY <3>2, LoadedNext DEF RefInv
    <3> QED BY <3>1, <3>3 DEF TlbOk
  <2>2. CASE mode'[q] \in {"unused", "embryo", "zombie"}  BY <2>2 DEF TlbOk, Cached, Building
  <2> QED BY <1>0, <1>4, <2>1, <2>2, KidStep
<1> QED BY <1>2, <1>3, <1>4

\* Neither mappages nor copyuvm panics.
LEMMA AssertionsStep ==
  ASSUME MemInv, NEW p \in Procs, UserStep(p) \/ KernelStep(p)
  PROVE  AssertionsHold'
<1> USE DEF At, Freed
<1>0. AssertionsHold  BY MemParts
<1>1. CASE CopyPage(p) \/ MapPage(p)  BY <1>0, <1>1, CopyPageEntry, MapPageEntry DEF AssertionsHold
<1>2. CASE UserStep(p)
  BY <1>0, <1>2 DEF AssertionsHold, UserStep, Write, Fault, Fork, Wait, Grow, Shrink, Exec, Exit
<1>3. CASE KernelStep(p)
  BY <1>0, <1>1, <1>3
  DEF AssertionsHold, KernelStep, CoWCheck, CoWSetW, CoWAlloc, CoWOutOfMemory, panic, CoWCopy, CoWDrop, CopyIncr,
      CopyBad, ForkDone, UnforkDone, ReapDone, deallocuvm, AllocPage,
      MapFails, ExecBad, GrowDone, ExecCommit, UngrowDone, FreeOldDone, ShrinkDone, Exit
<1> QED BY <1>2, <1>3
-----------------------------------------------------------------------------
LEMMA InitMemInv == Init => MemInv
<1> SUFFICES ASSUME Init PROVE MemInv
  OBVIOUS
<1>1. RefInv  BY InitRefInv
<1>2. PICK f \in Frames :
        /\ pte = [s \in Slots |-> IF s = <<InitProc, "A", 0>>
                                    THEN [pa |-> f, w |-> TRUE, u |-> TRUE] ELSE NoPte]
        /\ content = [g \in Frames |-> IF g = f THEN Text ELSE Junk]
        /\ tlb = [p \in Procs |-> IF p = InitProc THEN {<<0, f, TRUE>>} ELSE {}]
  BY DEF Init
<1>3. /\ VA = 0 .. NPages - 1 /\ NPages \in Nat \ {0} /\ 0 \in VA /\ None \notin Frames /\ Text \in Values
      /\ InitProc \in Procs
  BY CoWAssumption DEF VA
<1>4. \A s \in Slots : pte[s].pa = IF s = <<InitProc, "A", 0>> THEN f ELSE None
  BY <1>2 DEF NoPte
<1>5. AssertionsHold  BY DEF Init, AssertionsHold
<1>6. Contents  BY <1>2, <1>3, <1>4 DEF Contents
<1>7. ASSUME NEW p \in Procs PROVE RegsOk(p) /\ CopiedOk(p) /\ FilledOk(p)
  BY DEF Init, RegsOk, CopiedOk, FilledOk, Building
<1>8. ASSUME NEW p \in Procs PROVE LayoutOk(p)
  <2>1. /\ pgdir[p] = "A" /\ dir[p] = "pgdir" /\ Spare(p) = "B"
        /\ sz[p] = IF p = InitProc THEN 1 ELSE 0
        /\ mode[p] = IF p = InitProc THEN "user" ELSE "unused"
    BY DEF Init, Spare
  <2>2. \A va \in VA : pte[<<p, "B", va>>].pa = None
    BY <1>4, SlotIn DEF Tables
  <2>3. \A va \in VA : pte[<<p, "A", va>>].pa = IF p = InitProc /\ va = 0 THEN f ELSE None
    BY <1>4, SlotIn DEF Tables
  <2>4. Exactly(p, "B", 0)  BY <1>3, <2>2 DEF Exactly
  <2>5. Exactly(p, "A", sz[p])  BY <1>3, <2>1, <2>3 DEF Exactly
  <2> QED BY <2>1, <2>4, <2>5 DEF LayoutOk, Steady
<1>9. ASSUME NEW p \in Procs PROVE TlbOk(p)
  <2>1. CASE p # InitProc  BY <1>2, <2>1 DEF TlbOk
  <2>2. CASE p = InitProc
    <3>1. Slot(p, 0) = <<InitProc, "A", 0>> /\ sz[p] = 1  BY <2>2, <1>3 DEF Init, Slot
    <3>2. <<InitProc, "A", 0>> \in Slots  BY <1>3, SlotIn DEF Tables
    <3>3. CachedOk(p, <<0, f, TRUE>>)
      BY <1>3, <1>4, <3>1, <3>2 DEF CachedOk, MappedAt
    <3> QED BY <1>2, <2>2, <3>3 DEF TlbOk
  <2> QED BY <2>1, <2>2
<1> QED BY <1>1, <1>5, <1>6, <1>7, <1>8, <1>9 DEF MemInv

LEMMA NextMemInv ==
  ASSUME MinSize > 0
  PROVE  MemInv /\ [Next]_vars => MemInv'
<1> SUFFICES ASSUME MemInv, [Next]_vars PROVE MemInv'
  OBVIOUS
<1>1. RefInv /\ RefInv'  BY NextRefInv DEF MemInv
<1>2. TypeOK' /\ FreeNotInUse'  BY <1>1 DEF RefInv
<1>3. ASSUME NEW p \in Procs, UserStep(p) \/ KernelStep(p) PROVE MemInv'
  <2>1. \A q \in Procs : RegsOk(q)' /\ LayoutOk(q)'  BY <1>3, LayoutStep
  <2>2. \A q \in Procs : CopiedOk(q)'  BY <1>3, CopiedStep
  <2>3. \A q \in Procs : FilledOk(q)'  BY <1>2, <1>3, FilledStep
  <2>4. \A q \in Procs : TlbOk(q)'  BY <1>1, <1>3, <2>1, TlbStep
  <2>5. AssertionsHold' /\ Contents'  BY <1>2, <1>3, AssertionsStep, ContentsStep
  <2> QED BY <1>1, <2>1, <2>2, <2>3, <2>4, <2>5 DEF MemInv
<1>4. CASE UNCHANGED vars
  <2>1. /\ UNCHANGED <<pte, content, tlb, panicked, hold, sz, mode, pgdir, at, tgt, dir, kid>>
    BY <1>4 DEF vars, proc, regs
  <2>2. AssertionsHold' /\ Contents'  BY <2>1 DEF MemInv, AssertionsHold, Contents
  <2>3. ASSUME NEW q \in Procs PROVE RegsOk(q)' /\ CopiedOk(q)' /\ FilledOk(q)'
    BY <2>1, MemParts DEF RegsOk, CopiedOk, FilledOk, Exactly, Slot, Fresh, Laid, Spare
  <2>4. ASSUME NEW q \in Procs PROVE LayoutOk(q)'
    BY <2>1, MemParts DEF LayoutOk, Exactly, Slot, Spare, Table
  <2>5. ASSUME NEW q \in Procs PROVE TlbOk(q)'
    BY <2>1, MemParts DEF TlbOk, CachedOk, MappedAt, Forkers, Slot
  <2> QED BY <1>1, <2>2, <2>3, <2>4, <2>5 DEF MemInv
<1> QED BY <1>3, <1>4 DEF Next, Halted

LEMMA MemInvariant ==
  ASSUME MinSize > 0
  PROVE  Spec => []MemInv
BY InitMemInv, NextMemInv, PTL DEF Spec

\* The panics of copyuvm ("page not present") and of mappages ("remap") are unreachable:
\* whatever fails and is undone, the pages of a process stay exactly those below sz.
THEOREM AssertionsCorrect ==
  ASSUME MinSize > 0
  PROVE  SpecAny /\ UserOnly => []AssertionsHold
<1>1. MemInv => AssertionsHold  BY DEF MemInv
<1> QED BY <1>1, MemInvariant, BelowKernbase, PTL

\* A program never reads or writes through a translation the processor should have
\* dropped: every return to user mode that skips the load of cr3 is harmless, also the
\* one of a fork that failed after it had write-protected pages.
THEOREM TlbCorrect ==
  ASSUME MinSize > 0
  PROVE  SpecAny /\ UserOnly => []TlbSafe
<1>1. MemInv => TlbSafe
  <2> SUFFICES ASSUME MemInv, NEW p \in Procs, mode[p] = "user", NEW e \in tlb[p]
               PROVE  /\ pte[Slot(p, e[1])].pa = e[2]
                      /\ e[3] => MappedAt(e[2]) = {Slot(p, e[1])}
    BY DEF TlbSafe
  <2>1. TypeOK /\ TlbOk(p)  BY MemParts
  <2>2. e \in VA \X Frames \X BOOLEAN  BY <2>1 DEF TypeOK
  <2>3. e[1] \in VA  BY <2>2
  <2>4. Slot(p, e[1]) \in Slots  BY <2>1, <2>3, SlotType
  <2>5. /\ pte[Slot(p, e[1])].pa = e[2]
        /\ e[3] => \A s \in MappedAt(e[2]) : s = Slot(p, e[1])
    BY <2>1 DEF TlbOk, CachedOk, Cached, Forkers
  <2> QED BY <2>4, <2>5 DEF MappedAt
<1> QED BY <1>1, MemInvariant, BelowKernbase, PTL
-----------------------------------------------------------------------------
(***************************************************************************)
(* No frame is lost, on one processor.  On two, decr_refc in two page      *)
(* faults at once can leave a count of zero without freeing the frame.     *)
(***************************************************************************)
\* Somebody runs: nobody is busy, or he alone is.
LEMMA Alone ==
  ASSUME NCPU = 1, LeakInv, NEW p \in Procs, CanRun(p)
  PROVE  \A q \in Busy : q = p
<1>1. IsFiniteSet(Procs) /\ Busy \subseteq Procs  BY CoWAssumption DEF Busy
<1>2. IsFiniteSet(Busy)  BY <1>1, FS_Subset
<1>3. Cardinality(Busy) \in Nat /\ (Cardinality(Busy) = 0 => Busy = {})  BY <1>2, FS_CardinalityType, FS_EmptySet
<1>4. CASE p \in Busy  BY <1>4 DEF LeakInv
<1>5. CASE p \notin Busy
  <2>1. Busy = {}  BY <1>3, <1>5 DEF CanRun
  <2> QED BY <2>1
<1> QED BY <1>4, <1>5

LEMMA RefcNat ==
  ASSUME RefInv, NEW f \in Frames
  PROVE  refc[f] \in Nat
<1>1. refc[f] = Cardinality(Counted(f)) + Cardinality(HeldBy(f))  BY DEF RefInv, RefcExact, Counted
<1> QED BY <1>1, OwnersFinite

\* A process that makes a step may run.
LEMMA Runs ==
  ASSUME NEW p \in Procs, UserStep(p) \/ KernelStep(p)
  PROVE  CanRun(p)
BY DEF UserStep, Write, Fault, Fork, Wait, Grow, Shrink, Exec, At, Freed,
       KernelStep, CoWCheck, CoWSetW, CoWAlloc, CoWOutOfMemory, CoWCopy, CoWDrop, CopyIncr,
       CopyPage, CopyBad, ForkDone, UnforkDone, ReapDone, deallocuvm,
       MapPage, MapFails, ExecBad, GrowDone, ExecCommit, FreeOldDone, ShrinkDone, UngrowDone, Exit,
       AllocPage

\* Only CoW_handler drops a reference without freeing, and it has read a count above one.
LEMMA ZeroIsFree ==
  ASSUME RefInv, LeakInv, NEW p \in Procs, UserStep(p) \/ KernelStep(p), NEW f \in Frames, refc'[f] = 0
  PROVE  f \in free'
<1> USE DEF Pool!kalloc, Pool!kfree, Pool!incr_refc, Pool!decr_refc, At, Freed, panic, pool
<1>0. TypeOK /\ ForkShape /\ ReapShape /\ HoldShape  BY DEF RefInv
<1>1. refc \in [Frames -> Int] /\ refc[f] \in Nat /\ (refc[f] = 0 => f \in free)
  BY <1>0, RefcNat DEF TypeOK, LeakInv
<1>2. CASE UNCHANGED <<refc, free>>  BY <1>1, <1>2
<1>3. ASSUME NEW g \in Frames, Pool!kalloc(g) PROVE f \in free'  BY <1>1, <1>3
<1>4. ASSUME NEW g \in Frames, Pool!kfree(g) PROVE f \in free'  BY <1>1, <1>4
<1>5. CASE CoWAlloc(p)  BY <1>3, <1>5 DEF CoWAlloc
<1>6. CASE AllocPage(p)  BY <1>2, <1>3, <1>6 DEF AllocPage
<1>7. CASE CoWDrop(p)
  <2>1. hold[p] \in Frames /\ refc[hold[p]] > 1  BY <1>0, <1>7 DEF CoWDrop, HoldShape, LeakInv
  <2> QED BY <1>1, <1>7, <2>1 DEF CoWDrop
<1>8. CASE CopyIncr(p)
  <2>1. pte[Slot(p, at[p])].pa \in Frames  BY <1>0, <1>8 DEF CopyIncr, ForkShape
  <2> QED BY <1>1, <1>8, <2>1 DEF CopyIncr
<1>9. CASE deallocuvm(p)
  <2>1. PICK s \in Present(Doomed(p)) : Pool!kfree(pte[s].pa)  BY <1>9 DEF deallocuvm
  <2>2. pte[s].pa \in Frames  BY <1>0, DoomedType
  <2> QED BY <1>4, <2>1, <2>2
<1>10. CASE UngrowDone(p)
  <2>1. hold[p] \in Frames \union {None}  BY <1>0 DEF TypeOK
  <2> QED BY <1>2, <1>4, <1>10, <2>1 DEF UngrowDone
<1>11. CASE UserStep(p)
  BY <1>2, <1>11 DEF UserStep, Write, Fault, Fork, Wait, Grow, Shrink, Exec, Exit
<1>12. CASE KernelStep(p)
  BY <1>2, <1>5, <1>6, <1>7, <1>8, <1>9, <1>10, <1>12
  DEF KernelStep, CoWCheck, CoWSetW, CoWOutOfMemory, CoWCopy,
      CopyPage, CopyBad, ForkDone, UnforkDone, ReapDone,
      MapPage, MapFails, ExecBad, GrowDone, ExecCommit, FreeOldDone, ShrinkDone, Exit
<1> QED BY <1>11, <1>12

LEMMA LeakStep ==
  ASSUME NCPU = 1, RefInv, LeakInv, NEW p \in Procs, UserStep(p) \/ KernelStep(p)
  PROVE  LeakInv'
<1> DEFINE B == {"fault", "setw", "alloc", "copy", "drop", "reap"}
<1>0. TypeOK /\ FaultShape /\ FreeNotInUse  BY DEF RefInv
<1>1. Effects(p) /\ OwnEffects(p)  BY EffectsStep, OwnEffectsStep
<1>2. \A q \in Busy : q = p  BY Alone, Runs
<1>3. \A q \in Procs : mode'[q] \in B => q = p
  <2> SUFFICES ASSUME NEW q \in Procs, mode'[q] \in B, q # p PROVE FALSE
    OBVIOUS
  <2>1. mode[q] \in B  BY <1>1 DEF Effects
  <2> QED BY <1>2, <2>1 DEF Busy
<1>4. \A f \in Frames : refc'[f] = 0 => f \in free'  BY ZeroIsFree
<1>5. mode'[p] = "alloc" => refc'[pte'[Slot(p, at[p])'].pa] > 1
  <2> SUFFICES ASSUME mode'[p] = "alloc" PROVE refc'[pte'[Slot(p, at[p])'].pa] > 1
    OBVIOUS
  <2>1. UNCHANGED <<pte, at, pgdir>> /\ mode[p] \in {"fault", "alloc"}  BY <1>1 DEF OwnEffects
  <2>2. CoWCheck(p) \/ CoWAlloc(p) \/ CoWOutOfMemory(p)
    BY <2>1 DEF UserStep, Write, Fault, Fork, Wait, Grow, Shrink, Exec, At, Freed,
       KernelStep, CoWCheck, CoWSetW, CoWAlloc, CoWOutOfMemory, CoWCopy, CoWDrop, CopyIncr,
       CopyPage, CopyBad, ForkDone, UnforkDone, ReapDone, deallocuvm, Present, Doomed,
       MapPage, MapFails, ExecBad, GrowDone, ExecCommit, FreeOldDone, ShrinkDone, UngrowDone, Exit,
       AllocPage
  <2>3. UNCHANGED refc /\ refc[pte[Slot(p, at[p])].pa] > 1
    BY <1>0, <2>2 DEF CoWCheck, CoWAlloc, CoWOutOfMemory, At, Goto, panic, pool, LeakInv, TypeOK
  <2> QED BY <2>1, <2>3 DEF Slot
<1>6. mode'[p] = "copy" => refc'[pte'[Slot(p, at[p])'].pa] > 1
  <2> SUFFICES ASSUME mode'[p] = "copy" PROVE refc'[pte'[Slot(p, at[p])'].pa] > 1
    OBVIOUS
  <2>1. UNCHANGED <<pte, at, pgdir>> /\ mode[p] = "alloc"  BY <1>1 DEF OwnEffects
  <2>2. CoWAlloc(p) \/ CoWOutOfMemory(p)
    BY <2>1 DEF UserStep, Write, Fault, Fork, Wait, Grow, Shrink, Exec, At, Freed,
       KernelStep, CoWCheck, CoWSetW, CoWAlloc, CoWOutOfMemory, CoWCopy, CoWDrop, CopyIncr,
       CopyPage, CopyBad, ForkDone, UnforkDone, ReapDone, deallocuvm, Present, Doomed,
       MapPage, MapFails, ExecBad, GrowDone, ExecCommit, FreeOldDone, ShrinkDone, UngrowDone, Exit,
       AllocPage
  <2>3. CoWAlloc(p)  BY <2>1, <2>2 DEF CoWOutOfMemory, panic, proc
  <2>4. PICK g \in Frames : g \in free /\ refc' = [refc EXCEPT ![g] = 1]
    BY <2>3 DEF CoWAlloc, Pool!kalloc
  <2>5. at[p] \in VA /\ pte[Slot(p, at[p])].pa \in Frames /\ refc[pte[Slot(p, at[p])].pa] > 1
    BY <1>0, <2>1 DEF FaultShape, LeakInv
  <2>6. Slot(p, at[p]) \in Slots  BY <1>0, <2>5, SlotType
  <2>7. pte[Slot(p, at[p])].pa # g  BY <1>0, <2>4, <2>6 DEF FreeNotInUse, MappedAt
  <2> QED BY <1>0, <2>1, <2>4, <2>5, <2>7 DEF Slot, TypeOK
<1>7. mode'[p] = "drop" => refc'[hold'[p]] > 1
  <2> SUFFICES ASSUME mode'[p] = "drop" PROVE refc'[hold'[p]] > 1
    OBVIOUS
  <2>1. mode[p] = "copy" /\ CoWCopy(p)  BY <1>1, StepsOf DEF OwnEffects
  <2> QED BY <1>0, <2>1 DEF CoWCopy, pool, LeakInv, TypeOK
<1>8. \A q, r \in Busy' : q = r  BY <1>3 DEF Busy
<1> QED BY <1>3, <1>4, <1>5, <1>6, <1>7, <1>8 DEF LeakInv

LEMMA LeakInvariant ==
  ASSUME NCPU = 1
  PROVE  Spec => []LeakInv
<1>1. Init => LeakInv
  <2> SUFFICES ASSUME Init PROVE LeakInv
    OBVIOUS
  <2>1. \A f \in Frames : refc[f] = 0 => f \in free  BY DEF Init
  <2>2. \A p \in Procs : mode[p] \in {"user", "unused"}  BY DEF Init
  <2> QED BY <2>1, <2>2 DEF LeakInv, Busy
<1>2. RefInv /\ LeakInv /\ [Next]_vars => LeakInv'
  <2> SUFFICES ASSUME RefInv, LeakInv, [Next]_vars PROVE LeakInv'
    OBVIOUS
  <2>1. CASE UNCHANGED vars
    BY <2>1 DEF vars, pool, proc, regs, LeakInv, Busy, Slot
  <2> QED BY <2>1, LeakStep DEF Next, Halted
<1> QED BY <1>1, <1>2, RefInvariant, PTL DEF Spec

\* With one processor no frame is lost, which is what test3.c checks with countfp: what
\* no page table and no operation refers to is on the free list.
THEOREM NoLeakCorrect ==
  ASSUME NCPU = 1
  PROVE  SpecAny /\ UserOnly => []NoLeak
<1>1. RefInv /\ LeakInv => NoLeak
  <2> SUFFICES ASSUME RefInv, LeakInv, NEW f \in Frames, f \notin free, MappedAt(f) = {}, HeldBy(f) = {}
               PROVE  FALSE
    BY DEF NoLeak
  <2>1. MappedAt(f) \ Uncounted = {}  OBVIOUS
  <2>2. refc[f] = Cardinality(MappedAt(f) \ Uncounted) + Cardinality(HeldBy(f))  BY DEF RefInv, RefcExact
  <2>3. Cardinality({}) = 0  BY FS_EmptySet
  <2>4. refc[f] = 0  BY <2>1, <2>2, <2>3
  <2> QED BY <2>4 DEF LeakInv
<1> QED BY <1>1, LeakInvariant, RefInvariant, BelowKernbase, PTL
-----------------------------------------------------------------------------
(***************************************************************************)
(* Private memory.                                                         *)
(***************************************************************************)
\* What q sees of its page va.
Page(q, va) ==
  IF q \in UserAlive /\ va < sz[q] /\ pte[Slot(q, va)].pa # None
  THEN content[pte[Slot(q, va)].pa] ELSE None

LEMMA PagesSeen ==
  /\ UserMem = [q \in Procs |-> [va \in VA |-> Page(q, va)]]
  /\ UserMem' = [q \in Procs |-> [va \in VA |-> Page(q, va)']]
BY DEF UserMem, Page, Slot

\* The others do not notice a step of p, except for the child that comes into being.
LEMMA OthersSee ==
  ASSUME MemInv, FreeNotInUse', NEW p \in Procs, UserStep(p) \/ KernelStep(p),
         NEW q \in Procs, q # p, ~(ForkDone(p) /\ q = kid[p])
  PROVE  /\ q \in UserAlive' <=> q \in UserAlive
         /\ \A va \in VA : Page(q, va)' = Page(q, va)
<1>0. RefInv /\ TypeOK  BY MemParts DEF MemInv
<1>1. CASE Involved(p, q)
  <2>1. mode[q] \in {"unused", "embryo", "zombie"} /\ mode'[q] \in {"unused", "embryo", "zombie"}
    BY <1>0, <1>1, KidStep
  <2>2. q \notin UserAlive /\ q \notin UserAlive'  BY <2>1 DEF UserAlive
  <2> QED BY <2>2 DEF Page
<1>2. CASE ~Involved(p, q)
  <2>1. Untouched(q)  BY <1>0, <1>2, Bystander
  <2>2. q \in UserAlive' <=> q \in UserAlive  BY <2>1 DEF Untouched, UserAlive
  <2>3. ASSUME NEW va \in VA PROVE Page(q, va)' = Page(q, va)
    <3>1. /\ Slot(q, va) \in Slots /\ pte[Slot(q, va)] \in Entry /\ Slot(q, va)' = Slot(q, va)
          /\ pte'[Slot(q, va)].pa = pte[Slot(q, va)].pa
      BY <1>0, <2>1, SlotType, ProcType DEF Untouched, Slot
    <3>2. pte[Slot(q, va)].pa # None => content'[pte[Slot(q, va)].pa] = content[pte[Slot(q, va)].pa]
      <4> SUFFICES ASSUME pte[Slot(q, va)].pa # None
                   PROVE  content'[pte[Slot(q, va)].pa] = content[pte[Slot(q, va)].pa]
        OBVIOUS
      <4>1. pte[Slot(q, va)].pa \in Frames  BY <3>1 DEF Entry
      <4>2. \A x \in VA : Slot(q, va) # Slot(p, x)  BY DEF Slot
      <4> QED BY <3>1, <4>1, <4>2, KeptContent
    <3>3. sz'[q] = sz[q]  BY <2>1 DEF Untouched
    <3> QED BY <2>2, <3>1, <3>2, <3>3 DEF Page
  <2> QED BY <2>2, <2>3
<1> QED BY <1>1, <1>2

\* p itself keeps what it sees of a page below sz whose frame stays.
LEMMA OwnSees ==
  ASSUME MemInv, FreeNotInUse', NEW p \in Procs, UserStep(p) \/ KernelStep(p),
         mode'[p] # "zombie", pgdir'[p] = pgdir[p], sz'[p] = sz[p], p \in UserAlive',
         \A va \in VA, v \in Values : ~Write(p, va, v),
         NEW va \in VA, va < sz[p] => pte'[Slot(p, va)].pa = pte[Slot(p, va)].pa
  PROVE  Page(p, va)' = Page(p, va)
<1>0. RefInv /\ TypeOK  BY MemParts DEF MemInv
<1>1. p \in UserAlive  BY <1>0, OwnEffectsStep DEF OwnEffects, UserAlive
<1>2. /\ Slot(p, va) \in Slots /\ pte[Slot(p, va)] \in Entry /\ Slot(p, va)' = Slot(p, va)
  BY <1>0, SlotType DEF Slot
<1>3. va < sz[p] /\ pte[Slot(p, va)].pa # None => content'[pte[Slot(p, va)].pa] = content[pte[Slot(p, va)].pa]
  <2> SUFFICES ASSUME va < sz[p], pte[Slot(p, va)].pa # None
               PROVE  content'[pte[Slot(p, va)].pa] = content[pte[Slot(p, va)].pa]
    OBVIOUS
  <2>1. pte[Slot(p, va)].pa \in Frames  BY <1>2 DEF Entry
  <2> QED BY <1>2, <2>1, KeptContent
<1> QED BY <1>1, <1>2, <1>3 DEF Page

\* A step that changes neither what p sees nor the child it makes changes nothing.
LEMMA NothingSeen ==
  ASSUME MemInv, FreeNotInUse', NEW p \in Procs, UserStep(p) \/ KernelStep(p), ~ForkDone(p),
         p \in UserAlive', \A va \in VA : Page(p, va)' = Page(p, va)
  PROVE  UNCHANGED <<UserAlive, UserMem>>
<1>0. p \in UserAlive  BY OwnEffectsStep DEF OwnEffects, UserAlive, MemInv
<1>1. \A q \in Procs : /\ q \in UserAlive' <=> q \in UserAlive
                       /\ \A va \in VA : Page(q, va)' = Page(q, va)
  BY <1>0, OthersSee
<1>2. UserAlive' = UserAlive
  <2>1. UserAlive \subseteq Procs /\ UserAlive' \subseteq Procs  BY DEF UserAlive
  <2> QED BY <1>1, <2>1
<1>3. UserMem' = UserMem  BY <1>1, PagesSeen
<1> QED BY <1>2, <1>3

\* A step of p that changes its own memory only.
LEMMA OwnUpdate ==
  ASSUME MemInv, FreeNotInUse', NEW p \in Procs, UserStep(p) \/ KernelStep(p), ~ForkDone(p),
         NEW m, [va \in VA |-> Page(p, va)'] = m
  PROVE  UserMem' = [UserMem EXCEPT ![p] = m]
<1>1. \A q \in Procs \ {p} : \A va \in VA : Page(q, va)' = Page(q, va)  BY OthersSee
<1>2. \A q \in Procs \ {p} : UserMem'[q] = UserMem[q]  BY <1>1, PagesSeen
<1>3. UserMem'[p] = m  BY PagesSeen
<1>4. UserMem = [q \in Procs |-> UserMem[q]] /\ UserMem' = [q \in Procs |-> UserMem'[q]]  BY PagesSeen
<1> QED BY <1>2, <1>3, <1>4

\* A write of p is a write to its own memory.
LEMMA WriteRefines ==
  ASSUME MemInv, FreeNotInUse', NEW p \in Procs, NEW va \in VA, NEW v \in Values, Write(p, va, v)
  PROVE  Private!Write(p, va, v)
<1>0. TypeOK /\ Contents /\ mode[p] = "user" /\ UserStep(p)
  BY MemParts DEF Write, At, UserStep
<1>1. PICK f \in Frames : /\ content' = [content EXCEPT ![f] = v]
                          /\ MappedAt(f) = {Slot(p, va)} /\ pte[Slot(p, va)].pa = f /\ va < sz[p]
  BY WriteTarget
<1>2. UNCHANGED <<pte, mode, sz, pgdir>>  BY DEF Write, proc
<1>3. UserAlive' = UserAlive /\ p \in UserAlive  BY <1>0, <1>2 DEF UserAlive
<1>4. \A x \in VA : Slot(p, x) \in Slots /\ Slot(p, x)' = Slot(p, x) /\ pte[Slot(p, x)] \in Entry
  BY <1>0, <1>2, SlotType DEF Slot
<1>5. \A x \in VA : x # va => pte[Slot(p, x)].pa # f  BY <1>1, <1>4 DEF MappedAt, Slot
<1>6. \A x \in VA : x # va /\ pte[Slot(p, x)].pa # None => content'[pte[Slot(p, x)].pa] = content[pte[Slot(p, x)].pa]
  BY <1>0, <1>1, <1>4, <1>5 DEF TypeOK, Entry
<1>7. \A x \in VA : x # va => Page(p, x)' = Page(p, x)  BY <1>2, <1>3, <1>4, <1>6 DEF Page
<1>8. Page(p, va)' = v /\ Page(p, va) = content[f] /\ f # None
  BY <1>0, <1>1, <1>2, <1>3, <1>4, CoWAssumption DEF Page, TypeOK
<1>9. content[f] # None  BY <1>0, <1>1, <1>4, <1>8, CoWAssumption DEF Contents
<1>10. UserMem[p] = [x \in VA |-> Page(p, x)] /\ UserMem[p][va] # None  BY <1>8, <1>9, PagesSeen
<1>11. [x \in VA |-> Page(p, x)'] = [UserMem[p] EXCEPT ![va] = v]  BY <1>7, <1>8, <1>10
<1>12. ~ForkDone(p)  BY <1>0 DEF ForkDone, At
<1>13. UserMem' = [UserMem EXCEPT ![p] = [UserMem[p] EXCEPT ![va] = v]]
  BY <1>0, <1>11, <1>12, OwnUpdate
<1> QED BY <1>3, <1>10, <1>13 DEF Private!Write

\* The return of fork gives the child a copy of what the parent sees.
LEMMA ForkRefines ==
  ASSUME MemInv, FreeNotInUse', NEW p \in Procs, ForkDone(p)
  PROVE  kid[p] \in Procs /\ Private!Fork(p, kid[p])
<1>0. TypeOK /\ ForkShape /\ RegsOk(p) /\ CopiedOk(p) /\ KernelStep(p)  BY MemParts DEF KernelStep
<1>1. mode[p] = "fork" /\ at[p] >= sz[p]  BY DEF ForkDone, At
<1>k. kid[p] \in Procs /\ kid[p] # p /\ mode[kid[p]] = "embryo"  BY <1>0, <1>1 DEF ForkShape, Forkers
<1>2. PICK c \in Procs : c = kid[p] /\ c # p /\ mode[c] = "embryo"  BY <1>k
<1>3. /\ mode' = [mode EXCEPT ![p] = "user", ![c] = "user"] /\ sz' = [sz EXCEPT ![c] = sz[p]]
      /\ UNCHANGED <<pte, pgdir, content>>
  BY <1>2 DEF ForkDone
<1>4. p \in UserAlive /\ c \notin UserAlive /\ c \in UserAlive'
  BY <1>0, <1>1, <1>2, <1>3 DEF UserAlive, TypeOK
<1>5. UserAlive' = UserAlive \union {c}
  BY <1>0, <1>1, <1>2, <1>3 DEF UserAlive, TypeOK
<1>6. sz'[c] = sz[p] /\ sz'[p] = sz[p] /\ at[p] = sz[p] /\ sz[p] \in Nat
  BY <1>0, <1>1, <1>2, <1>3, ProcType DEF RegsOk, TypeOK
<1>7. \A va \in VA : va < sz[p] => pte[Slot(c, va)].pa = pte[Slot(p, va)].pa
  BY <1>0, <1>1, <1>2, <1>6 DEF CopiedOk
<1>8. \A q \in Procs, va \in VA : Slot(q, va)' = Slot(q, va)  BY <1>3 DEF Slot
<1>9. \A va \in VA : Page(c, va)' = Page(p, va) /\ Page(p, va)' = Page(p, va)
  <2> SUFFICES ASSUME NEW va \in VA PROVE Page(c, va)' = Page(p, va) /\ Page(p, va)' = Page(p, va)
    OBVIOUS
  <2>1. /\ UNCHANGED <<pte, content>> /\ p \in UserAlive /\ p \in UserAlive' /\ c \in UserAlive'
        /\ Slot(c, va)' = Slot(c, va) /\ Slot(p, va)' = Slot(p, va)
    BY <1>2, <1>3, <1>4, <1>5, <1>8
  <2>2. Page(p, va)' = Page(p, va)  BY <1>6, <2>1 DEF Page
  <2>3. Page(c, va)' = Page(p, va)
    <3>1. CASE va < sz[p]
      <4>1. pte[Slot(c, va)].pa = pte[Slot(p, va)].pa  BY <1>7, <3>1
      <4> QED BY <1>6, <2>1, <3>1, <4>1 DEF Page
    <3>2. CASE ~(va < sz[p])  BY <1>6, <2>1, <3>2 DEF Page
    <3> QED BY <3>1, <3>2
  <2> QED BY <2>2, <2>3
<1>10. \A q \in Procs \ {p, c} : \A va \in VA : Page(q, va)' = Page(q, va)
  BY <1>0, <1>2, OthersSee
<1>11. \A q \in Procs : UserMem'[q] = IF q = c THEN UserMem[p] ELSE UserMem[q]
  <2> SUFFICES ASSUME NEW q \in Procs PROVE UserMem'[q] = IF q = c THEN UserMem[p] ELSE UserMem[q]
    OBVIOUS
  <2>1. /\ UserMem'[q] = [va \in VA |-> Page(q, va)'] /\ UserMem[q] = [va \in VA |-> Page(q, va)]
        /\ UserMem[p] = [va \in VA |-> Page(p, va)]
    BY PagesSeen
  <2>2. CASE q = c  BY <1>9, <2>1, <2>2
  <2>3. CASE q # c  BY <1>9, <1>10, <2>1, <2>3
  <2> QED BY <2>2, <2>3
<1>12. UserMem = [q \in Procs |-> UserMem[q]] /\ UserMem' = [q \in Procs |-> UserMem'[q]]  BY PagesSeen
<1>13. UserMem' = [UserMem EXCEPT ![c] = UserMem[p]]  BY <1>2, <1>11, <1>12
<1> QED BY <1>2, <1>4, <1>5, <1>13 DEF Private!Fork

\* The return of sbrk adds pages of zeros.
LEMMA GrowRefines ==
  ASSUME MemInv, FreeNotInUse', NEW p \in Procs, GrowDone(p)
  PROVE  \E new \in SUBSET VA : Private!Grow(p, new)
<1>0. TypeOK /\ LayoutOk(p) /\ FilledOk(p) /\ RegsOk(p) /\ KernelStep(p) /\ RefInv
  BY MemParts DEF KernelStep, MemInv
<1>1. mode[p] = "grow" /\ dir[p] = "pgdir" /\ at[p] = tgt[p]  BY DEF GrowDone, At
<1>2. /\ mode' = [mode EXCEPT ![p] = "user"] /\ sz' = [sz EXCEPT ![p] = at[p]]
      /\ UNCHANGED <<pte, pgdir, content>>
  BY <1>1 DEF GrowDone, Return, Goto
<1>3. p \in UserAlive /\ UserAlive' = UserAlive  BY <1>0, <1>1, <1>2 DEF UserAlive, TypeOK
<1>4. sz'[p] = at[p] /\ sz[p] \in Nat /\ at[p] \in Nat /\ VA \subseteq Nat /\ sz[p] <= at[p]
  BY <1>0, <1>1, <1>2, ProcType DEF TypeOK, RegsOk
<1>5. \A va \in VA : pte[Slot(p, va)].pa # None <=> va < at[p]
  BY <1>0, <1>1 DEF LayoutOk, Exactly, Table, Slot
<1>6. \A va \in VA : sz[p] <= va /\ va < at[p] => content[pte[Slot(p, va)].pa] = Zero
  BY <1>0, <1>1 DEF FilledOk
<1>7. \A va \in VA : Slot(p, va)' = Slot(p, va)  BY <1>2 DEF Slot
<1> DEFINE new == {va \in VA : sz[p] <= va /\ va < at[p]}
<1>8. \A va \in new : Page(p, va)' = Zero /\ Page(p, va) = None
  <2> SUFFICES ASSUME NEW va \in VA, sz[p] <= va, va < at[p]
               PROVE  Page(p, va)' = Zero /\ Page(p, va) = None
    OBVIOUS
  <2>1. pte[Slot(p, va)].pa # None /\ content[pte[Slot(p, va)].pa] = Zero  BY <1>5, <1>6
  <2>2. ~(va < sz[p])  BY <1>4
  <2>3. Page(p, va) = None  BY <2>2 DEF Page
  <2>4. Page(p, va)' = Zero  BY <1>2, <1>3, <1>4, <1>7, <2>1 DEF Page
  <2> QED BY <2>3, <2>4
<1>9. \A va \in VA \ new : Page(p, va)' = Page(p, va)
  BY <1>2, <1>3, <1>4, <1>5, <1>7 DEF Page
<1> HIDE DEF new
<1>10. new \in SUBSET VA  BY DEF new
<1>11. UserMem[p] = [va \in VA |-> Page(p, va)]  BY PagesSeen
<1>12. [va \in VA |-> Page(p, va)'] = [va \in VA |-> IF va \in new THEN Zero ELSE UserMem[p][va]]
  BY <1>8, <1>9, <1>11
<1>13. ~ForkDone(p)  BY <1>1 DEF ForkDone, At
<1>14. UserMem' = [UserMem EXCEPT ![p] = [va \in VA |-> IF va \in new THEN Zero ELSE UserMem[p][va]]]
  BY <1>0, <1>12, <1>13, OwnUpdate
<1>15. \A va \in new : UserMem[p][va] = None  BY <1>8, <1>10, <1>11
<1> QED BY <1>3, <1>10, <1>14, <1>15 DEF Private!Grow

\* exec replaces the whole memory by the image at once, exit gives it up.
LEMMA ExecRefines ==
  ASSUME MemInv, MemInv', NEW p \in Procs, ExecCommit(p)
  PROVE  \E top \in VA : Private!Exec(p, top)
<1>0. TypeOK /\ KernelStep(p) /\ FilledOk(p) /\ LayoutOk(p) /\ FreeNotInUse'
  BY MemParts DEF KernelStep, MemInv, RefInv
<1>2. /\ mode[p] = "grow" /\ mode' = [mode EXCEPT ![p] = "freeold"] /\ dir[p] = "image" /\ at[p] = tgt[p]
      /\ sz' = [sz EXCEPT ![p] = tgt[p]] /\ pgdir' = [pgdir EXCEPT ![p] = Spare(p)] /\ UNCHANGED <<pte, content>>
  BY DEF ExecCommit, At, Goto
<1>3. p \in UserAlive /\ UserAlive' = UserAlive  BY <1>0, <1>2 DEF UserAlive, TypeOK
<1>4. tgt[p] >= 2 /\ tgt[p] \in 0 .. NPages /\ NPages \in Nat /\ VA = 0 .. NPages - 1
  BY <1>0, <1>2, ProcType DEF FilledOk, TypeOK
<1>5. PICK top \in VA : top = tgt[p] - 1  BY <1>4
<1>6. \A va \in VA : Slot(p, va)' = <<p, Spare(p), va>> /\ sz'[p] = tgt[p]
  BY <1>0, <1>2 DEF Slot, TypeOK
<1>7. \A va \in VA : pte[<<p, Spare(p), va>>].pa # None <=> va < tgt[p]
  BY <1>0, <1>2 DEF LayoutOk, Exactly, Table
<1>8. \A va \in VA : va < tgt[p] => content[pte[<<p, Spare(p), va>>].pa] = IF va = top - 1 THEN Zero ELSE Text
  <2>1. \A va \in VA : va < tgt[p] => content[pte[<<p, Spare(p), va>>].pa] = Laid(p, va)
    BY <1>0, <1>2 DEF FilledOk
  <2>2. top - 1 = tgt[p] - 2  BY <1>4, <1>5
  <2> QED BY <2>1, <2>2 DEF Laid
<1>9. \A va \in VA : va > top <=> ~(va < tgt[p])  BY <1>4, <1>5
<1>10. \A va \in VA : Page(p, va)' = IF va > top THEN None ELSE IF va = top - 1 THEN Zero ELSE Text
  <2> SUFFICES ASSUME NEW va \in VA
               PROVE  Page(p, va)' = IF va > top THEN None ELSE IF va = top - 1 THEN Zero ELSE Text
    OBVIOUS
  <2>1. Page(p, va)' = IF va < tgt[p] THEN content[pte[<<p, Spare(p), va>>].pa] ELSE None
    BY <1>2, <1>3, <1>6, <1>7 DEF Page
  <2> QED BY <1>8, <1>9, <2>1
<1>11. ~ForkDone(p)  BY <1>2 DEF ForkDone, At
<1> DEFINE image == [va \in VA |-> IF va > top THEN None ELSE IF va = top - 1 THEN Zero ELSE Text]
<1>12. [va \in VA |-> Page(p, va)'] = image  BY <1>10
<1>13. UserMem' = [UserMem EXCEPT ![p] = image]  BY <1>0, <1>11, <1>12, OwnUpdate
<1> QED BY <1>3, <1>13 DEF Private!Exec

LEMMA ExitRefines ==
  ASSUME MemInv, FreeNotInUse', NEW p \in Procs, UserStep(p) \/ KernelStep(p), Exit(p)
  PROVE  Private!Exit(p)
<1>0. TypeOK  BY MemParts
<1>1. mode[p] \in {"user", "exiting"} /\ mode' = [mode EXCEPT ![p] = "zombie"]  BY DEF Exit, Goto
<1>2. p \in UserAlive /\ UserAlive' = UserAlive \ {p} /\ p \notin UserAlive'
  BY <1>0, <1>1 DEF UserAlive, TypeOK
<1>3. \A va \in VA : Page(p, va)' = None  BY <1>2 DEF Page
<1>4. [va \in VA |-> Page(p, va)'] = Private!Blank  BY <1>3 DEF Private!Blank
<1>5. ~ForkDone(p)  BY <1>1 DEF ForkDone, At
<1>6. UserMem' = [UserMem EXCEPT ![p] = Private!Blank]  BY <1>4, <1>5, OwnUpdate
<1> QED BY <1>2, <1>6 DEF Private!Exit

\* deallocuvm gives a page back where sbrk shrinks a process, and elsewhere frees only
\* what no program sees.
LEMMA FreeRefines ==
  ASSUME MemInv, FreeNotInUse', NEW p \in Procs, deallocuvm(p)
  PROVE  \/ UNCHANGED <<UserAlive, UserMem>>
         \/ \E va \in VA : Private!Release(p, va)
<1>0. TypeOK /\ ForkShape /\ ReapShape /\ KernelStep(p) /\ RefInv  BY MemParts DEF KernelStep, MemInv
<1>a. /\ VA = 0 .. NPages - 1 /\ NPages \in Nat /\ sz[p] \in 0 .. NPages /\ Spare(p) # pgdir[p]
      /\ tgt[p] \in 0 .. NPages /\ dir[p] \in {"pgdir", "image"}
  BY <1>0, ProcType
<1>1. PICK s \in Slots : /\ s \in Doomed(p)
                         /\ \A t \in Slots : pte'[t].pa = IF t = s THEN None ELSE pte[t].pa
  BY FreeEntry
<1>2. UNCHANGED <<mode, sz, pgdir>>  BY DEF deallocuvm, proc
<1>3. mode[p] \in {"unfork", "reap", "freeold", "shrink", "ungrow"}  BY <1>1 DEF Doomed
<1>4. p \in UserAlive /\ UserAlive' = UserAlive /\ mode'[p] # "zombie"  BY <1>2, <1>3 DEF UserAlive
<1>5. ~ForkDone(p) /\ \A x \in VA, v \in Values : ~Write(p, x, v)  BY <1>3 DEF ForkDone, Write, At
<1>6. \A x \in VA : Slot(p, x) \in Slots  BY <1>0, SlotType
<1>7. ASSUME NEW x \in VA, x < sz[p] => Slot(p, x) # s PROVE Page(p, x)' = Page(p, x)
  <2>1. x < sz[p] => pte'[Slot(p, x)].pa = pte[Slot(p, x)].pa  BY <1>1, <1>6, <1>7
  <2> QED BY <1>0, <1>2, <1>4, <1>5, <2>1, OwnSees
<1>8. CASE mode[p] # "shrink"
  <2>1. ASSUME NEW x \in VA, x < sz[p] PROVE Slot(p, x) # s
    <3>1. CASE mode[p] \in {"unfork", "reap"}
      <4>1. kid[p] # p  BY <1>0, <3>1 DEF ForkShape, ReapShape, Forkers
      <4> QED BY <1>1, <3>1, <4>1 DEF Doomed, Slot
    <3>2. CASE mode[p] = "freeold"  BY <1>a, <1>1, <3>2 DEF Doomed, Slot
    <3>3. CASE mode[p] = "ungrow" /\ dir[p] = "image"  BY <1>a, <1>1, <3>3 DEF Doomed, Slot, Table
    <3>4. CASE mode[p] = "ungrow" /\ dir[p] # "image"
      <4>1. s[3] \in sz[p] .. NPages - 1  BY <1>1, <3>4 DEF Doomed
      <4> QED BY <1>a, <2>1, <4>1 DEF Slot
    <3> QED BY <1>3, <1>8, <3>1, <3>2, <3>3, <3>4
  <2>2. \A x \in VA : Page(p, x)' = Page(p, x)  BY <1>7, <2>1
  <2> QED BY <1>0, <1>4, <1>5, <2>2, NothingSeen
<1>9. CASE mode[p] = "shrink"
  <2>1. PICK va \in tgt[p] .. NPages - 1 : s = Slot(p, va)  BY <1>1, <1>9 DEF Doomed
  <2>2. va \in VA  BY <1>a
  <2>3. \A x \in VA : x # va => Page(p, x)' = Page(p, x)  BY <1>7, <2>1 DEF Slot
  <2>4. Slot(p, va)' = Slot(p, va) /\ pte'[Slot(p, va)].pa = None  BY <1>1, <1>2, <2>1 DEF Slot
  <2>5. Page(p, va)' = None  BY <2>4 DEF Page
  <2>6. UserMem[p] = [x \in VA |-> Page(p, x)]  BY PagesSeen
  <2>7. [x \in VA |-> Page(p, x)'] = [UserMem[p] EXCEPT ![va] = None]  BY <2>2, <2>3, <2>5, <2>6
  <2>8. UserMem' = [UserMem EXCEPT ![p] = [UserMem[p] EXCEPT ![va] = None]]
    BY <1>0, <1>5, <2>7, OwnUpdate
  <2> QED BY <1>4, <2>2, <2>8 DEF Private!Release
<1> QED BY <1>8, <1>9

\* CoW_handler's copy has the content of the page it replaces.
LEMMA CopyUnseen ==
  ASSUME MemInv, FreeNotInUse', NEW p \in Procs, CoWCopy(p)
  PROVE  UNCHANGED <<UserAlive, UserMem>>
<1>0. /\ TypeOK /\ FaultShape /\ HoldShape /\ KernelStep(p)  BY MemParts DEF KernelStep
<1>1. /\ mode[p] = "copy" /\ mode' = [mode EXCEPT ![p] = "drop"] /\ UNCHANGED <<sz, pgdir, at>>
      /\ content' = [content EXCEPT ![hold[p]] = content[pte[Slot(p, at[p])].pa]]
      /\ pte' = [pte EXCEPT ![Slot(p, at[p])] = [pa |-> hold[p], w |-> TRUE, u |-> TRUE]]
  BY DEF CoWCopy, At, Goto, regs
<1>2. at[p] \in VA /\ hold[p] \in Frames /\ pte[Slot(p, at[p])].pa \in Frames /\ None \notin Frames
  BY <1>0, <1>1, CoWAssumption DEF FaultShape, HoldShape
<1>3. p \in UserAlive /\ p \in UserAlive'  BY <1>0, <1>1 DEF UserAlive, TypeOK
<1>4. \A x \in VA : Slot(p, x) \in Slots /\ pte[Slot(p, x)] \in Entry /\ Slot(p, x)' = Slot(p, x)
  BY <1>0, <1>1, SlotType DEF Slot
<1>5. \A x \in VA : pte'[Slot(p, x)].pa = IF x = at[p] THEN hold[p] ELSE pte[Slot(p, x)].pa
  BY <1>0, <1>1, <1>2, <1>4 DEF TypeOK, Slot
<1>6. content'[hold[p]] = content[pte[Slot(p, at[p])].pa]  BY <1>0, <1>1, <1>2 DEF TypeOK
<1>7. \A x \in VA : pte[Slot(p, x)].pa # hold[p]  BY <1>0, <1>1, <1>4 DEF HoldShape
<1>8. \A x \in VA : pte[Slot(p, x)].pa # None => content'[pte[Slot(p, x)].pa] = content[pte[Slot(p, x)].pa]
  BY <1>0, <1>1, <1>2, <1>4, <1>7 DEF TypeOK, Entry
<1>9. ASSUME NEW x \in VA PROVE Page(p, x)' = Page(p, x)
  <2>1. CASE x = at[p]
    <3>1. pte'[Slot(p, x)].pa = hold[p] /\ Slot(p, x)' = Slot(p, x)  BY <1>4, <1>5, <2>1
    <3> QED BY <1>1, <1>2, <1>3, <1>6, <2>1, <3>1 DEF Page
  <2>2. CASE x # at[p]
    <3>1. pte'[Slot(p, x)].pa = pte[Slot(p, x)].pa /\ Slot(p, x)' = Slot(p, x)  BY <1>4, <1>5, <2>2
    <3>2. sz'[p] = sz[p]  BY <1>1
    <3> QED BY <1>3, <1>8, <3>1, <3>2 DEF Page
  <2> QED BY <2>1, <2>2
<1>10. ~ForkDone(p)  BY <1>1 DEF ForkDone, At
<1> QED BY <1>0, <1>3, <1>9, <1>10, NothingSeen

\* When growproc sets the smaller size, the pages above it are already gone.
LEMMA ShrinkUnseen ==
  ASSUME MemInv, FreeNotInUse', NEW p \in Procs, ShrinkDone(p)
  PROVE  UNCHANGED <<UserAlive, UserMem>>
<1>0. /\ TypeOK /\ RegsOk(p) /\ KernelStep(p)  BY MemParts DEF KernelStep
<1>a. VA = 0 .. NPages - 1 /\ NPages \in Nat /\ sz[p] \in 0 .. NPages /\ tgt[p] \in 0 .. NPages
  BY <1>0, ProcType
<1>1. mode[p] = "shrink" /\ Present(Doomed(p)) = {}  BY DEF ShrinkDone, Freed, At
<1>2. 0 < tgt[p] /\ tgt[p] < sz[p]  BY <1>0, <1>1 DEF RegsOk
<1>3. /\ mode' = [mode EXCEPT ![p] = "user"] /\ UNCHANGED <<pte, pgdir, content>>
      /\ sz' = [sz EXCEPT ![p] = tgt[p]]
  BY <1>a, <1>2 DEF ShrinkDone, Return, Goto
<1>4. \A x \in VA : x >= tgt[p] => pte[Slot(p, x)].pa = None
  BY <1>a, <1>1 DEF Present, Doomed
<1>5. p \in UserAlive /\ p \in UserAlive'  BY <1>0, <1>1, <1>3 DEF UserAlive, TypeOK
<1>6. sz'[p] = tgt[p]  BY <1>0, <1>3 DEF TypeOK
<1>7. ASSUME NEW x \in VA PROVE Page(p, x)' = Page(p, x)
  <2>1. Slot(p, x)' = Slot(p, x)  BY <1>3 DEF Slot
  <2>2. x < tgt[p] => x < sz[p]  BY <1>a, <1>2
  <2>3. ~(x < tgt[p]) => pte[Slot(p, x)].pa = None  BY <1>a, <1>4
  <2> QED BY <1>3, <1>5, <1>6, <2>1, <2>2, <2>3 DEF Page
<1>8. ~ForkDone(p)  BY <1>1 DEF ForkDone, At
<1> QED BY <1>0, <1>5, <1>7, <1>8, NothingSeen

\* The other steps leave the frames of the pages below sz alone.
LEMMA RestUnseen ==
  ASSUME MemInv, FreeNotInUse', NEW p \in Procs, UserStep(p) \/ KernelStep(p),
         mode'[p] \in Modes \ {"unused", "embryo", "zombie"},
         sz'[p] = sz[p], pgdir'[p] = pgdir[p], ~ForkDone(p),
         \A va \in VA, v \in Values : ~Write(p, va, v),
         \A va \in VA : va < sz[p] => pte'[Slot(p, va)].pa = pte[Slot(p, va)].pa
  PROVE  UNCHANGED <<UserAlive, UserMem>>
<1>1. p \in UserAlive' /\ mode'[p] # "zombie"  BY DEF UserAlive
<1>2. \A va \in VA : Page(p, va)' = Page(p, va)  BY <1>1, OwnSees
<1> QED BY <1>1, <1>2, NothingSeen

\* Every step of a process is a step of it in PrivateMemory or none at all.
LEMMA RefineStep ==
  ASSUME MemInv, MemInv', NEW p \in Procs, UserStep(p) \/ KernelStep(p)
  PROVE  Private!Step(p) \/ UNCHANGED <<UserAlive, UserMem>>
<1> USE DEF At, Goto, ClearRegs, Return, pool, regs, proc, panic, Freed, Modes
<1>0. TypeOK /\ ForkShape /\ ReapShape /\ RegsOk(p) /\ FreeNotInUse'  BY MemParts DEF MemInv, RefInv
<1>a. /\ VA = 0 .. NPages - 1 /\ NPages \in Nat /\ sz[p] \in 0 .. NPages /\ at[p] \in 0 .. NPages
      /\ Spare(p) # pgdir[p]
  BY <1>0, ProcType
<1>b. mode \in [Procs -> Modes] /\ pgdir \in [Procs -> Tables] /\ sz \in [Procs -> 0 .. NPages]  BY <1>0 DEF TypeOK
<1>c. \A va \in VA : Slot(p, va) \in Slots  BY <1>0, SlotType
<1> DEFINE Quiet == UNCHANGED <<UserAlive, UserMem>>
\* The entries of p's table do not change at all.
<1>d. ASSUME mode'[p] \in Modes \ {"unused", "embryo", "zombie"}, sz'[p] = sz[p], pgdir'[p] = pgdir[p],
             ~ForkDone(p), \A va \in VA, v \in Values : ~Write(p, va, v), UNCHANGED pte
      PROVE  Quiet
  BY <1>0, <1>d, RestUnseen
<1>w. mode'[p] # "user" \/ mode[p] # "user" => \A va \in VA, v \in Values : ~Write(p, va, v)
  BY DEF Write
<1>1. CASE UserStep(p)
  <2>0. mode[p] = "user" /\ ~ForkDone(p)
    BY <1>1 DEF UserStep, Write, Fault, Fork, Wait, Grow, Shrink, Exec, Exit, ForkDone
  <2>1. ASSUME NEW va \in VA, NEW v \in Values, Write(p, va, v) PROVE Private!Step(p)
    BY <1>0, <2>1, WriteRefines DEF Private!Step
  <2>2. ASSUME NEW va \in VA, Fault(p, va) PROVE Quiet
    <3>1. mode'[p] = "fault" /\ UNCHANGED <<pte, sz, pgdir>>  BY <1>b, <2>2 DEF Fault
    <3> QED BY <1>d, <1>w, <2>0, <3>1
  <2>3. ASSUME NEW c \in Procs, Fork(p, c) PROVE Quiet
    <3>1. mode'[p] = "fork" /\ UNCHANGED <<pte, sz>> /\ pgdir'[p] = pgdir[p]  BY <1>b, <2>0, <2>3 DEF Fork
    <3> QED BY <1>d, <1>w, <2>0, <3>1
  <2>4. ASSUME NEW c \in Procs, Wait(p, c) PROVE Quiet
    <3>1. mode'[p] = "reap" /\ UNCHANGED <<pte, sz, pgdir>>  BY <1>b, <2>4 DEF Wait
    <3> QED BY <1>d, <1>w, <2>0, <3>1
  <2>5. ASSUME NEW n \in 0 .. NPages, Grow(p, n) \/ Shrink(p, n) PROVE Quiet
    <3>1. mode'[p] \in {"grow", "shrink"} /\ UNCHANGED <<pte, sz, pgdir>>  BY <1>b, <2>5 DEF Grow, Shrink
    <3> QED BY <1>d, <1>w, <2>0, <3>1
  <2>6. ASSUME NEW n \in Images, Exec(p, n) PROVE Quiet
    <3>1. mode'[p] = "grow" /\ UNCHANGED <<pte, sz, pgdir>>  BY <1>b, <2>6 DEF Exec
    <3> QED BY <1>d, <1>w, <2>0, <3>1
  <2>7. CASE Exit(p)  BY <1>0, <2>7, ExitRefines DEF Private!Step
  <2> QED BY <1>1, <2>1, <2>2, <2>3, <2>4, <2>5, <2>6, <2>7 DEF UserStep
<1>2. CASE CoWCheck(p) \/ CoWAlloc(p) \/ CoWOutOfMemory(p) \/ CoWDrop(p)
  <2>1. /\ mode[p] \in {"fault", "alloc", "drop"} /\ UNCHANGED <<pte, sz, pgdir>>
        /\ mode'[p] \in Modes \ {"unused", "embryo", "zombie"}
    BY <1>2, <1>b DEF CoWCheck, CoWAlloc, CoWOutOfMemory, CoWDrop
  <2> QED BY <1>d, <1>w, <2>1 DEF ForkDone
<1>3. CASE CoWSetW(p) \/ CopyBad(p)
  <2>1. at[p] \in VA /\ mode[p] \in {"setw", "fork"}
    BY <1>a, <1>3, MemParts DEF FaultShape, CoWSetW, CopyBad
  <2>2. \A s \in Slots : pte'[s].pa = pte[s].pa
    BY <1>0, <1>3, <2>1, SlotType, SetWrite DEF CoWSetW, CopyBad
  <2>3. mode'[p] \in {"user", "unfork"} /\ UNCHANGED <<sz, pgdir>>  BY <1>b, <1>3 DEF CoWSetW, CopyBad
  <2>4. ~ForkDone(p)
    <3>1. CASE CoWSetW(p)  BY <3>1 DEF CoWSetW, ForkDone
    <3>2. CASE CopyBad(p)  BY <1>a, <3>2 DEF CopyBad, ForkDone
    <3> QED BY <1>3, <3>1, <3>2
  <2> QED BY <1>0, <1>c, <1>w, <2>1, <2>2, <2>3, <2>4, RestUnseen
<1>4. CASE CoWCopy(p)  BY <1>0, <1>4, CopyUnseen
<1>5. CASE CopyPage(p)
  <2>1. /\ mode[p] = "fork" /\ mode'[p] = "incr" /\ kid[p] # p /\ UNCHANGED <<sz, pgdir>>
        /\ \A s \in Slots : s # Slot(kid[p], at[p]) => pte'[s].pa = pte[s].pa
    BY <1>b, <1>5, CopyPageEntry
  <2>2. \A va \in VA : pte'[Slot(p, va)].pa = pte[Slot(p, va)].pa  BY <1>c, <2>1 DEF Slot
  <2>3. ~ForkDone(p)  BY <1>a, <1>5 DEF CopyPage, ForkDone
  <2> QED BY <1>0, <1>w, <2>1, <2>2, <2>3, RestUnseen
<1>6. CASE CopyIncr(p) \/ AllocPage(p) \/ MapFails(p) \/ ExecBad(p)
  <2>1. /\ mode[p] \in {"incr", "grow", "map"} /\ UNCHANGED <<pte, sz, pgdir>>
        /\ mode'[p] \in Modes \ {"unused", "embryo", "zombie"}
    BY <1>6, <1>b DEF CopyIncr, AllocPage, MapFails, ExecBad
  <2> QED BY <1>d, <1>w, <2>1 DEF ForkDone
<1>7. CASE ForkDone(p)  BY <1>0, <1>7, ForkRefines DEF Private!Step
<1>8. CASE MapPage(p)
  <2>1. /\ mode[p] = "map" /\ mode'[p] = "grow" /\ UNCHANGED <<sz, pgdir>>
        /\ \A s \in Slots : s # <<p, Table(p), at[p]>> => pte'[s].pa = pte[s].pa
    BY <1>b, <1>8, MapPageEntry
  <2>2. ASSUME NEW va \in VA, va < sz[p] PROVE Slot(p, va) # <<p, Table(p), at[p]>>
    <3>1. CASE dir[p] = "pgdir"
      <4>1. sz[p] <= at[p]  BY <1>0, <2>1, <3>1 DEF RegsOk
      <4>2. va # at[p]  BY <1>a, <2>2, <4>1
      <4> QED BY <4>2 DEF Slot
    <3>2. CASE dir[p] # "pgdir"
      <4>1. Table(p) = Spare(p)  BY <1>0, <3>2 DEF Table, TypeOK
      <4> QED BY <1>a, <4>1 DEF Slot
    <3> QED BY <3>1, <3>2
  <2>3. \A va \in VA : va < sz[p] => pte'[Slot(p, va)].pa = pte[Slot(p, va)].pa  BY <1>c, <2>1, <2>2
  <2> QED BY <1>0, <1>w, <2>1, <2>3, RestUnseen DEF ForkDone
<1>9. CASE GrowDone(p)  BY <1>0, <1>9, GrowRefines DEF Private!Step
<1>10. CASE ExecCommit(p)  BY <1>10, ExecRefines DEF Private!Step
<1>11. CASE deallocuvm(p)  BY <1>0, <1>11, FreeRefines DEF Private!Step
<1>12. CASE UnforkDone(p) \/ ReapDone(p)
  <2>1. kid[p] \in Procs /\ kid[p] # p /\ mode[p] \in {"unfork", "reap"}
    BY <1>12, <1>0 DEF ForkShape, ReapShape, Forkers, UnforkDone, ReapDone
  <2>2. mode'[p] = "user" /\ UNCHANGED <<pte, sz, pgdir>>
    BY <1>12, <1>b, <2>1 DEF UnforkDone, ReapDone
  <2> QED BY <1>d, <1>w, <2>1, <2>2 DEF ForkDone
<1>13. CASE UngrowDone(p) \/ FreeOldDone(p)
  <2>1. mode[p] \in {"ungrow", "freeold"} /\ mode'[p] = "user" /\ UNCHANGED <<pte, sz, pgdir>>
    BY <1>13, <1>b DEF UngrowDone, FreeOldDone
  <2> QED BY <1>d, <1>w, <2>1 DEF ForkDone
<1>14. CASE ShrinkDone(p)  BY <1>0, <1>14, ShrinkUnseen
<1>15. CASE Exit(p)  BY <1>0, <1>15, ExitRefines DEF Private!Step
<1> QED BY <1>1, <1>2, <1>3, <1>4, <1>5, <1>6, <1>7, <1>8, <1>9, <1>10, <1>11, <1>12, <1>13, <1>14, <1>15
        DEF KernelStep

LEMMA RefineInit == Init => Private!Init
<1> SUFFICES ASSUME Init PROVE Private!Init
  OBVIOUS
<1>1. PICK f \in Frames :
        /\ pte = [s \in Slots |-> IF s = <<InitProc, "A", 0>>
                                    THEN [pa |-> f, w |-> TRUE, u |-> TRUE] ELSE NoPte]
        /\ content = [g \in Frames |-> IF g = f THEN Text ELSE Junk]
  BY DEF Init
<1>2. 0 \in VA /\ VA \subseteq Nat /\ None \notin Frames /\ Text \in Values /\ InitProc \in Procs
  BY CoWAssumption DEF VA
<1>3. UserAlive = {InitProc}  BY <1>2 DEF Init, UserAlive
<1>4. \A va \in VA : Slot(InitProc, va) = <<InitProc, "A", va>> /\ Slot(InitProc, va) \in Slots
  BY <1>2, SlotIn DEF Init, Slot, Tables
<1>5. \A va \in VA : pte[Slot(InitProc, va)].pa = IF va = 0 THEN f ELSE None
  BY <1>1, <1>4 DEF NoPte
<1>6. sz[InitProc] = 1 /\ content[f] = Text  BY <1>1, <1>2 DEF Init
<1>7. \A va \in VA : Page(InitProc, va) = IF va = 0 THEN Text ELSE None
  <2> SUFFICES ASSUME NEW va \in VA
               PROVE  Page(InitProc, va) = IF va = 0 THEN Text ELSE None
    OBVIOUS
  <2>0. InitProc \in UserAlive  BY <1>3
  <2>1. CASE va = 0
    <3>1. va < sz[InitProc] /\ pte[Slot(InitProc, va)].pa = f  BY <1>5, <1>6, <2>1
    <3>2. f # None  BY <1>2
    <3> QED BY <1>6, <2>0, <2>1, <3>1, <3>2 DEF Page
  <2>2. CASE va # 0
    <3>1. ~ (va < sz[InitProc])  BY <1>2, <1>6, <2>2
    <3> QED BY <2>2, <3>1 DEF Page
  <2> QED BY <2>1, <2>2
<1>8. \A q \in Procs \ {InitProc}, va \in VA : Page(q, va) = None  BY <1>3 DEF Page
<1>9. UserMem = [q \in Procs |-> [va \in VA |-> IF q = InitProc /\ va = 0 THEN Text ELSE None]]
  BY <1>2, <1>7, <1>8, PagesSeen
<1>10. [Private!Blank EXCEPT ![0] = Text] = [va \in VA |-> IF va = 0 THEN Text ELSE None]
  BY <1>2 DEF Private!Blank
<1>11. UserMem = [q \in Procs |-> IF q = InitProc THEN [Private!Blank EXCEPT ![0] = Text] ELSE Private!Blank]
  <2>1. \A q \in Procs : UserMem[q] = IF q = InitProc THEN [Private!Blank EXCEPT ![0] = Text] ELSE Private!Blank
    BY <1>9, <1>10 DEF Private!Blank
  <2>2. UserMem = [q \in Procs |-> UserMem[q]]  BY PagesSeen
  <2> QED BY <2>1, <2>2
<1> QED BY <1>2, <1>3, <1>11 DEF Private!Init

\* Copy-on-write cannot be told from giving every process memory of its own: fork copies
\* the whole memory at one instant, a write is seen by the writer only, sbrk adds zeros
\* and gives pages back, exec replaces everything at once.
THEOREM PrivateMemoryImplemented ==
  ASSUME MinSize > 0
  PROVE  SpecAny /\ UserOnly => ImplementsPrivateMemory
<1>1. Init => Private!Init  BY RefineInit
<1>2. MemInv /\ MemInv' /\ [Next]_vars => [Private!Next]_(Private!vars)
  <2> SUFFICES ASSUME MemInv, MemInv', [Next]_vars
               PROVE  Private!Next \/ UNCHANGED <<UserAlive, UserMem>>
    BY DEF Private!vars
  <2>1. CASE UNCHANGED vars
    BY <2>1 DEF vars, proc, UserAlive, UserMem, Slot
  <2>2. ASSUME NEW p \in Procs, UserStep(p) \/ KernelStep(p)
        PROVE  Private!Next \/ UNCHANGED <<UserAlive, UserMem>>
    BY <2>2, RefineStep DEF Private!Next
  <2> QED BY <2>1, <2>2 DEF Next, Halted
<1>3. MemInv /\ MemInv' =>
        [\A p \in Procs : UserStep(p) \/ KernelStep(p) => Private!Step(p)]_(Private!vars)
  <2> SUFFICES ASSUME MemInv, MemInv', NEW p \in Procs, UserStep(p) \/ KernelStep(p)
               PROVE  Private!Step(p) \/ UNCHANGED Private!vars
    OBVIOUS
  <2> QED BY RefineStep DEF Private!vars
<1>4. MemInv /\ MemInv' =>
        [\A p \in Procs, va \in VA, v \in Values : Write(p, va, v) => Private!Write(p, va, v)]_vars
  <2>1. MemInv' => FreeNotInUse'  BY DEF MemInv, RefInv
  <2> QED BY <2>1, WriteRefines
<1> QED BY <1>1, <1>2, <1>3, <1>4, MemInvariant, BelowKernbase, PTL
    DEF Spec, ImplementsPrivateMemory, Private!Spec
=============================================================================
