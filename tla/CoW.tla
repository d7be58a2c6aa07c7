-------------------------------- MODULE CoW --------------------------------
(***************************************************************************)
(* Copy-on-write address spaces: vm.c (allocuvm, deallocuvm, freevm,       *)
(* clearpteu, copyuvm, CoW_handler) with the operations of proc.c, exec.c  *)
(* and trap.c that drive them (fork, exit, wait, growproc, exec, the page  *)
(* fault), on the atomic frame allocator of PageAllocator.                 *)
(*                                                                         *)
(* A process runs in user mode or is inside one kernel operation; an       *)
(* operation advances one page, or one allocator call, at a time, and the  *)
(* steps of different processes interleave.  Page faults are interrupt     *)
(* gates and wait holds ptable.lock, so both keep their processor to       *)
(* themselves (Busy); every other operation can be preempted anywhere.     *)
(*                                                                         *)
(* The TLB: tlb[p] is the set of translations the processor may have       *)
(* cached for p since the last load of cr3, the page table's included.  A  *)
(* write goes through any writable one of them.  Writes of the kernel to   *)
(* the memory of the calling process (CR0_WP is set) are writes of p.      *)
(*                                                                         *)
(* Programs touch addresses below KERNBASE only; CoWKernel adds the others.*)
(*                                                                         *)
(* Kernel stacks, page directories and page-table pages do not come out of *)
(* Frames: that allocating one fails is a choice (CopyBad, MapFails).      *)
(***************************************************************************)
EXTENDS Integers, FiniteSets

CONSTANTS
  Frames,       \* physical pages for user memory
  Procs,        \* slots of ptable
  InitProc,     \* initproc; its program never exits, nor leaves its memory
  NPages,       \* bound: pages of a user address space
  Values,       \* contents of a page
  Zero, Text,   \* a page after memset; a page exec has loaded
  Junk,         \* a page after kfree
  None,         \* no frame, no process
  NCPU,         \* number of processors
  Images,       \* program sizes exec is called with, in pages
  MinSize       \* bound: sbrk leaves a process at least so many pages

ASSUME CoWAssumption ==
  /\ IsFiniteSet(Frames) /\ IsFiniteSet(Procs) /\ InitProc \in Procs
  /\ NPages \in Nat \ {0} /\ NCPU \in Nat \ {0} /\ MinSize \in Nat
  /\ Images \subseteq Nat
  /\ Zero \in Values /\ Text \in Values /\ None \notin Values /\ Junk # None
  /\ None \notin Frames /\ None \notin Procs

VARIABLES
  refc, free,   \* the frame allocator, see PageAllocator
  pte,          \* pte[p, k, va]: entry va of the page table k of process p
  pgdir,        \* p->pgdir: which of its tables p runs on
  sz,           \* p->sz, in pages
  parent,       \* p->parent
  mode,         \* p->state, and where in the kernel p is
  at,           \* the page the operation has got to
  tgt,          \* the size it is bringing the process to
  dir,          \* the page table allocuvm works on
  kid,          \* fork's np, wait's p
  hold,         \* a frame the operation has in a local variable only
  content,      \* what is in each frame
  tlb,          \* translations that may be cached
  panicked      \* the message of panic(), or "no"

Pool == INSTANCE PageAllocator

pool  == <<refc, free>>
regs  == <<at, tgt, dir, kid>>
proc  == <<sz, parent, mode, pgdir>>
vars == <<pool, pte, proc, regs, hold, content, tlb, panicked>>

VA      == 0 .. NPages - 1
Tables  == {"A", "B"}       \* at most two: exec builds a new one before it commits
Slots   == Procs \X Tables \X VA
Entry   == [pa : Frames \union {None}, w : BOOLEAN, u : BOOLEAN]
NoPte   == [pa |-> None, w |-> FALSE, u |-> FALSE]

Modes == {"unused", "embryo", "user", "exiting", "zombie",
          "fork", "incr", "unfork",
          "fault", "setw", "alloc", "copy", "drop",
          "grow", "map", "ungrow", "shrink", "freeold", "reap"}

TypeOK ==
  /\ refc \in [Frames -> Int] /\ free \subseteq Frames
  /\ pte \in [Slots -> Entry]
  /\ pgdir \in [Procs -> Tables]
  /\ sz \in [Procs -> 0 .. NPages]
  /\ parent \in [Procs -> Procs \union {None}]
  /\ mode \in [Procs -> Modes]
  /\ at \in [Procs -> 0 .. NPages] /\ tgt \in [Procs -> 0 .. NPages]
  /\ dir \in [Procs -> {"pgdir", "image"}]
  /\ kid \in [Procs -> Procs \union {None}]
  /\ hold \in [Procs -> Frames \union {None}]
  /\ content \in [Frames -> Values \union {Junk}]
  /\ tlb \in [Procs -> SUBSET (VA \X Frames \X BOOLEAN)]
  /\ panicked \in {"no", "oom", "remap", "copyuvm"}
-----------------------------------------------------------------------------
\* The state userinit leaves: initproc with one page, loaded by inituvm.
Init ==
  \E f \in Frames :
    /\ free = Frames \ {f}
    /\ refc = [g \in Frames |-> IF g = f THEN 1 ELSE 0]
    /\ pte = [s \in Slots |-> IF s = <<InitProc, "A", 0>>
                                THEN [pa |-> f, w |-> TRUE, u |-> TRUE] ELSE NoPte]
    /\ pgdir = [p \in Procs |-> "A"]
    /\ sz = [p \in Procs |-> IF p = InitProc THEN 1 ELSE 0]
    /\ parent = [p \in Procs |-> None]
    /\ mode = [p \in Procs |-> IF p = InitProc THEN "user" ELSE "unused"]
    /\ at = [p \in Procs |-> 0]
    /\ tgt = [p \in Procs |-> 0]
    /\ dir = [p \in Procs |-> "pgdir"]
    /\ kid = [p \in Procs |-> None]
    /\ hold = [p \in Procs |-> None]
    /\ content = [g \in Frames |-> IF g = f THEN Text ELSE Junk]
    /\ tlb = [p \in Procs |-> IF p = InitProc THEN {<<0, f, TRUE>>} ELSE {}]
    /\ panicked = "no"

\* Processes that have interrupts off in the kernel.
Busy == {p \in Procs : mode[p] \in {"fault", "setw", "alloc", "copy", "drop", "reap"}}

CanRun(p) == panicked = "no" /\ (p \in Busy \/ Cardinality(Busy) < NCPU)

At(p, m) == CanRun(p) /\ mode[p] = m

\* Nobody is inside wait's freevm, which runs under ptable.lock.
PtableFree == \A p \in Procs : mode[p] # "reap"

panic(why) == panicked' = why
              /\ UNCHANGED <<pool, pte, proc, regs, hold, content, tlb>>

\* The entry of p's page table for page va; the table p does not run on.
Slot(p, va) == <<p, pgdir[p], va>>
Spare(p) == IF pgdir[p] = "A" THEN "B" ELSE "A"

\* The translations table k of p gives when the entries are t.
Translations(t, p, k) ==
  {<<va, t[p, k, va].pa, t[p, k, va].w>> : va \in {v \in VA : t[p, k, v].pa # None}}

\* The locals of the kernel operation die when it returns.
ClearRegs(p) ==
  /\ at' = [at EXCEPT ![p] = 0]
  /\ tgt' = [tgt EXCEPT ![p] = 0]
  /\ dir' = [dir EXCEPT ![p] = "pgdir"]
  /\ kid' = [kid EXCEPT ![p] = None]

Goto(p, m) == mode' = [mode EXCEPT ![p] = m]

\* Return to user mode, after a load of cr3 or without one.
Return(p)    == Goto(p, "user") /\ ClearRegs(p)
lcr3(p, t)   == tlb' = [tlb EXCEPT ![p] = Translations(t, p, pgdir[p])]
keepTlb(p)   == tlb' = [tlb EXCEPT ![p] = @ \union Translations(pte, p, pgdir[p])]
-----------------------------------------------------------------------------
(***************************************************************************)
(* User mode.                                                              *)
(***************************************************************************)
\* A write that some cached translation lets through.
Write(p, va, v) ==
  /\ At(p, "user")
  /\ \E e \in tlb[p] : /\ e[1] = va /\ e[3]
                       /\ content' = [content EXCEPT ![e[2]] = v]
  /\ UNCHANGED <<pool, pte, proc, regs, hold, tlb, panicked>>

\* An access below KERNBASE that the page table does not allow: trap() calls
\* CoW_handler.
Fault(p, va) ==
  /\ At(p, "user")
  /\ LET e == pte[Slot(p, va)] IN
       /\ ~e.w \/ ~e.u
       /\ e.pa = None => p # InitProc
  /\ Goto(p, "fault")
  /\ at' = [at EXCEPT ![p] = va]
  /\ UNCHANGED <<pool, pte, sz, parent, pgdir, tgt, dir, kid, hold, content, tlb, panicked>>
-----------------------------------------------------------------------------
(***************************************************************************)
(* CoW_handler, with interrupts off.                                       *)
(***************************************************************************)
\* Faulty variant: a frame with two references is taken for a private one.
CoWCheckOffByOne(p) ==
  LET pa == pte[Slot(p, at[p])].pa IN
  /\ At(p, "fault")
  /\ Goto(p, IF pa = None THEN "exiting" ELSE IF refc[pa] > 2 THEN "alloc" ELSE "setw")
  /\ UNCHANGED <<pool, pte, sz, parent, pgdir, regs, hold, content, tlb, panicked>>

\* The entry is looked up, and get_refc is called if it is present.
CoWCheck(p) ==
  LET pa == pte[Slot(p, at[p])].pa IN
  /\ At(p, "fault")
  /\ Goto(p, IF pa = None THEN "exiting" ELSE IF refc[pa] > 1 THEN "alloc" ELSE "setw")
  /\ UNCHANGED <<pool, pte, sz, parent, pgdir, regs, hold, content, tlb, panicked>>

\* Not shared: the entry becomes writable, cr3 is loaded.
CoWSetW(p) ==
  /\ At(p, "setw")
  /\ pte' = [pte EXCEPT ![Slot(p, at[p])].w = TRUE]
  /\ Return(p) /\ lcr3(p, pte')
  /\ UNCHANGED <<pool, sz, parent, pgdir, hold, content, panicked>>

\* Shared: a frame for the copy.
CoWAlloc(p) ==
  /\ At(p, "alloc")
  /\ \E f \in Frames : /\ Pool!kalloc(f)
                       /\ hold' = [hold EXCEPT ![p] = f]
  /\ Goto(p, "copy")
  /\ UNCHANGED <<pte, sz, parent, pgdir, regs, content, tlb, panicked>>

\* kalloc returned 0: panic.  Faulty variant: the handler tries again.
CoWOutOfMemoryRetries(p) == At(p, "alloc") /\ Pool!OutOfMemory /\ UNCHANGED vars

CoWOutOfMemory(p) == At(p, "alloc") /\ Pool!OutOfMemory /\ panic("oom")

\* Faulty variant: the page is not copied.
CoWCopyWithoutMove(p) ==
  LET s == Slot(p, at[p]) IN
  /\ At(p, "copy")
  /\ pte' = [pte EXCEPT ![s] = [pa |-> hold[p], w |-> TRUE, u |-> TRUE]]
  /\ hold' = [hold EXCEPT ![p] = pte[s].pa]
  /\ Goto(p, "drop")
  /\ UNCHANGED <<content, pool, sz, parent, pgdir, regs, tlb, panicked>>

\* memmove, and the entry points to the copy.
CoWCopy(p) ==
  LET pa == pte[Slot(p, at[p])].pa IN
  /\ At(p, "copy")
  /\ content' = [content EXCEPT ![hold[p]] = content[pa]]
  /\ pte' = [pte EXCEPT ![Slot(p, at[p])] = [pa |-> hold[p], w |-> TRUE, u |-> TRUE]]
  /\ hold' = [hold EXCEPT ![p] = pa]
  /\ Goto(p, "drop")
  /\ UNCHANGED <<pool, sz, parent, pgdir, regs, tlb, panicked>>

\* Faulty variant: the old frame keeps the reference.
CoWDropForgotten(p) ==
  /\ At(p, "drop")
  /\ hold' = [hold EXCEPT ![p] = None]
  /\ Return(p) /\ lcr3(p, pte)
  /\ UNCHANGED <<pool, pte, sz, parent, pgdir, content, panicked>>

\* decr_refc of the frame that was shared; cr3 is loaded.
CoWDrop(p) ==
  /\ At(p, "drop")
  /\ Pool!decr_refc(hold[p])
  /\ hold' = [hold EXCEPT ![p] = None]
  /\ Return(p) /\ lcr3(p, pte)
  /\ UNCHANGED <<pte, sz, parent, pgdir, content, panicked>>
-----------------------------------------------------------------------------
(***************************************************************************)
(* fork: allocproc, then copyuvm one page at a time.                       *)
(***************************************************************************)
Fork(p, c) ==
  /\ At(p, "user") /\ PtableFree
  /\ mode[c] = "unused"
  /\ mode' = [mode EXCEPT ![p] = "fork", ![c] = "embryo"]
  /\ kid' = [kid EXCEPT ![p] = c]
  /\ pgdir' = [pgdir EXCEPT ![c] = "A"]
  /\ UNCHANGED <<pool, pte, sz, parent, at, tgt, dir, hold, content, tlb, panicked>>

\* Faulty variant: the parent can still write the page.
CopyPageWritable(p) ==
  LET e == pte[Slot(p, at[p])] IN
  /\ At(p, "fork") /\ at[p] < sz[p] /\ e.pa # None
  /\ pte' = [pte EXCEPT ![Slot(kid[p], at[p])] = [e EXCEPT !.w = FALSE]]
  /\ Goto(p, "incr")
  /\ UNCHANGED <<pool, sz, parent, pgdir, regs, hold, content, tlb, panicked>>

\* The page is write-protected in the parent and mapped in the child ...
CopyPage(p) ==
  LET e == pte[Slot(p, at[p])]
      c == kid[p]
  IN
  /\ At(p, "fork") /\ at[p] < sz[p]
  /\ IF e.pa = None THEN panic("copyuvm")
     ELSE IF pte[Slot(c, at[p])].pa # None THEN panic("remap")
     ELSE /\ pte' = [pte EXCEPT ![Slot(p, at[p])].w = FALSE,
                                ![Slot(c, at[p])] = [e EXCEPT !.w = FALSE]]
          /\ Goto(p, "incr")
          /\ UNCHANGED <<pool, sz, parent, pgdir, regs, hold, content, tlb, panicked>>

\* Faulty variant: the child's entry is never counted.
CopyIncrForgotten(p) ==
  /\ At(p, "incr")
  /\ at' = [at EXCEPT ![p] = @ + 1]
  /\ Goto(p, "fork")
  /\ UNCHANGED <<pool, pte, sz, parent, pgdir, tgt, dir, kid, hold, content, tlb, panicked>>

\* ... and its reference is counted.
CopyIncr(p) ==
  /\ At(p, "incr")
  /\ Pool!incr_refc(pte[Slot(p, at[p])].pa)
  /\ at' = [at EXCEPT ![p] = @ + 1]
  /\ Goto(p, "fork")
  /\ UNCHANGED <<pte, sz, parent, pgdir, tgt, dir, kid, hold, content, tlb, panicked>>

\* mappages found no memory for a page-table page: goto bad.
CopyBad(p) ==
  /\ At(p, "fork") /\ at[p] < sz[p] /\ pte[Slot(p, at[p])].pa # None
  /\ pte' = [pte EXCEPT ![Slot(p, at[p])].w = FALSE]
  /\ Goto(p, "unfork")
  /\ UNCHANGED <<pool, sz, parent, pgdir, regs, hold, content, tlb, panicked>>

\* Faulty variant: cr3 is not loaded, writable translations survive.
ForkDoneNoFlush(p) ==
  LET c == kid[p] IN
  /\ At(p, "fork") /\ at[p] >= sz[p] /\ PtableFree
  /\ mode' = [mode EXCEPT ![p] = "user", ![c] = "user"]
  /\ sz' = [sz EXCEPT ![c] = sz[p]]
  /\ parent' = [parent EXCEPT ![c] = p]
  /\ tlb' = [tlb EXCEPT ![c] = Translations(pte, c, pgdir[c])]
  /\ ClearRegs(p)
  /\ UNCHANGED <<pool, pte, pgdir, hold, content, panicked>>

\* cr3 is loaded; the child becomes RUNNABLE.
ForkDone(p) ==
  LET c == kid[p] IN
  /\ At(p, "fork") /\ at[p] >= sz[p] /\ PtableFree
  /\ mode' = [mode EXCEPT ![p] = "user", ![c] = "user"]
  /\ sz' = [sz EXCEPT ![c] = sz[p]]
  /\ parent' = [parent EXCEPT ![c] = p]
  /\ tlb' = [tlb EXCEPT ![p] = Translations(pte, p, pgdir[p]),
                         ![c] = Translations(pte, c, pgdir[c])]
  /\ ClearRegs(p)
  /\ UNCHANGED <<pool, pte, pgdir, hold, content, panicked>>
-----------------------------------------------------------------------------
(***************************************************************************)
(* sbrk and exec: allocuvm one page at a time, on p's own table or on the  *)
(* one exec is building.                                                   *)
(***************************************************************************)
Grow(p, newsz) ==
  /\ At(p, "user") /\ newsz > sz[p]
  /\ Goto(p, "grow")
  /\ at' = [at EXCEPT ![p] = sz[p]]
  /\ tgt' = [tgt EXCEPT ![p] = newsz]
  /\ UNCHANGED <<pool, pte, sz, parent, pgdir, dir, kid, hold, content, tlb, panicked>>

\* n pages of program, an inaccessible page and a page of stack.
Exec(p, n) ==
  /\ At(p, "user") /\ n + 2 <= NPages
  /\ Goto(p, "grow")
  /\ tgt' = [tgt EXCEPT ![p] = n + 2]
  /\ dir' = [dir EXCEPT ![p] = "image"]
  /\ UNCHANGED <<pool, pte, sz, parent, pgdir, at, kid, hold, content, tlb, panicked>>

\* The table the pages go to.
Table(p) == IF dir[p] = "image" THEN Spare(p) ELSE pgdir[p]

\* Faulty variant: allocuvm does not clear the page, which kfree has filled.
FreshUncleared(p) == IF dir[p] = "image" THEN Text ELSE Junk

\* What memset, loaduvm and copyout leave in page va of the new memory.
Fresh(p) == IF dir[p] = "image" /\ at[p] # tgt[p] - 2 THEN Text ELSE Zero

AllocPage(p) ==
  /\ At(p, "grow") /\ at[p] < tgt[p]
  /\ \/ /\ \E f \in Frames : /\ Pool!kalloc(f)
                             /\ hold' = [hold EXCEPT ![p] = f]
                             /\ content' = [content EXCEPT ![f] = Fresh(p)]
        /\ Goto(p, "map")
     \/ /\ Pool!OutOfMemory
        /\ Goto(p, "ungrow")
        /\ UNCHANGED <<pool, hold, content>>
  /\ UNCHANGED <<pte, sz, parent, pgdir, regs, tlb, panicked>>

\* mappages; exec makes the page below the stack inaccessible (clearpteu).
MapPage(p) ==
  LET s == <<p, Table(p), at[p]>>
      guard == dir[p] = "image" /\ at[p] = tgt[p] - 2
  IN
  /\ At(p, "map")
  /\ IF pte[s].pa # None THEN panic("remap")
     ELSE /\ pte' = [pte EXCEPT ![s] = [pa |-> hold[p], w |-> TRUE, u |-> ~guard]]
          /\ hold' = [hold EXCEPT ![p] = None]
          /\ at' = [at EXCEPT ![p] = @ + 1]
          /\ Goto(p, "grow")
          /\ UNCHANGED <<pool, sz, parent, pgdir, tgt, dir, kid, content, tlb, panicked>>

\* mappages found no memory for a page-table page.
MapFails(p) ==
  /\ At(p, "map")
  /\ Goto(p, "ungrow")
  /\ UNCHANGED <<pool, pte, sz, parent, pgdir, regs, hold, content, tlb, panicked>>

\* exec: not a program, or its arguments do not fit: goto bad.
ExecBad(p) ==
  /\ At(p, "grow") /\ dir[p] = "image"
  /\ Goto(p, "ungrow")
  /\ UNCHANGED <<pool, pte, sz, parent, pgdir, regs, hold, content, tlb, panicked>>

\* Faulty variant: the new size is added to the old one.
GrowDoneAdds(p) ==
  /\ At(p, "grow") /\ dir[p] = "pgdir" /\ at[p] = tgt[p]
  /\ sz' = [sz EXCEPT ![p] = @ + tgt[p]]
  /\ Return(p) /\ lcr3(p, pte)
  /\ UNCHANGED <<pool, pte, parent, pgdir, hold, content, panicked>>

\* growproc succeeds: the new size counts, switchuvm loads cr3.
GrowDone(p) ==
  /\ At(p, "grow") /\ dir[p] = "pgdir" /\ at[p] = tgt[p]
  /\ sz' = [sz EXCEPT ![p] = tgt[p]]
  /\ Return(p) /\ lcr3(p, pte)
  /\ UNCHANGED <<pool, pte, parent, pgdir, hold, content, panicked>>

\* exec commits to the new image (switchuvm loads cr3) and then frees the old.
ExecCommit(p) ==
  /\ At(p, "grow") /\ dir[p] = "image" /\ at[p] = tgt[p]
  /\ sz' = [sz EXCEPT ![p] = tgt[p]]
  /\ pgdir' = [pgdir EXCEPT ![p] = Spare(p)]
  /\ tlb' = [tlb EXCEPT ![p] = Translations(pte, p, Spare(p))]
  /\ Goto(p, "freeold")
  /\ UNCHANGED <<pool, pte, parent, regs, hold, content, panicked>>

Shrink(p, newsz) ==
  /\ At(p, "user")
  /\ newsz < sz[p] /\ newsz >= MinSize
  /\ Goto(p, "shrink")
  /\ tgt' = [tgt EXCEPT ![p] = newsz]
  /\ UNCHANGED <<pool, pte, sz, parent, pgdir, at, dir, kid, hold, content, tlb, panicked>>
-----------------------------------------------------------------------------
(***************************************************************************)
(* deallocuvm, from every place it is called: the pages of one table from  *)
(* some page up, one kfree and one cleared entry at a time.                *)
(***************************************************************************)
Doomed(p) ==
  CASE mode[p] \in {"unfork", "reap"} -> {Slot(kid[p], va) : va \in VA}
    [] mode[p] = "freeold"            -> {<<p, Spare(p), va>> : va \in VA}
    [] mode[p] = "shrink"             -> {Slot(p, va) : va \in tgt[p] .. NPages - 1}
    [] mode[p] = "ungrow"             ->
         {<<p, Table(p), va>> : va \in (IF dir[p] = "image" THEN 0 ELSE sz[p]) .. NPages - 1}
    [] OTHER                          -> {}

Present(S) == {s \in S : pte[s].pa # None}

deallocuvm(p) ==
  /\ CanRun(p)
  /\ \E s \in Present(Doomed(p)) :
       /\ \A q \in Present(Doomed(p)) : s[3] <= q[3]
       /\ Pool!kfree(pte[s].pa)
       /\ content' = [content EXCEPT ![pte[s].pa] = IF pte[s].pa \in free' THEN Junk ELSE @]
       /\ pte' = [pte EXCEPT ![s] = NoPte]
  /\ UNCHANGED <<proc, regs, hold, tlb, panicked>>

\* Everything is freed.
Freed(p, m) == At(p, m) /\ Present(Doomed(p)) = {}

\* fork returns -1; cr3 has not been loaded.
UnforkDone(p) ==
  /\ Freed(p, "unfork")
  /\ mode' = [mode EXCEPT ![p] = "user", ![kid[p]] = "unused"]
  /\ ClearRegs(p) /\ keepTlb(p)
  /\ UNCHANGED <<pool, pte, sz, parent, pgdir, hold, content, panicked>>

\* Faulty variant: the page is not freed.
UngrowDoneLeaks(p) ==
  /\ Freed(p, "ungrow")
  /\ hold' = [hold EXCEPT ![p] = None]
  /\ Return(p) /\ keepTlb(p)
  /\ UNCHANGED <<pool, content, pte, sz, parent, pgdir, panicked>>

\* allocuvm frees the page it could not map; growproc or exec returns -1.
UngrowDone(p) ==
  /\ Freed(p, "ungrow")
  /\ IF hold[p] = None THEN UNCHANGED <<pool, content>>
     ELSE /\ Pool!kfree(hold[p])
          /\ content' = [content EXCEPT ![hold[p]] = IF hold[p] \in free' THEN Junk ELSE @]
  /\ hold' = [hold EXCEPT ![p] = None]
  /\ Return(p) /\ keepTlb(p)
  /\ UNCHANGED <<pte, sz, parent, pgdir, panicked>>

\* exec returns to the new program.
FreeOldDone(p) ==
  /\ Freed(p, "freeold")
  /\ Return(p) /\ keepTlb(p)
  /\ UNCHANGED <<pool, pte, sz, parent, pgdir, hold, content, panicked>>

\* Faulty variants: cr3 is not loaded; the size is not set.
ShrinkDoneNoFlush(p) ==
  /\ Freed(p, "shrink")
  /\ sz' = [sz EXCEPT ![p] = tgt[p]]
  /\ Return(p) /\ keepTlb(p)
  /\ UNCHANGED <<pool, pte, parent, pgdir, hold, content, panicked>>

ShrinkDoneKeepsSize(p) ==
  /\ Freed(p, "shrink")
  /\ Return(p) /\ lcr3(p, pte)
  /\ UNCHANGED <<pool, pte, sz, parent, pgdir, hold, content, panicked>>

\* growproc: the new size counts and cr3 is loaded, unless the new size is 0:
\* then deallocuvm's result looks like an error, and growproc returns -1.
ShrinkDone(p) ==
  /\ Freed(p, "shrink")
  /\ IF tgt[p] = 0
       THEN /\ keepTlb(p)
            /\ UNCHANGED sz
       ELSE /\ lcr3(p, pte)
            /\ sz' = [sz EXCEPT ![p] = tgt[p]]
  /\ Return(p)
  /\ UNCHANGED <<pool, pte, parent, pgdir, hold, content, panicked>>
-----------------------------------------------------------------------------
(***************************************************************************)
(* exit and wait.                                                          *)
(***************************************************************************)
Exit(p) ==
  /\ CanRun(p) /\ mode[p] \in {"user", "exiting"} /\ p # InitProc /\ PtableFree
  /\ parent' = [c \in Procs |-> IF parent[c] = p THEN InitProc ELSE parent[c]]
  /\ Goto(p, "zombie") /\ ClearRegs(p)
  /\ tlb' = [tlb EXCEPT ![p] = {}]
  /\ UNCHANGED <<pool, pte, sz, pgdir, hold, content, panicked>>

Wait(p, c) ==
  /\ At(p, "user") /\ PtableFree
  /\ parent[c] = p /\ mode[c] = "zombie"
  /\ Goto(p, "reap")
  /\ kid' = [kid EXCEPT ![p] = c]
  /\ UNCHANGED <<pool, pte, sz, parent, pgdir, at, tgt, dir, hold, content, tlb, panicked>>

ReapDone(p) ==
  /\ Freed(p, "reap")
  /\ mode' = [mode EXCEPT ![p] = "user", ![kid[p]] = "unused"]
  /\ parent' = [parent EXCEPT ![kid[p]] = None]
  /\ ClearRegs(p) /\ keepTlb(p)
  /\ UNCHANGED <<pool, pte, sz, pgdir, hold, content, panicked>>

\* panic() never returns.
Halted == panicked # "no" /\ UNCHANGED vars
-----------------------------------------------------------------------------
\* What p does next inside the kernel.
KernelStep(p) ==
  \/ CoWCheck(p) \/ CoWSetW(p) \/ CoWAlloc(p) \/ CoWOutOfMemory(p) \/ CoWCopy(p) \/ CoWDrop(p)
  \/ CopyPage(p) \/ CopyIncr(p) \/ CopyBad(p) \/ ForkDone(p)
  \/ AllocPage(p) \/ MapPage(p) \/ MapFails(p) \/ ExecBad(p) \/ GrowDone(p) \/ ExecCommit(p)
  \/ deallocuvm(p) \/ UnforkDone(p) \/ UngrowDone(p) \/ FreeOldDone(p) \/ ShrinkDone(p)
  \/ ReapDone(p)
  \/ mode[p] = "exiting" /\ Exit(p)

\* What p's program asks for.
UserStep(p) ==
  \/ \E va \in VA : Fault(p, va) \/ \E v \in Values : Write(p, va, v)
  \/ \E c \in Procs : Fork(p, c) \/ Wait(p, c)
  \/ \E n \in 0 .. NPages : Grow(p, n) \/ Shrink(p, n)
  \/ \E n \in Images : Exec(p, n)
  \/ mode[p] = "user" /\ Exit(p)

Next == Halted \/ \E p \in Procs : UserStep(p) \/ KernelStep(p)

Spec == Init /\ [][Next]_vars

(***************************************************************************)
(* A process inside the kernel is runnable; the timer and the round-robin  *)
(* scheduler give it a processor again and again.                          *)
(***************************************************************************)
FairSpec == Spec /\ \A p \in Procs : SF_vars(KernelStep(p))
-----------------------------------------------------------------------------
(***************************************************************************)
(* Properties, of programs that stay below KERNBASE.                       *)
(***************************************************************************)
MappedAt(f) == {s \in Slots : pte[s].pa = f}
HeldBy(f)   == {p \in Procs : hold[p] = f}

\* A child's page copyuvm has mapped and not yet counted.
Uncounted == {Slot(kid[p], at[p]) : p \in {q \in Procs : mode[q] = "incr"}}

\* refc_cnt counts exactly the page-table entries and the kernel locals that
\* refer to a frame, whatever faults, forks, failed forks and frees interleave.
RefcExact ==
  \A f \in Frames :
    refc[f] = Cardinality(MappedAt(f) \ Uncounted) + Cardinality(HeldBy(f))

\* A frame on the free list is mapped nowhere and in use by nobody.
FreeNotInUse ==
  \A f \in free : refc[f] = 0 /\ MappedAt(f) = {} /\ HeldBy(f) = {}

\* A frame some entry lets its process write is mapped by that entry alone.
WritableNotShared ==
  \A s, t \in Slots :
    pte[s].pa # None /\ pte[s].w /\ pte[t].pa = pte[s].pa => s = t

(***************************************************************************)
(* The inductive invariant behind the four properties above (CoWProofs).   *)
(* Forking: a forker owns its embryo; between mapping a page in the child  *)
(* and counting it, parent and child have the same frame there.  Reaping:  *)
(* one process at a time.  Faulting: what CoW_handler has found out about  *)
(* the entry stays true until it uses it.  Holding: a frame that was just  *)
(* allocated is known to nobody else.                                      *)
(***************************************************************************)
Forkers == {p \in Procs : mode[p] \in {"fork", "incr", "unfork"}}

ForkShape ==
  /\ \A p \in Forkers : kid[p] \in Procs /\ mode[kid[p]] = "embryo"
  /\ \A p, q \in Forkers : kid[p] = kid[q] => p = q
  /\ \A p \in Procs : mode[p] = "incr" =>
       /\ at[p] \in VA
       /\ pte[Slot(p, at[p])].pa \in Frames
       /\ pte[Slot(kid[p], at[p])].pa = pte[Slot(p, at[p])].pa

ReapShape ==
  /\ \A p \in Procs : mode[p] = "reap" => kid[p] \in Procs /\ mode[kid[p]] = "zombie"
  /\ \A p, q \in Procs : mode[p] = "reap" /\ mode[q] = "reap" => p = q

FaultShape ==
  \A p \in Procs :
    /\ mode[p] \in {"fault", "setw", "alloc", "copy", "drop", "map"} => at[p] \in VA
    /\ mode[p] \in {"setw", "alloc", "copy"} => pte[Slot(p, at[p])].pa \in Frames
    /\ mode[p] = "setw" =>
         \A s \in Slots : pte[s].pa = pte[Slot(p, at[p])].pa => s = Slot(p, at[p])

HoldShape ==
  \A p \in Procs :
    /\ mode[p] \in {"copy", "map", "drop"} => hold[p] \in Frames
    /\ hold[p] # None => mode[p] \in {"copy", "map", "drop", "ungrow"}
    /\ mode[p] \in {"copy", "map"} =>
         /\ \A s \in Slots : pte[s].pa # hold[p]
         /\ \A q \in Procs : hold[q] = hold[p] => q = p

RefInv ==
  /\ TypeOK /\ ForkShape /\ ReapShape /\ FaultShape /\ HoldShape
  /\ RefcExact /\ FreeNotInUse /\ WritableNotShared

\* In user mode no cached translation is out of date in a way that matters: it
\* names the frame the page table names, and if it is writable nobody else
\* maps that frame.  (A failed fork does leave writable entries for pages that
\* the table has write-protected.)
TlbSafe ==
  \A p \in Procs : mode[p] = "user" =>
    \A e \in tlb[p] :
      /\ pte[Slot(p, e[1])].pa = e[2]
      /\ e[3] => MappedAt(e[2]) = {Slot(p, e[1])}

\* No frame is lost: what is not free is mapped or in use.  test3.c checks this
\* for ten children with countfp.
NoLeak ==
  \A f \in Frames : f \in free \/ MappedAt(f) # {} \/ HeldBy(f) # {}

\* The panics in copyuvm ("page not present") and mappages ("remap") never
\* fire: every page below sz is mapped, none above it is.
AssertionsHold == panicked \in {"no", "oom"}

UserAlive == {p \in Procs : mode[p] \notin {"unused", "embryo", "zombie"}}
UserMem == [p \in Procs |-> [va \in VA |->
              LET f == pte[Slot(p, va)].pa IN
              IF p \in UserAlive /\ va < sz[p] /\ f # None THEN content[f] ELSE None]]
Private == INSTANCE PrivateMemory WITH alive <- UserAlive, mem <- UserMem

\* Every process sees a private memory, and what it does is what that memory
\* sees it do: a step of p changes no memory but its own and, once, that of the
\* child it gives its own to, and a write writes what the program wrote.
ImplementsPrivateMemory ==
  /\ Private!Spec
  /\ [][\A p \in Procs : UserStep(p) \/ KernelStep(p) => Private!Step(p)]_(Private!vars)
  /\ [][\A p \in Procs, va \in VA, v \in Values : Write(p, va, v) => Private!Write(p, va, v)]_vars

\* Every kernel operation ends: fork, sbrk, exec, wait's freevm and the page
\* fault handler return to user mode, or the process is gone.
KernelReturns ==
  \A p \in Procs :
    mode[p] \notin {"unused", "embryo", "user", "zombie"}
      ~> mode[p] \in {"user", "zombie"} \/ panicked # "no"
=============================================================================
