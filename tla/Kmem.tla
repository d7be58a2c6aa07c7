-------------------------------- MODULE Kmem --------------------------------
(***************************************************************************)
(* The physical page allocator of kalloc.c, one action per C statement     *)
(* that touches shared state, run by the kernel threads of a machine with  *)
(* NCPU processors.                                                        *)
(*                                                                         *)
(* Every function of kalloc.c has the same frame:                          *)
(*                                                                         *)
(*     if(kmem.use_lock) acquire(&kmem.lock);                              *)
(*     ... body ...                                                        *)
(*     if(kmem.use_lock) release(&kmem.lock);                              *)
(*                                                                         *)
(* and kfree additionally clears the shared flag kmem.use_lock while it    *)
(* runs its body, so that the get_refc and decr_refc calls inside it do    *)
(* not try to take the lock again.                                         *)
(*                                                                         *)
(* A thread whose interrupts are on can be preempted anywhere, so it may   *)
(* take a step whenever some processor is not occupied by a thread that    *)
(* has its interrupts off (CanRun).                                        *)
(***************************************************************************)
EXTENDS Integers, FiniteSets

CONSTANTS
  Threads,      \* kernel threads that call the allocator
  Frames,       \* physical pages
  NCPU,         \* number of processors
  Null,         \* the null pointer; also "no thread"
  MaxRefs,      \* bound: the largest reference count the callers build up
  UintMod       \* size of `uint': freecnt wraps around at it

ASSUME KmemAssumption ==
  /\ NCPU \in Nat \ {0}
  /\ MaxRefs \in Nat \ {0}
  /\ UintMod \in Nat \ {0}
  /\ Null \notin Frames
  /\ Null \notin Threads
  /\ IsFiniteSet(Threads)
  /\ IsFiniteSet(Frames)
  /\ Cardinality(Frames) < UintMod   \* PHYSTOP leaves 57344 pages; a uint counts to 2^32

VARIABLES
  lock,         \* kmem.lock: the thread that holds it, or Null
  use_lock,     \* kmem.use_lock
  freelist,     \* kmem.freelist
  next,         \* r->next of every page that has been on the free list
  freecnt,      \* kmem.freecnt
  refc,         \* kmem.refc_cnt
  unfreed,      \* pages kinit1 and kinit2 have not handed over yet
  booted,       \* has kinit2 returned?
  pc,           \* what each thread executes next
  op,           \* the function it is in
  arg,          \* its argument
  r,            \* kalloc's local r
  islock,       \* kfree's local islock
  intr,         \* threads whose interrupts are off
  fails,        \* history: how many kallocs have returned 0, as a uint
  panicked      \* has panic() been called?

kmem    == <<lock, use_lock, freelist, next, freecnt, refc>>
regs    == <<op, arg, r, islock>>
vars    == <<kmem, unfreed, booted, pc, regs, intr, fails, panicked>>

Ops    == {"kalloc", "kfree", "incr_refc", "decr_refc", "get_refc"}
Labels == {"idle", "test", "cli", "spin", "body", "pop", "count", "clear",
           "drop", "push", "restore", "test2", "release"}

TypeOK ==
  /\ lock \in Threads \union {Null}
  /\ use_lock \in BOOLEAN
  /\ freelist \in Frames \union {Null}
  /\ next \in [Frames -> Frames \union {Null}]
  /\ freecnt \in 0 .. UintMod - 1
  /\ refc \in [Frames -> Int]
  /\ unfreed \subseteq Frames
  /\ booted \in BOOLEAN
  /\ pc \in [Threads -> Labels]
  /\ op \in [Threads -> Ops]
  /\ arg \in [Threads -> Frames \union {Null}]
  /\ r \in [Threads -> Frames \union {Null}]
  /\ islock \in [Threads -> BOOLEAN]
  /\ intr \subseteq Threads
  /\ fails \in 0 .. UintMod - 1
  /\ panicked \in BOOLEAN
-----------------------------------------------------------------------------
\* kinit1 with an empty list; main() is the only thread until kinit2 ends.
Init ==
  /\ lock = Null
  /\ use_lock = FALSE
  /\ freelist = Null
  /\ next = [f \in Frames |-> Null]
  /\ freecnt = 0
  /\ refc = [f \in Frames |-> 0]
  /\ unfreed = Frames
  /\ booted = FALSE
  /\ pc = [t \in Threads |-> "idle"]
  /\ op = [t \in Threads |-> "kalloc"]
  /\ arg = [t \in Threads |-> Null]
  /\ r = [t \in Threads |-> Null]
  /\ islock = [t \in Threads |-> FALSE]
  /\ intr = {}
  /\ fails = 0
  /\ panicked = FALSE

\* A processor is there for t: its own (interrupts off) or a free one.
CanRun(t) == ~panicked /\ (t \in intr \/ Cardinality(intr) < NCPU)

\* freecnt is a uint.  Faulty variant: it does not wrap around.
UintUnbounded(n) == n
Uint(n) == n % UintMod

Goto(t, l) == pc' = [pc EXCEPT ![t] = l]

\* panic(): the machine stops, whatever the threads were doing.
panic == panicked' = TRUE
         /\ UNCHANGED <<kmem, unfreed, booted, pc, regs, intr, fails>>

(***************************************************************************)
(* Callers.  While the kernel boots main() is alone: freerange frees one   *)
(* page after another, kvmalloc and startothers allocate, and kinit2 turns *)
(* locking on.  Afterwards a caller passes a page only if it holds a       *)
(* reference to it, and every call in flight relies on one of its own      *)
(* (Using).  CoW_handler calls decr_refc only when get_refc has returned   *)
(* more than one, in the same interrupts-off section.                      *)
(***************************************************************************)
Alone == \A t \in Threads : pc[t] = "idle"

Using(f) ==
  {t \in Threads : /\ op[t] # "kalloc" /\ arg[t] = f
                   /\ pc[t] \notin {"idle", "push", "restore", "test2", "release"}}

Holds(f) == booted /\ refc[f] > Cardinality(Using(f))

Call(t, o, f, cli) ==
  /\ CanRun(t) /\ pc[t] = "idle"
  /\ Goto(t, "test")
  /\ op' = [op EXCEPT ![t] = o]
  /\ arg' = [arg EXCEPT ![t] = f]
  /\ intr' = IF cli THEN intr \union {t} ELSE intr
  /\ UNCHANGED <<kmem, booted, r, islock, fails, panicked>>

\* One turn of freerange's loop.
freerange(t) ==
  \E f \in unfreed : /\ Alone /\ Call(t, "kfree", f, TRUE)
                     /\ unfreed' = unfreed \ {f}

\* The end of kinit2.
kinit2 ==
  /\ Alone /\ unfreed = {} /\ ~booted /\ ~panicked
  /\ use_lock' = TRUE
  /\ booted' = TRUE
  /\ UNCHANGED <<lock, freelist, next, freecnt, refc, unfreed, pc, regs, intr,
                 fails, panicked>>

CallKalloc(t) ==
  \E cli \in BOOLEAN : (booted \/ Alone) /\ Call(t, "kalloc", Null, cli) /\ UNCHANGED unfreed
CallKfree(t) ==
  \E f \in Frames, cli \in BOOLEAN : Holds(f) /\ Call(t, "kfree", f, cli) /\ UNCHANGED unfreed
CallIncr(t) ==
  \E f \in Frames : Holds(f) /\ refc[f] < MaxRefs /\ Call(t, "incr_refc", f, FALSE) /\ UNCHANGED unfreed
CallDecr(t) ==
  \E f \in Frames : Holds(f) /\ refc[f] > 1 /\ Call(t, "decr_refc", f, TRUE) /\ UNCHANGED unfreed
CallGet(t) ==
  \E f \in Frames, cli \in BOOLEAN : Holds(f) /\ Call(t, "get_refc", f, cli) /\ UNCHANGED unfreed
-----------------------------------------------------------------------------
(***************************************************************************)
(* The locking frame around every body.                                    *)
(***************************************************************************)
\* if(kmem.use_lock) acquire(...)
Test(t) ==
  /\ CanRun(t) /\ pc[t] = "test"
  /\ Goto(t, IF use_lock THEN "cli" ELSE "body")
  /\ UNCHANGED <<kmem, unfreed, booted, regs, intr, fails, panicked>>

\* Faulty variant of acquire: interrupts stay on while the lock is held.
AcquireNoCli(t) ==
  /\ CanRun(t) /\ pc[t] = "cli"
  /\ Goto(t, "spin")
  /\ UNCHANGED <<kmem, unfreed, booted, regs, intr, fails, panicked>>

pushcli(t) == intr' = intr \union {t}

\* acquire: pushcli, and the check that this cpu does not hold the lock.
AcquireCli(t) ==
  /\ CanRun(t) /\ pc[t] = "cli"
  /\ IF lock = t THEN panic
     ELSE /\ Goto(t, "spin")
          /\ pushcli(t)
          /\ UNCHANGED <<kmem, unfreed, booted, regs, fails, panicked>>

\* acquire: the xchg finds the lock free, or spins.
AcquireSpin(t) ==
  /\ CanRun(t) /\ pc[t] = "spin"
  /\ IF lock = Null
       THEN /\ lock' = t
            /\ Goto(t, "body")
            /\ UNCHANGED <<use_lock, freelist, next, freecnt, refc, unfreed, booted, regs,
                           intr, fails, panicked>>
       ELSE UNCHANGED vars

\* popcli, here together with the end of the caller's own interrupts-off
\* section.
popcli(t) == intr' = intr \ {t}

\* The function returns: its locals are dead.
Return(t) ==
  /\ Goto(t, "idle")
  /\ popcli(t)
  /\ op' = [op EXCEPT ![t] = "kalloc"]
  /\ arg' = [arg EXCEPT ![t] = Null]
  /\ r' = [r EXCEPT ![t] = Null]
  /\ islock' = [islock EXCEPT ![t] = FALSE]

\* if(kmem.use_lock) release(...)
Test2(t) ==
  /\ CanRun(t) /\ pc[t] = "test2"
  /\ IF use_lock THEN Goto(t, "release") /\ UNCHANGED <<intr, regs>> ELSE Return(t)
  /\ UNCHANGED <<kmem, unfreed, booted, fails, panicked>>

\* release: the check that this cpu holds the lock, the store, popcli.
Release(t) ==
  /\ CanRun(t) /\ pc[t] = "release"
  /\ IF lock # t THEN panic
     ELSE /\ lock' = Null
          /\ Return(t)
          /\ UNCHANGED <<use_lock, freelist, next, freecnt, refc, unfreed, booted,
                         fails, panicked>>
-----------------------------------------------------------------------------
(***************************************************************************)
(* The bodies.                                                             *)
(***************************************************************************)
\* kalloc: r = kmem.freelist
KallocRead(t) ==
  /\ CanRun(t) /\ pc[t] = "body" /\ op[t] = "kalloc"
  /\ r' = [r EXCEPT ![t] = freelist]
  /\ Goto(t, "pop")
  /\ UNCHANGED <<kmem, unfreed, booted, op, arg, islock, intr, fails, panicked>>

\* Faulty variant: the frame keeps its old count.
KallocPopUncounted(t) ==
  /\ CanRun(t) /\ pc[t] = "pop"
  /\ freelist' = IF r[t] # Null THEN next[r[t]] ELSE freelist
  /\ fails' = IF r[t] = Null THEN Uint(fails + 1) ELSE fails
  /\ Goto(t, "count")
  /\ UNCHANGED <<lock, use_lock, next, freecnt, refc, unfreed, booted, regs, intr, panicked>>

\* kalloc: unlink r and count one reference to it
KallocPop(t) ==
  /\ CanRun(t) /\ pc[t] = "pop"
  /\ IF r[t] # Null
       THEN /\ freelist' = next[r[t]]
            /\ refc' = [refc EXCEPT ![r[t]] = 1]
            /\ UNCHANGED fails
       ELSE fails' = Uint(fails + 1) /\ UNCHANGED <<freelist, refc>>
  /\ Goto(t, "count")
  /\ UNCHANGED <<lock, use_lock, next, freecnt, unfreed, booted, regs, intr, panicked>>

\* kalloc: kmem.freecnt--, also when there was nothing to allocate
KallocCount(t) ==
  /\ CanRun(t) /\ pc[t] = "count"
  /\ freecnt' = Uint(freecnt - 1)
  /\ Goto(t, "test2")
  /\ UNCHANGED <<lock, use_lock, freelist, next, refc, unfreed, booted, regs, intr,
                 fails, panicked>>

\* kfree: int islock = kmem.use_lock
KfreeSave(t) ==
  /\ CanRun(t) /\ pc[t] = "body" /\ op[t] = "kfree"
  /\ islock' = [islock EXCEPT ![t] = use_lock]
  /\ Goto(t, "clear")
  /\ UNCHANGED <<kmem, unfreed, booted, op, arg, r, intr, fails, panicked>>

\* Faulty variant: use_lock stays on, the calls inside kfree take the lock.
KfreeKeepsLocking(t) ==
  /\ CanRun(t) /\ pc[t] = "clear"
  /\ Goto(t, "drop")
  /\ UNCHANGED <<kmem, unfreed, booted, regs, intr, fails, panicked>>

\* kfree: kmem.use_lock = 0
KfreeClear(t) ==
  /\ CanRun(t) /\ pc[t] = "clear"
  /\ use_lock' = FALSE
  /\ Goto(t, "drop")
  /\ UNCHANGED <<lock, freelist, next, freecnt, refc, unfreed, booted, regs, intr,
                 fails, panicked>>

(***************************************************************************)
(* The calls of get_refc and decr_refc inside kfree are functions with the *)
(* locking frame of their own.  Each `if' of kfree with the call it        *)
(* guards is one step here: plain when use_lock is off; when another       *)
(* thread has turned it on again the call acquires the lock, which panics  *)
(* if this thread holds it already and waits while another one does.       *)
(***************************************************************************)
NestedPanics(t) == use_lock /\ lock = t
NestedEnters(t) == use_lock => lock = Null

\* Faulty variant: the count is dropped without looking whether there is one.
KfreeDropAlways(t) ==
  /\ CanRun(t) /\ pc[t] = "drop"
  /\ refc' = [refc EXCEPT ![arg[t]] = @ - 1]
  /\ Goto(t, "push")
  /\ UNCHANGED <<lock, use_lock, freelist, next, freecnt, unfreed, booted, regs, intr, fails, panicked>>

\* kfree: if(get_refc(..) > 0) decr_refc(..)
KfreeDrop(t) ==
  /\ CanRun(t) /\ pc[t] = "drop"
  /\ IF NestedPanics(t) THEN panic
     ELSE /\ NestedEnters(t)
          /\ refc' = [refc EXCEPT ![arg[t]] = IF @ > 0 THEN @ - 1 ELSE @]
          /\ Goto(t, "push")
          /\ UNCHANGED <<lock, use_lock, freelist, next, freecnt, unfreed, booted, regs,
                         intr, fails, panicked>>

\* Faulty variant: the page is put on the list without being counted.
KfreePushUncounted(t) ==
  /\ CanRun(t) /\ pc[t] = "push"
  /\ IF refc[arg[t]] = 0
       THEN next' = [next EXCEPT ![arg[t]] = freelist] /\ freelist' = arg[t]
       ELSE UNCHANGED <<next, freelist>>
  /\ Goto(t, "restore")
  /\ UNCHANGED <<lock, use_lock, freecnt, refc, unfreed, booted, regs, intr, fails, panicked>>

\* kfree: if(get_refc(..) == 0) put the page on the list
KfreePush(t) ==
  /\ CanRun(t) /\ pc[t] = "push"
  /\ IF NestedPanics(t) THEN panic
     ELSE /\ NestedEnters(t)
          /\ IF refc[arg[t]] = 0
               THEN /\ next' = [next EXCEPT ![arg[t]] = freelist]
                    /\ freelist' = arg[t]
                    /\ freecnt' = Uint(freecnt + 1)
               ELSE UNCHANGED <<next, freelist, freecnt>>
          /\ Goto(t, "restore")
          /\ UNCHANGED <<lock, use_lock, refc, unfreed, booted, regs, intr, fails, panicked>>

\* Faulty variant: locking stays off.
KfreeNoRestore(t) ==
  /\ CanRun(t) /\ pc[t] = "restore"
  /\ Goto(t, "test2")
  /\ UNCHANGED <<kmem, unfreed, booted, regs, intr, fails, panicked>>

\* kfree: kmem.use_lock = islock
KfreeRestore(t) ==
  /\ CanRun(t) /\ pc[t] = "restore"
  /\ use_lock' = islock[t]
  /\ Goto(t, "test2")
  /\ UNCHANGED <<lock, freelist, next, freecnt, refc, unfreed, booted, regs, intr,
                 fails, panicked>>

\* incr_refc and decr_refc; get_refc changes nothing
RefcBody(t) ==
  /\ CanRun(t) /\ pc[t] = "body" /\ op[t] \in {"incr_refc", "decr_refc", "get_refc"}
  /\ refc' = [refc EXCEPT ![arg[t]] = CASE op[t] = "incr_refc" -> @ + 1
                                        [] op[t] = "decr_refc" -> @ - 1
                                        [] op[t] = "get_refc" -> @]
  /\ Goto(t, "test2")
  /\ UNCHANGED <<lock, use_lock, freelist, next, freecnt, unfreed, booted, regs, intr,
                 fails, panicked>>
-----------------------------------------------------------------------------
\* What a thread does once it has called an allocator function.
Step(t) ==
  \/ Test(t) \/ AcquireCli(t) \/ AcquireSpin(t) \/ Test2(t) \/ Release(t)
  \/ KallocRead(t) \/ KallocPop(t) \/ KallocCount(t)
  \/ KfreeSave(t) \/ KfreeClear(t) \/ KfreeDrop(t) \/ KfreePush(t) \/ KfreeRestore(t)
  \/ RefcBody(t)

CallAny(t) ==
  \/ freerange(t) \/ CallKalloc(t) \/ CallKfree(t)
  \/ CallIncr(t) \/ CallDecr(t) \/ CallGet(t)

Next == kinit2 \/ \E t \in Threads : CallAny(t) \/ Step(t)

Spec == Init /\ [][Next]_vars

(***************************************************************************)
(* The timer interrupt and the round-robin scheduler give every thread     *)
(* with interrupts on a processor again and again, and a thread with       *)
(* interrupts off runs on: a thread inside the allocator that could run    *)
(* infinitely often does.                                                  *)
(***************************************************************************)
FairSpec == Spec /\ \A t \in Threads : SF_vars(Step(t))
-----------------------------------------------------------------------------
(***************************************************************************)
(* Properties.                                                             *)
(***************************************************************************)
\* A thread executes the body of an allocator function.
Inside(t) == pc[t] \in {"body", "pop", "count", "clear", "drop", "push", "restore"}

\* kmem.lock protects the list and the counts (kalloc.c:21-27): two threads are
\* never inside the bodies together, although kfree turns use_lock off.
MutualExclusion ==
  \A t, u \in Threads : Inside(t) /\ Inside(u) => t = u

\* The checks in acquire ("acquire") and release ("release") never fire: no
\* thread re-acquires kmem.lock, none releases it without holding it.
NoPanic == ~panicked

\* After boot use_lock is off only while a kfree that will restore it runs:
\* no interleaving loses the flag and leaves the allocator unlocked for good.
LockingComesBack ==
  booted /\ ~use_lock =>
    \E t \in Threads : pc[t] \in {"drop", "push", "restore"} /\ islock[t]

\* Both halves of what the lock is for: use_lock goes off under the lock, nobody
\* gets in meanwhile, and it comes back.
LockSafe == MutualExclusion /\ LockingComesBack

\* The frames reached from kmem.freelist in at most n links.
Nodes == Cardinality(Frames)
Walk[n \in 0 .. Nodes] ==
  IF n = 0 THEN freelist
  ELSE IF Walk[n - 1] = Null THEN Null ELSE next[Walk[n - 1]]
Listed == {Walk[n] : n \in 0 .. Nodes} \ {Null}

\* A page between kfree's two calls of get_refc: not referenced, not listed.
BeingFreed == {arg[t] : t \in {u \in Threads : pc[u] = "push" /\ refc[arg[u]] = 0}}

\* kmem.freelist is a list (it ends, no page twice) and holds exactly the pages
\* without a reference that kinit has handed over: kfree and kalloc neither
\* lose a page nor hand out one that somebody still references.
FreeListExact ==
  /\ Walk[Nodes] = Null
  /\ Listed \intersect BeingFreed = {}
  /\ Listed \union BeingFreed \union {arg[t] : t \in {u \in Threads : op[u] = "kfree"
        /\ pc[u] \in {"test", "body", "clear", "drop"} /\ refc[arg[u]] = 0}}
       = {f \in Frames \ unfreed : refc[f] = 0}

\* Whenever nobody is inside, countfp's counter is the length of the list less
\* one for every kalloc that has failed: such a call decrements it too, nothing
\* ever makes up for that, and below zero it wraps.
FreeCountExact ==
  (\A t \in Threads : ~Inside(t)) => freecnt = Uint(Cardinality(Listed) - fails)

\* List, counts and counter agree; so kalloc finds the list empty only when every
\* page the kernel owns is referenced.
FreeExact == TypeOK /\ FreeListExact /\ FreeCountExact

\* The code implements the atomic allocator the rest of the kernel relies on.
Atomic == INSTANCE PageAllocator WITH free <- Listed \union BeingFreed
ImplementsPageAllocator == Atomic!Spec

\* A call of the allocator returns.
CallsReturn == \A t \in Threads : pc[t] # "idle" ~> pc[t] = "idle"
=============================================================================
