----------------------------- MODULE KmemProofs -----------------------------
(***************************************************************************)
(* Proofs about kalloc.c on one processor, the machine bootxv6.sh starts.  *)
(*                                                                         *)
(* The argument: from pushcli to popcli a thread is the only one that      *)
(* runs, so nobody tests kmem.use_lock while kfree has it off.  The        *)
(* inductive invariant says who holds kmem.lock at which label (LockInv)   *)
(* and which pages are chained from kmem.freelist (ListInv).               *)
(***************************************************************************)
EXTENDS Kmem, FiniteSetTheorems, WellFoundedInduction, TLAPS

Unlocking == {"drop", "push", "restore"}
Bodies    == {"body", "pop", "count", "clear"} \union Unlocking
Locked    == Bodies \union {"test2", "release"}

\* One processor has one thread with its interrupts off.
OneCpu == \A t, u \in intr : t = u

\* Outside the allocator a thread has its interrupts on and no locals.
IdleShape ==
  \A t \in Threads : pc[t] = "idle" => t \notin intr /\ op[t] = "kalloc"

\* main() is alone and locking is off.
BootShape ==
  ~booted => /\ lock = Null /\ ~use_lock
             /\ \A t, u \in Threads : pc[t] # "idle" /\ pc[u] # "idle" => t = u
             /\ \A t \in Threads : pc[t] \notin {"cli", "spin", "release"} /\ ~islock[t]

\* The holder of kmem.lock is the thread at a label under the lock, its
\* interrupts are off, and use_lock is off only while it is inside kfree.
BootedShape ==
  booted => /\ unfreed = {}
            /\ \A t \in Threads : lock = t <=> pc[t] \in Locked
            /\ \A t \in Threads : pc[t] \in Locked \union {"spin"} => t \in intr
            /\ use_lock <=> \A t \in Threads : pc[t] \notin Unlocking
            /\ \A t \in Threads : pc[t] \in {"clear"} \union Unlocking => islock[t]

LockInv == TypeOK /\ NoPanic /\ OneCpu /\ IdleShape /\ BootShape /\ BootedShape

\* On one processor a thread that can run is the only one with interrupts off.
LEMMA RunsAlone ==
  ASSUME NCPU = 1, TypeOK, OneCpu, NEW t \in Threads, CanRun(t)
  PROVE  \A u \in intr : u = t
<1>1. IsFiniteSet(intr) /\ Cardinality(intr) \in Nat
  BY KmemAssumption, FS_Subset, FS_CardinalityType DEF TypeOK
<1>2. CASE t \in intr  BY <1>2 DEF OneCpu
<1>3. CASE Cardinality(intr) < 1
  <2>1. intr = {}  BY <1>1, <1>3, FS_EmptySet
  <2> QED BY <2>1
<1> QED BY <1>2, <1>3 DEF CanRun

\* freecnt stays a uint.
LEMMA UintType == ASSUME NEW n \in Int PROVE Uint(n) \in 0 .. UintMod - 1
BY KmemAssumption DEF Uint

LEMMA TypeInit == Init => TypeOK
<1> SUFFICES ASSUME Init PROVE TypeOK  OBVIOUS
<1>1. freecnt \in 0 .. UintMod - 1 /\ fails \in 0 .. UintMod - 1  BY KmemAssumption DEF Init
<1>2. /\ next \in [Frames -> Frames \union {Null}] /\ refc \in [Frames -> Int]
      /\ pc \in [Threads -> Labels] /\ op \in [Threads -> Ops]
      /\ arg \in [Threads -> Frames \union {Null}] /\ r \in [Threads -> Frames \union {Null}]
      /\ islock \in [Threads -> BOOLEAN]
  BY DEF Init, Labels, Ops
<1> QED BY <1>1, <1>2 DEF Init, TypeOK

LEMMA LockInit == Init => LockInv
<1> SUFFICES ASSUME Init PROVE LockInv  OBVIOUS
<1>1. TypeOK  BY TypeInit
<1> QED BY <1>1, KmemAssumption DEF Init, LockInv, NoPanic, OneCpu, IdleShape, BootShape, BootedShape

\* The calls a thread can make, as one action.
LEMMA CallShape ==
  ASSUME TypeOK, NEW t \in Threads, CallAny(t)
  PROVE  \E o \in Ops, f \in Frames \union {Null}, cli \in BOOLEAN :
           /\ Call(t, o, f, cli) /\ (booted \/ Alone)
           /\ unfreed' \subseteq unfreed
<1>1. {"kalloc", "kfree", "incr_refc", "decr_refc", "get_refc"} \subseteq Ops  BY DEF Ops
<1>2. CASE freerange(t)
  <2>1. PICK f \in unfreed : Alone /\ Call(t, "kfree", f, TRUE) /\ unfreed' = unfreed \ {f}
    BY <1>2 DEF freerange
  <2>2. f \in Frames \union {Null} /\ unfreed' \subseteq unfreed  BY <2>1 DEF TypeOK
  <2> QED BY <1>1, <2>1, <2>2, Zenon
<1>3. CASE CallKalloc(t)  BY <1>1, <1>3, Zenon DEF CallKalloc
<1>4. CASE CallKfree(t)  BY <1>1, <1>4, Zenon DEF CallKfree, Holds
<1>5. CASE CallIncr(t)  BY <1>1, <1>5, Zenon DEF CallIncr, Holds
<1>6. CASE CallDecr(t)  BY <1>1, <1>6, Zenon DEF CallDecr, Holds
<1>7. CASE CallGet(t)  BY <1>1, <1>7, Zenon DEF CallGet, Holds
<1> QED BY <1>2, <1>3, <1>4, <1>5, <1>6, <1>7 DEF CallAny

LEMMA TypeStep ==
  ASSUME TypeOK, [Next]_vars
  PROVE  TypeOK'
<1> USE DEF Goto, kmem, regs, vars, pushcli, popcli, Return, Labels, panic
<1>1. /\ freecnt \in Int /\ Uint(freecnt - 1) \in 0 .. UintMod - 1 /\ Uint(freecnt + 1) \in 0 .. UintMod - 1
      /\ fails \in Int /\ Uint(fails + 1) \in 0 .. UintMod - 1
  BY UintType, KmemAssumption DEF TypeOK
<1>u. CASE UNCHANGED vars  BY <1>u DEF TypeOK
<1>k. CASE kinit2  BY <1>k DEF kinit2, TypeOK
<1>t. ASSUME NEW t \in Threads, CallAny(t) \/ Step(t) PROVE TypeOK'
  <2>1. CASE CallAny(t)
    <3>1. PICK o \in Ops, f \in Frames \union {Null}, cli \in BOOLEAN :
            Call(t, o, f, cli) /\ unfreed' \subseteq unfreed
      BY <2>1, CallShape
    <3> QED BY <3>1 DEF Call, TypeOK
  <2>2. CASE Test(t)  BY <2>2 DEF Test, TypeOK
  <2>3. CASE AcquireCli(t)  BY <2>3 DEF AcquireCli, TypeOK
  <2>4. CASE AcquireSpin(t)  BY <2>4 DEF AcquireSpin, TypeOK
  <2>5. CASE Test2(t)  BY <2>5 DEF Test2, TypeOK, Ops
  <2>6. CASE Release(t)  BY <2>6 DEF Release, TypeOK, Ops
  <2>7. CASE KallocRead(t)  BY <2>7 DEF KallocRead, TypeOK
  <2>8. CASE KallocPop(t)
    <3>1. r[t] # Null => r[t] \in Frames  BY DEF TypeOK
    <3>2. freelist' \in Frames \union {Null} /\ refc' \in [Frames -> Int]
      BY <2>8, <3>1 DEF KallocPop, TypeOK
    <3>3. fails' \in 0 .. UintMod - 1  BY <1>1, <2>8 DEF KallocPop, TypeOK
    <3> QED BY <2>8, <3>2, <3>3 DEF KallocPop, TypeOK
  <2>9. CASE KallocCount(t)  BY <2>9, <1>1 DEF KallocCount, TypeOK
  <2>10. CASE KfreeSave(t)  BY <2>10 DEF KfreeSave, TypeOK
  <2>11. CASE KfreeClear(t)  BY <2>11 DEF KfreeClear, TypeOK
  <2>12. CASE KfreeDrop(t)
    <3>1. \A f \in Frames : (IF refc[f] > 0 THEN refc[f] - 1 ELSE refc[f]) \in Int  BY DEF TypeOK
    <3>2. refc' \in [Frames -> Int]  BY <2>12, <3>1 DEF KfreeDrop, TypeOK
    <3> QED BY <2>12, <3>2 DEF KfreeDrop, TypeOK
  <2>13. CASE KfreePush(t)  BY <2>13, <1>1 DEF KfreePush, TypeOK
  <2>14. CASE KfreeRestore(t)  BY <2>14 DEF KfreeRestore, TypeOK
  <2>15. CASE RefcBody(t)
    <3> DEFINE v == CASE op[t] = "incr_refc" -> refc[arg[t]] + 1
                      [] op[t] = "decr_refc" -> refc[arg[t]] - 1
                      [] op[t] = "get_refc" -> refc[arg[t]]
    <3>2. refc' = [refc EXCEPT ![arg[t]] = v]  BY <2>15 DEF RefcBody
    <3>3. arg[t] \in Frames => v \in Int  BY <2>15 DEF RefcBody, TypeOK
    <3> HIDE DEF v
    <3>1. refc' \in [Frames -> Int]  BY <3>2, <3>3 DEF TypeOK
    <3> QED BY <2>15, <3>1 DEF RefcBody, TypeOK
  <2> QED BY <1>t, <2>1, <2>2, <2>3, <2>4, <2>5, <2>6, <2>7, <2>8, <2>9, <2>10, <2>11, <2>12,
             <2>13, <2>14, <2>15 DEF Step
<1> QED BY <1>u, <1>k, <1>t DEF Next

LEMMA LockStep ==
  ASSUME NCPU = 1, LockInv, [Next]_vars
  PROVE  LockInv'
<1> USE DEF Goto, kmem, regs, vars, pushcli, popcli, Return
<1>0. TypeOK /\ NoPanic /\ OneCpu /\ IdleShape /\ BootShape /\ BootedShape  BY DEF LockInv
<1>1. TypeOK'  BY <1>0, TypeStep
<1> DEFINE Rest == NoPanic /\ OneCpu /\ IdleShape /\ BootShape /\ BootedShape
<1> SUFFICES Rest'  BY <1>1 DEF LockInv
<1>u. CASE UNCHANGED vars
  BY <1>u, <1>0 DEF NoPanic, OneCpu, IdleShape, BootShape, BootedShape
<1>k. CASE kinit2
  BY <1>k, <1>0, KmemAssumption DEF kinit2, Alone, TypeOK, NoPanic, OneCpu, IdleShape, BootShape,
     BootedShape, Locked, Bodies, Unlocking
<1>t. ASSUME NEW t \in Threads, CallAny(t) \/ Step(t) PROVE Rest'
  <2>r. CanRun(t) /\ t # Null /\ \A u \in intr : u = t
    <3>1. CanRun(t)
      BY <1>t DEF CallAny, Step, freerange, CallKalloc, CallKfree, CallIncr, CallDecr, CallGet, Call,
        Test, AcquireCli, AcquireSpin, Test2, Release, KallocRead, KallocPop, KallocCount,
        KfreeSave, KfreeClear, KfreeDrop, KfreePush, KfreeRestore, RefcBody
    <3> QED BY <3>1, <1>0, RunsAlone, KmemAssumption
  <2>p. /\ pc \in [Threads -> Labels] /\ op \in [Threads -> Ops] /\ islock \in [Threads -> BOOLEAN]
        /\ lock \in Threads \union {Null} /\ Null \notin Threads /\ intr \subseteq Threads
    BY <1>0, KmemAssumption DEF TypeOK
  <2> USE DEF NoPanic, OneCpu, IdleShape, BootShape, BootedShape, Locked, Bodies, Unlocking
  <2>1. CASE CallAny(t)
    <3>1. PICK o \in Ops, f \in Frames \union {Null}, cli \in BOOLEAN :
            Call(t, o, f, cli) /\ (booted \/ Alone) /\ unfreed' \subseteq unfreed
      BY <2>1, <1>0, CallShape
    <3> QED BY <3>1, <2>r, <1>0, <2>p DEF Call, Alone
  <2>2. CASE Test(t)  BY <2>2, <2>r, <1>0, <2>p DEF Test
  <2>3. CASE AcquireCli(t)  BY <2>3, <2>r, <1>0, <2>p DEF AcquireCli, panic
  <2>4. CASE AcquireSpin(t)  BY <2>4, <2>r, <1>0, <2>p DEF AcquireSpin
  <2>5. CASE Test2(t)  BY <2>5, <2>r, <1>0, <2>p DEF Test2
  <2>6. CASE Release(t)  BY <2>6, <2>r, <1>0, <2>p DEF Release, panic
  <2>7. CASE KallocRead(t)  BY <2>7, <2>r, <1>0, <2>p DEF KallocRead
  <2>8. CASE KallocPop(t)  BY <2>8, <2>r, <1>0, <2>p DEF KallocPop
  <2>9. CASE KallocCount(t)  BY <2>9, <2>r, <1>0, <2>p DEF KallocCount
  <2>10. CASE KfreeSave(t)  BY <2>10, <2>r, <1>0, <2>p DEF KfreeSave
  <2>11. CASE KfreeClear(t)  BY <2>11, <2>r, <1>0, <2>p DEF KfreeClear
  <2>12. CASE KfreeDrop(t)  BY <2>12, <2>r, <1>0, <2>p DEF KfreeDrop, panic, NestedPanics
  <2>13. CASE KfreePush(t)  BY <2>13, <2>r, <1>0, <2>p DEF KfreePush, panic, NestedPanics
  <2>14. CASE KfreeRestore(t)  BY <2>14, <2>r, <1>0, <2>p DEF KfreeRestore
  <2>15. CASE RefcBody(t)  BY <2>15, <2>r, <1>0, <2>p DEF RefcBody
  <2> QED BY <1>t, <2>1, <2>2, <2>3, <2>4, <2>5, <2>6, <2>7, <2>8, <2>9, <2>10, <2>11, <2>12,
             <2>13, <2>14, <2>15 DEF Step
<1> QED BY <1>u, <1>k, <1>t DEF Next

\* On one processor kmem.lock keeps the bodies apart although kfree turns
\* use_lock off, and use_lock comes back (kalloc.c:56-84, spinlock.c:25-75).
THEOREM LockCorrect == ASSUME NCPU = 1 PROVE Spec => []LockSafe
<1>1. LockInv => LockSafe
  BY DEF LockInv, LockSafe, MutualExclusion, LockingComesBack, Inside, BootShape, BootedShape,
     Locked, Bodies, Unlocking
<1>2. LockInv /\ [Next]_vars => LockInv'  BY LockStep
<1> QED BY <1>1, <1>2, LockInit, PTL DEF Spec

\* On one processor neither panic("acquire") nor panic("release") is reached.
THEOREM PanicCorrect == ASSUME NCPU = 1 PROVE Spec => []NoPanic
<1>1. LockInv => NoPanic  BY DEF LockInv
<1>2. LockInv /\ [Next]_vars => LockInv'  BY LockStep
<1> QED BY <1>1, <1>2, LockInit, PTL DEF Spec
-----------------------------------------------------------------------------
\* The free list, spelled out: s[1] .. s[n] are its pages in order.
Chain(n, s) ==
  /\ s \in [1 .. n -> Frames]
  /\ \A i, j \in 1 .. n : s[i] = s[j] => i = j
  /\ freelist = IF n = 0 THEN Null ELSE s[1]
  /\ \A i \in 1 .. n : next[s[i]] = IF i = n THEN Null ELSE s[i + 1]

\* A page that must be on the list: handed over by kinit, without a reference,
\* and not the argument of a kfree that has not come to putting it there.
Freeing == {"test", "body", "clear", "drop", "push"}
OnList(f) ==
  /\ f \notin unfreed /\ refc[f] = 0
  /\ \A t \in Threads : ~(op[t] = "kfree" /\ pc[t] \in Freeing /\ arg[t] = f)

\* What a thread's label says about its function and its locals.
OpShape ==
  \A t \in Threads : /\ pc[t] \in {"pop", "count"} => op[t] = "kalloc"
                     /\ pc[t] \in {"clear"} \union Unlocking => op[t] = "kfree"
                     /\ op[t] # "kalloc" => arg[t] \in Frames
                     /\ pc[t] = "pop" => r[t] = freelist

\* Every call in flight rests on a reference of its own; decr_refc on a second
\* one, which nobody can take away while interrupts are off.
Accounts ==
  /\ \A f \in Frames : refc[f] >= 0
  /\ \A f \in unfreed : refc[f] = 0
  /\ booted => \A f \in Frames : Cardinality(Using(f)) <= refc[f]
  /\ \A t \in Threads : op[t] = "decr_refc" /\ pc[t] \in {"test", "cli", "spin", "body"}
                          => t \in intr /\ refc[arg[t]] > 1
  /\ ~booted => \A t \in Threads :
                  /\ op[t] \in {"kalloc", "kfree"}
                  /\ op[t] = "kfree" /\ pc[t] \in Freeing => refc[arg[t]] = 0 /\ arg[t] \notin unfreed

\* The list is a chain of exactly the free pages, and freecnt is its length less
\* the failed calls, except while kalloc has taken a page and not counted it.
ListInv ==
  \E n \in 0 .. Nodes : \E s \in [1 .. n -> Frames] :
    /\ Chain(n, s)
    /\ \A f \in Frames : OnList(f) <=> \E i \in 1 .. n : s[i] = f
    /\ freecnt = Uint((IF \E t \in Threads : pc[t] = "count" THEN n + 1 ELSE n) - fails)

AllocInv == LockInv /\ OpShape /\ Accounts /\ ListInv

LEMMA AllocInit == Init => AllocInv
<1> SUFFICES ASSUME Init PROVE AllocInv  OBVIOUS
<1>1. LockInv  BY LockInit
<1>2. OpShape  BY DEF Init, OpShape, Unlocking
<1>3. Accounts  BY DEF Init, Accounts
<1>4. ListInv
  <2> DEFINE e == [i \in 1 .. 0 |-> Null]
  <2>1. 0 \in 0 .. Nodes  BY KmemAssumption, FS_CardinalityType DEF Nodes
  <2>2. e \in [1 .. 0 -> Frames] /\ Chain(0, e)  BY DEF Init, Chain
  <2>3. \A f \in Frames : OnList(f) <=> \E i \in 1 .. 0 : e[i] = f  BY DEF Init, OnList
  <2>4. freecnt = 0 /\ fails = 0 /\ ~(\E t \in Threads : pc[t] = "count")  BY DEF Init
  <2>5. Uint(0 - 0) = 0  BY KmemAssumption DEF Uint
  <2> QED BY <2>1, <2>2, <2>3, <2>4, <2>5 DEF ListInv
<1> QED BY <1>1, <1>2, <1>3, <1>4 DEF AllocInv

\* Two threads at labels under the lock are one (MutualExclusion, and test2).
LEMMA OneInside ==
  ASSUME LockInv, NEW t \in Threads, NEW u \in Threads, pc[t] \in Locked, pc[u] \in Locked
  PROVE  t = u
BY DEF LockInv, BootShape, BootedShape, Locked, Bodies, Unlocking

\* A call in flight rests on a reference.
LEMMA UserRef ==
  ASSUME TypeOK, Accounts, booted, NEW f \in Frames, NEW t \in Using(f)
  PROVE  refc[f] > 0
<1>1. Using(f) \subseteq Threads /\ Using(f) # {}  BY DEF Using
<1>2. IsFiniteSet(Using(f)) /\ Cardinality(Using(f)) \in Nat
  BY <1>1, KmemAssumption, FS_Subset, FS_CardinalityType
<1>3. Cardinality(Using(f)) # 0  BY <1>1, <1>2, FS_EmptySet
<1> QED BY <1>2, <1>3 DEF Accounts, TypeOK

LEMMA OpStep ==
  ASSUME LockInv, OpShape, [Next]_vars
  PROVE  OpShape'
<1> USE DEF Goto, kmem, regs, vars, pushcli, popcli, Return, panic
<1>0. /\ TypeOK /\ pc \in [Threads -> Labels] /\ op \in [Threads -> Ops]
      /\ arg \in [Threads -> Frames \union {Null}] /\ r \in [Threads -> Frames \union {Null}]
  BY DEF LockInv, TypeOK
<1>u. CASE UNCHANGED vars  BY <1>u DEF OpShape
<1>k. CASE kinit2  BY <1>k DEF kinit2, OpShape
<1>t. ASSUME NEW t \in Threads, CallAny(t) \/ Step(t) PROVE OpShape'
  <2> USE DEF OpShape, Unlocking
  <2>m. ASSUME NEW u \in Threads, pc[t] \in {"pop", "push"}, pc[u] = "pop" PROVE t = u
    BY <2>m, OneInside DEF Locked, Bodies
  <2>1. CASE CallAny(t)
    <3>1. \E o \in Ops, f \in Frames \union {Null}, cli \in BOOLEAN :
            Call(t, o, f, cli) /\ (o # "kalloc" => f \in Frames)
      <4>1. {"kalloc", "kfree", "incr_refc", "decr_refc", "get_refc"} \subseteq Ops  BY DEF Ops
      <4>2. CASE freerange(t)
        <5>1. PICK f \in unfreed : Call(t, "kfree", f, TRUE)  BY <4>2 DEF freerange
        <5>2. f \in Frames  BY <1>0, <5>1 DEF TypeOK
        <5> QED BY <4>1, <5>1, <5>2, Zenon
      <4>3. CASE CallKalloc(t)  BY <4>1, <4>3, Zenon DEF CallKalloc
      <4>4. CASE CallKfree(t)  BY <4>1, <4>4, Zenon DEF CallKfree
      <4>5. CASE CallIncr(t)  BY <4>1, <4>5, Zenon DEF CallIncr
      <4>6. CASE CallDecr(t)  BY <4>1, <4>6, Zenon DEF CallDecr
      <4>7. CASE CallGet(t)  BY <4>1, <4>7, Zenon DEF CallGet
      <4> QED BY <2>1, <4>2, <4>3, <4>4, <4>5, <4>6, <4>7 DEF CallAny
    <3> QED BY <3>1, <1>0 DEF Call
  <2>2. CASE Test(t)  BY <2>2, <1>0 DEF Test
  <2>3. CASE AcquireCli(t)  BY <2>3, <1>0 DEF AcquireCli
  <2>4. CASE AcquireSpin(t)  BY <2>4, <1>0 DEF AcquireSpin
  <2>5. CASE Test2(t)  BY <2>5, <1>0 DEF Test2
  <2>6. CASE Release(t)  BY <2>6, <1>0 DEF Release
  <2>7. CASE KallocRead(t)  BY <2>7, <1>0 DEF KallocRead
  <2>8. CASE KallocPop(t)  BY <2>8, <1>0, <2>m DEF KallocPop
  <2>9. CASE KallocCount(t)  BY <2>9, <1>0 DEF KallocCount
  <2>10. CASE KfreeSave(t)  BY <2>10, <1>0 DEF KfreeSave
  <2>11. CASE KfreeClear(t)  BY <2>11, <1>0 DEF KfreeClear
  <2>12. CASE KfreeDrop(t)  BY <2>12, <1>0 DEF KfreeDrop
  <2>13. CASE KfreePush(t)  BY <2>13, <1>0, <2>m DEF KfreePush
  <2>14. CASE KfreeRestore(t)  BY <2>14, <1>0 DEF KfreeRestore
  <2>15. CASE RefcBody(t)  BY <2>15, <1>0 DEF RefcBody
  <2> QED BY <1>t, <2>1, <2>2, <2>3, <2>4, <2>5, <2>6, <2>7, <2>8, <2>9, <2>10, <2>11, <2>12,
             <2>13, <2>14, <2>15 DEF Step
<1> QED BY <1>u, <1>k, <1>t DEF Next

\* How many calls rest on a page after one of them has begun or ended.
LEMMA UsingBound ==
  ASSUME NEW f \in Frames
  PROVE  LET c == Cardinality(Using(f)) IN
         /\ c \in Nat
         /\ \A S \in SUBSET Using(f) : Cardinality(S) \in Nat /\ Cardinality(S) <= c
         /\ \A t \in Using(f) : \A S \in SUBSET (Using(f) \ {t}) :
              Cardinality(S) \in Nat /\ Cardinality(S) <= c - 1
         /\ \A t : \A S \in SUBSET (Using(f) \union {t}) :
              Cardinality(S) \in Nat /\ Cardinality(S) <= c + 1
<1>1. Using(f) \subseteq Threads  BY DEF Using
<1>2. IsFiniteSet(Using(f)) /\ Cardinality(Using(f)) \in Nat
  BY <1>1, KmemAssumption, FS_Subset, FS_CardinalityType
<1>3. ASSUME NEW S \in SUBSET Using(f)
      PROVE  Cardinality(S) \in Nat /\ Cardinality(S) <= Cardinality(Using(f))
  BY <1>2, FS_Subset, FS_CardinalityType
<1>4. ASSUME NEW t \in Using(f), NEW S \in SUBSET (Using(f) \ {t})
      PROVE  Cardinality(S) \in Nat /\ Cardinality(S) <= Cardinality(Using(f)) - 1
  <2>1. IsFiniteSet(Using(f) \ {t}) /\ Cardinality(Using(f) \ {t}) = Cardinality(Using(f)) - 1
    BY <1>2, FS_RemoveElement
  <2>2. IsFiniteSet(S) /\ Cardinality(S) <= Cardinality(Using(f) \ {t})  BY <2>1, FS_Subset
  <2> QED BY <2>1, <2>2, FS_CardinalityType
<1>5. ASSUME NEW t, NEW S \in SUBSET (Using(f) \union {t})
      PROVE  Cardinality(S) \in Nat /\ Cardinality(S) <= Cardinality(Using(f)) + 1
  <2>1. /\ IsFiniteSet(Using(f) \union {t})
        /\ Cardinality(Using(f) \union {t}) <= Cardinality(Using(f)) + 1
        /\ Cardinality(Using(f) \union {t}) \in Nat
    BY <1>2, FS_AddElement, FS_CardinalityType
  <2>2. IsFiniteSet(S) /\ Cardinality(S) <= Cardinality(Using(f) \union {t})  BY <2>1, FS_Subset
  <2>3. Cardinality(S) \in Nat  BY <2>2, FS_CardinalityType
  <2> QED BY <1>2, <2>1, <2>2, <2>3
<1> QED BY <1>2, <1>3, <1>4, <1>5

\* A step that takes no reference away and starts no call keeps the accounts,
\* as long as it stays within the rules for decr_refc and for main().
LEMMA AccountsSame ==
  ASSUME TypeOK, TypeOK', Accounts, OpShape, UNCHANGED <<booted, op, arg, unfreed>>,
         NEW t \in Threads, pc'[t] # "idle", \A u \in intr : u = t, intr \subseteq intr',
         \A u \in Threads : u # t => pc'[u] = pc[u],
         refc' = refc,
         op[t] # "kalloc" /\ pc'[t] \notin {"push", "restore", "test2", "release"}
           => pc[t] \notin {"idle", "push", "restore", "test2", "release"},
         ~booted /\ op[t] = "kfree" /\ pc'[t] \in Freeing => pc[t] \in Freeing,
         op[t] = "decr_refc" /\ pc'[t] \in {"test", "cli", "spin", "body"}
           => pc[t] \in {"test", "cli", "spin", "body"}
  PROVE  Accounts'
<1>1. ASSUME NEW f \in Frames, booted PROVE Cardinality(Using(f)') <= refc'[f]
  <2>1. Using(f)' \subseteq Using(f)  BY DEF Using, TypeOK, OpShape, Labels, Unlocking
  <2> QED BY <1>1, <2>1, UsingBound DEF Accounts, TypeOK
<1> QED BY <1>1 DEF Accounts, TypeOK

\* A call that begins holds a reference nobody else relies on.
LEMMA AccountsCall ==
  ASSUME LockInv, OpShape, Accounts, NEW t \in Threads, CallAny(t)
  PROVE  Accounts'
<1>0. TypeOK /\ IdleShape /\ BootShape /\ BootedShape  BY DEF LockInv
<1>1. ASSUME NEW o \in Ops, NEW f \in Frames \union {Null}, NEW cli \in BOOLEAN,
             Call(t, o, f, cli), booted \/ Alone, unfreed' \subseteq unfreed,
             booted => o = "kalloc" \/ (f \in Frames /\ refc[f] > Cardinality(Using(f))),
             ~booted => o = "kalloc" \/ (o = "kfree" /\ f \in unfreed /\ f \notin unfreed'),
             o = "decr_refc" => cli /\ refc[f] > 1
      PROVE  Accounts'
  <2> USE DEF Call, Goto, kmem
  <2>1. /\ UNCHANGED <<refc, booted>> /\ intr \subseteq intr' /\ (cli => t \in intr')
        /\ pc' = [pc EXCEPT ![t] = "test"] /\ op' = [op EXCEPT ![t] = o] /\ arg' = [arg EXCEPT ![t] = f]
        /\ pc[t] = "idle"
    BY <1>1
  <2>2. ASSUME NEW g \in Frames, booted PROVE Cardinality(Using(g)') <= refc'[g]
    <3>1. CASE o # "kalloc" /\ f = g
      <4>1. Using(g)' \subseteq Using(g) \union {t}  BY <2>1 DEF Using
      <4>2. /\ Cardinality(Using(g)') \in Nat /\ Cardinality(Using(g)) \in Nat
            /\ Cardinality(Using(g)') <= Cardinality(Using(g)) + 1
        BY <4>1, UsingBound
      <4>3. refc[g] \in Int /\ refc'[g] = refc[g]  BY <1>0, <2>1 DEF TypeOK
      <4>4. refc[g] > Cardinality(Using(g))  BY <1>1, <2>2, <3>1
      <4> QED BY <4>2, <4>3, <4>4
    <3>2. CASE o = "kalloc" \/ f # g
      <4>1. Using(g)' \subseteq Using(g)  BY <1>0, <2>1, <3>2 DEF Using, TypeOK
      <4> QED BY <1>0, <2>1, <2>2, <4>1, UsingBound DEF TypeOK, Accounts
    <3> QED BY <3>1, <3>2
  <2>3. ASSUME NEW u \in Threads, op'[u] = "decr_refc", pc'[u] \in {"test", "cli", "spin", "body"}
        PROVE  u \in intr' /\ refc'[arg'[u]] > 1
    BY <1>0, <1>1, <2>1, <2>3 DEF Accounts, TypeOK
  <2>4. ASSUME NEW u \in Threads, ~booted
        PROVE  /\ op'[u] \in {"kalloc", "kfree"}
               /\ op'[u] = "kfree" /\ pc'[u] \in Freeing => refc'[arg'[u]] = 0 /\ arg'[u] \notin unfreed'
    BY <1>0, <1>1, <2>1, <2>4 DEF Accounts, TypeOK
  <2> QED BY <1>1, <2>1, <2>2, <2>3, <2>4 DEF Accounts
<1>2. {"kalloc", "kfree", "incr_refc", "decr_refc", "get_refc"} \subseteq Ops  BY DEF Ops
<1>3. CASE freerange(t)
  <2>1. PICK f \in unfreed : Alone /\ Call(t, "kfree", f, TRUE) /\ unfreed' = unfreed \ {f}
    BY <1>3 DEF freerange
  <2>2. f \in Frames /\ f \notin unfreed' /\ unfreed' \subseteq unfreed /\ ~booted
    BY <1>0, <2>1 DEF TypeOK, BootedShape
  <2> QED BY <1>1, <1>2, <2>1, <2>2
<1>4. CASE CallKalloc(t)  BY <1>1, <1>2, <1>4 DEF CallKalloc
<1>5. CASE CallKfree(t)  BY <1>1, <1>2, <1>5 DEF CallKfree, Holds
<1>6. CASE CallIncr(t)  BY <1>1, <1>2, <1>6 DEF CallIncr, Holds
<1>7. CASE CallDecr(t)  BY <1>1, <1>2, <1>7 DEF CallDecr, Holds
<1>8. CASE CallGet(t)  BY <1>1, <1>2, <1>8 DEF CallGet, Holds
<1> QED BY <1>3, <1>4, <1>5, <1>6, <1>7, <1>8 DEF CallAny

LEMMA AccountStep ==
  ASSUME NCPU = 1, AllocInv, [Next]_vars
  PROVE  Accounts'
<1> USE DEF Goto, kmem, regs, pushcli, popcli
<1>0. /\ LockInv /\ TypeOK /\ OneCpu /\ BootShape /\ BootedShape /\ OpShape /\ Accounts /\ ListInv
      /\ NoPanic
  BY DEF AllocInv, LockInv
<1>1. TypeOK' /\ NoPanic' /\ OpShape'
  BY <1>0, TypeStep, OpStep, LockStep DEF LockInv
<1>u. CASE UNCHANGED vars  BY <1>u, <1>0 DEF Accounts, Using, vars
<1>k. CASE kinit2
  <2>1. \A f \in Frames : Using(f)' = {}  BY <1>k DEF kinit2, Alone, Using
  <2> QED BY <1>k, <1>0, <2>1, FS_EmptySet DEF kinit2, Alone, Accounts, TypeOK
<1>t. ASSUME NEW t \in Threads, CallAny(t) \/ Step(t) PROVE Accounts'
  <2>a. CASE CallAny(t)  BY <2>a, <1>0, AccountsCall
  <2>s. CASE Step(t)
    <3>p. ~panic  BY <1>1 DEF panic, NoPanic
    <3>r. \A u \in intr : u = t
      <4>1. CanRun(t)
        BY <2>s DEF Step, Test, AcquireCli, AcquireSpin, Test2, Release, KallocRead, KallocPop,
          KallocCount, KfreeSave, KfreeClear, KfreeDrop, KfreePush, KfreeRestore, RefcBody
      <4> QED BY <4>1, <1>0, RunsAlone
    <3>f. pc \in [Threads -> Labels] /\ op \in [Threads -> Ops]  BY <1>0 DEF TypeOK
    \* The function returns: op becomes kalloc.
    <3>e. ASSUME Return(t), UNCHANGED <<refc, unfreed, booted>>, pc[t] \in {"test2", "release"}
          PROVE  Accounts'
      <4>1. ASSUME NEW f \in Frames, booted PROVE Cardinality(Using(f)') <= refc'[f]
        <5>1. Using(f)' \subseteq Using(f)  BY <3>e, <3>f DEF Using, Return
        <5> QED BY <1>0, <3>e, <4>1, <5>1, UsingBound DEF Accounts, TypeOK
      <4> QED BY <1>0, <3>e, <3>f, <3>r, <4>1 DEF Accounts, Return, TypeOK, Freeing
    <3> USE DEF Freeing
    <3>1. CASE Test(t)  BY <3>1, <3>r, <3>f, <1>0, <1>1, AccountsSame DEF Test
    <3>2. CASE AcquireCli(t)  BY <3>2, <3>p, <3>r, <3>f, <1>0, <1>1, AccountsSame DEF AcquireCli
    <3>3. CASE AcquireSpin(t)
      <4>1. CASE lock = Null  BY <4>1, <3>3, <3>r, <3>f, <1>0, <1>1, AccountsSame DEF AcquireSpin, BootShape
      <4>2. CASE lock # Null  BY <4>2, <3>3, <1>u DEF AcquireSpin
      <4> QED BY <4>1, <4>2
    <3>4. CASE Test2(t)
      BY <3>4, <3>e, <3>r, <3>f, <1>0, <1>1, AccountsSame DEF Test2
    <3>5. CASE Release(t)  BY <3>5, <3>p, <3>e DEF Release
    <3>6. CASE KallocRead(t)
      BY <3>6, <3>r, <3>f, <1>0, <1>1, AccountsSame DEF KallocRead
    <3>7. CASE KallocCount(t)
      BY <3>7, <3>r, <3>f, <1>0, <1>1, AccountsSame DEF KallocCount
    <3>8. CASE KfreeSave(t)  BY <3>8, <3>r, <3>f, <1>0, <1>1, AccountsSame DEF KfreeSave
    <3>9. CASE KfreeClear(t)  BY <3>9, <3>r, <3>f, <1>0, <1>1, AccountsSame DEF KfreeClear
    <3>10. CASE KfreePush(t)  BY <3>10, <3>p, <3>r, <3>f, <1>0, <1>1, AccountsSame DEF KfreePush
    <3>11. CASE KfreeRestore(t)  BY <3>11, <3>r, <3>f, <1>0, <1>1, AccountsSame DEF KfreeRestore
    \* The counts of one page change.
    <3>c. ASSUME NEW f \in Frames, NEW v \in Int, refc' = [refc EXCEPT ![f] = v], v >= 0,
                 UNCHANGED <<unfreed, booted, op, arg, intr>>, f \notin unfreed, booted,
                 pc' \in [Threads -> Labels], \A u \in Threads : u # t => pc'[u] = pc[u],
                 pc'[t] \in {"count", "push", "test2"}, pc[t] # "idle",
                 Cardinality(Using(f)') <= v
          PROVE  Accounts'
      <4>1. refc'[f] = v /\ \A g \in Frames : g # f => refc'[g] = refc[g]  BY <1>0, <3>c DEF TypeOK
      <4>2. ASSUME NEW g \in Frames, g # f PROVE Cardinality(Using(g)') <= refc'[g]
        <5>1. Using(g)' \subseteq Using(g)  BY <3>c, <3>f, <1>1 DEF Using, OpShape
        <5> QED BY <1>0, <3>c, <4>1, <4>2, <5>1, UsingBound DEF Accounts, TypeOK
      <4>3. \A u \in Threads : ~(op'[u] = "decr_refc" /\ pc'[u] \in {"test", "cli", "spin", "body"})
        BY <3>c, <3>r, <1>0 DEF Accounts
      <4>4. \A g \in unfreed' : refc'[g] = 0  BY <3>c, <4>1, <1>0 DEF Accounts, TypeOK
      <4> QED BY <1>0, <3>c, <4>1, <4>2, <4>3, <4>4 DEF Accounts, TypeOK
    <3>12. CASE KallocPop(t)
      <4>1. CASE r[t] = Null
        BY <4>1, <3>12, <3>r, <3>f, <1>0, <1>1, AccountsSame DEF KallocPop
      <4>2. CASE r[t] # Null
        <5>1. PICK f \in Frames : f = r[t] /\ f = freelist /\ op[t] = "kalloc"
          BY <3>12, <4>2, <1>0 DEF KallocPop, OpShape, TypeOK
        <5>2. OnList(f)  BY <5>1, <4>2, <1>0 DEF ListInv, Chain
        <5>3. f \notin unfreed /\ refc[f] = 0  BY <5>2 DEF OnList
        <5>4. refc' = [refc EXCEPT ![f] = 1] /\ UNCHANGED <<unfreed, booted, op, arg, intr>>
              /\ pc' = [pc EXCEPT ![t] = "count"] /\ pc[t] = "pop"
          BY <3>12, <4>2, <5>1 DEF KallocPop
        <5>5. CASE booted
          <6>1. Using(f)' \subseteq Using(f)  BY <5>1, <5>4, <3>f DEF Using
          <6>2. Cardinality(Using(f)) <= 0  BY <5>1, <5>3, <5>5, <1>0 DEF Accounts
          <6>3. Cardinality(Using(f)') <= 1  BY <6>1, <6>2, <5>1, UsingBound
          <6>4. pc' \in [Threads -> Labels]  BY <1>1 DEF TypeOK
          <6>5. pc'[t] = "count" /\ \A u \in Threads : u # t => pc'[u] = pc[u]  BY <5>4, <3>f
          <6>6. 1 \in Int /\ 1 >= 0  OBVIOUS
          <6> QED BY <3>c, <5>3, <5>4, <5>5, <6>3, <6>4, <6>5, <6>6
        <5>6. CASE ~booted
          <6>1. \A u \in Threads : u # t => pc[u] = "idle"  BY <1>0, <5>4, <5>6 DEF BootShape
          <6>2. \A u \in Threads : ~(op'[u] = "kfree" /\ pc'[u] \in Freeing) /\ op'[u] \in {"kalloc", "kfree"}
            BY <6>1, <5>1, <5>4, <5>6, <3>f, <1>0 DEF Accounts
          <6>3. refc'[f] = 1 /\ \A g \in Frames : g # f => refc'[g] = refc[g]
            BY <1>0, <5>1, <5>4 DEF TypeOK
          <6>4. \A u \in Threads : op'[u] # "decr_refc"  BY <6>2
          <6>5. \A g \in unfreed' : refc'[g] = 0  BY <5>3, <5>4, <6>3, <1>0 DEF Accounts, TypeOK
          <6> QED BY <6>2, <6>3, <6>4, <6>5, <5>4, <5>6, <1>0 DEF Accounts, TypeOK
        <5> QED BY <5>5, <5>6
      <4> QED BY <4>1, <4>2
    <3>13. CASE KfreeDrop(t)
      <4> DEFINE v == IF refc[arg[t]] > 0 THEN refc[arg[t]] - 1 ELSE refc[arg[t]]
      <4>1. /\ pc[t] = "drop" /\ op[t] = "kfree" /\ arg[t] \in Frames
            /\ refc' = [refc EXCEPT ![arg[t]] = v]
            /\ pc' = [pc EXCEPT ![t] = "push"] /\ UNCHANGED <<unfreed, booted, op, arg, intr>>
        BY <3>13, <3>p, <1>0 DEF KfreeDrop, OpShape, Unlocking
      <4>2. refc[arg[t]] \in Int  BY <1>0, <4>1 DEF TypeOK
      <4>3. CASE ~booted
        <5>1. refc[arg[t]] = 0  BY <4>1, <4>3, <1>0 DEF Accounts
        <5>2. refc' = refc  BY <4>1, <5>1, <1>0 DEF TypeOK
        <5> QED BY <4>1, <5>2, <3>r, <3>f, <1>0, <1>1, AccountsSame
      <4>4. CASE booted
        <5>1. t \in Using(arg[t]) /\ Using(arg[t])' \subseteq Using(arg[t]) \ {t}
          BY <4>1, <3>f DEF Using
        <5>2. refc[arg[t]] > 0  BY <5>1, <4>1, <4>4, <1>0, UserRef
        <5>3. Cardinality(Using(arg[t])') <= v /\ v >= 0 /\ v \in Int
          BY <5>1, <5>2, <4>1, <4>2, <4>4, <1>0, UsingBound DEF Accounts
        <5> HIDE DEF v
        <5>5. pc' \in [Threads -> Labels] /\ unfreed = {}  BY <1>0, <1>1, <4>4 DEF TypeOK, BootedShape
        <5> QED BY <3>c, <3>f, <4>1, <4>4, <5>3, <5>5
      <4> QED BY <4>3, <4>4
    <3>14. CASE RefcBody(t)
      <4> DEFINE v == CASE op[t] = "incr_refc" -> refc[arg[t]] + 1
                        [] op[t] = "decr_refc" -> refc[arg[t]] - 1
                        [] op[t] = "get_refc" -> refc[arg[t]]
      <4>1. /\ pc[t] = "body" /\ op[t] \in {"incr_refc", "decr_refc", "get_refc"} /\ arg[t] \in Frames
            /\ refc' = [refc EXCEPT ![arg[t]] = v]
            /\ pc' = [pc EXCEPT ![t] = "test2"] /\ UNCHANGED <<unfreed, booted, op, arg, intr>>
        BY <3>14, <1>0 DEF RefcBody, OpShape
      <4>2. refc[arg[t]] \in Int /\ booted  BY <1>0, <4>1 DEF TypeOK, Accounts
      <4>3. t \in Using(arg[t]) /\ Using(arg[t])' \subseteq Using(arg[t]) \ {t}
        BY <4>1, <3>f DEF Using
      <4>4. refc[arg[t]] > 0  BY <4>1, <4>2, <4>3, <1>0, UserRef
      <4>5. v \in Int /\ v >= refc[arg[t]] - 1  BY <4>1, <4>2
      <4> HIDE DEF v
      <4>6. Cardinality(Using(arg[t])') <= v /\ v >= 0
        BY <4>1, <4>2, <4>3, <4>4, <4>5, <1>0, UsingBound DEF Accounts
      <4>7. pc' \in [Threads -> Labels] /\ unfreed = {}  BY <1>0, <1>1, <4>2 DEF TypeOK, BootedShape
      <4> QED BY <3>c, <3>f, <4>1, <4>2, <4>5, <4>6, <4>7
    <3> QED BY <2>s, <3>1, <3>2, <3>3, <3>4, <3>5, <3>6, <3>7, <3>8, <3>9, <3>10, <3>11, <3>12,
               <3>13, <3>14 DEF Step
  <2> QED BY <1>t, <2>a, <2>s
<1> QED BY <1>u, <1>k, <1>t DEF Next

\* A step that leaves the list and the pages that belong on it alone.
LEMMA ListSame ==
  ASSUME ListInv, UNCHANGED <<freelist, next, freecnt, fails>>,
         \A f \in Frames : OnList(f)' <=> OnList(f),
         (\E t \in Threads : pc'[t] = "count") <=> (\E t \in Threads : pc[t] = "count")
  PROVE  ListInv'
BY DEF ListInv, Chain, Nodes

\* Adding or taking one commutes with the wrapping of a uint.
LEMMA UintIs ==
  ASSUME NEW n \in Int, -UintMod <= n, n < 2 * UintMod
  PROVE  Uint(n) = IF n < 0 THEN n + UintMod ELSE IF n < UintMod THEN n ELSE n - UintMod
<1>1. PICK m \in Nat \ {0} : m = UintMod  BY KmemAssumption
<1>2. CASE n < 0  BY <1>1, <1>2 DEF Uint
<1>3. CASE 0 <= n /\ n < m  BY <1>1, <1>3 DEF Uint
<1>4. CASE m <= n  BY <1>1, <1>4 DEF Uint
<1> QED BY <1>1, <1>2, <1>3, <1>4

LEMMA UintSteps ==
  ASSUME NEW k \in 0 .. UintMod - 1, NEW g \in 0 .. UintMod - 1
  PROVE  /\ Uint(Uint((k + 1) - g) - 1) = Uint(k - g)
         /\ Uint(Uint(k - g) + 1) = Uint((k + 1) - g)
         /\ Uint(0 - g) = Uint((0 + 1) - Uint(g + 1))
<1>1. UintMod \in Nat \ {0}  BY KmemAssumption
<1>2. PICK a \in Int : a = Uint(k - g) /\ a = (IF k - g < 0 THEN k - g + UintMod ELSE k - g)  BY <1>1, UintIs
<1>3. PICK b \in Int : b = Uint((k + 1) - g)
                       /\ b = (IF k + 1 - g < 0 THEN k + 1 - g + UintMod ELSE IF k + 1 - g < UintMod THEN k + 1 - g ELSE k + 1 - g - UintMod)
  BY <1>1, UintIs
<1>4. PICK c \in Int : c = Uint(g + 1) /\ c = (IF g + 1 < UintMod THEN g + 1 ELSE g + 1 - UintMod)  BY <1>1, UintIs
<1>5. Uint(b - 1) = a
  <2>1. b - 1 \in Int /\ -UintMod <= b - 1 /\ b - 1 < 2 * UintMod  BY <1>1, <1>3
  <2>2. Uint(b - 1) = IF b - 1 < 0 THEN b - 1 + UintMod ELSE IF b - 1 < UintMod THEN b - 1 ELSE b - 1 - UintMod  BY <2>1, UintIs
  <2> QED BY <1>1, <1>2, <1>3, <2>2
<1>6. Uint(a + 1) = b
  <2>1. a + 1 \in Int /\ -UintMod <= a + 1 /\ a + 1 < 2 * UintMod  BY <1>1, <1>2
  <2>2. PICK x \in Int : x = a + 1  OBVIOUS
  <2>3. Uint(x) = IF x < 0 THEN x + UintMod ELSE IF x < UintMod THEN x ELSE x - UintMod  BY <2>1, <2>2, UintIs
  <2> QED BY <1>1, <1>2, <1>3, <2>2, <2>3
<1>7. Uint(0 - g) = Uint((0 + 1) - c)
  <2>1. Uint(0 - g) = IF 0 - g < 0 THEN 0 - g + UintMod ELSE 0 - g  BY <1>1, UintIs
  <2>2. (0 + 1) - c \in Int /\ -UintMod <= (0 + 1) - c /\ (0 + 1) - c < 2 * UintMod  BY <1>1, <1>4
  <2>3. Uint((0 + 1) - c) = IF (0 + 1) - c < 0 THEN (0 + 1) - c + UintMod ELSE IF (0 + 1) - c < UintMod THEN (0 + 1) - c ELSE (0 + 1) - c - UintMod
    BY <2>2, UintIs
  <2> QED BY <1>1, <1>4, <2>1, <2>3
<1> QED BY <1>2, <1>3, <1>4, <1>5, <1>6, <1>7

\* A chain without repetition has no more links than there are pages.
LEMMA ChainBound ==
  ASSUME NEW n \in Nat, NEW s \in [1 .. n -> Frames], \A i, j \in 1 .. n : s[i] = s[j] => i = j
  PROVE  n \in 0 .. Nodes
<1>1. s \in Injection(1 .. n, Frames)  BY DEF Injection, IsInjective
<1>2. Cardinality(1 .. n) <= Cardinality(Frames)  BY <1>1, KmemAssumption, FS_Injection
<1>3. Cardinality(1 .. n) = n  BY FS_Interval
<1>4. Nodes \in Nat  BY KmemAssumption, FS_CardinalityType DEF Nodes
<1> QED BY <1>2, <1>3, <1>4 DEF Nodes

LEMMA ListStep ==
  ASSUME NCPU = 1, AllocInv, [Next]_vars
  PROVE  ListInv'
<1> USE DEF Goto, kmem, regs, pushcli, popcli
<1>0. /\ LockInv /\ TypeOK /\ OneCpu /\ BootShape /\ BootedShape /\ OpShape /\ Accounts /\ ListInv
      /\ NoPanic /\ IdleShape
  BY DEF AllocInv, LockInv
<1>1. TypeOK' /\ NoPanic' /\ OpShape'
  BY <1>0, TypeStep, OpStep, LockStep DEF LockInv
<1>f. pc \in [Threads -> Labels] /\ op \in [Threads -> Ops] /\ arg \in [Threads -> Frames \union {Null}]
      /\ refc \in [Frames -> Int]
  BY <1>0 DEF TypeOK
<1>u. CASE UNCHANGED vars
  <2>1. UNCHANGED <<freelist, next, freecnt, fails, pc, op, arg, refc, unfreed>>  BY <1>u DEF vars
  <2>2. \A f \in Frames : OnList(f)' <=> OnList(f)  BY <2>1 DEF OnList
  <2> QED BY <2>1, <2>2, <1>0, ListSame
<1>k. CASE kinit2
  <2>1. UNCHANGED <<freelist, next, freecnt, fails, pc, op, arg, refc, unfreed>>  BY <1>k DEF kinit2
  <2>2. \A f \in Frames : OnList(f)' <=> OnList(f)  BY <2>1 DEF OnList
  <2> QED BY <2>1, <2>2, <1>0, ListSame
<1>c. ASSUME NEW t \in Threads, CallAny(t) PROVE ListInv'
  <2>1. ASSUME NEW o \in Ops, NEW g \in Frames \union {Null}, NEW cli \in BOOLEAN, Call(t, o, g, cli),
               \/ o # "kfree" /\ unfreed' = unfreed
               \/ refc[g] > 0 /\ unfreed' = unfreed
               \/ unfreed' = unfreed \ {g} /\ g \in unfreed /\ o = "kfree"
        PROVE  ListInv'
    <3>1. /\ UNCHANGED <<freelist, next, freecnt, fails, refc>>
          /\ pc' = [pc EXCEPT ![t] = "test"] /\ op' = [op EXCEPT ![t] = o] /\ arg' = [arg EXCEPT ![t] = g]
          /\ pc[t] = "idle"
      BY <2>1 DEF Call
    <3>2. \A f \in Frames : OnList(f)' <=> OnList(f)  BY <2>1, <3>1, <1>f DEF OnList, Freeing
    <3>3. (\E u \in Threads : pc'[u] = "count") <=> (\E u \in Threads : pc[u] = "count")
      BY <3>1, <1>f
    <3> QED BY <3>1, <3>2, <3>3, <1>0, ListSame
  <2>2. {"kalloc", "kfree", "incr_refc", "decr_refc", "get_refc"} \subseteq Ops  BY DEF Ops
  <2>3. CASE freerange(t)
    <3>1. PICK f \in unfreed : Call(t, "kfree", f, TRUE) /\ unfreed' = unfreed \ {f}
      BY <2>3 DEF freerange
    <3>2. f \in Frames  BY <1>0 DEF TypeOK
    <3> QED BY <2>1, <2>2, <3>1, <3>2
  <2>4. CASE CallKalloc(t)  BY <2>1, <2>2, <2>4 DEF CallKalloc
  <2>5. CASE CallKfree(t)
    <3>1. PICK f \in Frames, cli \in BOOLEAN : Holds(f) /\ Call(t, "kfree", f, cli) /\ UNCHANGED unfreed
      BY <2>5 DEF CallKfree
    <3>2. refc[f] > 0  BY <3>1, UsingBound, <1>f DEF Holds
    <3> QED BY <2>1, <2>2, <3>1, <3>2
  <2>6. CASE CallIncr(t)  BY <2>1, <2>2, <2>6 DEF CallIncr
  <2>7. CASE CallDecr(t)  BY <2>1, <2>2, <2>7 DEF CallDecr
  <2>8. CASE CallGet(t)  BY <2>1, <2>2, <2>8 DEF CallGet
  <2> QED BY <1>c, <2>3, <2>4, <2>5, <2>6, <2>7, <2>8 DEF CallAny
<1>t. ASSUME NEW t \in Threads, Step(t) PROVE ListInv'
  <2>p. ~panic  BY <1>1 DEF panic, NoPanic
  \* A step within the frame: the page of a booted kfree before `push' is referenced.
  <2>b. booted /\ op[t] = "kfree" /\ pc[t] \in {"test", "cli", "spin", "body", "clear", "drop"}
          => arg[t] \in Frames /\ refc[arg[t]] > 0
    <3>1. op[t] = "kfree" => arg[t] \in Frames  BY <1>0 DEF OpShape
    <3>2. op[t] = "kfree" /\ pc[t] \in {"test", "cli", "spin", "body", "clear", "drop"}
            => t \in Using(arg[t])
      BY DEF Using
    <3> QED BY <3>1, <3>2, <1>0, UserRef
  <2>s. ASSUME UNCHANGED <<freelist, next, freecnt, fails, refc, unfreed, booted>>,
               \A u \in Threads : u # t => pc'[u] = pc[u] /\ op'[u] = op[u] /\ arg'[u] = arg[u],
               pc[t] # "count", pc'[t] # "count",
               op[t] = "kfree" /\ pc[t] \in Freeing => refc[arg[t]] # 0 \/ (pc'[t] \in Freeing /\ op'[t] = op[t] /\ arg'[t] = arg[t]),
               op'[t] = "kfree" /\ pc'[t] \in Freeing => refc[arg'[t]] # 0 \/ (pc[t] \in Freeing /\ op'[t] = op[t] /\ arg'[t] = arg[t])
        PROVE  ListInv'
    <3>1. \A f \in Frames : OnList(f)' <=> OnList(f)  BY <2>s DEF OnList
    <3>2. (\E u \in Threads : pc'[u] = "count") <=> (\E u \in Threads : pc[u] = "count")  BY <2>s
    <3> QED BY <2>s, <3>1, <3>2, <1>0, ListSame
  <2> USE DEF Freeing
  <2>1. CASE Test(t)  BY <2>1, <2>b, <2>s, <1>f, <1>0 DEF Test, BootShape
  <2>2. CASE AcquireCli(t)  BY <2>2, <2>p, <2>s, <1>f DEF AcquireCli
  <2>3. CASE AcquireSpin(t)
    <3>1. CASE lock = Null  BY <3>1, <2>3, <2>b, <2>s, <1>f, <1>0 DEF AcquireSpin, BootShape
    <3>2. CASE lock # Null  BY <3>2, <2>3, <1>u DEF AcquireSpin
    <3> QED BY <3>1, <3>2
  <2>4. CASE Test2(t)  BY <2>4, <2>s, <1>f DEF Test2, Return
  <2>5. CASE Release(t)  BY <2>5, <2>p, <2>s, <1>f DEF Release, Return
  <2>6. CASE KallocRead(t)  BY <2>6, <2>s, <1>f DEF KallocRead
  <2>7. CASE KfreeSave(t)  BY <2>7, <2>s, <1>f DEF KfreeSave
  <2>8. CASE KfreeClear(t)  BY <2>8, <2>s, <1>f DEF KfreeClear
  <2>9. CASE KfreeRestore(t)  BY <2>9, <2>s, <1>f DEF KfreeRestore
  <2>o. ASSUME NEW u \in Threads, pc[t] \in {"pop", "count", "push"}, pc[u] \in {"count", "push"}
        PROVE  u = t
    BY <2>o, <1>0, OneInside DEF Locked, Bodies, Unlocking
  <2> DEFINE Exact(n, s) ==
        /\ Chain(n, s)
        /\ \A f \in Frames : OnList(f) <=> \E i \in 1 .. n : s[i] = f
        /\ freecnt = Uint((IF \E u \in Threads : pc[u] = "count" THEN n + 1 ELSE n) - fails)
  <2>x. PICK n \in 0 .. Nodes : \E s \in [1 .. n -> Frames] : Exact(n, s)  BY <1>0 DEF ListInv
  <2>l. PICK s \in [1 .. n -> Frames] : Exact(n, s)  BY <2>x
  <2>n. n \in Nat /\ freecnt \in Int /\ Nodes \in Nat /\ n \in 0 .. UintMod - 1 /\ fails \in 0 .. UintMod - 1
    BY <1>0, KmemAssumption, FS_CardinalityType DEF TypeOK, Nodes
  <2>10. CASE KallocCount(t)
    <3>1. /\ pc[t] = "count" /\ freecnt' = Uint(freecnt - 1) /\ pc' = [pc EXCEPT ![t] = "test2"]
          /\ UNCHANGED <<freelist, next, fails, refc, unfreed, op, arg>>
      BY <2>10 DEF KallocCount
    <3>2. op[t] # "kfree"  BY <3>1, <1>0 DEF OpShape
    <3>3. \A f \in Frames : OnList(f)' <=> OnList(f)  BY <3>1, <3>2, <1>f DEF OnList
    <3>4. ~(\E u \in Threads : pc'[u] = "count")  BY <3>1, <2>o, <1>f
    <3>5. freecnt' = Uint(n - fails)
      <4>1. freecnt = Uint((n + 1) - fails)  BY <3>1, <2>l
      <4> QED BY <2>n, <3>1, <4>1, UintSteps
    <3>6. Chain(n, s)'  BY <2>l, <3>1 DEF Chain
    <3> QED BY <2>l, <3>1, <3>3, <3>4, <3>5, <3>6 DEF ListInv, Nodes
  <2>11. CASE KallocPop(t)
    <3>1. /\ pc[t] = "pop" /\ pc' = [pc EXCEPT ![t] = "count"] /\ op[t] = "kalloc"
          /\ UNCHANGED <<next, freecnt, unfreed, op, arg>> /\ r[t] = freelist
      BY <2>11, <1>0 DEF KallocPop, OpShape
    <3>2. /\ ~(\E u \in Threads : pc[u] = "count") /\ pc'[t] = "count"
          /\ \A u \in Threads : u # t => pc'[u] = pc[u]
      BY <3>1, <2>o, <1>f
    <3>3. CASE r[t] = Null
      <4>1. fails' = Uint(fails + 1) /\ UNCHANGED <<freelist, refc>>  BY <2>11, <3>3 DEF KallocPop
      <4>2. \A f \in Frames : OnList(f)' <=> OnList(f)  BY <3>1, <3>2, <4>1, <1>f DEF OnList
      <4>3. Chain(n, s)'  BY <2>l, <3>1, <4>1 DEF Chain
      <4>4. n = 0
        <5>1. freelist = Null  BY <3>1, <3>3
        <5>2. n # 0 => 1 \in 1 .. n /\ s[1] \in Frames  BY <2>n
        <5> QED BY <2>l, <5>1, <5>2, KmemAssumption DEF Chain
      <4>5. freecnt = Uint(0 - fails)  BY <2>l, <3>2, <4>4
      <4>6. freecnt' = Uint((n + 1) - fails')  BY <2>n, <3>1, <4>1, <4>4, <4>5, UintSteps
      <4> QED BY <2>l, <3>2, <4>1, <4>2, <4>3, <4>6 DEF ListInv, Nodes
    <3>4. CASE r[t] # Null
      <4>1. PICK f \in Frames : f = r[t] /\ f = freelist
        BY <3>1, <3>4, <1>0 DEF TypeOK
      <4>2. freelist' = next[f] /\ refc' = [refc EXCEPT ![f] = 1] /\ UNCHANGED fails
        BY <2>11, <3>4, <4>1 DEF KallocPop
      <4>3. n # 0 /\ s[1] = f /\ 1 \in 1 .. n
        BY <2>l, <2>n, <4>1, KmemAssumption DEF Chain
      <4> DEFINE s2 == [i \in 1 .. n - 1 |-> s[i + 1]]
      <4>4. n - 1 \in 0 .. Nodes /\ \A i \in 1 .. n - 1 : i + 1 \in 1 .. n  BY <2>n, <4>3
      <4>5. s2 \in [1 .. n - 1 -> Frames]  BY <4>4
      <4>6. Chain(n - 1, s2)'
        <5>1. \A i, j \in 1 .. n - 1 : s2[i] = s2[j] => i = j
          BY <2>l, <2>n, <4>4 DEF Chain
        <5>2. freelist' = IF n - 1 = 0 THEN Null ELSE s2[1]
          BY <2>l, <2>n, <4>2, <4>3 DEF Chain
        <5>3. \A i \in 1 .. n - 1 : next'[s2[i]] = IF i = n - 1 THEN Null ELSE s2[i + 1]
          BY <2>l, <2>n, <3>1, <4>4 DEF Chain
        <5> QED BY <4>5, <5>1, <5>2, <5>3 DEF Chain
      <4>7. \A g \in Frames : OnList(g)' <=> OnList(g) /\ g # f
        <5>1. OnList(f)  BY <2>l, <4>1, <4>3
        <5> QED BY <3>1, <3>2, <4>2, <5>1, <1>f DEF OnList
      <4>8. \A g \in Frames : (\E i \in 1 .. n : s[i] = g) /\ g # f <=> \E i \in 1 .. n - 1 : s2[i] = g
        <5>1. ASSUME NEW i \in 1 .. n, s[i] # f PROVE i - 1 \in 1 .. n - 1 /\ s2[i - 1] = s[i]
          BY <2>n, <4>3, <5>1
        <5>2. ASSUME NEW i \in 1 .. n - 1 PROVE s2[i] = s[i + 1] /\ s[i + 1] # f
          <6>1. i + 1 \in 1 .. n /\ i + 1 # 1  BY <2>n
          <6> QED BY <6>1, <2>l, <4>3 DEF Chain
        <5> HIDE DEF s2
        <5> QED BY <5>1, <5>2, <4>4, <2>n
      <4> HIDE DEF s2
      <4>9. freecnt' = Uint(((n - 1) + 1) - fails')
        <5>1. freecnt = Uint(n - fails)  BY <2>l, <3>2
        <5>2. (n - 1) + 1 = n  BY <2>n
        <5> QED BY <3>1, <4>2, <5>1, <5>2
      <4> QED BY <2>l, <3>2, <4>4, <4>5, <4>6, <4>7, <4>8, <4>9 DEF ListInv, Nodes
    <3> QED BY <3>3, <3>4
  <2>12. CASE KfreeDrop(t)
    <3>1. /\ pc[t] = "drop" /\ op[t] = "kfree" /\ arg[t] \in Frames
          /\ \A f \in Frames : f # arg[t] => refc'[f] = refc[f]
          /\ pc' = [pc EXCEPT ![t] = "push"]
          /\ UNCHANGED <<freelist, next, freecnt, fails, unfreed, op, arg>>
      BY <2>12, <2>p, <1>0, <1>f DEF KfreeDrop, OpShape, Unlocking
    <3>2. \A f \in Frames : OnList(f)' <=> OnList(f)  BY <3>1, <1>f DEF OnList
    <3>3. (\E u \in Threads : pc'[u] = "count") <=> (\E u \in Threads : pc[u] = "count")
      BY <3>1, <1>f
    <3> QED BY <3>1, <3>2, <3>3, <1>0, ListSame
  <2>13. CASE KfreePush(t)
    <3>1. /\ pc[t] = "push" /\ op[t] = "kfree" /\ pc' = [pc EXCEPT ![t] = "restore"]
          /\ UNCHANGED <<fails, refc, unfreed, op, arg>>
      BY <2>13, <2>p, <1>0 DEF KfreePush, OpShape, Unlocking
    <3>2. PICK g \in Frames : g = arg[t]  BY <3>1, <1>0 DEF OpShape
    <3>3. CASE refc[g] # 0
      <4>1. UNCHANGED <<freelist, next, freecnt, booted>>  BY <2>13, <2>p, <3>2, <3>3 DEF KfreePush
      <4> QED BY <2>s, <3>1, <3>2, <3>3, <4>1, <1>f
    <3>4. CASE refc[g] = 0
      <4>1. next' = [next EXCEPT ![g] = freelist] /\ freelist' = g /\ freecnt' = Uint(freecnt + 1)
        BY <2>13, <2>p, <3>2, <3>4 DEF KfreePush
      <4>2. ~OnList(g)  BY <3>1, <3>2 DEF OnList
      <4>3. OnList(g)'
        <5>1. g \notin unfreed  BY <3>1, <3>2, <1>0 DEF Accounts, BootedShape
        <5>2. ASSUME NEW u \in Threads, u # t, op[u] = "kfree", pc[u] \in Freeing, arg[u] = g
              PROVE  FALSE
          <6>1. booted  BY <5>2, <3>1, <1>0 DEF BootShape
          <6>2. pc[u] # "push"  BY <5>2, <3>1, <2>o
          <6>3. u \in Using(g)  BY <5>2, <6>2 DEF Using
          <6>4. refc[g] > 0  BY <6>1, <6>3, <1>0, UserRef
          <6> QED BY <6>4, <3>4
        <5> QED BY <3>1, <3>4, <5>1, <5>2, <1>f DEF OnList
      <4>4. \A f \in Frames : f # g => (OnList(f)' <=> OnList(f))  BY <3>1, <3>2, <1>f DEF OnList
      <4>5. \A i \in 1 .. n : s[i] # g  BY <2>l, <4>2
      <4> DEFINE s2 == [i \in 1 .. n + 1 |-> IF i = 1 THEN g ELSE s[i - 1]]
      <4>6. /\ \A i \in 1 .. n + 1 : i # 1 => i - 1 \in 1 .. n
            /\ \A i \in 1 .. n : i + 1 \in 1 .. n + 1 /\ (i + 1) - 1 = i
            /\ n + 1 \in Nat /\ 1 \in 1 .. n + 1
        BY <2>n
      <4>7. s2 \in [1 .. n + 1 -> Frames]  BY <4>6
      <4>8. \A i, j \in 1 .. n + 1 : s2[i] = s2[j] => i = j
        <5> SUFFICES ASSUME NEW i \in 1 .. n + 1, NEW j \in 1 .. n + 1, s2[i] = s2[j] PROVE i = j
          OBVIOUS
        <5>1. i = 1 \/ j = 1 => i = j  BY <4>5, <4>6
        <5>2. i # 1 /\ j # 1 => i - 1 = j - 1  BY <4>6, <2>l DEF Chain
        <5> QED BY <5>1, <5>2, <2>n
      <4>9. n + 1 \in 0 .. Nodes  BY <4>6, <4>7, <4>8, ChainBound
      <4>10. Chain(n + 1, s2)'
        <5>1. freelist' = IF n + 1 = 0 THEN Null ELSE s2[1]  BY <4>1, <4>6, <2>n
        <5>2. ASSUME NEW i \in 1 .. n + 1
              PROVE  next'[s2[i]] = IF i = n + 1 THEN Null ELSE s2[i + 1]
          <6>1. next \in [Frames -> Frames \union {Null}]  BY <1>0 DEF TypeOK
          <6>2. CASE i = 1
            <7>1. next'[s2[i]] = freelist  BY <6>1, <6>2, <4>1
            <7>2. freelist = IF n = 0 THEN Null ELSE s[1]  BY <2>l DEF Chain
            <7> QED BY <7>1, <7>2, <6>2, <2>n
          <6>3. CASE i # 1
            <7>1. i - 1 \in 1 .. n /\ s2[i] = s[i - 1] /\ s[i - 1] # g  BY <6>3, <4>5, <4>6
            <7>2. next'[s2[i]] = next[s[i - 1]]  BY <7>1, <6>1, <4>1
            <7>3. next[s[i - 1]] = IF i - 1 = n THEN Null ELSE s[(i - 1) + 1]  BY <7>1, <2>l DEF Chain
            <7> QED BY <7>1, <7>2, <7>3, <2>n
          <6> QED BY <6>2, <6>3
        <5> QED BY <4>7, <4>8, <5>1, <5>2 DEF Chain
      <4>11. \A f \in Frames : (f = g \/ \E i \in 1 .. n : s[i] = f) <=> \E i \in 1 .. n + 1 : s2[i] = f
        <5>1. s2[1] = g /\ \A i \in 1 .. n : s2[i + 1] = s[i]  BY <4>6
        <5>2. \A i \in 1 .. n + 1 : s2[i] = g \/ (i - 1 \in 1 .. n /\ s2[i] = s[i - 1])  BY <4>6
        <5> HIDE DEF s2
        <5> QED BY <5>1, <5>2, <4>6
      <4> HIDE DEF s2
      <4>12. ~(\E u \in Threads : pc[u] = "count") /\ ~(\E u \in Threads : pc'[u] = "count")
        BY <3>1, <2>o, <1>f
      <4>13. freecnt' = Uint((n + 1) - fails')
        <5>1. freecnt = Uint(n - fails)  BY <2>l, <4>12
        <5> QED BY <2>n, <3>1, <4>1, <5>1, UintSteps
      <4> QED BY <2>l, <4>3, <4>4, <4>7, <4>9, <4>10, <4>11, <4>12, <4>13 DEF ListInv, Nodes
    <3> QED BY <3>3, <3>4
  <2>14. CASE RefcBody(t)
    <3>1. /\ pc[t] = "body" /\ op[t] \in {"incr_refc", "decr_refc", "get_refc"} /\ arg[t] \in Frames
          /\ \A f \in Frames : f # arg[t] => refc'[f] = refc[f]
          /\ pc' = [pc EXCEPT ![t] = "test2"]
          /\ UNCHANGED <<freelist, next, freecnt, fails, unfreed, op, arg>>
      BY <2>14, <1>0, <1>f DEF RefcBody, OpShape
    <3>2. booted  BY <3>1, <1>0 DEF Accounts
    <3>3. t \in Using(arg[t])  BY <3>1 DEF Using
    <3>4. refc[arg[t]] > 0  BY <3>1, <3>2, <3>3, <1>0, UserRef
    <3>5. refc'[arg[t]] > 0
      <4>1. refc[arg[t]] \in Int  BY <3>1, <1>f
      <4>2. CASE op[t] = "incr_refc"  BY <2>14, <3>1, <3>4, <4>1, <4>2, <1>f DEF RefcBody
      <4>3. CASE op[t] = "decr_refc"
        <5>1. refc[arg[t]] > 1  BY <3>1, <4>3, <1>0 DEF Accounts
        <5> QED BY <2>14, <3>1, <5>1, <4>1, <4>3, <1>f DEF RefcBody
      <4>4. CASE op[t] = "get_refc"  BY <2>14, <3>1, <3>4, <4>1, <4>4, <1>f DEF RefcBody
      <4> QED BY <3>1, <4>2, <4>3, <4>4
    <3>6. \A f \in Frames : OnList(f)' <=> OnList(f)  BY <3>1, <3>4, <3>5, <1>f DEF OnList
    <3>7. (\E u \in Threads : pc'[u] = "count") <=> (\E u \in Threads : pc[u] = "count")
      BY <3>1, <1>f
    <3> QED BY <3>1, <3>6, <3>7, <1>0, ListSame
  <2> QED BY <1>t, <2>1, <2>2, <2>3, <2>4, <2>5, <2>6, <2>7, <2>8, <2>9, <2>10, <2>11, <2>12,
             <2>13, <2>14 DEF Step
<1> QED BY <1>u, <1>k, <1>c, <1>t DEF Next

LEMMA AllocStep ==
  ASSUME NCPU = 1, AllocInv, [Next]_vars
  PROVE  AllocInv'
BY LockStep, OpStep, AccountStep, ListStep DEF AllocInv
-----------------------------------------------------------------------------
\* A set of natural numbers that is not empty has a least element.
LEMMA LeastNat ==
  ASSUME NEW T \in SUBSET Nat, T # {}
  PROVE  \E x \in T : \A y \in T : x <= y
<1>1. PICK x \in T : \A y \in T : ~(<<y, x>> \in OpToRel(<, Nat))
  BY NatLessThanWellFounded, WFMin
<1>2. \A y \in T : ~(y < x)  BY <1>1 DEF OpToRel
<1> QED BY <1>2

\* Following r->next from kmem.freelist visits the pages of the chain in order.
LEMMA WalkChain ==
  ASSUME NEW n \in 0 .. Nodes, NEW s \in [1 .. n -> Frames], Chain(n, s), NEW k \in 0 .. Nodes
  PROVE  Walk[k] = IF k < n THEN s[k + 1] ELSE Null
<1> DEFINE W == [i \in 0 .. Nodes |-> IF i < n THEN s[i + 1] ELSE Null]
           Link(F) == [i \in 0 .. Nodes |-> IF i = 0 THEN freelist
                         ELSE IF F[i - 1] = Null THEN Null ELSE next[F[i - 1]]]
<1>0. Nodes \in Nat /\ n \in Nat /\ Null \notin Frames
  BY KmemAssumption, FS_CardinalityType DEF Nodes
<1>1. ASSUME NEW i \in 0 .. Nodes PROVE W[i] = Link(W)[i]
  <2>1. CASE i = 0  BY <2>1, <1>0 DEF Chain
  <2>2. CASE i # 0
    <3>1. i - 1 \in 0 .. Nodes /\ i - 1 < i  BY <2>2, <1>0
    <3>2. Link(W)[i] = IF W[i - 1] = Null THEN Null ELSE next[W[i - 1]]  BY <2>2
    <3>3. CASE i - 1 < n
      <4>1. i \in 1 .. n /\ W[i - 1] = s[i] /\ s[i] \in Frames  BY <3>1, <3>3, <2>2, <1>0
      <4>2. next[s[i]] = IF i = n THEN Null ELSE s[i + 1]  BY <4>1 DEF Chain
      <4>3. W[i] = IF i < n THEN s[i + 1] ELSE Null  OBVIOUS
      <4> QED BY <3>2, <4>1, <4>2, <4>3, <1>0
    <3>4. CASE ~(i - 1 < n)  BY <3>1, <3>2, <3>4, <1>0
    <3> QED BY <3>3, <3>4
  <2> QED BY <2>1, <2>2
<1>2. W = Link(W)  BY <1>1
<1> HIDE DEF W
<1>3. Walk = Link(Walk)  BY <1>2 DEF Walk
<1> HIDE DEF Link
<1>4. \A i \in 0 .. Nodes : Walk[i] = W[i]
  <2> DEFINE T == {i \in 0 .. Nodes : Walk[i] # W[i]}
  <2> SUFFICES ASSUME T # {} PROVE FALSE  OBVIOUS
  <2>0. T \in SUBSET Nat  BY <1>0
  <2>1. PICK x \in T : \A y \in T : x <= y  BY <2>0, LeastNat
  <2>2. x # 0  BY <1>2, <1>3, <2>1 DEF Link
  <2>3. x - 1 \in 0 .. Nodes /\ Walk[x - 1] = W[x - 1]  BY <2>1, <2>2, <1>0
  <2>4. Link(Walk)[x] = Link(W)[x]  BY <2>1, <2>2, <2>3 DEF Link
  <2>5. Walk[x] = W[x]  BY <1>2, <1>3, <2>4
  <2> QED BY <2>1, <2>5
<1> QED BY <1>4 DEF W

\* The pages reached from kmem.freelist are the ones that belong there.
LEMMA ListedExact ==
  ASSUME ListInv
  PROVE  /\ Walk[Nodes] = Null
         /\ Listed = {f \in Frames : OnList(f)}
         /\ (\A t \in Threads : pc[t] # "count") => freecnt = Uint(Cardinality(Listed) - fails)
<1>1. PICK n \in 0 .. Nodes : \E s \in [1 .. n -> Frames] :
        /\ Chain(n, s)
        /\ \A f \in Frames : OnList(f) <=> \E i \in 1 .. n : s[i] = f
        /\ freecnt = Uint((IF \E t \in Threads : pc[t] = "count" THEN n + 1 ELSE n) - fails)
  BY DEF ListInv
<1>2. PICK s \in [1 .. n -> Frames] :
        /\ Chain(n, s)
        /\ \A f \in Frames : OnList(f) <=> \E i \in 1 .. n : s[i] = f
        /\ freecnt = Uint((IF \E t \in Threads : pc[t] = "count" THEN n + 1 ELSE n) - fails)
  BY <1>1
<1>0. Nodes \in Nat /\ n \in Nat /\ Null \notin Frames
  BY KmemAssumption, FS_CardinalityType DEF Nodes
<1>3. \A k \in 0 .. Nodes : Walk[k] = IF k < n THEN s[k + 1] ELSE Null  BY <1>2, WalkChain
<1>4. Walk[Nodes] = Null  BY <1>3, <1>0
<1>5. Listed = {s[i] : i \in 1 .. n}
  <2>1. ASSUME NEW k \in 0 .. Nodes, Walk[k] # Null PROVE Walk[k] \in {s[i] : i \in 1 .. n}
    <3>1. k + 1 \in 1 .. n  BY <1>0, <1>3, <2>1
    <3> QED BY <3>1, <2>1, <1>3
  <2>2. ASSUME NEW i \in 1 .. n PROVE s[i] \in Listed
    <3>1. i - 1 \in 0 .. Nodes /\ Walk[i - 1] = s[i] /\ s[i] # Null  BY <1>0, <1>3
    <3> QED BY <3>1 DEF Listed
  <2> QED BY <2>1, <2>2 DEF Listed
<1>6. Listed = {f \in Frames : OnList(f)}  BY <1>2, <1>5
<1>7. Cardinality(Listed) = n
  <2>1. s \in Bijection(1 .. n, Listed)
    BY <1>2, <1>5 DEF Chain, Bijection, Injection, Surjection, IsInjective
  <2>2. IsFiniteSet(1 .. n) /\ Cardinality(1 .. n) = n  BY <1>0, FS_Interval
  <2> QED BY <2>1, <2>2, FS_Bijection DEF ExistsBijection
<1> QED BY <1>2, <1>4, <1>6, <1>7

\* List, reference counts and counter agree after every statement of kalloc.c.
THEOREM FreeCorrect == ASSUME NCPU = 1 PROVE Spec => []FreeExact
<1>1. ASSUME AllocInv PROVE FreeExact
  <2>0. /\ TypeOK /\ OpShape /\ Accounts /\ ListInv /\ BootedShape
    BY <1>1 DEF AllocInv, LockInv
  <2>1. FreeListExact
    <3> DEFINE Early == {arg[t] : t \in {u \in Threads : op[u] = "kfree"
                          /\ pc[u] \in {"test", "body", "clear", "drop"} /\ refc[arg[u]] = 0}}
    <3>1. \A t \in Threads : op[t] = "kfree" /\ pc[t] \in Freeing /\ refc[arg[t]] = 0
            => arg[t] \in Frames \ unfreed
      BY <2>0 DEF OpShape, Accounts, BootedShape
    <3>2. \A t \in Threads : pc[t] = "push" => op[t] = "kfree"  BY <2>0 DEF OpShape, Unlocking
    <3>3. Listed \intersect BeingFreed = {}
      BY <2>0, <3>2, ListedExact DEF BeingFreed, OnList, Freeing
    <3>4. Listed \union BeingFreed \union Early \subseteq {f \in Frames \ unfreed : refc[f] = 0}
      BY <2>0, <3>1, <3>2, ListedExact DEF BeingFreed, OnList, Freeing
    <3>5. ASSUME NEW f \in Frames \ unfreed, refc[f] = 0, ~OnList(f)
          PROVE  f \in BeingFreed \union Early
      BY <3>5 DEF OnList, BeingFreed, Freeing
    <3> QED BY <2>0, <3>3, <3>4, <3>5, ListedExact DEF FreeListExact
  <2>2. FreeCountExact  BY <2>0, ListedExact DEF FreeCountExact, Inside
  <2> QED BY <2>0, <2>1, <2>2 DEF FreeExact
<1>2. AllocInv /\ [Next]_vars => AllocInv'  BY AllocStep
<1> QED BY <1>1, <1>2, AllocInit, PTL DEF Spec
-----------------------------------------------------------------------------
\* The pages the atomic allocator has to give: those without a reference that
\* are not the argument of a kfree on its way to dropping a count.
Early == {"test", "body", "clear", "drop"}
Avail(f) ==
  /\ f \notin unfreed /\ refc[f] = 0
  /\ \A t \in Threads : ~(op[t] = "kfree" /\ pc[t] \in Early /\ arg[t] = f)

LEMMA PoolExact ==
  ASSUME AllocInv
  PROVE  /\ Listed \union BeingFreed = {f \in Frames : Avail(f)}
         /\ booted => \A f \in Frames : Avail(f) <=> refc[f] = 0
<1>0. /\ LockInv /\ TypeOK /\ OpShape /\ Accounts /\ ListInv /\ BootShape /\ BootedShape
  BY DEF AllocInv, LockInv
<1>1. ASSUME NEW t \in Threads, booted, op[t] = "kfree", pc[t] \in Early
      PROVE  arg[t] \in Frames /\ refc[arg[t]] # 0
  <2>1. arg[t] \in Frames /\ t \in Using(arg[t])  BY <1>0, <1>1 DEF OpShape, Using, Early
  <2> QED BY <2>1, <1>0, <1>1, UserRef
<1>2. \A t \in Threads : pc[t] = "push" => op[t] = "kfree" /\ arg[t] \in Frames
  BY <1>0 DEF OpShape, Unlocking
<1>3. ASSUME NEW t \in Threads, pc[t] = "push", refc[arg[t]] = 0 PROVE Avail(arg[t])
  <2>1. arg[t] \notin unfreed  BY <1>0, <1>2, <1>3 DEF Accounts, BootedShape, Freeing
  <2>2. ASSUME NEW u \in Threads, op[u] = "kfree", pc[u] \in Early, arg[u] = arg[t] PROVE FALSE
    <3>1. ~booted  BY <1>1, <1>3, <2>2
    <3> QED BY <3>1, <1>0, <1>3, <2>2 DEF BootShape, Early
  <2> QED BY <1>3, <2>1, <2>2 DEF Avail
<1>4. \A f \in Frames : OnList(f) => Avail(f)  BY DEF OnList, Avail, Freeing, Early
<1>5. \A f \in Frames : Avail(f) /\ ~OnList(f) => f \in BeingFreed
  BY DEF OnList, Avail, Freeing, Early, BeingFreed
<1>6. BeingFreed \subseteq {f \in Frames : Avail(f)}  BY <1>2, <1>3 DEF BeingFreed
<1>7. Listed = {f \in Frames : OnList(f)}  BY <1>0, ListedExact
<1>8. booted => \A f \in Frames : Avail(f) <=> refc[f] = 0  BY <1>0, <1>1 DEF Avail, BootedShape
<1> QED BY <1>4, <1>5, <1>6, <1>7, <1>8

USE DEF Atomic!kalloc, Atomic!kfree, Atomic!incr_refc, Atomic!decr_refc

\* One statement of kalloc.c is one step of the atomic allocator, or none.
LEMMA SimulationStep ==
  ASSUME NCPU = 1, AllocInv, AllocInv', [Next]_vars
  PROVE  [Atomic!Next]_(Atomic!vars)
<1> USE DEF Goto, kmem, regs, pushcli, popcli
<1> DEFINE free == Listed \union BeingFreed
<1>0. /\ LockInv /\ TypeOK /\ BootShape /\ BootedShape /\ OpShape /\ Accounts /\ ListInv /\ NoPanic'
      /\ TypeOK'
  BY DEF AllocInv, LockInv
<1>1. free = {f \in Frames : Avail(f)} /\ (booted => \A f \in Frames : Avail(f) <=> refc[f] = 0)
  BY PoolExact
<1>2. free' = {f \in Frames : Avail(f)'} /\ (booted' => \A f \in Frames : Avail(f)' <=> refc'[f] = 0)
  <2>1. (AllocInv => /\ free = {f \in Frames : Avail(f)}
                     /\ booted => \A f \in Frames : Avail(f) <=> refc[f] = 0)'
    BY PoolExact, PTL
  <2> QED BY <2>1
<1>f. /\ pc \in [Threads -> Labels] /\ op \in [Threads -> Ops] /\ refc \in [Frames -> Int]
      /\ arg \in [Threads -> Frames \union {Null}]
  BY <1>0 DEF TypeOK
<1>s. ASSUME refc' = refc, \A f \in Frames : Avail(f)' <=> Avail(f) PROVE UNCHANGED Atomic!vars
  BY <1>1, <1>2, <1>s DEF Atomic!vars
<1>u. CASE UNCHANGED vars
  <2>1. UNCHANGED <<refc, unfreed, op, pc, arg>>  BY <1>u DEF vars
  <2> QED BY <1>s, <2>1 DEF Avail
<1>k. CASE kinit2
  <2>1. UNCHANGED <<refc, unfreed, op, pc, arg>>  BY <1>k DEF kinit2
  <2> QED BY <1>s, <2>1 DEF Avail
<1>t. ASSUME NEW t \in Threads, CallAny(t) \/ Step(t) PROVE [Atomic!Next]_(Atomic!vars)
  <2>p. ~panic  BY <1>0 DEF panic, NoPanic
  <2>b. booted' = booted
    BY <1>t, <2>p DEF CallAny, Step, freerange, CallKalloc, CallKfree, CallIncr, CallDecr, CallGet, Call,
        Test, AcquireCli, AcquireSpin, Test2, Release, KallocRead, KallocPop, KallocCount, vars,
        KfreeSave, KfreeClear, KfreeDrop, KfreePush, KfreeRestore, RefcBody
  \* After boot the pool is read off the counts.
  <2>s. ASSUME booted, refc' = refc PROVE UNCHANGED Atomic!vars
    BY <2>s, <2>b, <1>1, <1>2, <1>s
  <2>a. CASE CallAny(t)
    <3>1. refc' = refc
      BY <2>a DEF CallAny, freerange, CallKalloc, CallKfree, CallIncr, CallDecr, CallGet, Call
    <3>2. CASE ~booted
      <4>1. CASE freerange(t)
        <5>1. PICK f \in unfreed : Call(t, "kfree", f, TRUE) /\ unfreed' = unfreed \ {f}
          BY <4>1 DEF freerange
        <5>2. \A g \in Frames : Avail(g)' <=> Avail(g)
          BY <3>1, <5>1, <1>f DEF Call, Avail, Early
        <5> QED BY <1>s, <3>1, <5>2
      <4>2. CASE CallKalloc(t)
        <5>1. \A g \in Frames : Avail(g)' <=> Avail(g)
          BY <3>1, <4>2, <1>f DEF CallKalloc, Call, Avail, Early
        <5> QED BY <1>s, <3>1, <5>1
      <4> QED BY <2>a, <3>2, <4>1, <4>2 DEF CallAny, CallKfree, CallIncr, CallDecr, CallGet, Holds
    <3> QED BY <2>s, <3>1, <3>2
  <2>t. CASE Step(t)
    \* Before boot, a statement that moves no kfree past its decr_refc.
    <3>q. ASSUME refc' = refc, UNCHANGED unfreed,
                 \A u \in Threads : u # t => pc'[u] = pc[u] /\ op'[u] = op[u] /\ arg'[u] = arg[u],
                 op[t] = "kfree" /\ pc[t] \in Early <=> op'[t] = "kfree" /\ pc'[t] \in Early,
                 pc[t] \in Early => arg'[t] = arg[t]
          PROVE  UNCHANGED Atomic!vars
      BY <3>q, <1>s DEF Avail
    <3> USE DEF Early
    <3>1. CASE Test(t)  BY <3>1, <2>s, <3>q, <1>f, <1>0 DEF Test, BootShape
    <3>2. CASE AcquireCli(t)  BY <3>2, <2>p, <2>s, <1>0 DEF AcquireCli, BootShape
    <3>3. CASE AcquireSpin(t)
      <4>1. booted /\ refc' = refc  BY <3>3, <1>0 DEF AcquireSpin, BootShape, vars
      <4> QED BY <4>1, <2>s
    <3>4. CASE Test2(t)
      <4>1. refc' = refc /\ UNCHANGED unfreed /\ pc[t] = "test2" /\ pc'[t] \notin Early
            /\ \A u \in Threads : u # t => pc'[u] = pc[u] /\ op'[u] = op[u] /\ arg'[u] = arg[u]
        BY <3>4, <1>f DEF Test2, Return
      <4> QED BY <4>1, <3>q
    <3>5. CASE Release(t)
      <4>1. booted /\ refc' = refc  BY <3>5, <2>p, <1>0 DEF Release, BootShape
      <4> QED BY <4>1, <2>s
    <3>6. CASE KallocRead(t)  BY <3>6, <3>q, <1>f DEF KallocRead
    <3>7. CASE KallocCount(t)  BY <3>7, <3>q, <1>f DEF KallocCount
    <3>8. CASE KfreeSave(t)  BY <3>8, <3>q, <1>f DEF KfreeSave
    <3>9. CASE KfreeClear(t)  BY <3>9, <3>q, <1>f DEF KfreeClear
    <3>10. CASE KfreePush(t)
      <4>1. refc' = refc /\ UNCHANGED <<unfreed, op, arg>> /\ pc[t] = "push"
            /\ pc' = [pc EXCEPT ![t] = "restore"]
        BY <3>10, <2>p DEF KfreePush
      <4> QED BY <4>1, <3>q, <1>f
    <3>11. CASE KfreeRestore(t)  BY <3>11, <3>q, <1>f DEF KfreeRestore
    <3>12. CASE KallocPop(t)
      <4>1. /\ op[t] = "kalloc" /\ pc' = [pc EXCEPT ![t] = "count"] /\ UNCHANGED <<op, arg, unfreed>>
            /\ r[t] = freelist
        BY <3>12, <1>0 DEF KallocPop, OpShape
      <4>2. CASE r[t] = Null
        <5>1. refc' = refc  BY <3>12, <4>2 DEF KallocPop
        <5> QED BY <4>1, <5>1, <3>q, <1>f
      <4>3. CASE r[t] # Null
        <5>1. PICK f \in Frames : f = r[t]  BY <4>3, <1>0 DEF TypeOK
        <5>2. refc' = [refc EXCEPT ![f] = 1]  BY <3>12, <4>3, <5>1 DEF KallocPop
        <5>3. OnList(f)  BY <4>1, <5>1, <1>0, KmemAssumption DEF ListInv, Chain
        <5>4. Avail(f)  BY <5>3 DEF OnList, Avail, Freeing
        <5>5. \A g \in Frames : Avail(g)' <=> Avail(g) /\ g # f
          BY <4>1, <5>2, <1>f DEF Avail
        <5>6. f \in free /\ free' = free \ {f}  BY <5>4, <5>5, <1>1, <1>2
        <5>7. Atomic!Alloc(f)  BY <5>2, <5>6 DEF Atomic!Alloc
        <5> QED BY <5>7 DEF Atomic!Next
      <4> QED BY <4>2, <4>3
    <3>13. CASE KfreeDrop(t)
      <4>1. /\ pc[t] = "drop" /\ op[t] = "kfree" /\ pc' = [pc EXCEPT ![t] = "push"]
            /\ UNCHANGED <<op, arg, unfreed>>
        BY <3>13, <2>p, <1>0 DEF KfreeDrop, OpShape, Unlocking
      <4>2. PICK f \in Frames : f = arg[t]  BY <4>1, <1>0 DEF OpShape
      <4> DEFINE left == IF refc[f] > 0 THEN refc[f] - 1 ELSE refc[f]
      <4>3. refc' = [refc EXCEPT ![f] = left]  BY <3>13, <2>p, <4>2 DEF KfreeDrop
      <4>4. refc[f] \in Int /\ refc[f] >= 0 /\ left \in Int /\ refc'[f] = left
        BY <1>f, <1>0, <4>3 DEF Accounts
      <4>5. \A g \in Frames : g # f => (Avail(g)' <=> Avail(g))
        BY <4>1, <4>2, <4>3, <1>f DEF Avail
      <4>6. ~Avail(f)  BY <4>1, <4>2 DEF Avail
      <4>7. Avail(f)' <=> left = 0
        <5>1. CASE booted  BY <5>1, <1>2, <2>b, <4>4
        <5>2. CASE ~booted
          <6>1. refc[f] = 0 /\ f \notin unfreed  BY <4>1, <4>2, <5>2, <1>0 DEF Accounts, Freeing
          <6>2. \A u \in Threads : u # t => pc[u] = "idle"  BY <4>1, <5>2, <1>0 DEF BootShape
          <6>3. left = 0  BY <6>1
          <6>4. Avail(f)'  BY <4>1, <4>4, <6>1, <6>2, <6>3, <1>f DEF Avail
          <6> QED BY <6>3, <6>4
        <5> QED BY <5>1, <5>2
      <4> HIDE DEF left
      <4>8. free' = IF left = 0 THEN free \union {f} ELSE free  BY <4>5, <4>6, <4>7, <1>1, <1>2
      <4>9. f \notin free  BY <4>6, <1>1
      <4>10. CASE refc[f] = 0
        <5>1. Atomic!Donate(f)  BY <4>3, <4>8, <4>9, <4>10 DEF Atomic!Donate, left
        <5> QED BY <5>1 DEF Atomic!Next
      <4>11. CASE refc[f] > 0
        <5>1. Atomic!Drop(f)  BY <4>3, <4>8, <4>11 DEF Atomic!Drop, left
        <5> QED BY <5>1 DEF Atomic!Next
      <4> QED BY <4>4, <4>10, <4>11
    <3>14. CASE RefcBody(t)
      <4>1. pc[t] = "body" /\ op[t] \in {"incr_refc", "decr_refc", "get_refc"} /\ arg[t] \in Frames
        BY <3>14, <1>0 DEF RefcBody, OpShape
      <4>2. PICK f \in Frames : f = arg[t]  BY <4>1
      <4>3. booted /\ refc[f] > 0 /\ refc[f] \in Int
        <5>1. booted  BY <4>1, <1>0 DEF Accounts
        <5>2. t \in Using(f)  BY <4>1, <4>2 DEF Using
        <5> QED BY <5>1, <5>2, <1>0, <1>f, UserRef
      <4>4. ASSUME refc'[f] > 0, \A g \in Frames : g # f => refc'[g] = refc[g] PROVE free' = free
        BY <4>3, <4>4, <2>b, <1>1, <1>2
      <4>5. CASE op[t] = "incr_refc"
        <5>1. refc' = [refc EXCEPT ![f] = @ + 1]  BY <3>14, <4>2, <4>5 DEF RefcBody
        <5>2. free' = free  BY <4>3, <4>4, <5>1, <1>f
        <5>3. Atomic!Share(f)  BY <4>3, <5>1, <5>2 DEF Atomic!Share
        <5> QED BY <5>3 DEF Atomic!Next
      <4>6. CASE op[t] = "decr_refc"
        <5>1. refc' = [refc EXCEPT ![f] = @ - 1]  BY <3>14, <4>2, <4>6 DEF RefcBody
        <5>2. refc[f] > 1  BY <4>1, <4>2, <4>6, <1>0 DEF Accounts
        <5>3. free' = free  BY <4>3, <4>4, <5>1, <5>2, <1>f
        <5>4. Atomic!Unshare(f)  BY <5>1, <5>2, <5>3 DEF Atomic!Unshare
        <5> QED BY <5>4 DEF Atomic!Next
      <4>7. CASE op[t] = "get_refc"
        <5>1. refc' = refc  BY <3>14, <4>2, <4>7, <1>f DEF RefcBody
        <5> QED BY <5>1, <4>3, <2>s
      <4> QED BY <4>1, <4>5, <4>6, <4>7
    <3> QED BY <2>t, <3>1, <3>2, <3>3, <3>4, <3>5, <3>6, <3>7, <3>8, <3>9, <3>10, <3>11, <3>12,
               <3>13, <3>14 DEF Step
  <2> QED BY <1>t, <2>a, <2>t
<1> QED BY <1>u, <1>k, <1>t DEF Next

\* On one processor the statements of kalloc.c implement the atomic allocator
\* PageAllocator, on which the copy-on-write model is built.
THEOREM PageAllocatorImplemented == ASSUME NCPU = 1 PROVE Spec => ImplementsPageAllocator
<1>1. Init => Atomic!Init
  <2> SUFFICES ASSUME Init PROVE Atomic!Init  OBVIOUS
  <2>1. AllocInv  BY AllocInit
  <2>2. Listed \union BeingFreed = {f \in Frames : Avail(f)}  BY <2>1, PoolExact
  <2>3. \A f \in Frames : ~Avail(f)  BY DEF Init, Avail
  <2> QED BY <2>2, <2>3 DEF Init, Atomic!Init
<1>2. AllocInv /\ [Next]_vars => AllocInv'  BY AllocStep
<1>3. AllocInv /\ AllocInv' /\ [Next]_vars => [Atomic!Next]_(Atomic!vars)  BY SimulationStep
<1> QED BY <1>1, <1>2, <1>3, AllocInit, PTL DEF Spec, ImplementsPageAllocator, Atomic!Spec
=============================================================================
