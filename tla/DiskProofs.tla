----------------------------- MODULE DiskProofs -----------------------------
(***************************************************************************)
(* Proofs about the buffer cache and the disk driver, for every number of  *)
(* processes, blocks and buffers.                                          *)
(*                                                                         *)
(* The argument: who has a sleep lock is at a label under it (Works,       *)
(* Locks), so a queued buffer belongs to one process that waits, and its   *)
(* flags tell that the request is not done (Buffers); the controller works *)
(* on the head of the queue with its data (QueueExact, Command); a valid   *)
(* buffer that is not dirty agrees with the disk (Clean), so recycling it  *)
(* loses nothing; and every buffer that bget must leave alone is used by a *)
(* process or pinned by the log (Counted), at most MaxDirty of them        *)
(* (DirtyBound).                                                           *)
(***************************************************************************)
EXTENDS Disk, FiniteSetTheorems, WellFoundedInduction, TLAPS

\* Labels under the sleep lock of the buffer.
Held == {"read", "iowait", "iotest", "hold", "used"}

Works ==
  \A p \in Procs :
    /\ pc[p] = "idle" <=> buf[p] = None
    /\ pc[p] # "idle" => block[buf[p]] \in Blocks
    /\ pc[p] \in Held => lock[buf[p]] = p
    /\ pc[p] \in {"hold", "used"} => valid[buf[p]]
    /\ pc[p] \in {"read", "hold", "used"} => buf[p] \notin Queued
    /\ pc[p] = "iotest" => buf[p] \in Queued \/ (valid[buf[p]] /\ ~dirty[buf[p]])

Locks == \A b \in Bufs : lock[b] # None => buf[lock[b]] = b /\ pc[lock[b]] \in Held

Buffers ==
  \A b \in Bufs :
    /\ dirty[b] => valid[b]
    /\ valid[b] => data[b] \in Values /\ block[b] \in Blocks
    /\ b \in Queued => ~valid[b] \/ dirty[b]

\* The controller has the data of the buffer it writes, and with the interrupt it
\* has written it.
Command ==
  /\ idequeue # <<>> /\ ctl.write => ctl.data = data[Head(idequeue)]
  /\ irq /\ ctl.write => disk[ctl.block] = ctl.data

\* A clean copy is a copy.
Clean ==
  \A b \in Bufs : valid[b] /\ ~dirty[b] /\ block[b] \notin Bad => data[b] = disk[block[b]]

\* The log leaves a bounded number of buffers dirty.
DirtyBound == Cardinality(Pinned) <= MaxDirty

CacheInv == TypeOK /\ Works /\ Locks /\ Buffers /\ OneCopy /\ DirtyBound
QueueInv == QueueExact /\ NoLostWakeup /\ Command /\ Clean
DiskInv  == CacheInv /\ QueueInv
-----------------------------------------------------------------------------
(***************************************************************************)
(* Sets, sequences and counting.                                           *)
(***************************************************************************)
LEMMA LeastNat ==
  ASSUME NEW S \in SUBSET Nat, S # {}
  PROVE  \E n \in S : \A k \in S : n <= k
<1>1. PICK n \in S : \A k \in S : ~(<<k, n>> \in OpToRel(<, Nat))
  BY WFMin, NatLessThanWellFounded
<1>2. \A k \in S : ~(k < n)  BY <1>1 DEF OpToRel
<1> QED BY <1>2

LEMMA Sizes == Cardinality(Bufs) \in Nat /\ Cardinality(Procs) \in Nat
BY DiskAssumption, FS_CardinalityType

\* A scan finds a position it looks for.
LEMMA ScanFinds ==
  ASSUME NEW S \in SUBSET Slots, S # {} PROVE First(S) \in S /\ Last(S) \in S
<1>1. S \subseteq Nat  BY Sizes DEF Slots
<1>2. First(S) \in S  BY <1>1, LeastNat DEF First
<1>3. \E i \in S : \A j \in S : j <= i
  <2> DEFINE N == Cardinality(Bufs)
             T == {k \in Nat : \E i \in S : k = N - i}
  <2>1. N \in Nat /\ \A i \in S : i \in Nat /\ i <= N  BY Sizes DEF Slots
  <2> HIDE DEF N
  <2>2. T # {}
    <3>1. PICK i \in S : TRUE  OBVIOUS
    <3>2. N - i \in T  BY <2>1, <3>1
    <3> QED BY <3>2
  <2>3. PICK k \in T : \A l \in T : k <= l  BY <2>2, LeastNat
  <2>4. PICK i \in S : k = N - i  OBVIOUS
  <2>5. \A j \in S : N - j \in T  BY <2>1
  <2> QED BY <2>1, <2>3, <2>4, <2>5
<1>4. Last(S) \in S  BY <1>3 DEF Last
<1> QED BY <1>2, <1>4

\* A request joins the queue at its end.
LEMMA AppendQueue ==
  ASSUME NEW s \in Seq(Bufs), NEW b \in Bufs, b \notin Range(s), IsInjective(s)
  PROVE  /\ Append(s, b) \in Seq(Bufs) /\ Append(s, b) # <<>>
         /\ Range(Append(s, b)) = Range(s) \union {b} /\ IsInjective(Append(s, b))
         /\ Head(Append(s, b)) = IF s = <<>> THEN b ELSE Head(s)
<1> DEFINE t == Append(s, b)
           n == Len(s)
<1>1. /\ t \in Seq(Bufs) /\ t # <<>> /\ n \in Nat /\ DOMAIN s = 1 .. n /\ DOMAIN t = 1 .. n + 1
      /\ \A i \in 1 .. n : t[i] = s[i] /\ s[i] \in Bufs
      /\ t[n + 1] = b /\ Head(t) = t[1] /\ (s = <<>> <=> n = 0) /\ (s # <<>> => Head(s) = s[1])
  OBVIOUS
<1> HIDE DEF t, n
<1>2. Range(t) = Range(s) \union {b}  BY <1>1 DEF Range
<1>3. IsInjective(t)  BY <1>1 DEF IsInjective, Range
<1>4. Head(t) = IF s = <<>> THEN b ELSE Head(s)  BY <1>1
<1> QED BY <1>1, <1>2, <1>3, <1>4 DEF t

\* The first request leaves it.
LEMMA TailQueue ==
  ASSUME NEW s \in Seq(Bufs), s # <<>>, IsInjective(s)
  PROVE  /\ Tail(s) \in Seq(Bufs) /\ Head(s) \in Range(s) /\ Range(s) \subseteq Bufs
         /\ Range(Tail(s)) = Range(s) \ {Head(s)} /\ IsInjective(Tail(s))
         /\ IF Len(s) > 1 THEN Tail(s) # <<>> /\ Head(Tail(s)) = s[2] /\ s[2] \in Range(Tail(s))
                          ELSE Tail(s) = <<>>
<1> DEFINE t == Tail(s)
           n == Len(s)
<1>1. /\ t \in Seq(Bufs) /\ n \in Nat /\ n >= 1 /\ DOMAIN s = 1 .. n /\ DOMAIN t = 1 .. n - 1
      /\ \A i \in 1 .. n - 1 : t[i] = s[i + 1]
      /\ Head(s) = s[1] /\ \A i \in 1 .. n : s[i] \in Bufs
      /\ Len(t) = n - 1
  OBVIOUS
<1> HIDE DEF t
<1>2. IF n > 1 THEN t # <<>> /\ Head(t) = t[1] ELSE t = <<>>
  <2>1. Len(t) = 0 <=> t = <<>>  BY <1>1
  <2>2. t # <<>> => Head(t) = t[1]  BY <1>1
  <2>3. n > 1 <=> Len(t) # 0  BY <1>1
  <2> QED BY <2>1, <2>2, <2>3
<1>3. Range(t) = Range(s) \ {s[1]}
  <2>1. ASSUME NEW x \in Range(t) PROVE x \in Range(s) \ {s[1]}
    <3>1. PICK i \in 1 .. n - 1 : x = t[i]  BY <1>1 DEF Range
    <3>2. i + 1 \in 1 .. n /\ i + 1 # 1 /\ 1 \in 1 .. n /\ x = s[i + 1]  BY <1>1, <3>1
    <3>3. s[i + 1] # s[1]  BY <1>1, <3>2 DEF IsInjective
    <3> QED BY <1>1, <3>2, <3>3 DEF Range
  <2>2. ASSUME NEW x \in Range(s) \ {s[1]} PROVE x \in Range(t)
    <3>1. PICK i \in 1 .. n : x = s[i]  BY <1>1 DEF Range
    <3>2. i - 1 \in 1 .. n - 1 /\ t[i - 1] = s[i]  BY <1>1, <3>1, <2>2
    <3> QED BY <1>1, <3>1, <3>2 DEF Range
  <2> QED BY <2>1, <2>2
<1>4. IsInjective(t)
  <2> SUFFICES ASSUME NEW i \in 1 .. n - 1, NEW j \in 1 .. n - 1, t[i] = t[j] PROVE i = j
    BY <1>1 DEF IsInjective
  <2>1. i + 1 \in 1 .. n /\ j + 1 \in 1 .. n /\ s[i + 1] = s[j + 1]  BY <1>1
  <2>2. i + 1 = j + 1  BY <2>1, <1>1 DEF IsInjective
  <2> QED BY <2>2, <1>1
<1>5. Head(s) \in Range(s) /\ Range(s) \subseteq Bufs  BY <1>1 DEF Range
<1>6. n > 1 => t[1] = s[2] /\ t[1] \in Range(t)  BY <1>1 DEF Range
<1> QED BY <1>1, <1>2, <1>3, <1>4, <1>5, <1>6 DEF t

\* The type invariant without its definitions.
LEMMA Types ==
  TypeOK <=>
    /\ lru \in [Slots -> Bufs] /\ Range(lru) = Bufs
    /\ block \in [Bufs -> Blocks \union {None}] /\ data \in [Bufs -> Values \union {None}]
    /\ valid \in [Bufs -> BOOLEAN] /\ dirty \in [Bufs -> BOOLEAN]
    /\ refcnt \in [Bufs -> 0 .. Cardinality(Procs)] /\ lock \in [Bufs -> Procs \union {None}]
    /\ idequeue \in Seq(Bufs) /\ irq \in BOOLEAN /\ ctl \in Commands \union {None}
    /\ disk \in [Blocks -> Values]
    /\ pc \in [Procs -> Labels] /\ buf \in [Procs -> Bufs \union {None}] /\ panicked \in BOOLEAN
BY DEF TypeOK

LEMMA UsersSize ==
  ASSUME NEW b PROVE IsFiniteSet(Users(b)) /\ Cardinality(Users(b)) \in 0 .. Cardinality(Procs)
<1>1. Users(b) \in SUBSET Procs  BY DEF Users
<1>2. IsFiniteSet(Users(b)) /\ Cardinality(Users(b)) <= Cardinality(Procs)
  BY <1>1, DiskAssumption, FS_Subset
<1>3. Cardinality(Users(b)) \in Nat  BY <1>2, FS_CardinalityType
<1> QED BY <1>2, <1>3, Sizes

\* Steps that neither take nor drop a reference keep OneCopy.
LEMMA OneCopyKept ==
  ASSUME OneCopy, Locks', lock' \in [Bufs -> Procs \union {None}], UNCHANGED <<refcnt, block, buf>>,
         \A q \in Procs : pc'[q] = "idle" <=> pc[q] = "idle"
  PROVE  OneCopy'
<1>1. ASSUME NEW b PROVE Users(b)' = Users(b)  BY DEF Users
<1>2. \A b \in Bufs : lock'[b] # None => lock'[b] \in Users(b)'
  BY DEF Locks, Held, Users
<1>3. \A b \in Bufs : refcnt'[b] = Cardinality(Users(b)')  BY <1>1 DEF OneCopy
<1> QED BY <1>2, <1>3 DEF OneCopy

LEMMA PinnedFinite == IsFiniteSet(Pinned) /\ Cardinality(Pinned) \in Nat
<1>1. Pinned \in SUBSET Bufs  BY DEF Pinned
<1> QED BY <1>1, DiskAssumption, FS_Subset, FS_CardinalityType

LEMMA PinnedShrinks == ASSUME DirtyBound, Pinned' \subseteq Pinned PROVE DirtyBound'
<1>1. IsFiniteSet(Pinned) /\ Pinned' \in SUBSET Pinned  BY PinnedFinite
<1>2. Cardinality(Pinned') <= Cardinality(Pinned) /\ IsFiniteSet(Pinned')  BY <1>1, FS_Subset
<1>3. Cardinality(Pinned') \in Nat /\ Cardinality(Pinned) \in Nat /\ MaxDirty \in Nat
  BY <1>1, <1>2, FS_CardinalityType, DiskAssumption
<1> QED BY <1>2, <1>3 DEF DirtyBound

LEMMA Consts == None \notin Procs /\ None \notin Blocks /\ None \notin Bufs /\ None \notin Commands
BY DiskAssumption

LEMMA Basics ==
  ASSUME TypeOK
  PROVE  /\ block \in [Bufs -> Blocks \union {None}] /\ data \in [Bufs -> Values \union {None}]
         /\ valid \in [Bufs -> BOOLEAN] /\ dirty \in [Bufs -> BOOLEAN]
         /\ lock \in [Bufs -> Procs \union {None}] /\ disk \in [Blocks -> Values]
         /\ pc \in [Procs -> Labels] /\ buf \in [Procs -> Bufs \union {None}]
BY DEF TypeOK

LEMMA InitInv == Init => DiskInv
<1> SUFFICES ASSUME Init PROVE DiskInv  OBVIOUS
<1>1. lru \in [Slots -> Bufs] /\ Range(lru) = Bufs
  <2>1. IsFiniteSet(Slots) /\ Cardinality(Slots) = Cardinality(Bufs)
    BY Sizes, FS_Interval DEF Slots
  <2>2. lru \in Injection(Slots, Bufs)  BY DEF Init, Injection, IsInjective
  <2>3. lru \in Surjection(Slots, Bufs)  BY <2>1, <2>2, DiskAssumption, FS_Injection
  <2> QED BY <2>2, <2>3 DEF Surjection, Injection, Range
<1>2. idequeue \in Seq(Bufs) /\ Queued = {} /\ IsInjective(idequeue)
  <2>1. idequeue = <<>> /\ DOMAIN idequeue = 1 .. 0  BY DEF Init
  <2> QED BY <2>1 DEF Queued, Range, IsInjective
<1>3. TypeOK
  <2>1. refcnt \in [Bufs -> 0 .. Cardinality(Procs)]  BY Sizes DEF Init
  <2> QED BY <1>1, <1>2, <2>1, Types DEF Init, Labels
<1>4. Works /\ Locks /\ Buffers
  BY <1>2, DiskAssumption DEF Init, Works, Locks, Buffers, Held
<1>5. OneCopy
  <2>1. ASSUME NEW b PROVE Cardinality(Users(b)) = 0
    <3>1. Users(b) = {}  BY DEF Init, Users
    <3> QED BY <3>1, FS_EmptySet
  <2> QED BY <2>1 DEF Init, OneCopy
<1>6. DirtyBound
  <2>1. Pinned = {}  BY DEF Init, Pinned
  <2> QED BY <2>1, FS_EmptySet, DiskAssumption DEF DirtyBound
<1>7. QueueExact /\ NoLostWakeup  BY <1>2 DEF Init, QueueExact, NoLostWakeup, Queued
<1>8. Command /\ Clean  BY DEF Init, Command, Clean
<1> QED BY <1>3, <1>4, <1>5, <1>6, <1>7, <1>8 DEF DiskInv, CacheInv, QueueInv
-----------------------------------------------------------------------------
(***************************************************************************)
(* One lemma per action.                                                   *)
(***************************************************************************)
LEMMA UnchangedStep ==
  ASSUME DiskInv, panicked' \in BOOLEAN,
         UNCHANGED <<bcache, valid, dirty, data, lock, ide, pc, buf>>
  PROVE  DiskInv'
<1> USE DEF bcache, ide
<1>1. (TypeOK /\ Works)'  BY DEF DiskInv, CacheInv, TypeOK, Works, Queued
<1>2. (Locks /\ Buffers)'  BY DEF DiskInv, CacheInv, Locks, Buffers, Queued
<1>3. (OneCopy /\ DirtyBound)'
  BY DEF DiskInv, CacheInv, OneCopy, Users, DirtyBound, Pinned, Queued
<1>4. (QueueExact /\ NoLostWakeup)'  BY DEF DiskInv, QueueInv, QueueExact, NoLostWakeup
<1>5. (Command /\ Clean)'  BY DEF DiskInv, QueueInv, Command, Clean
<1> QED BY <1>1, <1>2, <1>3, <1>4, <1>5 DEF DiskInv, CacheInv, QueueInv

LEMMA AcquireStep ==
  ASSUME DiskInv, NEW p \in Procs, At(p, "lock"), lock[buf[p]] = None,
         lock' = [lock EXCEPT ![buf[p]] = p], Goto(p, "read"),
         UNCHANGED <<bcache, valid, dirty, data, ide, buf, panicked>>
  PROVE  DiskInv'
<1> USE DEF DiskInv, CacheInv, QueueInv
<1>a. PICK b : b = buf[p]  OBVIOUS
<1>0. /\ b = buf[p] /\ b \in Bufs /\ block[b] \in Blocks /\ b \notin Queued
  BY <1>a, Basics, Consts DEF At, Works, QueueExact, Queued
<1>u. /\ lock[b] = None /\ pc[p] = "lock" /\ pc' = [pc EXCEPT ![p] = "read"] /\ lock' = [lock EXCEPT ![b] = p]
      /\ UNCHANGED <<lru, block, refcnt, valid, dirty, data, idequeue, ctl, irq, disk, buf, panicked>> /\ Queued' = Queued
  BY <1>a DEF Queued, At, Goto, bcache, ide, Queued
<1>1. TypeOK'  BY <1>0, <1>u, Types, Consts DEF TypeOK, Labels
<1>2. Works'  BY <1>0, <1>u, Basics, Consts DEF Works, Held
<1>3. Locks'  BY <1>0, <1>u, Basics, Consts DEF Locks, Held
<1>4. Buffers'  BY <1>0, <1>u, Basics, Consts DEF Buffers
<1>5. OneCopy'  BY <1>0, <1>u, <1>1, <1>3, OneCopyKept, Types
<1>6. DirtyBound'  BY <1>0, <1>u, PinnedShrinks DEF Pinned
<1>8. QueueExact'  BY <1>0, <1>u, Basics, Consts DEF QueueExact, Queued
<1>9. NoLostWakeup'  BY <1>0, <1>u, Basics, Consts DEF NoLostWakeup, Queued
<1>10. Command'  BY <1>0, <1>u, Basics, Consts DEF Command
<1>11. Clean'  BY <1>0, <1>u, Basics, Consts DEF Clean
<1> QED BY <1>1, <1>2, <1>3, <1>4, <1>5, <1>6, <1>8, <1>9, <1>10, <1>11 DEF DiskInv, CacheInv, QueueInv

LEMMA LockwaitStep ==
  ASSUME DiskInv, NEW p \in Procs, At(p, "lock"), lock[buf[p]] # None, Goto(p, "lockwait"),
         UNCHANGED <<bcache, lock, valid, dirty, data, ide, buf, panicked>>
  PROVE  DiskInv'
<1> USE DEF DiskInv, CacheInv, QueueInv
<1>a. PICK b : b = buf[p]  OBVIOUS
<1>0. /\ b = buf[p] /\ b \in Bufs /\ block[b] \in Blocks
  BY <1>a, Basics DEF At, Works
<1>u. /\ lock[b] # None /\ pc[p] = "lock" /\ pc' = [pc EXCEPT ![p] = "lockwait"]
      /\ UNCHANGED <<lock, lru, block, refcnt, valid, dirty, data, idequeue, ctl, irq, disk, buf, panicked>> /\ Queued' = Queued
  BY <1>a DEF Queued, At, Goto, bcache, ide, Queued
<1>1. TypeOK'  BY <1>0, <1>u, Types, Consts DEF TypeOK, Labels
<1>2. Works'  BY <1>0, <1>u, Basics, Consts DEF Works, Held
<1>3. Locks'  BY <1>0, <1>u, Basics, Consts DEF Locks, Held
<1>4. Buffers'  BY <1>0, <1>u, Basics, Consts DEF Buffers
<1>5. OneCopy'  BY <1>0, <1>u, <1>1, <1>3, OneCopyKept, Types
<1>6. DirtyBound'  BY <1>0, <1>u, PinnedShrinks DEF Pinned
<1>8. QueueExact'  BY <1>0, <1>u, Basics, Consts DEF QueueExact, Queued
<1>9. NoLostWakeup'  BY <1>0, <1>u, Basics, Consts DEF NoLostWakeup, Queued, Locks, Held
<1>10. Command'  BY <1>0, <1>u, Basics, Consts DEF Command
<1>11. Clean'  BY <1>0, <1>u, Basics, Consts DEF Clean
<1> QED BY <1>1, <1>2, <1>3, <1>4, <1>5, <1>6, <1>8, <1>9, <1>10, <1>11 DEF DiskInv, CacheInv, QueueInv

LEMMA ReleasesleepStep ==
  ASSUME DiskInv, NEW p \in Procs, releasesleep(p)
  PROVE  DiskInv'
<1> USE DEF DiskInv, CacheInv, QueueInv
<1>a. PICK b : b = buf[p]  OBVIOUS
<1>0. /\ b = buf[p] /\ b \in Bufs /\ block[b] \in Blocks /\ lock[b] = p /\ b \notin Queued
  BY <1>a, Basics DEF At, Works, Held, releasesleep
<1>u. /\ pc[p] \in {"hold", "used"} /\ lock' = [lock EXCEPT ![b] = None]
      /\ pc' = [q \in Procs |-> IF q = p THEN "drop"
                               ELSE IF pc[q] = "lockwait" /\ buf[q] = b THEN "lock" ELSE pc[q]]
      /\ UNCHANGED <<lru, block, refcnt, valid, dirty, data, idequeue, ctl, irq, disk, buf, panicked>> /\ Queued' = Queued
  BY <1>a DEF releasesleep, At, Goto, bcache, ide, Queued
<1>1. TypeOK'  BY <1>0, <1>u, Types, Consts DEF TypeOK, Labels
<1>2. Works'  BY <1>0, <1>u, Basics, Consts DEF Works, Held
<1>3. Locks'  BY <1>0, <1>u, Basics, Consts DEF Locks, Held
<1>4. Buffers'  BY <1>0, <1>u, Basics, Consts DEF Buffers
<1>5. OneCopy'  BY <1>0, <1>u, <1>1, <1>3, OneCopyKept, Types
<1>6. DirtyBound'  BY <1>0, <1>u, PinnedShrinks DEF Pinned
<1>8. QueueExact'  BY <1>0, <1>u, Basics, Consts DEF QueueExact, Queued
<1>9. NoLostWakeup'  BY <1>0, <1>u, Basics, Consts DEF NoLostWakeup, Queued
<1>10. Command'  BY <1>0, <1>u, Basics, Consts DEF Command
<1>11. Clean'  BY <1>0, <1>u, Basics, Consts DEF Clean
<1> QED BY <1>1, <1>2, <1>3, <1>4, <1>5, <1>6, <1>8, <1>9, <1>10, <1>11 DEF DiskInv, CacheInv, QueueInv

LEMMA IderwWaitStep ==
  ASSUME DiskInv, NEW p \in Procs, IderwWait(p)
  PROVE  DiskInv'
<1> USE DEF DiskInv, CacheInv, QueueInv
<1>a. PICK b : b = buf[p]  OBVIOUS
<1>0. /\ b = buf[p] /\ b \in Bufs /\ block[b] \in Blocks
  BY <1>a, Basics DEF At, Works, IderwWait
<1>u. /\ pc[p] = "iotest"
      /\ pc' = [pc EXCEPT ![p] = IF valid[b] /\ ~dirty[b] THEN "hold" ELSE "iowait"]
      /\ UNCHANGED <<lock, lru, block, refcnt, valid, dirty, data, idequeue, ctl, irq, disk, buf, panicked>> /\ Queued' = Queued
  BY <1>a DEF IderwWait, At, Goto, bcache, ide, Queued
<1>1. TypeOK'  BY <1>0, <1>u, Types, Consts DEF TypeOK, Labels
<1>2. Works'  BY <1>0, <1>u, Basics, Consts DEF Works, Held, Buffers
<1>3. Locks'  BY <1>0, <1>u, Basics, Consts DEF Locks, Held
<1>4. Buffers'  BY <1>0, <1>u, Basics, Consts DEF Buffers
<1>5. OneCopy'  BY <1>0, <1>u, <1>1, <1>3, OneCopyKept, Types
<1>6. DirtyBound'  BY <1>0, <1>u, PinnedShrinks DEF Pinned
<1>8. QueueExact'  BY <1>0, <1>u, Basics, Consts DEF QueueExact, Queued, Buffers
<1>9. NoLostWakeup'  BY <1>0, <1>u, Basics, Consts DEF NoLostWakeup, Works, Queued
<1>10. Command'  BY <1>0, <1>u, Basics, Consts DEF Command
<1>11. Clean'  BY <1>0, <1>u, Basics, Consts DEF Clean
<1> QED BY <1>1, <1>2, <1>3, <1>4, <1>5, <1>6, <1>8, <1>9, <1>10, <1>11 DEF DiskInv, CacheInv, QueueInv

LEMMA KillStep ==
  ASSUME DiskInv, NEW p \in Procs, Kill(p)
  PROVE  DiskInv'
<1> USE DEF DiskInv, CacheInv, QueueInv
<1>a. PICK b : b = buf[p]  OBVIOUS
<1>0. /\ b = buf[p] /\ b \in Bufs /\ block[b] \in Blocks
  BY <1>a, Basics DEF At, Works, Kill
<1>u. /\ pc[p] \in {"lockwait", "iowait"}
      /\ pc' = [pc EXCEPT ![p] = IF pc[p] = "lockwait" THEN "lock" ELSE "iotest"]
      /\ UNCHANGED <<lock, lru, block, refcnt, valid, dirty, data, idequeue, ctl, irq, disk, buf, panicked>> /\ Queued' = Queued
  BY <1>a DEF Kill, At, Goto, bcache, ide, Queued
<1>1. TypeOK'  BY <1>0, <1>u, Types, Consts DEF TypeOK, Labels
<1>2. Works'  BY <1>0, <1>u, Basics, Consts DEF Works, Held, NoLostWakeup, Queued
<1>3. Locks'  BY <1>0, <1>u, Basics, Consts DEF Locks, Held
<1>4. Buffers'  BY <1>0, <1>u, Basics, Consts DEF Buffers
<1>5. OneCopy'  BY <1>0, <1>u, <1>1, <1>3, OneCopyKept, Types
<1>6. DirtyBound'  BY <1>0, <1>u, PinnedShrinks DEF Pinned
<1>8. QueueExact'  BY <1>0, <1>u, Basics, Consts DEF QueueExact, Queued
<1>9. NoLostWakeup'  BY <1>0, <1>u, Basics, Consts DEF NoLostWakeup, Queued
<1>10. Command'  BY <1>0, <1>u, Basics, Consts DEF Command
<1>11. Clean'  BY <1>0, <1>u, Basics, Consts DEF Clean
<1> QED BY <1>1, <1>2, <1>3, <1>4, <1>5, <1>6, <1>8, <1>9, <1>10, <1>11 DEF DiskInv, CacheInv, QueueInv

LEMMA BreadHitStep ==
  ASSUME DiskInv, NEW p \in Procs, At(p, "read"), valid[buf[p]], Goto(p, "hold"),
         UNCHANGED <<bcache, valid, dirty, data, lock, ide, buf, panicked>>
  PROVE  DiskInv'
<1> USE DEF DiskInv, CacheInv, QueueInv
<1>a. PICK b : b = buf[p]  OBVIOUS
<1>0. /\ b = buf[p] /\ b \in Bufs /\ block[b] \in Blocks
  BY <1>a, Basics DEF At, Works
<1>u. /\ pc[p] = "read" /\ valid[b] /\ pc' = [pc EXCEPT ![p] = "hold"]
      /\ UNCHANGED <<lock, lru, block, refcnt, valid, dirty, data, idequeue, ctl, irq, disk, buf, panicked>> /\ Queued' = Queued
  BY <1>a DEF Queued, At, Goto, bcache, ide, Queued
<1>1. TypeOK'  BY <1>0, <1>u, Types, Consts DEF TypeOK, Labels
<1>2. Works'  BY <1>0, <1>u, Basics, Consts DEF Works, Held
<1>3. Locks'  BY <1>0, <1>u, Basics, Consts DEF Locks, Held
<1>4. Buffers'  BY <1>0, <1>u, Basics, Consts DEF Buffers
<1>5. OneCopy'  BY <1>0, <1>u, <1>1, <1>3, OneCopyKept, Types
<1>6. DirtyBound'  BY <1>0, <1>u, PinnedShrinks DEF Pinned
<1>8. QueueExact'  BY <1>0, <1>u, Basics, Consts DEF QueueExact, Queued
<1>9. NoLostWakeup'  BY <1>0, <1>u, Basics, Consts DEF NoLostWakeup, Queued
<1>10. Command'  BY <1>0, <1>u, Basics, Consts DEF Command
<1>11. Clean'  BY <1>0, <1>u, Basics, Consts DEF Clean
<1> QED BY <1>1, <1>2, <1>3, <1>4, <1>5, <1>6, <1>8, <1>9, <1>10, <1>11 DEF DiskInv, CacheInv, QueueInv

LEMMA LogWriteStep ==
  ASSUME DiskInv, NEW p \in Procs, NEW v \in Values, log_write(p, v)
  PROVE  DiskInv'
<1> USE DEF DiskInv, CacheInv, QueueInv
<1>a. PICK b : b = buf[p]  OBVIOUS
<1>0. /\ b = buf[p] /\ b \in Bufs /\ block[b] \in Blocks /\ b \notin Queued /\ lock[b] = p /\ valid[b]
  BY <1>a, Basics DEF At, Works, Held, log_write
<1>u. /\ pc[p] = "hold" /\ pc' = [pc EXCEPT ![p] = "used"]
      /\ data' = [data EXCEPT ![b] = v] /\ dirty' = [dirty EXCEPT ![b] = TRUE]
      /\ dirty[b] \/ Cardinality({c \in Bufs : dirty[c]}) < MaxDirty
      /\ UNCHANGED <<lru, block, refcnt, valid, lock, idequeue, ctl, irq, disk, buf, panicked>> /\ Queued' = Queued
  BY <1>a DEF log_write, At, Goto, bcache, ide, Queued
<1>h. idequeue # <<>> => Head(idequeue) \in Queued /\ Head(idequeue) # b /\ Head(idequeue) \in Bufs
  BY <1>0, TailQueue, Types DEF Queued, QueueExact
<1>1. TypeOK'  BY <1>0, <1>u, <1>h, Types, Consts DEF TypeOK, Labels
<1>2. Works'  BY <1>0, <1>u, <1>h, Basics, Consts DEF Works, Held
<1>3. Locks'  BY <1>0, <1>u, <1>h, Basics, Consts DEF Locks, Held
<1>4. Buffers'  BY <1>0, <1>u, <1>h, Basics, Consts DEF Buffers
<1>5. OneCopy'  BY <1>0, <1>u, <1>h, <1>1, <1>3, OneCopyKept, Types
<1>6. DirtyBound'  
  <2>1. Pinned' = Pinned \union {b}  BY <1>0, <1>u, Basics DEF Pinned
  <2>2. CASE dirty[b]
    <3>1. Pinned' = Pinned  BY <1>0, <2>1, <2>2 DEF Pinned
    <3> QED BY <3>1, PinnedShrinks
  <2>3. CASE ~dirty[b]
    <3> DEFINE D == {c \in Bufs : dirty[c]}
    <3>1. Cardinality(D) < MaxDirty  BY <1>u, <2>3
    <3>2. IsFiniteSet(D) /\ Cardinality(D) \in Nat  BY DiskAssumption, FS_Subset, FS_CardinalityType
    <3>3. Pinned \in SUBSET D  BY DEF Pinned
    <3>4. Cardinality(Pinned) <= Cardinality(D) /\ Cardinality(Pinned) \in Nat
      BY <3>2, <3>3, FS_Subset, PinnedFinite
    <3>5. Cardinality(Pinned') <= Cardinality(Pinned) + 1
      <4>1. b \notin Pinned  BY <2>3 DEF Pinned
      <4>2. Cardinality(Pinned \union {b}) = Cardinality(Pinned) + 1  BY <4>1, PinnedFinite, FS_AddElement
      <4> QED BY <2>1, <3>4, <4>2
    <3>6. Cardinality(Pinned') \in Nat
      BY <2>1, PinnedFinite, FS_AddElement, FS_CardinalityType
    <3> QED BY <3>1, <3>2, <3>4, <3>5, <3>6, DiskAssumption DEF DirtyBound
  <2> QED BY <2>2, <2>3
<1>8. QueueExact'  BY <1>0, <1>u, <1>h, Basics, Consts DEF QueueExact, Queued
<1>9. NoLostWakeup'  BY <1>0, <1>u, <1>h, Basics, Consts DEF NoLostWakeup, Queued
<1>10. Command'  BY <1>0, <1>u, <1>h, Basics, Consts DEF Command
<1>11. Clean'  BY <1>0, <1>u, <1>h, Basics, Consts DEF Clean
<1> QED BY <1>1, <1>2, <1>3, <1>4, <1>5, <1>6, <1>8, <1>9, <1>10, <1>11 DEF DiskInv, CacheInv, QueueInv

LEMMA MemReadStep ==
  ASSUME DiskInv, NEW p \in Procs, MemRead(p)
  PROVE  DiskInv'
<1> USE DEF DiskInv, CacheInv, QueueInv
<1>a. PICK b : b = buf[p]  OBVIOUS
<1>0. /\ b = buf[p] /\ b \in Bufs /\ block[b] \in Blocks /\ b \notin Queued
  BY <1>a, Basics DEF At, Works, MemRead
<1>u. /\ pc[p] = "read" /\ ~valid[b] /\ pc' = [pc EXCEPT ![p] = "hold"]
      /\ data' = [data EXCEPT ![b] = disk[block[b]]] /\ valid' = [valid EXCEPT ![b] = TRUE]
      /\ UNCHANGED <<lru, block, refcnt, dirty, lock, idequeue, ctl, irq, disk, buf, panicked>> /\ Queued' = Queued
  BY <1>a DEF MemRead, At, Goto, bcache, ide, Queued
<1>h. idequeue # <<>> => Head(idequeue) \in Queued /\ Head(idequeue) # b /\ Head(idequeue) \in Bufs
  BY <1>0, TailQueue, Types DEF Queued, QueueExact
<1>1. TypeOK'  BY <1>0, <1>u, <1>h, Types, Consts DEF TypeOK, Labels
<1>2. Works'  BY <1>0, <1>u, <1>h, Basics, Consts DEF Works, Held
<1>3. Locks'  BY <1>0, <1>u, <1>h, Basics, Consts DEF Locks, Held
<1>4. Buffers'  BY <1>0, <1>u, <1>h, Basics, Consts DEF Buffers
<1>5. OneCopy'  BY <1>0, <1>u, <1>h, <1>1, <1>3, OneCopyKept, Types
<1>6. DirtyBound'  BY <1>0, <1>u, <1>h, PinnedShrinks DEF Pinned
<1>8. QueueExact'  BY <1>0, <1>u, <1>h, Basics, Consts DEF QueueExact, Queued
<1>9. NoLostWakeup'  BY <1>0, <1>u, <1>h, Basics, Consts DEF NoLostWakeup, Queued
<1>10. Command'  BY <1>0, <1>u, <1>h, Basics, Consts DEF Command
<1>11. Clean'  BY <1>0, <1>u, <1>h, Basics, Consts DEF Clean
<1> QED BY <1>1, <1>2, <1>3, <1>4, <1>5, <1>6, <1>8, <1>9, <1>10, <1>11 DEF DiskInv, CacheInv, QueueInv

LEMMA MemWriteStep ==
  ASSUME DiskInv, NEW p \in Procs, NEW v \in Values, MemWrite(p, v)
  PROVE  DiskInv'
<1> USE DEF DiskInv, CacheInv, QueueInv
<1>a. PICK b : b = buf[p]  OBVIOUS
<1>0. /\ b = buf[p] /\ b \in Bufs /\ block[b] \in Blocks /\ b \notin Queued /\ lock[b] = p /\ valid[b]
  BY <1>a, Basics DEF At, Works, Held, MemWrite
<1>u. /\ pc[p] = "hold" /\ data' = [data EXCEPT ![b] = v] /\ disk' = [disk EXCEPT ![block[b]] = v]
      /\ dirty' = [dirty EXCEPT ![b] = FALSE]
      /\ UNCHANGED <<lru, block, refcnt, valid, lock, idequeue, ctl, irq, pc, buf, panicked>> /\ Queued' = Queued
  BY <1>a DEF MemWrite, At, Goto, bcache, ide, Queued
<1>h. idequeue # <<>> => Head(idequeue) \in Queued /\ Head(idequeue) # b /\ Head(idequeue) \in Bufs
  BY <1>0, TailQueue, Types DEF Queued, QueueExact
<1>o. \A c \in Bufs : block[c] = block[b] => c = b  BY <1>0, Consts DEF OneCopy
<1>1. TypeOK'  BY <1>0, <1>u, <1>h, Types, Consts DEF TypeOK, Labels
<1>2. Works'  BY <1>0, <1>u, <1>h, Basics, Consts DEF Works, Held
<1>3. Locks'  BY <1>0, <1>u, <1>h, Basics, Consts DEF Locks, Held
<1>4. Buffers'  BY <1>0, <1>u, <1>h, Basics, Consts DEF Buffers
<1>5. OneCopy'  BY <1>0, <1>u, <1>h, <1>1, <1>3, OneCopyKept, Types
<1>6. DirtyBound'  BY <1>0, <1>u, <1>h, PinnedShrinks DEF Pinned
<1>8. QueueExact'  BY <1>0, <1>u, <1>h, Basics, Consts DEF QueueExact, Queued
<1>9. NoLostWakeup'  BY <1>0, <1>u, <1>h, Basics, Consts DEF NoLostWakeup, Queued
<1>10. Command'  BY <1>0, <1>u, <1>h, <1>o, Basics, Consts DEF Command, QueueExact
<1>11. Clean'  BY <1>0, <1>u, <1>o, Basics DEF Clean
<1> QED BY <1>1, <1>2, <1>3, <1>4, <1>5, <1>6, <1>8, <1>9, <1>10, <1>11 DEF DiskInv, CacheInv, QueueInv

LEMMA DiskDoneStep ==
  ASSUME DiskInv, DiskDone
  PROVE  DiskInv'
<1> USE DEF DiskInv, CacheInv, QueueInv
<1>h. idequeue # <<>> /\ Head(idequeue) \in Queued /\ Head(idequeue) \in Bufs
  BY TailQueue, Types DEF Queued, QueueExact, DiskDone
<1>u. /\ ctl # None /\ ctl \in Commands /\ ~irq /\ irq' = TRUE
      /\ disk' = IF ctl.write THEN [disk EXCEPT ![ctl.block] = ctl.data] ELSE disk
      /\ UNCHANGED <<lru, block, refcnt, valid, dirty, data, lock, idequeue, ctl, pc, buf, panicked>> /\ Queued' = Queued
  BY Types DEF DiskDone, bcache, Queued
<1>0. PICK b : /\ b = Head(idequeue) /\ b \in Bufs /\ b \in Queued /\ ctl.block = block[b] /\ block[b] \in Blocks
               /\ ctl.write \in BOOLEAN /\ (ctl.write => dirty[b] /\ valid[b] /\ data[b] \in Values /\ ctl.data = data[b])
  BY <1>h, <1>u, Basics DEF QueueExact, Commands, Buffers, Command
<1>o. \A c \in Bufs : block[c] = block[b] => c = b  BY <1>0, Consts DEF OneCopy
<1>1. TypeOK'  BY <1>0, <1>u, Types, Consts DEF TypeOK, Labels
<1>2. Works'  BY <1>0, <1>u, Basics, Consts DEF Works, Held
<1>3. Locks'  BY <1>0, <1>u, Basics, Consts DEF Locks, Held
<1>4. Buffers'  BY <1>0, <1>u, Basics, Consts DEF Buffers
<1>5. OneCopy'  BY <1>0, <1>u, <1>1, <1>3, OneCopyKept, Types
<1>6. DirtyBound'  BY <1>0, <1>u, PinnedShrinks DEF Pinned
<1>8. QueueExact'  BY <1>0, <1>u, Basics, Consts DEF QueueExact, Queued
<1>9. NoLostWakeup'  BY <1>0, <1>u, Basics, Consts DEF NoLostWakeup, Queued
<1>10. Command'  BY <1>0, <1>u, Basics, Consts DEF Command
<1>11. Clean'  BY <1>0, <1>u, <1>o, Basics DEF Clean
<1> QED BY <1>1, <1>2, <1>3, <1>4, <1>5, <1>6, <1>8, <1>9, <1>10, <1>11 DEF DiskInv, CacheInv, QueueInv

LEMMA BreadMissStep ==
  ASSUME DiskInv, NEW p \in Procs, At(p, "read"), ~valid[buf[p]], UNCHANGED data, iderw(p, FALSE),
         UNCHANGED <<bcache, valid, dirty, lock, buf, panicked>>
  PROVE  DiskInv'
<1> USE DEF DiskInv, CacheInv, QueueInv
<1>a. PICK b : b = buf[p]  OBVIOUS
<1>0. /\ b = buf[p] /\ b \in Bufs /\ block[b] \in Blocks /\ b \notin Queued /\ lock[b] = p /\ ~valid[b] /\ dirty[b] = FALSE
  BY <1>a, Basics DEF At, Works, Held, Buffers
<1>u. /\ pc[p] = "read" /\ pc' = [pc EXCEPT ![p] = "iowait"] /\ idequeue' = Append(idequeue, b)
      /\ ctl' = IF idequeue = <<>> THEN [block |-> block[b], write |-> FALSE, data |-> data'[b]] ELSE ctl
      /\ UNCHANGED <<lru, block, refcnt, valid, dirty, data, lock, irq, disk, buf, panicked>>
  BY <1>a DEF iderw, idestart, At, Goto, bcache
<1>q. /\ idequeue' # <<>> /\ Queued' = Queued \union {b} /\ IsInjective(idequeue') /\ idequeue' \in Seq(Bufs)
      /\ Head(idequeue') = IF idequeue = <<>> THEN b ELSE Head(idequeue)
  BY <1>0, <1>u, AppendQueue, Types DEF Queued, QueueExact
<1>h. idequeue # <<>> => Head(idequeue) \in Queued /\ Head(idequeue) # b /\ Head(idequeue) \in Bufs
  BY <1>0, TailQueue, Types DEF Queued, QueueExact
<1>c. /\ ctl' \in Commands \union {None}
      /\ idequeue = <<>> => /\ ctl' \in Commands /\ ctl'.block = block[b]
                            /\ ctl'.write = FALSE /\ ctl'.data = data'[b] /\ ~irq
      /\ idequeue # <<>> => ctl' = ctl
  <2>1. data'[b] \in Values \union {None}  BY <1>0, <1>u, Basics
  <2>2. ctl \in Commands \union {None}  BY Types
  <2>3. idequeue = <<>> => ~irq  BY DEF QueueExact
  <2> QED BY <1>0, <1>u, <2>1, <2>2, <2>3 DEF Commands
<1>1. TypeOK'  BY <1>0, <1>u, <1>q, <1>h, <1>c, Types, Consts DEF TypeOK, Labels
<1>2. Works'  BY <1>0, <1>u, <1>q, <1>h, <1>c, Basics, Consts DEF Works, Held
<1>3. Locks'  BY <1>0, <1>u, <1>q, <1>h, <1>c, Basics, Consts DEF Locks, Held
<1>4. Buffers'  BY <1>0, <1>u, <1>q, <1>h, <1>c, Basics, Consts DEF Buffers
<1>5. OneCopy'  BY <1>0, <1>u, <1>q, <1>h, <1>c, <1>1, <1>3, OneCopyKept, Types
<1>6. DirtyBound'  BY <1>0, <1>u, <1>q, <1>h, <1>c, PinnedShrinks DEF Pinned
<1>8. QueueExact'  
  <2>1. ctl' # None /\ ctl'.block = block'[Head(idequeue')] /\ ctl'.write = dirty'[Head(idequeue')]
    BY <1>0, <1>u, <1>q, <1>h, <1>c, Basics, Consts DEF QueueExact, Buffers
  <2>2. \A c \in Queued' : \E r \in Procs : lock'[c] = r /\ buf'[r] = c /\ pc'[r] \in {"iowait", "iotest"}  BY <1>0, <1>u, <1>q, Basics DEF QueueExact, Queued
  <2> QED BY <1>q, <2>1, <2>2 DEF QueueExact, Queued
<1>9. NoLostWakeup'  BY <1>0, <1>u, <1>q, Basics DEF NoLostWakeup, Queued
<1>10. Command'  BY <1>0, <1>u, <1>q, <1>h, <1>c, Basics DEF Command
<1>11. Clean'  BY <1>0, <1>u, <1>q, <1>h, <1>c, Basics, Consts DEF Clean
<1> QED BY <1>1, <1>2, <1>3, <1>4, <1>5, <1>6, <1>8, <1>9, <1>10, <1>11 DEF DiskInv, CacheInv, QueueInv

LEMMA BwriteStep ==
  ASSUME DiskInv, NEW p \in Procs, NEW v \in Values, bwrite(p, v)
  PROVE  DiskInv'
<1> USE DEF DiskInv, CacheInv, QueueInv
<1>a. PICK b : b = buf[p]  OBVIOUS
<1>0. /\ b = buf[p] /\ b \in Bufs /\ block[b] \in Blocks /\ b \notin Queued /\ lock[b] = p /\ valid[b]
  BY <1>a, Basics DEF At, Works, Held, bwrite
<1>u. /\ pc[p] = "hold" /\ pc' = [pc EXCEPT ![p] = "iowait"] /\ idequeue' = Append(idequeue, b)
      /\ data' = [data EXCEPT ![b] = v] /\ dirty' = [dirty EXCEPT ![b] = TRUE]
      /\ ctl' = IF idequeue = <<>> THEN [block |-> block[b], write |-> TRUE, data |-> data'[b]] ELSE ctl
      /\ UNCHANGED <<lru, block, refcnt, valid, lock, irq, disk, buf, panicked>>
  BY <1>a DEF bwrite, iderw, idestart, At, Goto, bcache
<1>q. /\ idequeue' # <<>> /\ Queued' = Queued \union {b} /\ IsInjective(idequeue') /\ idequeue' \in Seq(Bufs)
      /\ Head(idequeue') = IF idequeue = <<>> THEN b ELSE Head(idequeue)
  BY <1>0, <1>u, AppendQueue, Types DEF Queued, QueueExact
<1>h. idequeue # <<>> => Head(idequeue) \in Queued /\ Head(idequeue) # b /\ Head(idequeue) \in Bufs
  BY <1>0, TailQueue, Types DEF Queued, QueueExact
<1>c. /\ ctl' \in Commands \union {None}
      /\ idequeue = <<>> => /\ ctl' \in Commands /\ ctl'.block = block[b]
                            /\ ctl'.write = TRUE /\ ctl'.data = data'[b] /\ ~irq
      /\ idequeue # <<>> => ctl' = ctl
  <2>1. data'[b] \in Values \union {None}  BY <1>0, <1>u, Basics
  <2>2. ctl \in Commands \union {None}  BY Types
  <2>3. idequeue = <<>> => ~irq  BY DEF QueueExact
  <2> QED BY <1>0, <1>u, <2>1, <2>2, <2>3 DEF Commands
<1>1. TypeOK'  BY <1>0, <1>u, <1>q, <1>h, <1>c, Types, Consts DEF TypeOK, Labels
<1>2. Works'  BY <1>0, <1>u, <1>q, <1>h, <1>c, Basics, Consts DEF Works, Held
<1>3. Locks'  BY <1>0, <1>u, <1>q, <1>h, <1>c, Basics, Consts DEF Locks, Held
<1>4. Buffers'  BY <1>0, <1>u, <1>q, <1>h, <1>c, Basics, Consts DEF Buffers
<1>5. OneCopy'  BY <1>0, <1>u, <1>q, <1>h, <1>c, <1>1, <1>3, OneCopyKept, Types
<1>6. DirtyBound'  BY <1>0, <1>u, <1>q, <1>h, <1>c, PinnedShrinks DEF Pinned
<1>8. QueueExact'  
  <2>1. ctl' # None /\ ctl'.block = block'[Head(idequeue')] /\ ctl'.write = dirty'[Head(idequeue')]
    BY <1>0, <1>u, <1>q, <1>h, <1>c, Basics, Consts DEF QueueExact, Buffers
  <2>2. \A c \in Queued' : \E r \in Procs : lock'[c] = r /\ buf'[r] = c /\ pc'[r] \in {"iowait", "iotest"}  BY <1>0, <1>u, <1>q, Basics DEF QueueExact, Queued
  <2> QED BY <1>q, <2>1, <2>2 DEF QueueExact, Queued
<1>9. NoLostWakeup'  BY <1>0, <1>u, <1>q, Basics DEF NoLostWakeup, Queued
<1>10. Command'  BY <1>0, <1>u, <1>q, <1>h, <1>c, Basics DEF Command
<1>11. Clean'  BY <1>0, <1>u, <1>q, <1>h, <1>c, Basics, Consts DEF Clean
<1> QED BY <1>1, <1>2, <1>3, <1>4, <1>5, <1>6, <1>8, <1>9, <1>10, <1>11 DEF DiskInv, CacheInv, QueueInv

LEMMA EndRequestStep ==
  ASSUME DiskInv, NEW d \in Values, irq, idequeue # <<>>, EndRequest(Head(idequeue), d),
         dirty[Head(idequeue)] => d = data[Head(idequeue)],
         ~dirty[Head(idequeue)] /\ ctl.block \notin Bad => d = disk[ctl.block],
         pc' = Woken(Head(idequeue)),
         ctl' = IF Len(idequeue) > 1 THEN idestart(idequeue[2], dirty[idequeue[2]]) ELSE None,
         UNCHANGED <<bcache, lock, disk, buf, panicked>>
  PROVE  DiskInv'
<1> USE DEF DiskInv, CacheInv, QueueInv
<1>a. PICK b : b = Head(idequeue)  OBVIOUS
<1>q. /\ b \in Bufs /\ b \in Queued /\ Queued' = Queued \ {b} /\ idequeue' \in Seq(Bufs) /\ IsInjective(idequeue')
      /\ IF Len(idequeue) > 1
           THEN idequeue' # <<>> /\ Head(idequeue') = idequeue[2] /\ idequeue[2] \in Queued \ {b} /\ idequeue[2] \in Bufs
           ELSE idequeue' = <<>>
  BY <1>a, TailQueue, Types DEF Queued, QueueExact, EndRequest
<1>b. PICK q \in Procs : lock[b] = q /\ buf[q] = b /\ pc[q] \in {"iowait", "iotest"}
  BY <1>q DEF QueueExact, Queued
<1>0. /\ block[b] \in Blocks /\ (dirty[b] => d = data[b] /\ (block[b] \notin Bad => d = disk[block[b]]))
      /\ (~dirty[b] /\ block[b] \notin Bad => d = disk[block[b]])
  <2>1. ctl.block = block[b] /\ ctl.write = dirty[b]  BY <1>a DEF QueueExact
  <2>2. block[b] \in Blocks  BY <1>b DEF Works
  <2>3. dirty[b] => disk[ctl.block] = data[b]  BY <1>a, <2>1 DEF Command
  <2> QED BY <1>a, <2>1, <2>2, <2>3
<1>u. /\ data' = [data EXCEPT ![b] = d] /\ valid' = [valid EXCEPT ![b] = TRUE]
      /\ dirty' = [dirty EXCEPT ![b] = FALSE] /\ irq' = FALSE
      /\ pc' = [r \in Procs |-> IF pc[r] = "iowait" /\ buf[r] = b THEN "iotest" ELSE pc[r]]
      /\ UNCHANGED <<lru, block, refcnt, lock, disk, buf, panicked>>
  BY <1>a DEF EndRequest, Woken, bcache
<1>c. IF Len(idequeue) > 1
        THEN LET c == idequeue[2] IN
             /\ ctl' \in Commands /\ ctl'.block = block[c] /\ ctl'.write = dirty[c] /\ ctl'.data = data'[c]
        ELSE ctl' = None
  <2>1. CASE Len(idequeue) > 1
    <3>1. PICK c : c = idequeue[2] /\ c \in Bufs /\ c \in Queued  BY <1>q, <2>1
    <3>2. block[c] \in Blocks  BY <3>1 DEF QueueExact, Queued, Works
    <3>3. dirty[c] \in BOOLEAN /\ data'[c] \in Values \union {None}  BY <3>1, <1>u, Basics
    <3>4. ctl' = [block |-> block[c], write |-> dirty[c], data |-> data'[c]]  BY <2>1, <3>1 DEF idestart
    <3> QED BY <2>1, <3>1, <3>2, <3>3, <3>4 DEF Commands
  <2>2. CASE ~(Len(idequeue) > 1)  BY <2>2
  <2> QED BY <2>1, <2>2
<1>w. \A c \in Queued' : \E r \in Procs : lock'[c] = r /\ buf'[r] = c /\ pc'[r] \in {"iowait", "iotest"}
  BY <1>q, <1>u, Basics DEF QueueExact, Queued
<1>1. TypeOK'  BY <1>u, <1>q, <1>c, Types DEF TypeOK, Labels
<1>2. Works'  BY <1>q, <1>b, <1>0, <1>u, Basics, Consts DEF Works, Held, Locks
<1>3. Locks'  BY <1>q, <1>0, <1>u, Basics, Consts DEF Locks, Held
<1>4. Buffers'  BY <1>q, <1>0, <1>u, Basics, Consts DEF Buffers
<1>5. OneCopy'  BY <1>q, <1>0, <1>u, <1>1, <1>3, OneCopyKept, Types
<1>6. DirtyBound'  BY <1>q, <1>u, Basics, PinnedShrinks DEF Pinned
<1>8. QueueExact'  
  <2>1. CASE Len(idequeue) > 1
    <3>1. ctl' # None /\ ctl'.block = block'[Head(idequeue')] /\ ctl'.write = dirty'[Head(idequeue')]
      BY <1>0, <1>u, <1>q, <1>c, <2>1, Basics, Consts
    <3> QED BY <1>q, <1>w, <2>1, <3>1 DEF QueueExact, Queued
  <2>2. CASE ~(Len(idequeue) > 1)  BY <1>u, <1>q, <1>w, <1>c, <2>2 DEF QueueExact, Queued
  <2> QED BY <2>1, <2>2
<1>9. NoLostWakeup'  BY <1>q, <1>b, <1>u, Basics DEF NoLostWakeup, Queued, Works, Held
<1>10. Command'  BY <1>q, <1>u, <1>c, Basics DEF Command
<1>11. Clean'  BY <1>q, <1>0, <1>u, Basics, Consts DEF Clean
<1> QED BY <1>1, <1>2, <1>3, <1>4, <1>5, <1>6, <1>8, <1>9, <1>10, <1>11 DEF DiskInv, CacheInv, QueueInv

LEMMA IdeintrStep == ASSUME DiskInv, ideintr PROVE DiskInv'
<1> DEFINE b == Head(idequeue)
<1>0. b \in Bufs /\ ctl.block = block[b] /\ block[b] \in Blocks /\ ctl.write = dirty[b]
  <2>1. b \in Queued /\ b \in Bufs
    BY TailQueue, Types DEF ideintr, DiskInv, CacheInv, QueueInv, QueueExact, Queued
  <2> QED BY <2>1 DEF ideintr, DiskInv, CacheInv, QueueInv, QueueExact, Queued, Works
<1>1. CASE ~dirty[b] /\ EndRequest(b, disk[ctl.block])
  <2>1. disk[ctl.block] \in Values  BY <1>0, Types DEF DiskInv, CacheInv
  <2> QED BY <1>1, <2>1, EndRequestStep DEF ideintr
<1>2. CASE dirty[b] /\ EndRequest(b, data[b])
  <2>1. data[b] \in Values  BY <1>0, <1>2 DEF DiskInv, CacheInv, Buffers
  <2> QED BY <1>2, <2>1, EndRequestStep DEF ideintr
<1>3. ASSUME ~dirty[b], ctl.block \in Bad, NEW v \in Values, EndRequest(b, v) PROVE DiskInv'
  BY <1>3, EndRequestStep DEF ideintr
<1> QED BY <1>1, <1>2, <1>3 DEF ideintr

LEMMA BgetHitStep ==
  ASSUME DiskInv, NEW p \in Procs, NEW n \in Blocks, NEW b \in Bufs, block[b] = n, At(p, "idle"),
         refcnt' = [refcnt EXCEPT ![b] = @ + 1], buf' = [buf EXCEPT ![p] = b], Goto(p, "lock"),
         UNCHANGED <<block, valid, data, panicked>>, UNCHANGED <<lru, dirty, lock, ide>>
  PROVE  DiskInv'
<1> USE DEF DiskInv, CacheInv, QueueInv
<1>0. b \in Bufs /\ block[b] \in Blocks  OBVIOUS
<1>u. /\ pc[p] = "idle" /\ pc' = [pc EXCEPT ![p] = "lock"] /\ buf' = [buf EXCEPT ![p] = b]
      /\ refcnt' = [refcnt EXCEPT ![b] = refcnt[b] + 1]
      /\ UNCHANGED <<lru, block, valid, data, dirty, lock, idequeue, ctl, irq, disk, panicked>> /\ Queued' = Queued
  BY DEF At, Goto, ide, Queued
<1>r. refcnt[b] = Cardinality(Users(b)) /\ refcnt[b] \in Nat  BY UsersSize DEF OneCopy
<1>t. refcnt' \in [Bufs -> 0 .. Cardinality(Procs)]
  <2>1. Users(b) \union {p} \in SUBSET Procs /\ p \notin Users(b)  BY <1>0, <1>u DEF Users
  <2>2. Cardinality(Users(b) \union {p}) = Cardinality(Users(b)) + 1  BY <2>1, UsersSize, FS_AddElement
  <2>3. Cardinality(Users(b) \union {p}) <= Cardinality(Procs)  BY <2>1, DiskAssumption, FS_Subset
  <2>4. refcnt[b] + 1 \in 0 .. Cardinality(Procs)  BY <2>2, <2>3, <1>r, UsersSize, Sizes
  <2> QED BY <1>u, <1>0, <1>r, <2>4, Types
<1>1. TypeOK'  BY <1>u, <1>t, Types DEF TypeOK, Labels
<1>2. Works'  BY <1>0, <1>u, Basics, Consts DEF Works, Held
<1>3. Locks'  BY <1>0, <1>u, Basics, Consts DEF Locks, Held
<1>4. Buffers'  BY <1>0, <1>u, Basics, Consts DEF Buffers
<1>5. OneCopy'  
  <2>1. ASSUME NEW c \in Bufs PROVE refcnt'[c] = Cardinality(Users(c)')
    <3>1. CASE c = b
      <4>1. Users(c)' = Users(b) \union {p} /\ p \notin Users(b)  BY <1>0, <1>u, <3>1, Basics DEF Users
      <4>2. Cardinality(Users(c)') = Cardinality(Users(b)) + 1  BY <4>1, UsersSize, FS_AddElement
      <4>3. refcnt'[c] = refcnt[b] + 1  BY <1>u, <3>1, Types
      <4> QED BY <4>2, <4>3, <1>r
    <3>2. CASE c # b
      <4>1. Users(c)' = Users(c)  BY <1>0, <1>u, <3>2, Basics, Consts DEF Users
      <4> QED BY <1>u, <3>2, <4>1, Types DEF OneCopy
    <3> QED BY <3>1, <3>2
  <2>2. \A c \in Bufs : lock'[c] # None => lock'[c] \in Users(c)'
    BY <1>3, <1>u, Basics DEF Locks, Held, Users
  <2>3. \A c, e \in Bufs : block'[c] = block'[e] /\ block'[c] # None => c = e  BY <1>u DEF OneCopy
  <2> QED BY <2>1, <2>2, <2>3 DEF OneCopy
<1>6. DirtyBound'  BY <1>0, <1>u, PinnedShrinks DEF Pinned
<1>8. QueueExact'  BY <1>0, <1>u, Basics, Consts DEF QueueExact, Queued
<1>9. NoLostWakeup'  BY <1>0, <1>u, Basics, Consts DEF NoLostWakeup, Queued
<1>10. Command'  BY <1>0, <1>u, Basics, Consts DEF Command
<1>11. Clean'  BY <1>0, <1>u, Basics, Consts DEF Clean
<1> QED BY <1>1, <1>2, <1>3, <1>4, <1>5, <1>6, <1>8, <1>9, <1>10, <1>11 DEF DiskInv, CacheInv, QueueInv

LEMMA BgetRecycleStep ==
  ASSUME DiskInv, NEW p \in Procs, NEW n \in Blocks, NEW b \in Bufs,
         \A c \in Bufs : block[c] # n, refcnt[b] = 0, ~dirty[b], At(p, "idle"),
         block' = [block EXCEPT ![b] = n], valid' = [valid EXCEPT ![b] = FALSE],
         refcnt' = [refcnt EXCEPT ![b] = 1], buf' = [buf EXCEPT ![p] = b],
         data' = [data EXCEPT ![b] = None], Goto(p, "lock"), UNCHANGED panicked,
         UNCHANGED <<lru, dirty, lock, ide>>
  PROVE  DiskInv'
<1> USE DEF DiskInv, CacheInv, QueueInv
<1>r. refcnt[b] = Cardinality(Users(b)) /\ refcnt[b] \in Nat  BY UsersSize DEF OneCopy
<1>0. /\ b \in Bufs /\ Users(b) = {} /\ b \notin Queued /\ lock[b] = None
      /\ \A q \in Procs : pc[q] # "idle" => buf[q] # b
  <2>1. Users(b) = {}  BY <1>r, UsersSize, FS_EmptySet
  <2>2. \A q \in Procs : pc[q] # "idle" => buf[q] # b  BY <2>1 DEF Users
  <2>3. lock[b] = None  BY <2>2, Basics DEF Locks, Held
  <2>4. b \notin Queued  BY <2>2 DEF QueueExact, Queued
  <2> QED BY <2>1, <2>2, <2>3, <2>4
<1>u. /\ pc[p] = "idle" /\ pc' = [pc EXCEPT ![p] = "lock"] /\ buf' = [buf EXCEPT ![p] = b]
      /\ refcnt' = [refcnt EXCEPT ![b] = refcnt[b] + 1] /\ dirty[b] = FALSE
      /\ block' = [block EXCEPT ![b] = n] /\ valid' = [valid EXCEPT ![b] = FALSE]
      /\ data' = [data EXCEPT ![b] = None]
      /\ UNCHANGED <<lru, dirty, lock, idequeue, ctl, irq, disk, panicked>> /\ Queued' = Queued
  BY Basics DEF At, Goto, ide, Queued
<1>h. idequeue # <<>> => Head(idequeue) \in Queued /\ Head(idequeue) # b /\ Head(idequeue) \in Bufs
  BY <1>0, TailQueue, Types DEF Queued, QueueExact
<1>t. refcnt' \in [Bufs -> 0 .. Cardinality(Procs)]
  <2>1. Users(b) \union {p} \in SUBSET Procs /\ p \notin Users(b)  BY <1>0, <1>u DEF Users
  <2>2. Cardinality(Users(b) \union {p}) = Cardinality(Users(b)) + 1  BY <2>1, UsersSize, FS_AddElement
  <2>3. Cardinality(Users(b) \union {p}) <= Cardinality(Procs)  BY <2>1, DiskAssumption, FS_Subset
  <2>4. refcnt[b] + 1 \in 0 .. Cardinality(Procs)  BY <2>2, <2>3, <1>r, UsersSize, Sizes
  <2> QED BY <1>u, <1>0, <1>r, <2>4, Types
<1>1. TypeOK'  BY <1>0, <1>u, <1>t, Types DEF TypeOK, Labels
<1>2. Works'  BY <1>0, <1>u, <1>h, Basics, Consts DEF Works, Held
<1>3. Locks'  BY <1>0, <1>u, <1>h, Basics, Consts DEF Locks, Held
<1>4. Buffers'  BY <1>0, <1>u, <1>h, Basics, Consts DEF Buffers
<1>5. OneCopy'  
  <2>1. ASSUME NEW c \in Bufs PROVE refcnt'[c] = Cardinality(Users(c)')
    <3>1. CASE c = b
      <4>1. Users(c)' = Users(b) \union {p} /\ p \notin Users(b)  BY <1>0, <1>u, <3>1, Basics DEF Users
      <4>2. Cardinality(Users(c)') = Cardinality(Users(b)) + 1  BY <4>1, UsersSize, FS_AddElement
      <4>3. refcnt'[c] = refcnt[b] + 1  BY <1>u, <3>1, Types
      <4> QED BY <4>2, <4>3, <1>r
    <3>2. CASE c # b
      <4>1. Users(c)' = Users(c)  BY <1>0, <1>u, <3>2, Basics, Consts DEF Users
      <4> QED BY <1>u, <3>2, <4>1, Types DEF OneCopy
    <3> QED BY <3>1, <3>2
  <2>2. \A c \in Bufs : lock'[c] # None => lock'[c] \in Users(c)'
    BY <1>3, <1>u, Basics DEF Locks, Held, Users
  <2>3. \A c, e \in Bufs : block'[c] = block'[e] /\ block'[c] # None => c = e  BY <1>u, Basics DEF OneCopy
  <2> QED BY <2>1, <2>2, <2>3 DEF OneCopy
<1>6. DirtyBound'  BY <1>0, <1>u, <1>h, PinnedShrinks DEF Pinned
<1>8. QueueExact'  BY <1>0, <1>u, <1>h, Basics, Consts DEF QueueExact, Queued
<1>9. NoLostWakeup'  BY <1>0, <1>u, <1>h, Basics, Consts DEF NoLostWakeup, Queued
<1>10. Command'  BY <1>0, <1>u, <1>h, Basics, Consts DEF Command
<1>11. Clean'  BY <1>0, <1>u, <1>h, Basics, Consts DEF Clean
<1> QED BY <1>1, <1>2, <1>3, <1>4, <1>5, <1>6, <1>8, <1>9, <1>10, <1>11 DEF DiskInv, CacheInv, QueueInv

\* Each process uses one buffer at most: when bget finds none, the processes with a
\* buffer and the pinned buffers are as many as all.
LEMMA Counted ==
  ASSUME DiskInv, \A b \in Bufs : refcnt[b] # 0 \/ dirty[b]
  PROVE  Cardinality(Bufs) <= Cardinality({q \in Procs : pc[q] # "idle"}) + Cardinality(Pinned)
<1> USE DEF DiskInv, CacheInv, QueueInv
<1> DEFINE Busy   == {q \in Procs : pc[q] # "idle"}
           InUse  == {b \in Bufs : refcnt[b] # 0}
           works  == [q \in Busy |-> buf[q]]
<1>1. IsFiniteSet(Busy) /\ Cardinality(Busy) \in Nat
  <2>1. Busy \in SUBSET Procs  OBVIOUS
  <2> QED BY <2>1, DiskAssumption, FS_Subset, FS_CardinalityType
<1>2. ASSUME NEW b \in InUse PROVE \E q \in Busy : works[q] = b
  <2>1. Users(b) # {}  BY <1>2, FS_EmptySet DEF OneCopy
  <2> QED BY <2>1 DEF Users
<1>3. works \in Surjection(Busy, InUse)
  <2>1. ASSUME NEW q \in Busy PROVE buf[q] \in InUse
    <3>1. buf[q] \in Bufs /\ q \in Users(buf[q])  BY Basics DEF Works, Users
    <3>2. Cardinality(Users(buf[q])) # 0  BY <3>1, UsersSize, FS_EmptySet
    <3> QED BY <3>1, <3>2 DEF OneCopy
  <2> QED BY <2>1, <1>2 DEF Surjection
<1>4. IsFiniteSet(InUse) /\ Cardinality(InUse) <= Cardinality(Busy) /\ Cardinality(InUse) \in Nat
  BY <1>1, <1>3, FS_Surjection, FS_CardinalityType
<1>5. Bufs = InUse \union Pinned
  <2>1. ASSUME NEW b \in Bufs, refcnt[b] = 0 PROVE b \in Pinned
    <3>1. Users(b) = {}  BY <2>1, UsersSize, FS_EmptySet DEF OneCopy
    <3>2. b \notin Queued  BY <3>1 DEF QueueExact, Queued, Users
    <3> QED BY <2>1, <3>2 DEF Pinned
  <2> QED BY <2>1 DEF Pinned
<1>6. Cardinality(Bufs) <= Cardinality(InUse) + Cardinality(Pinned)
  <2>1. /\ IsFiniteSet(InUse \cap Pinned)
        /\ Cardinality(Bufs) = Cardinality(InUse) + Cardinality(Pinned) - Cardinality(InUse \cap Pinned)
    BY <1>4, <1>5, PinnedFinite, FS_Union, FS_Intersection
  <2>2. Cardinality(InUse \cap Pinned) \in Nat  BY <2>1, FS_CardinalityType
  <2> QED BY <1>4, <2>1, <2>2, PinnedFinite, Sizes
<1> QED BY <1>1, <1>4, <1>6, PinnedFinite, Sizes

LEMMA BgetStep ==
  ASSUME DiskInv, NEW p \in Procs, NEW n \in Blocks, bget(p, n) PROVE DiskInv'
<1> DEFINE hits == {i \in Slots : block[lru[i]] = n}
           idle == {i \in Slots : refcnt[lru[i]] = 0 /\ ~dirty[lru[i]]}
<1>0. /\ \A i \in Slots : lru[i] \in Bufs
      /\ \A b \in Bufs : \E i \in Slots : lru[i] = b
  BY Types DEF DiskInv, CacheInv, Range
<1>1. CASE hits # {}
  <2>1. First(hits) \in hits  BY <1>1, ScanFinds
  <2>2. lru[First(hits)] \in Bufs /\ block[lru[First(hits)]] = n  BY <2>1, <1>0
  <2> QED BY <1>1, <2>2, BgetHitStep DEF bget
<1>2. CASE hits = {} /\ idle # {}
  <2>1. Last(idle) \in idle  BY <1>2, ScanFinds
  <2>2. lru[Last(idle)] \in Bufs /\ refcnt[lru[Last(idle)]] = 0 /\ ~dirty[lru[Last(idle)]]  BY <2>1, <1>0
  <2>3. \A c \in Bufs : block[c] # n  BY <1>0, <1>2
  <2> QED BY <1>2, <2>2, <2>3, BgetRecycleStep DEF bget
<1>3. CASE hits = {} /\ idle = {}
  <2>1. /\ panicked' = TRUE /\ UNCHANGED <<block, valid, refcnt, data, pc, buf>>
        /\ UNCHANGED <<lru, dirty, lock, ide>>
    BY <1>3 DEF bget
  <2> QED BY <2>1, UnchangedStep DEF bcache
<1> QED BY <1>1, <1>2, <1>3

LEMMA BrelseStep ==
  ASSUME DiskInv, NEW p \in Procs, brelse(p)
  PROVE  DiskInv'
<1> USE DEF DiskInv, CacheInv, QueueInv
<1>a. PICK b : b = buf[p]  OBVIOUS
<1>0. b = buf[p] /\ b \in Bufs /\ block[b] \in Blocks  BY <1>a, Basics DEF brelse, At, Works
<1>u. /\ pc[p] = "drop" /\ pc' = [pc EXCEPT ![p] = "idle"] /\ buf' = [buf EXCEPT ![p] = None]
      /\ refcnt' = [refcnt EXCEPT ![b] = refcnt[b] - 1]
      /\ UNCHANGED <<block, valid, data, dirty, lock, idequeue, ctl, irq, disk, panicked>> /\ Queued' = Queued
  BY <1>a DEF brelse, At, Goto, ide, Queued
<1>r. refcnt[b] = Cardinality(Users(b)) /\ refcnt[b] \in Nat /\ p \in Users(b) /\ refcnt[b] > 0
  <2>1. p \in Users(b)  BY <1>0, <1>u DEF Users
  <2>2. refcnt[b] = Cardinality(Users(b))  BY <1>0 DEF OneCopy
  <2> QED BY <2>1, <2>2, UsersSize, FS_EmptySet
<1>l. lru' \in [Slots -> Bufs] /\ Range(lru') = Bufs
  <2>1. lru \in [Slots -> Bufs] /\ \A c \in Bufs : \E i \in Slots : lru[i] = c
    BY Types DEF Range
  <2>2. CASE refcnt[b] # 1  BY <1>a, <2>2, Types DEF brelse
  <2>3. CASE refcnt[b] = 1
    <3>1. PICK k : k = Position(b) /\ k \in Slots /\ lru[k] = b  BY <1>0, <2>1 DEF Position
    <3>2. lru' = [i \in Slots |-> IF i = 1 THEN b ELSE lru[IF i <= k THEN i - 1 ELSE i]]
      BY <1>a, <2>3, <3>1 DEF brelse
    <3>3. \A i \in Slots : i \in Nat /\ i >= 1 /\ (i # 1 => i - 1 \in Slots)  BY Sizes DEF Slots
    <3>4. 1 \in Slots /\ \A i \in Slots : i < k => i + 1 \in Slots  BY <3>1, Sizes DEF Slots
    <3>5. lru' \in [Slots -> Bufs]  BY <1>0, <2>1, <3>2, <3>3
    <3>6. ASSUME NEW c \in Bufs PROVE \E i \in Slots : lru'[i] = c
      <4>1. PICK j \in Slots : lru[j] = c  BY <2>1
      <4>2. CASE c = b  BY <3>2, <3>4, <4>2
      <4>3. CASE c # b /\ j < k
        <5>0. j \in Nat /\ k \in Nat /\ j >= 1 /\ j + 1 \in Slots  BY <3>1, <3>3, <3>4, <4>3
        <5>1. j + 1 \in Slots /\ j + 1 # 1 /\ j + 1 <= k /\ (j + 1) - 1 = j  BY <5>0, <4>3
        <5>2. lru'[j + 1] = lru[j]  BY <3>2, <5>1
        <5> QED BY <4>1, <5>1, <5>2
      <4>4. CASE c # b /\ ~(j < k)
        <5>1. j # k /\ ~(j <= k) /\ j # 1  BY <3>1, <3>3, <4>1, <4>4
        <5>2. lru'[j] = lru[j]  BY <3>2, <5>1
        <5> QED BY <4>1, <5>2
      <4> QED BY <4>2, <4>3, <4>4
    <3> QED BY <3>5, <3>6 DEF Range
  <2> QED BY <2>2, <2>3
<1>t. refcnt' \in [Bufs -> 0 .. Cardinality(Procs)]
  <2>1. refcnt[b] - 1 \in 0 .. Cardinality(Procs)  BY <1>0, <1>r, Types, Sizes
  <2> QED BY <1>u, <2>1, Types
<1>1. TypeOK'  BY <1>l, <1>u, <1>t, Types DEF TypeOK, Labels
<1>2. Works'  BY <1>0, <1>u, Basics, Consts DEF Works, Held
<1>3. Locks'  BY <1>0, <1>u, Basics, Consts DEF Locks, Held
<1>4. Buffers'  BY <1>0, <1>u, Basics, Consts DEF Buffers
<1>5. OneCopy'  
  <2>1. ASSUME NEW c \in Bufs PROVE refcnt'[c] = Cardinality(Users(c)')
    <3>1. CASE c = b
      <4>1. Users(c)' = Users(b) \ {p}  BY <1>0, <1>u, <3>1, Basics DEF Users
      <4>2. Cardinality(Users(c)') = Cardinality(Users(b)) - 1  BY <4>1, UsersSize, <1>r, FS_RemoveElement
      <4>3. refcnt'[c] = refcnt[b] - 1  BY <1>u, <3>1, Types
      <4> QED BY <4>2, <4>3, <1>r
    <3>2. CASE c # b
      <4>1. Users(c)' = Users(c)  BY <1>0, <1>u, <3>2, Basics, Consts DEF Users
      <4> QED BY <1>u, <3>2, <4>1, Types DEF OneCopy
    <3> QED BY <3>1, <3>2
  <2>2. \A c \in Bufs : lock'[c] # None => lock'[c] \in Users(c)'
    BY <1>3, <1>u, Basics DEF Locks, Held, Users
  <2>3. \A c, e \in Bufs : block'[c] = block'[e] /\ block'[c] # None => c = e  BY <1>u DEF OneCopy
  <2> QED BY <2>1, <2>2, <2>3 DEF OneCopy
<1>6. DirtyBound'  BY <1>0, <1>u, PinnedShrinks DEF Pinned
<1>8. QueueExact'  BY <1>0, <1>u, Basics, Consts DEF QueueExact, Queued
<1>9. NoLostWakeup'  BY <1>0, <1>u, Basics, Consts DEF NoLostWakeup, Queued
<1>10. Command'  BY <1>0, <1>u, Basics, Consts DEF Command
<1>11. Clean'  BY <1>0, <1>u, Basics, Consts DEF Clean
<1> QED BY <1>1, <1>2, <1>3, <1>4, <1>5, <1>6, <1>8, <1>9, <1>10, <1>11 DEF DiskInv, CacheInv, QueueInv
-----------------------------------------------------------------------------
LEMMA NextInv == DiskInv /\ [Next]_vars => DiskInv'
<1> SUFFICES ASSUME DiskInv, [Next]_vars PROVE DiskInv'  OBVIOUS
<1>1. CASE UNCHANGED vars
  <2>1. panicked' \in BOOLEAN  BY <1>1, Types DEF DiskInv, CacheInv, vars
  <2> QED BY <1>1, <2>1, UnchangedStep DEF vars
<1>2. CASE DiskDone \/ ideintr  BY <1>2, DiskDoneStep, IdeintrStep
<1>3. ASSUME NEW p \in Procs, acquiresleep(p) \/ bread(p) PROVE DiskInv'
  <2>1. CASE acquiresleep(p)  BY <2>1, AcquireStep, LockwaitStep DEF acquiresleep
  <2>2. CASE bread(p)  BY <2>2, BreadHitStep, BreadMissStep DEF bread
  <2> QED BY <1>3, <2>1, <2>2
<1>4. ASSUME NEW p \in Procs, brelse(p) \/ MemRead(p) \/ IderwWait(p) \/ releasesleep(p) \/ Kill(p)
      PROVE  DiskInv'
  BY <1>4, BrelseStep, MemReadStep, IderwWaitStep, ReleasesleepStep, KillStep
<1>5. ASSUME NEW p \in Procs, NEW n \in Blocks, bget(p, n) PROVE DiskInv'  BY <1>5, BgetStep
<1>6. ASSUME NEW p \in Procs, NEW v \in Values, bwrite(p, v) \/ MemWrite(p, v) \/ log_write(p, v)
      PROVE  DiskInv'
  BY <1>6, BwriteStep, MemWriteStep, LogWriteStep
<1> QED BY <1>1, <1>2, <1>3, <1>4, <1>5, <1>6 DEF Next, Step, Halt, Kernel

LEMMA InvHolds == Spec => []DiskInv
<1>1. Init => DiskInv  BY InitInv
<1>2. DiskInv /\ [Next]_vars => DiskInv'  BY NextInv
<1> QED BY <1>1, <1>2, PTL DEF Spec

\* bget is the only step that panics, and it does so when all buffers are taken.
LEMMA PanicStep == DiskInv /\ PanicFull /\ [Next]_vars => PanicFull'
<1> SUFFICES ASSUME DiskInv, PanicFull, [Next]_vars PROVE PanicFull'  OBVIOUS
<1>1. CASE UNCHANGED vars
  <2>1. UNCHANGED <<pc, dirty, idequeue, panicked>>  BY <1>1 DEF vars, ide
  <2>2. Pinned' = Pinned  BY <2>1 DEF Pinned, Queued
  <2> QED BY <2>1, <2>2 DEF PanicFull
<1>2. CASE ~panicked /\ UNCHANGED panicked  BY <1>2 DEF PanicFull
<1>3. ASSUME NEW p \in Procs, NEW n \in Blocks, bget(p, n), panicked' # panicked PROVE PanicFull'
  <2> DEFINE idle == {i \in Slots : refcnt[lru[i]] = 0 /\ ~dirty[lru[i]]}
  <2>1. /\ idle = {} /\ pc[p] = "idle" /\ UNCHANGED <<pc, dirty, idequeue>>
    BY <1>3 DEF bget, At, ide
  <2>2. \A b \in Bufs : \E i \in Slots : lru[i] = b  BY Types DEF DiskInv, CacheInv, Range
  <2>3. \A b \in Bufs : refcnt[b] # 0 \/ dirty[b]  BY <2>1, <2>2
  <2>4. Cardinality(Bufs) <= Cardinality({q \in Procs : pc[q] # "idle"}) + Cardinality(Pinned)
    BY <2>3, Counted
  <2>5. Pinned' = Pinned  BY <2>1 DEF Pinned, Queued
  <2> QED BY <2>1, <2>4, <2>5 DEF PanicFull
<1>5. ASSUME NEW p \in Procs, Kernel(p) \/ releasesleep(p) \/ Kill(p) PROVE UNCHANGED panicked
  BY <1>5 DEF Kernel, releasesleep, Kill, acquiresleep, brelse, bread, MemRead, IderwWait
<1>6. ASSUME NEW p \in Procs, NEW v \in Values, bwrite(p, v) \/ MemWrite(p, v) \/ log_write(p, v)
      PROVE  UNCHANGED panicked
  BY <1>6 DEF bwrite, MemWrite, log_write
<1>7. CASE ~panicked /\ Step
  <2>1. CASE DiskDone \/ ideintr  BY <2>1, <1>2, <1>7 DEF DiskDone, ideintr
  <2>2. CASE \E p \in Procs, n \in Blocks : bget(p, n)  BY <2>2, <1>2, <1>3, <1>7
  <2> QED BY <2>1, <2>2, <1>2, <1>5, <1>6, <1>7 DEF Step
<1> QED BY <1>1, <1>7 DEF Next, Halt

LEMMA PanicHolds == Spec => []PanicFull
<1>1. Init => PanicFull  BY DEF Init, PanicFull
<1>2. DiskInv /\ PanicFull /\ [Next]_vars => PanicFull'  BY PanicStep
<1> QED BY <1>1, <1>2, InvHolds, PTL DEF Spec

\* bget recycles a buffer nobody uses, never holds a block in two buffers, and finds
\* no buffer only when processes and the log have them all, whoever else reads,
\* writes and releases.
THEOREM CacheCorrect == Spec => []CacheExact
<1>1. DiskInv /\ PanicFull => CacheExact  BY DEF DiskInv, CacheInv, CacheExact
<1> QED BY <1>1, InvHolds, PanicHolds, PTL

\* With a buffer for every process and for every block of a transaction bget never
\* panics.  NBUF is smaller than that: 30, with 64 processes and a log of 30 blocks.
THEOREM EnoughBuffers ==
  ASSUME Cardinality(Bufs) >= Cardinality(Procs) + MaxDirty
  PROVE  Spec => []~panicked
<1>1. ASSUME DiskInv, PanicFull PROVE ~panicked
  <2> SUFFICES ASSUME panicked PROVE FALSE  OBVIOUS
  <2> DEFINE Busy == {q \in Procs : pc[q] # "idle"}
  <2>1. PICK p \in Procs : pc[p] = "idle" /\ Cardinality(Bufs) <= Cardinality(Busy) + Cardinality(Pinned)
    BY <1>1 DEF PanicFull
  <2>2. IsFiniteSet(Procs \ {p}) /\ Cardinality(Procs \ {p}) = Cardinality(Procs) - 1
    BY DiskAssumption, FS_RemoveElement
  <2>3. Busy \in SUBSET (Procs \ {p})  BY <2>1
  <2>4. IsFiniteSet(Busy) /\ Cardinality(Busy) <= Cardinality(Procs \ {p})  BY <2>2, <2>3, FS_Subset
  <2>5. Cardinality(Busy) \in Nat  BY <2>4, FS_CardinalityType
  <2>6. Cardinality(Pinned) <= MaxDirty  BY <1>1 DEF DiskInv, CacheInv, DirtyBound
  <2> QED BY <2>1, <2>2, <2>4, <2>5, <2>6, PinnedFinite, Sizes, DiskAssumption
<1>2. DiskInv /\ PanicFull => ~panicked  BY <1>1
<1> QED BY <1>2, InvHolds, PanicHolds, PTL

\* The driver works on the first request of its queue, each request belongs to one
\* process that holds the buffer and waits, and nobody waits for a lock that is free
\* or for a request that is done.
THEOREM RequestsCorrect == Spec => []RequestsExact
<1>1. DiskInv => RequestsExact  BY DEF DiskInv, QueueInv, RequestsExact
<1> QED BY <1>1, InvHolds, PTL
-----------------------------------------------------------------------------
(***************************************************************************)
(* The block store: what Content and Owner are in terms of the buffers.    *)
(***************************************************************************)
Maps ==
  /\ Content \in [Blocks \ Bad -> Values] /\ Owner \in [Blocks \ Bad -> Procs \union {None}]
  /\ \A b \in Bufs : valid[b] /\ block[b] \in Blocks \ Bad =>
       Content[block[b]] = data[b] /\ Owner[block[b]] = lock[b]
  /\ \A n \in Blocks \ Bad : (\A b \in Bufs : block[b] = n => ~valid[b]) =>
       Content[n] = disk[n] /\ Owner[n] = None
  /\ \A n \in Blocks \ Bad, p \in Procs : Owner[n] = p =>
       buf[p] \in Bufs /\ pc[p] \in Held /\ valid[buf[p]] /\ block[buf[p]] = n

LEMMA MapsTo == DiskInv => Maps
<1> SUFFICES ASSUME DiskInv PROVE Maps  OBVIOUS
<1> USE DEF DiskInv, CacheInv
<1>1. ASSUME NEW b \in Bufs, valid[b], block[b] \in Blocks \ Bad
      PROVE  Content[block[b]] = data[b] /\ Owner[block[b]] = lock[b]
  <2>1. Cached(block[b]) = {b}  BY <1>1, Consts DEF Cached, OneCopy
  <2> QED BY <1>1, <2>1 DEF Content, Owner
<1>2. ASSUME NEW n \in Blocks \ Bad, \A b \in Bufs : block[b] = n => ~valid[b]
      PROVE  Content[n] = disk[n] /\ Owner[n] = None
  <2>1. Cached(n) = {}  BY <1>2 DEF Cached
  <2> QED BY <2>1 DEF Content, Owner
<1>3. ASSUME NEW n \in Blocks \ Bad PROVE Content[n] \in Values /\ Owner[n] \in Procs \union {None}
  <2>1. CASE \E b \in Bufs : block[b] = n /\ valid[b]  BY <1>1, <2>1, Basics DEF Buffers
  <2>2. CASE \A b \in Bufs : block[b] = n => ~valid[b]  BY <1>2, <2>2, Basics
  <2> QED BY <2>1, <2>2
<1>4. Content \in [Blocks \ Bad -> Values]
  <2>1. Content = [n \in Blocks \ Bad |-> Content[n]]  BY DEF Content
  <2> QED BY <2>1, <1>3
<1>5. Owner \in [Blocks \ Bad -> Procs \union {None}]
  <2>1. Owner = [n \in Blocks \ Bad |-> Owner[n]]  BY DEF Owner
  <2> QED BY <2>1, <1>3
<1>6. ASSUME NEW n \in Blocks \ Bad, NEW p \in Procs, Owner[n] = p
      PROVE  buf[p] \in Bufs /\ pc[p] \in Held /\ valid[buf[p]] /\ block[buf[p]] = n
  <2>1. PICK b \in Bufs : block[b] = n /\ valid[b]  BY <1>2, <1>6, Consts
  <2>2. lock[b] = p  BY <1>1, <1>6, <2>1
  <2> QED BY <2>1, <2>2, Consts DEF Locks
<1> QED BY <1>1, <1>2, <1>4, <1>5, <1>6 DEF Maps

\* A block whose buffer a step leaves alone keeps its contents and its owner.
LEMMA Elsewhere ==
  ASSUME Maps, Maps', NEW m \in Blocks \ Bad,
         \A c \in Bufs : block'[c] = m /\ valid'[c] <=> block[c] = m /\ valid[c],
         \A c \in Bufs : block[c] = m /\ valid[c] => data'[c] = data[c] /\ lock'[c] = lock[c],
         disk'[m] = disk[m] \/ \E c \in Bufs : block[c] = m /\ valid[c]
  PROVE  Content'[m] = Content[m] /\ Owner'[m] = Owner[m]
<1>1. CASE \E c \in Bufs : block[c] = m /\ valid[c]
  <2>1. PICK c \in Bufs : block[c] = m /\ valid[c]  BY <1>1
  <2>2. Content[m] = data[c] /\ Owner[m] = lock[c]  BY <2>1 DEF Maps
  <2>3. Content'[m] = data'[c] /\ Owner'[m] = lock'[c]  BY <2>1 DEF Maps
  <2> QED BY <2>1, <2>2, <2>3
<1>2. CASE ~\E c \in Bufs : block[c] = m /\ valid[c]  BY <1>2 DEF Maps
<1> QED BY <1>1, <1>2

LEMMA StoreStutters ==
  ASSUME Maps, Maps', \A m \in Blocks \ Bad : Content'[m] = Content[m] /\ Owner'[m] = Owner[m]
  PROVE  UNCHANGED Store!vars
<1>1. Content' = Content  BY DEF Maps
<1>2. Owner' = Owner  BY DEF Maps
<1> QED BY <1>1, <1>2 DEF Store!vars

\* The block of the buffer is taken when the buffer is both valid and locked.
LEMMA StoreTakes ==
  ASSUME Maps, Maps', NEW p \in Procs, NEW n \in Blocks \ Bad,
         Owner[n] = None, \A m \in Blocks \ Bad : Owner[m] # p, Owner'[n] = p,
         \A m \in Blocks \ Bad : m # n => Owner'[m] = Owner[m],
         \A m \in Blocks \ Bad : Content'[m] = Content[m]
  PROVE  Store!Next
<1>1. Content' = Content  BY DEF Maps
<1>2. Owner' = [Owner EXCEPT ![n] = p]  BY DEF Maps
<1>3. Store!Take(p, n)  BY <1>1, <1>2 DEF Store!Take
<1> QED BY <1>3 DEF Store!Next

LEMMA StoreGives ==
  ASSUME Maps, Maps', NEW p \in Procs, NEW n \in Blocks \ Bad, Owner[n] = p, Owner'[n] = None,
         \A m \in Blocks \ Bad : m # n => Owner'[m] = Owner[m],
         \A m \in Blocks \ Bad : Content'[m] = Content[m]
  PROVE  Store!Next
<1>1. Content' = Content  BY DEF Maps
<1>2. Owner' = [Owner EXCEPT ![n] = None]  BY DEF Maps
<1>3. Store!Give(p, n)  BY <1>1, <1>2 DEF Store!Give
<1> QED BY <1>3 DEF Store!Next

LEMMA StoreChanges ==
  ASSUME Maps, Maps', NEW p \in Procs, NEW n \in Blocks \ Bad, NEW v \in Values, Owner[n] = p, Content'[n] = v,
         \A m \in Blocks \ Bad : m # n => Content'[m] = Content[m],
         \A m \in Blocks \ Bad : Owner'[m] = Owner[m]
  PROVE  Store!Next
<1>1. Owner' = Owner  BY DEF Maps
<1>2. Content' = [Content EXCEPT ![n] = v]  BY DEF Maps
<1>3. Store!Change(p, n, v)  BY <1>1, <1>2 DEF Store!Change
<1> QED BY <1>3 DEF Store!Next

\* Every step of the cache and the driver is a step of the block store, or none.
LEMMA StoreStep ==
  ASSUME DiskInv, DiskInv', [Next]_vars PROVE [Store!Next]_(Store!vars)
<1>m. Maps /\ Maps'
  <2>1. (DiskInv => Maps)'  BY MapsTo, PTL
  <2> QED BY <2>1, MapsTo
<1>i. TypeOK /\ Works /\ Locks /\ Buffers /\ OneCopy /\ QueueExact /\ Command /\ Clean
  BY DEF DiskInv, CacheInv, QueueInv
<1>o. \A b, c \in Bufs : block[b] = block[c] /\ block[b] \in Blocks => b = c  BY <1>i, Consts DEF OneCopy
<1>s. ASSUME UNCHANGED <<block, valid, data, lock, disk>> PROVE UNCHANGED Store!vars
  BY <1>s, <1>m, Elsewhere, StoreStutters
<1>1. CASE UNCHANGED vars  BY <1>1, <1>s DEF vars, bcache, ide
<1>2. CASE DiskDone
  <2>1. PICK b : b \in Bufs /\ block[b] = ctl.block /\ (ctl.write => valid[b])
    <3>1. idequeue # <<>>  BY <1>2, <1>i DEF DiskDone, QueueExact
    <3>2. Head(idequeue) \in Bufs  BY <3>1, <1>i, TailQueue, Types DEF QueueExact
    <3> QED BY <3>1, <3>2, <1>i, Types DEF QueueExact, Buffers
  <2>2. \A m \in Blocks \ Bad : disk'[m] = disk[m] \/ \E c \in Bufs : block[c] = m /\ valid[c]
    BY <1>2, <1>i, <2>1, Basics DEF DiskDone
  <2> QED BY <1>2, <1>m, <2>2, Elsewhere, StoreStutters DEF DiskDone, bcache
<1>3. ASSUME NEW p \in Procs, NEW b \in Bufs, NEW d \in Values, lock[b] = p, ~valid[b], block[b] \in Blocks,
             block[b] \notin Bad => d = disk[block[b]],
             data' = [data EXCEPT ![b] = d], valid' = [valid EXCEPT ![b] = TRUE],
             UNCHANGED <<block, lock, disk>>
      PROVE  [Store!Next]_(Store!vars)
  <2>1. \A m \in Blocks \ Bad : m # block[b] => Content'[m] = Content[m] /\ Owner'[m] = Owner[m]
    BY <1>3, <1>m, <1>i, Basics, Elsewhere
  <2>2. CASE block[b] \in Bad  BY <2>1, <2>2, <1>m, StoreStutters
  <2>3. CASE block[b] \notin Bad
    <3> DEFINE n == block[b]
    <3>1. Content[n] = disk[n] /\ Owner[n] = None  BY <1>3, <2>3, <1>m, <1>o DEF Maps
    <3>2. valid'[b] /\ data'[b] = d /\ lock'[b] = p /\ block'[b] = n  BY <1>3, <1>i, Basics
    <3>3. Content'[n] = d /\ Owner'[n] = p  BY <1>3, <2>3, <3>2, <1>m DEF Maps
    <3>4. \A m \in Blocks \ Bad : Owner[m] # p
      BY <1>3, <1>m, <1>i, Consts DEF Maps, Locks
    <3> QED BY <1>3, <1>m, <2>1, <2>3, <3>1, <3>3, <3>4, StoreTakes
  <2> QED BY <2>2, <2>3
<1>4. CASE ideintr
  <2> DEFINE b == Head(idequeue)
  <2>1. /\ b \in Bufs /\ block[b] \in Blocks /\ block[b] = ctl.block /\ lock[b] \in Procs /\ (valid[b] => dirty[b])
        /\ (dirty[b] => valid[b])
    <3>1. idequeue # <<>>  BY <1>4 DEF ideintr
    <3>2. b \in Bufs /\ b \in Range(idequeue)  BY <3>1, <1>i, TailQueue, Types DEF QueueExact
    <3> QED BY <3>1, <3>2, <1>i DEF QueueExact, Buffers, Works, Queued
  <2>2. CASE dirty[b]
    <3>1. data' = [data EXCEPT ![b] = data[b]] /\ valid' = [valid EXCEPT ![b] = TRUE] /\ valid[b]
      BY <1>4, <2>1, <2>2 DEF ideintr, EndRequest
    <3>2. data' = data /\ valid' = valid  BY <2>1, <3>1, <1>i, Basics
    <3> QED BY <1>4, <3>2, <1>s DEF ideintr, bcache
  <2>3. CASE ~dirty[b]
    <3>1. PICK d \in Values : /\ block[b] \notin Bad => d = disk[block[b]]
                              /\ data' = [data EXCEPT ![b] = d] /\ valid' = [valid EXCEPT ![b] = TRUE]
      <4>1. disk[ctl.block] \in Values  BY <2>1, <1>i, Basics
      <4> QED BY <1>4, <2>1, <2>3, <4>1 DEF ideintr, EndRequest
    <3> QED BY <1>3, <1>4, <2>1, <2>3, <3>1 DEF ideintr, bcache
  <2> QED BY <2>2, <2>3
<1>5. ASSUME NEW p \in Procs, acquiresleep(p) PROVE [Store!Next]_(Store!vars)
  <2>1. PICK b : b = buf[p] /\ b \in Bufs /\ block[b] \in Blocks
    BY <1>5, <1>i, Basics DEF acquiresleep, At, Works
  <2>2. UNCHANGED <<block, valid, data, disk>>  BY <1>5 DEF acquiresleep, bcache, ide
  <2>3. CASE UNCHANGED lock  BY <2>2, <2>3, <1>s
  <2>4. CASE lock[b] = None /\ lock' = [lock EXCEPT ![b] = p]
    <3>1. \A m \in Blocks \ Bad : m # block[b] \/ ~valid[b] => Content'[m] = Content[m] /\ Owner'[m] = Owner[m]
      BY <2>1, <2>2, <2>4, <1>m, <1>i, Basics, Elsewhere
    <3>2. CASE valid[b] /\ block[b] \notin Bad
      <4> DEFINE n == block[b]
      <4>1. Owner[n] = None /\ Content[n] = data[b]  BY <2>1, <2>4, <3>2, <1>m DEF Maps
      <4>2. Owner'[n] = lock'[b] /\ Content'[n] = data'[b]
        BY <2>1, <2>2, <3>2, <1>m DEF Maps
      <4>3. lock'[b] = p  BY <2>1, <2>4, <1>i, Basics
      <4>4. \A m \in Blocks \ Bad : Owner[m] # p
        BY <1>5, <1>m DEF Maps, Held, acquiresleep, At
      <4> QED BY <2>1, <2>2, <3>1, <3>2, <4>1, <4>2, <4>3, <4>4, <1>m, StoreTakes
    <3>3. CASE ~(valid[b] /\ block[b] \notin Bad)  BY <3>1, <3>3, <1>m, StoreStutters
    <3> QED BY <3>2, <3>3
  <2> QED BY <1>5, <2>1, <2>3, <2>4 DEF acquiresleep
<1>6. ASSUME NEW p \in Procs, releasesleep(p) PROVE [Store!Next]_(Store!vars)
  <2>1. PICK b : b = buf[p] /\ b \in Bufs /\ block[b] \in Blocks /\ valid[b] /\ lock[b] = p
    BY <1>6, <1>i, Basics DEF releasesleep, At, Works, Held
  <2>2. lock' = [lock EXCEPT ![b] = None] /\ UNCHANGED <<block, valid, data, disk>>
    BY <1>6, <2>1 DEF releasesleep, bcache, ide
  <2>3. \A m \in Blocks \ Bad : m # block[b] => Content'[m] = Content[m] /\ Owner'[m] = Owner[m]
    BY <2>1, <2>2, <1>m, <1>i, Basics, Elsewhere
  <2>4. CASE block[b] \notin Bad
    <3>1. Owner[block[b]] = p /\ Content[block[b]] = data[b]  BY <2>1, <2>4, <1>m DEF Maps
    <3>2. lock'[b] = None  BY <2>1, <2>2, <1>i, Basics
    <3>3. Owner'[block[b]] = None /\ Content'[block[b]] = data[b]
      BY <2>1, <2>2, <2>4, <3>2, <1>m DEF Maps
    <3> QED BY <2>1, <2>3, <2>4, <3>1, <3>3, <1>m, StoreGives
  <2>5. CASE block[b] \in Bad  BY <2>3, <2>5, <1>m, StoreStutters
  <2> QED BY <2>4, <2>5
<1>7. ASSUME NEW p \in Procs, NEW n \in Blocks, bget(p, n) PROVE [Store!Next]_(Store!vars)
  <2>1. CASE UNCHANGED <<block, valid, data>>  BY <1>7, <2>1, <1>s DEF bget, ide
  <2>2. ASSUME NEW b \in Bufs, refcnt[b] = 0, ~dirty[b], \A c \in Bufs : block[c] # n,
               block' = [block EXCEPT ![b] = n], valid' = [valid EXCEPT ![b] = FALSE],
               data' = [data EXCEPT ![b] = None], UNCHANGED <<lock, disk>>
        PROVE  [Store!Next]_(Store!vars)
    <3>1. lock[b] = None
      <4>1. Users(b) = {}  BY <2>2, <1>i, UsersSize, FS_EmptySet DEF OneCopy
      <4> QED BY <4>1, <1>i, Basics DEF Locks, Users, Held
    <3>2. \A m \in Blocks \ Bad : ~(m = block[b] /\ valid[b]) => Content'[m] = Content[m] /\ Owner'[m] = Owner[m]
      BY <2>2, <1>m, <1>i, Basics, Elsewhere
    <3>3. ASSUME valid[b], block[b] \in Blocks \ Bad
          PROVE  Content'[block[b]] = Content[block[b]] /\ Owner'[block[b]] = Owner[block[b]]
      <4>1. Content[block[b]] = disk[block[b]] /\ Owner[block[b]] = None
        BY <2>2, <3>1, <3>3, <1>m, <1>i DEF Maps, Clean
      <4>2. \A c \in Bufs : block'[c] = block[b] => ~valid'[c]
        BY <2>2, <3>3, <1>o, <1>i, Basics
      <4>3. Content'[block[b]] = disk'[block[b]] /\ Owner'[block[b]] = None
        BY <3>3, <4>2, <1>m DEF Maps
      <4> QED BY <2>2, <4>1, <4>3
    <3> QED BY <3>2, <3>3, <1>m, StoreStutters
  <2>3. \A i \in Slots : lru[i] \in Bufs /\ \A b \in Bufs : \E j \in Slots : lru[j] = b
    BY <1>i, Types DEF Range
  <2> DEFINE hits == {i \in Slots : block[lru[i]] = n}
             idle == {i \in Slots : refcnt[lru[i]] = 0 /\ ~dirty[lru[i]]}
  <2>4. CASE hits # {}  BY <1>7, <2>1, <2>4 DEF bget
  <2>5. CASE hits = {} /\ idle # {}
    <3>1. Last(idle) \in idle  BY <2>5, ScanFinds
    <3>2. \A c \in Bufs : block[c] # n  BY <2>3, <2>5, <3>1
    <3>3. PICK b : b = lru[Last(idle)] /\ b \in Bufs /\ refcnt[b] = 0 /\ ~dirty[b]  BY <2>3, <3>1
    <3> QED BY <1>7, <2>2, <2>5, <3>2, <3>3 DEF bget, ide
  <2>6. CASE hits = {} /\ idle = {}  BY <1>7, <2>1, <2>6 DEF bget
  <2> QED BY <2>4, <2>5, <2>6
<1>8. ASSUME NEW p \in Procs, NEW v \in Values, bwrite(p, v) \/ MemWrite(p, v) \/ log_write(p, v)
      PROVE  [Store!Next]_(Store!vars)
  <2>1. PICK b : b = buf[p] /\ b \in Bufs /\ block[b] \in Blocks /\ valid[b] /\ lock[b] = p
    BY <1>8, <1>i, Basics DEF bwrite, MemWrite, log_write, At, Works, Held
  <2>2. /\ data' = [data EXCEPT ![b] = v] /\ UNCHANGED <<block, valid, lock>>
        /\ disk' \in {disk, [disk EXCEPT ![block[b]] = v]}
    BY <1>8, <2>1 DEF bwrite, MemWrite, log_write, iderw, bcache, ide
  <2>3. \A m \in Blocks \ Bad : m # block[b] => Content'[m] = Content[m] /\ Owner'[m] = Owner[m]
    BY <2>1, <2>2, <1>m, <1>i, Basics, Elsewhere
  <2>4. CASE block[b] \notin Bad
    <3>1. Owner[block[b]] = p  BY <2>1, <2>4, <1>m DEF Maps
    <3>2. data'[b] = v  BY <2>1, <2>2, <1>i, Basics
    <3>3. Owner'[block[b]] = p /\ Content'[block[b]] = v
      BY <2>1, <2>2, <2>4, <3>2, <1>m DEF Maps
    <3> QED BY <2>1, <2>3, <2>4, <3>1, <3>3, <1>m, StoreChanges
  <2>5. CASE block[b] \in Bad  BY <2>3, <2>5, <1>m, StoreStutters
  <2> QED BY <2>4, <2>5
<1>9. ASSUME NEW p \in Procs, bread(p) \/ brelse(p) \/ IderwWait(p) \/ Kill(p)
      PROVE  [Store!Next]_(Store!vars)
  <2>1. UNCHANGED <<block, valid, data, lock, disk>>
    BY <1>9 DEF bread, brelse, IderwWait, Kill, iderw, bcache, ide
  <2> QED BY <2>1, <1>s
<1>10. ASSUME NEW p \in Procs, MemRead(p) PROVE [Store!Next]_(Store!vars)
  <2>1. PICK b : b = buf[p] /\ b \in Bufs /\ block[b] \in Blocks /\ lock[b] = p /\ ~valid[b]
    BY <1>10, <1>i, Basics DEF MemRead, At, Works, Held
  <2>2. disk[block[b]] \in Values  BY <2>1, <1>i, Basics
  <2> QED BY <1>3, <1>10, <2>1, <2>2 DEF MemRead, bcache, ide
<1> QED BY <1>1, <1>2, <1>4, <1>5, <1>6, <1>7, <1>8, <1>9, <1>10 DEF Next, Step, Halt, Kernel

\* The buffer cache with its driver, its interrupts and its recycling is one copy of
\* every block that can be read, and one process uses it at a time.
THEOREM BlockStoreImplemented == Spec => ImplementsBlockStore
<1>1. Init => Store!Init
  <2> SUFFICES ASSUME Init PROVE Store!Init  OBVIOUS
  <2>1. \A n : Cached(n) = {}  BY DEF Init, Cached
  <2>2. Content = [n \in Blocks \ Bad |-> disk[n]] /\ Owner = [n \in Blocks \ Bad |-> None]
    BY <2>1 DEF Content, Owner
  <2> QED BY <2>2 DEF Init, Store!Init
<1>2. Init => DiskInv  BY InitInv
<1>3. DiskInv /\ [Next]_vars => DiskInv'  BY NextInv
<1>4. DiskInv /\ DiskInv' /\ [Next]_vars => [Store!Next]_(Store!vars)  BY StoreStep
<1> QED BY <1>1, <1>2, <1>3, <1>4, PTL DEF Spec, ImplementsBlockStore, Store!Spec
=============================================================================
