-------------------------------- MODULE Log --------------------------------
(***************************************************************************)
(* The write-ahead log of log.c: begin_op, log_write, end_op with group    *)
(* commit, and recovery after a crash at any point, recovery included.     *)
(*                                                                         *)
(* One step per critical section of log.lock and per disk write.  The disk *)
(* writes a block (the header is one) atomically and in the order of the   *)
(* calls, since bwrite waits for the interrupt.  The buffer cache is       *)
(* cache, dirty (B_DIRTY) and buf: a buffer that is neither dirty nor in   *)
(* use may be recycled, and is read again from the disk (Recycle).         *)
(***************************************************************************)
EXTENDS Integers, Sequences, FiniteSets

CONSTANTS
  Procs,          \* processes in file system calls
  Blocks,         \* blocks outside the log
  Values,         \* contents of a block
  None,           \* no block
  MAXOPBLOCKS,    \* blocks an operation may write
  LOGSIZE,        \* length of log.lh.block
  NLog,           \* log.size, the blocks of the log on disk, header included
  After           \* the block that follows the log on disk: the first of inodes

ASSUME LogAssumption ==
  /\ MAXOPBLOCKS \in Nat \ {0} /\ LOGSIZE \in Nat /\ NLog \in Nat \ {0}
  /\ NLog >= LOGSIZE /\ After \in Blocks
  /\ IsFiniteSet(Procs) /\ IsFiniteSet(Blocks) /\ None \notin Blocks

VARIABLES
  lh,             \* log.lh.block[0 .. n-1]
  outstanding,    \* log.outstanding
  committing,     \* log.committing
  cache,          \* b->data
  dirty,          \* blocks whose buffer has B_DIRTY
  buf,            \* the locked buffer p is about to log
  wrote,          \* the blocks p's operation has logged
  home,           \* on disk: the blocks
  slot,           \* on disk: the blocks that follow the log header
  head,           \* on disk: the log header
  pc,             \* where each process is
  stage, tail,    \* how far commit, or recovery, has got
  machine         \* booting or up

memory == <<lh, outstanding, committing, cache, dirty, buf, wrote, pc>>
disk   == <<home, slot, head>>
vars   == <<memory, disk, stage, tail, machine>>

\* The block log.start + i of the disk belongs to the log, if it is not its header.
Slots == 1 .. NLog - 1
Labels == {"idle", "sleep", "begin", "op", "logging", "commit", "panicked"}

\* In particular log.lh never outgrows its array.
TypeOK ==
  /\ lh \in Seq(Blocks) /\ Len(lh) <= LOGSIZE
  /\ outstanding \in Nat /\ committing \in BOOLEAN
  /\ cache \in [Blocks -> Values] /\ dirty \subseteq Blocks
  /\ buf \in [Procs -> Blocks \union {None}]
  /\ wrote \in [Procs -> SUBSET Blocks]
  /\ home \in [Blocks -> Values] /\ slot \in [Slots -> Values]
  /\ head \in Seq(Blocks) /\ Len(head) <= LOGSIZE
  /\ pc \in [Procs -> Labels]
  /\ stage \in {"idle", "read", "log", "install"} /\ tail \in 0 .. LOGSIZE
  /\ machine \in {"boot", "up"}
-----------------------------------------------------------------------------
\* The image mkfs writes, started for the first time: initlog.
Init ==
  /\ home \in [Blocks -> Values] /\ \E v \in Values : slot = [i \in Slots |-> v]
  /\ head = <<>>
  /\ lh = <<>> /\ outstanding = 0 /\ committing = FALSE
  /\ cache = home /\ dirty = {}
  /\ buf = [p \in Procs |-> None] /\ wrote = [p \in Procs |-> {}]
  /\ pc = [p \in Procs |-> "idle"]
  /\ stage = "read" /\ tail = 0 /\ machine = "boot"

Up(p, l) == machine = "up" /\ pc[p] = l

\* "panicked" is where panic() spins; the other CPUs go on.
Goto(p, l) == pc' = [pc EXCEPT ![p] = l]

\* wakeup(&log), while p goes to l.
wakeup(p, l) ==
  pc' = [q \in Procs |-> IF q = p THEN l ELSE IF pc[q] = "sleep" THEN "begin" ELSE pc[q]]

Logged == {lh[i] : i \in 1 .. Len(lh)}
Active == {p \in Procs : pc[p] \in {"op", "logging", "panicked"}}
InUse  == {buf[p] : p \in Procs} \ {None}
-----------------------------------------------------------------------------
\* Faulty variants: begin_op does not count the new operation; it does not wait
\* for a commit in progress.
ReserveOffByOne == committing \/ Len(lh) + outstanding * MAXOPBLOCKS > LOGSIZE
MustWaitForSpaceOnly == Len(lh) + (outstanding + 1) * MAXOPBLOCKS > LOGSIZE

MustWait == committing \/ Len(lh) + (outstanding + 1) * MAXOPBLOCKS > LOGSIZE

begin_op(p) ==
  /\ Up(p, "idle") \/ Up(p, "begin")
  /\ IF MustWait
       THEN Goto(p, "sleep") /\ UNCHANGED outstanding
       ELSE Goto(p, "op") /\ outstanding' = outstanding + 1
  /\ UNCHANGED <<lh, committing, cache, dirty, buf, wrote, disk, stage, tail, machine>>

(***************************************************************************)
(* log_write, called with a locked buffer whose data p has just changed.   *)
(* The size of the log is tested before the lock is taken.                 *)
(***************************************************************************)
LogCheck(p, b, v) ==
  /\ Up(p, "op")
  /\ b \notin InUse
  /\ Cardinality(wrote[p] \union {b}) <= MAXOPBLOCKS
  /\ cache' = [cache EXCEPT ![b] = v]
  /\ buf' = [buf EXCEPT ![p] = b]
  /\ wrote' = [wrote EXCEPT ![p] = @ \union {b}]
  /\ Goto(p, IF Len(lh) >= LOGSIZE \/ Len(lh) >= NLog - 1 \/ outstanding < 1
               THEN "panicked" ELSE "logging")
  /\ UNCHANGED <<lh, outstanding, committing, dirty, disk, stage, tail, machine>>

\* Faulty variant: the buffer is not pinned.
LogAppendUnpinned(p) ==
  /\ Up(p, "logging")
  /\ lh' = IF buf[p] \in Logged THEN lh ELSE Append(lh, buf[p])
  /\ buf' = [buf EXCEPT ![p] = None]
  /\ Goto(p, "op")
  /\ UNCHANGED <<outstanding, committing, cache, dirty, wrote, disk, stage, tail, machine>>

\* A block that is in the log already is not added again; brelse follows.
LogAppend(p) ==
  /\ Up(p, "logging")
  /\ lh' = IF buf[p] \in Logged THEN lh ELSE Append(lh, buf[p])
  /\ dirty' = dirty \union {buf[p]}
  /\ buf' = [buf EXCEPT ![p] = None]
  /\ Goto(p, "op")
  /\ UNCHANGED <<outstanding, committing, cache, wrote, disk, stage, tail, machine>>

\* bget takes a buffer that is neither dirty nor in use for another block; when
\* this block is read again it comes from the disk.
Recycle(b) ==
  /\ machine = "up" /\ b \notin dirty \union InUse
  /\ cache' = [cache EXCEPT ![b] = home[b]]
  /\ UNCHANGED <<lh, outstanding, committing, dirty, buf, wrote, pc, disk, stage, tail, machine>>

\* The last operation commits what all of them have logged.
end_op(p) ==
  /\ Up(p, "op")
  /\ outstanding' = outstanding - 1
  /\ IF committing
       THEN Goto(p, "panicked") /\ UNCHANGED <<committing, wrote, stage, tail>>
       ELSE /\ committing' = (outstanding' = 0)
            /\ IF committing' THEN Goto(p, "commit") ELSE wakeup(p, "idle")
            /\ wrote' = [wrote EXCEPT ![p] = {}]
            /\ stage' = IF committing' /\ lh # <<>> THEN "log" ELSE stage
            /\ tail' = 0
  /\ UNCHANGED <<lh, cache, dirty, buf, disk, machine>>
-----------------------------------------------------------------------------
(***************************************************************************)
(* commit and recover_from_log.                                            *)
(***************************************************************************)
\* What bread(log.start + i) reads.  The log has a block for each of LOGSIZE
\* entries only if NLog > LOGSIZE; mkfs makes it one block shorter.
Copy(i) == IF i \in Slots THEN slot[i] ELSE home[After]

\* The entry of log.lh that has no block in the log is copied to the block that
\* follows it, whose buffer is then no longer dirty.  (If it is the entry of
\* that very block, the second bread waits for the lock of the first.)
write_behind(b) ==
  /\ b # After
  /\ home' = [home EXCEPT ![After] = cache[b]]
  /\ cache' = [cache EXCEPT ![After] = cache[b]]
  /\ dirty' = dirty \ {After}
  /\ UNCHANGED slot

\* One turn of the loop of write_log.
write_log ==
  /\ stage = "log" /\ tail < Len(lh)
  /\ IF tail + 1 \in Slots
       THEN /\ slot' = [slot EXCEPT ![tail + 1] = cache[lh[tail + 1]]]
            /\ UNCHANGED <<home, cache, dirty>>
       ELSE write_behind(lh[tail + 1])
  /\ tail' = tail + 1
  /\ UNCHANGED <<lh, outstanding, committing, buf, wrote, pc, head, stage, machine>>

\* The commit point.
write_head ==
  /\ stage = "log" /\ tail = Len(lh)
  /\ head' = lh
  /\ stage' = "install" /\ tail' = 0
  /\ UNCHANGED <<memory, home, slot, machine>>

\* After a reset: read_head.
read_head ==
  /\ machine = "boot" /\ stage = "read"
  /\ lh' = head
  /\ stage' = "install" /\ tail' = 0
  /\ UNCHANGED <<outstanding, committing, cache, dirty, buf, wrote, pc, disk, machine>>

\* One turn of the loop of install_trans; the write clears B_DIRTY.
install_trans ==
  /\ stage = "install" /\ tail < Len(lh)
  /\ LET b == lh[tail + 1] IN
       /\ home' = [home EXCEPT ![b] = Copy(tail + 1)]
       /\ cache' = [cache EXCEPT ![b] = Copy(tail + 1)]
       /\ dirty' = dirty \ {b}
  /\ tail' = tail + 1
  /\ UNCHANGED <<lh, outstanding, committing, buf, wrote, pc, slot, head, stage, machine>>

\* log.lh.n = 0 and the second write_head.  Then recovery is over too.
Erase ==
  /\ stage = "install" /\ tail = Len(lh)
  /\ lh' = <<>> /\ head' = <<>>
  /\ stage' = "idle" /\ machine' = "up" /\ tail' = 0
  /\ UNCHANGED <<outstanding, committing, cache, dirty, buf, wrote, pc, home, slot>>

\* Faulty variant: nobody is woken.
EndCommitSilently(p) ==
  /\ Up(p, "commit") /\ stage = "idle"
  /\ committing' = FALSE
  /\ Goto(p, "idle")
  /\ UNCHANGED <<lh, outstanding, cache, dirty, buf, wrote, disk, stage, tail, machine>>

\* The rest of end_op.
EndCommit(p) ==
  /\ Up(p, "commit") /\ stage = "idle"
  /\ committing' = FALSE
  /\ wakeup(p, "idle")
  /\ UNCHANGED <<lh, outstanding, cache, dirty, buf, wrote, disk, stage, tail, machine>>

\* The power fails: what is on disk remains.
Crash ==
  /\ lh' = <<>> /\ outstanding' = 0 /\ committing' = FALSE
  /\ cache' = home /\ dirty' = {}
  /\ buf' = [p \in Procs |-> None] /\ wrote' = [p \in Procs |-> {}]
  /\ pc' = [p \in Procs |-> "idle"]
  /\ stage' = "read" /\ tail' = 0 /\ machine' = "boot"
  /\ UNCHANGED disk
-----------------------------------------------------------------------------
Committing == write_log \/ write_head \/ read_head \/ install_trans \/ Erase

Next ==
  \/ Committing \/ Crash
  \/ \E b \in Blocks : Recycle(b)
  \/ \E p \in Procs :
       \/ begin_op(p) \/ LogAppend(p) \/ end_op(p) \/ EndCommit(p)
       \/ \E b \in Blocks, v \in Values : LogCheck(p, b, v)

Spec == Init /\ [][Next]_vars

(***************************************************************************)
(* The disk answers and the committing process is scheduled (weak          *)
(* fairness); a system call calls log_write finitely often and then        *)
(* end_op (strong fairness: it may be logging whenever one looks).         *)
(***************************************************************************)
FairSpec ==
  /\ Spec
  /\ WF_vars(Committing)
  /\ \A p \in Procs : WF_vars(LogAppend(p)) /\ SF_vars(end_op(p)) /\ WF_vars(EndCommit(p))
-----------------------------------------------------------------------------
(***************************************************************************)
(* Properties.                                                             *)
(***************************************************************************)
\* What recovery would make of the disk now.
Durable == [b \in Blocks |->
  IF \E i \in 1 .. Len(head) : head[i] = b
    THEN Copy(CHOOSE i \in 1 .. Len(head) : head[i] = b)
    ELSE home[b]]

\* Every entry of log.lh has its block in the log.
Fits == Len(lh) < NLog

Disk == INSTANCE AtomicDisk WITH
  durable <- Durable,
  current <- IF machine = "boot" THEN Durable ELSE cache,
  active  <- Active

\* The log implements the atomic disk: whatever operations overlap and wherever
\* the power fails, in recovery too, the disk holds all the writes of the
\* operations up to a moment when none was in progress, and nothing else.  The
\* steps of a transaction that log_write's unlocked test has let grow past the
\* log are excepted; those after it are not.
ImplementsAtomicDisk ==
  Disk!Init /\ [][Fits /\ Fits' => Disk!Next]_(Disk!vars)

\* "The logging system only commits when there are no FS system calls active":
\* from the moment end_op decides to commit until it has erased the transaction
\* no operation runs, and one that runs is counted.
CommitsAlone ==
  /\ outstanding = Cardinality(Active)
  /\ committing => Active = {}
  /\ committing <=> \E p \in Procs : pc[p] = "commit"

\* The pairs of an operation in progress and a block of its that is in the log:
\* what the operations have used of their reservations.
Spent == {x \in Active \X Blocks : x[2] \in wrote[x[1]] \intersect Logged}

\* What is logged and what the operations in progress may still log fit the
\* array lh.block together: it is never overrun although log_write tests it
\* unlocked.  (It holds one block more than the log of mkfs, so log_write may
\* panic within what begin_op has reserved.)
SpaceReserved ==
  Len(lh) + (Cardinality(Active) * MAXOPBLOCKS - Cardinality(Spent)) <= LOGSIZE

\* The invariant of the log in memory: the counters of begin_op and end_op keep
\* operations and commits apart and every operation within its reservation.
LogSafe == TypeOK /\ CommitsAlone /\ SpaceReserved

\* Who sleeps in begin_op is woken, unless an operation has panicked and never
\* ends or the log was overrun: no end_op or commit forgets it.
SleepersWake ==
  \A p \in Procs : pc[p] = "sleep" ~>
    pc[p] # "sleep" \/ ~Fits \/ \E q \in Procs : pc[q] = "panicked"
=============================================================================
