-------------------------------- MODULE Disk --------------------------------
(***************************************************************************)
(* The buffer cache (bio.c), its sleep locks (sleeplock.c) and the IDE     *)
(* driver with its queue and interrupt handler (ide.c), or the memory disk *)
(* that takes its place in kernelmemfs (memide.c).                         *)
(*                                                                         *)
(* A process reads a block, may change it (and write it, or leave it dirty *)
(* for the log), and releases it.  One step per critical section of        *)
(* bcache.lock, of a sleep lock's spin lock and of idelock: none of them   *)
(* is held across another step.  A process asleep is woken by who calls    *)
(* wakeup on its channel, or by kill at any time.  The disk controller is  *)
(* outside the code: it carries out the command it was given and raises an *)
(* interrupt; reading a block of Bad may fail.                             *)
(*                                                                         *)
(* A process has one buffer here.  One that holds two at a time, as        *)
(* install_trans, write_log, bmap and itrunc do, is two members of Procs:  *)
(* they may do more than its two calls of bread, which are nested, and     *)
(* whatever holds of every order of their steps holds of the nested one.   *)
(***************************************************************************)
EXTENDS Integers, FiniteSets, Sequences, Functions

CONSTANTS
  Procs,        \* processes, twice those that hold two buffers
  Blocks, Values,
  Bad,          \* blocks the disk may fail to read
  Bufs,         \* buffers of bcache
  MaxDirty,     \* blocks the log keeps dirty at a time
  None

\* What idestart writes to the registers of the controller.
Commands == [block : Blocks, write : BOOLEAN, data : Values \union {None}]

ASSUME DiskAssumption ==
  /\ IsFiniteSet(Procs) /\ Bad \subseteq Blocks /\ MaxDirty \in Nat
  /\ IsFiniteSet(Bufs)
  /\ None \notin Procs \union Blocks \union Values \union Bufs /\ None \notin Commands

Slots == 1 .. Cardinality(Bufs)     \* positions of the list

VARIABLES
  lru,          \* the list from head.next on: most recently released first
  block, valid, dirty, refcnt, data, lock,   \* struct buf; lock: the process lock.pid names
  idequeue,
  ctl,          \* the command the controller has been given, or None
  irq,          \* the controller has raised an interrupt
  disk,
  pc, buf,      \* where each process is and the buffer it works on
  panicked,
  mem           \* the kernel is linked with memide.c instead of ide.c

bcache == <<lru, block, refcnt>>
ide    == <<idequeue, ctl, irq, disk>>
vars   == <<bcache, valid, dirty, data, lock, ide, pc, buf, panicked, mem>>

Labels == {"idle", "lock", "lockwait", "read", "iowait", "iotest", "hold", "used", "drop"}

TypeOK ==
  /\ lru \in [Slots -> Bufs] /\ Range(lru) = Bufs
  /\ block \in [Bufs -> Blocks \union {None}] /\ data \in [Bufs -> Values \union {None}]
  /\ valid \in [Bufs -> BOOLEAN] /\ dirty \in [Bufs -> BOOLEAN]
  /\ refcnt \in [Bufs -> 0 .. Cardinality(Procs)] /\ lock \in [Bufs -> Procs \union {None}]
  /\ idequeue \in Seq(Bufs) /\ irq \in BOOLEAN
  /\ ctl \in Commands \union {None}
  /\ disk \in [Blocks -> Values]
  /\ pc \in [Procs -> Labels] /\ buf \in [Procs -> Bufs \union {None}] /\ panicked \in BOOLEAN

\* binit and ideinit: every buffer in the list, none with a block of the disk.
Init ==
  /\ lru \in {s \in [Slots -> Bufs] : IsInjective(s)}
  /\ block = [b \in Bufs |-> None] /\ refcnt = [b \in Bufs |-> 0]
  /\ valid = [b \in Bufs |-> FALSE] /\ dirty = [b \in Bufs |-> FALSE]
  /\ disk \in [Blocks -> Values] /\ data = [b \in Bufs |-> None]
  /\ lock = [b \in Bufs |-> None] /\ mem \in BOOLEAN
  /\ idequeue = <<>> /\ ctl = None /\ irq = FALSE
  /\ pc = [p \in Procs |-> "idle"] /\ buf = [p \in Procs |-> None]
  /\ panicked = FALSE

At(p, l)   == pc[p] = l /\ ~panicked
Goto(p, l) == pc' = [pc EXCEPT ![p] = l]

\* What a scan of the list meets first from the front, and from the back.
First(S) == CHOOSE i \in S : \A j \in S : i <= j
Last(S)  == CHOOSE i \in S : \A j \in S : j <= i
-----------------------------------------------------------------------------
(***************************************************************************)
(* bio.c and sleeplock.c.                                                  *)
(***************************************************************************)
\* Faulty variants: a dirty buffer is recycled; a hit is not counted.
BgetAny(p, n) ==
  /\ At(p, "idle")
  /\ LET hits == {i \in Slots : block[lru[i]] = n}
         idle == {i \in Slots : refcnt[lru[i]] = 0}
         b    == lru[IF hits # {} THEN First(hits) ELSE Last(idle)]
     IN /\ refcnt' = [refcnt EXCEPT ![b] = @ + 1]
        /\ block' = [block EXCEPT ![b] = n]
        /\ IF hits = {} THEN valid' = [valid EXCEPT ![b] = FALSE] /\ dirty' = [dirty EXCEPT ![b] = FALSE]
                        ELSE UNCHANGED <<valid, dirty>>
        /\ buf' = [buf EXCEPT ![p] = b] /\ Goto(p, "lock")
  /\ UNCHANGED <<lru, data, lock, ide, panicked>>
BgetUncounted(p, n) ==
  /\ At(p, "idle")
  /\ \E b \in Bufs :
       /\ block[b] = n \/ (block[b] = None /\ \A c \in Bufs : block[c] # n)
       /\ refcnt' = [refcnt EXCEPT ![b] = 1] /\ block' = [block EXCEPT ![b] = n]
       /\ buf' = [buf EXCEPT ![p] = b] /\ Goto(p, "lock")
  /\ UNCHANGED <<lru, valid, dirty, data, lock, ide, panicked>>

\* The cached buffer of the block, or the least recently used one that nobody
\* references and the log has not left dirty.  Nobody looks at what the recycled
\* buffer held (None), unless the read fails.
bget(p, n) ==
  /\ At(p, "idle")
  /\ LET hits == {i \in Slots : block[lru[i]] = n}
         idle == {i \in Slots : refcnt[lru[i]] = 0 /\ ~dirty[lru[i]]}
     IN \/ /\ hits # {}
           /\ LET b == lru[First(hits)] IN
                refcnt' = [refcnt EXCEPT ![b] = @ + 1] /\ buf' = [buf EXCEPT ![p] = b]
           /\ Goto(p, "lock") /\ UNCHANGED <<block, valid, data, panicked>>
        \/ /\ hits = {} /\ idle # {}
           /\ LET b == lru[Last(idle)] IN
                /\ block' = [block EXCEPT ![b] = n] /\ valid' = [valid EXCEPT ![b] = FALSE]
                /\ refcnt' = [refcnt EXCEPT ![b] = 1] /\ buf' = [buf EXCEPT ![p] = b]
                /\ data' = [data EXCEPT ![b] = None]
           /\ Goto(p, "lock") /\ UNCHANGED panicked
        \/ /\ hits = {} /\ idle = {} /\ panicked' = TRUE
           /\ UNCHANGED <<block, valid, refcnt, data, pc, buf>>
  /\ UNCHANGED <<lru, dirty, lock, ide>>

acquiresleep(p) ==
  /\ At(p, "lock")
  /\ \/ lock[buf[p]] = None /\ lock' = [lock EXCEPT ![buf[p]] = p] /\ Goto(p, "read")
     \/ lock[buf[p]] # None /\ Goto(p, "lockwait") /\ UNCHANGED lock
  /\ UNCHANGED <<bcache, valid, dirty, data, ide, buf, panicked>>

\* Faulty variant: nobody is woken.
ReleaseSilent(p) ==
  /\ At(p, "hold") \/ At(p, "used")
  /\ lock' = [lock EXCEPT ![buf[p]] = None] /\ Goto(p, "drop")
  /\ UNCHANGED <<bcache, valid, dirty, data, ide, buf, panicked>>

\* brelse: releasesleep, which wakes who waits for the lock.
releasesleep(p) ==
  /\ At(p, "hold") \/ At(p, "used")
  /\ lock' = [lock EXCEPT ![buf[p]] = None]
  /\ pc' = [q \in Procs |-> IF q = p THEN "drop"
                            ELSE IF pc[q] = "lockwait" /\ buf[q] = buf[p] THEN "lock" ELSE pc[q]]
  /\ UNCHANGED <<bcache, valid, dirty, data, ide, buf, panicked>>

Position(b) == CHOOSE i \in Slots : lru[i] = b

\* Faulty variant: a buffer taken out of the list is not put back.
BrelseUnlinks(p) ==
  /\ At(p, "drop")
  /\ refcnt' = [refcnt EXCEPT ![buf[p]] = @ - 1]
  /\ lru' = IF refcnt[buf[p]] = 1 THEN SelectSeq(lru, LAMBDA b : b # buf[p]) ELSE lru
  /\ Goto(p, "idle") /\ buf' = [buf EXCEPT ![p] = None]
  /\ UNCHANGED <<block, valid, dirty, data, lock, ide, panicked>>

\* The rest of brelse: to the front of the list when nobody waits for it.
brelse(p) ==
  /\ At(p, "drop")
  /\ refcnt' = [refcnt EXCEPT ![buf[p]] = @ - 1]
  /\ lru' = IF refcnt[buf[p]] # 1 THEN lru
            ELSE [i \in Slots |-> IF i = 1 THEN buf[p]
                                  ELSE lru[IF i <= Position(buf[p]) THEN i - 1 ELSE i]]
  /\ Goto(p, "idle") /\ buf' = [buf EXCEPT ![p] = None]
  /\ UNCHANGED <<block, valid, dirty, data, lock, ide, panicked>>

\* log_write: the block is changed and stays dirty until the log has written it.
log_write(p, v) ==
  /\ At(p, "hold")
  /\ dirty[buf[p]] \/ Cardinality({b \in Bufs : dirty[b]}) < MaxDirty
  /\ data' = [data EXCEPT ![buf[p]] = v] /\ dirty' = [dirty EXCEPT ![buf[p]] = TRUE]
  /\ Goto(p, "used")
  /\ UNCHANGED <<bcache, valid, lock, ide, buf, panicked>>
-----------------------------------------------------------------------------
(***************************************************************************)
(* ide.c.                                                                  *)
(***************************************************************************)
\* The command of idestart; the data of a write is handed over with it.
idestart(b, d) == [block |-> block[b], write |-> d, data |-> data'[b]]

\* Appends to the queue, starts an idle disk and sleeps until the request is done.
iderw(p, d) ==
  /\ idequeue' = Append(idequeue, buf[p])
  /\ ctl' = IF idequeue = <<>> THEN idestart(buf[p], d) ELSE ctl
  /\ Goto(p, "iowait")
  /\ UNCHANGED <<irq, disk>>

bread(p) ==
  /\ At(p, "read")
  /\ \/ valid[buf[p]] /\ Goto(p, "hold") /\ UNCHANGED <<ide, data>>
     \/ ~valid[buf[p]] /\ ~mem /\ UNCHANGED data /\ iderw(p, FALSE)
  /\ UNCHANGED <<bcache, valid, dirty, lock, buf, panicked>>

bwrite(p, v) ==
  /\ At(p, "hold") /\ ~mem
  /\ data' = [data EXCEPT ![buf[p]] = v]
  /\ dirty' = [dirty EXCEPT ![buf[p]] = TRUE]
  /\ iderw(p, TRUE)
  /\ UNCHANGED <<bcache, valid, lock, buf, panicked>>

\* The same calls with the iderw of memide.c, which copies the block at once.
MemRead(p) ==
  /\ At(p, "read") /\ mem /\ ~valid[buf[p]]
  /\ data' = [data EXCEPT ![buf[p]] = disk[block[buf[p]]]]
  /\ valid' = [valid EXCEPT ![buf[p]] = TRUE]
  /\ Goto(p, "hold")
  /\ UNCHANGED <<bcache, dirty, lock, ide, buf, panicked>>

MemWrite(p, v) ==
  /\ At(p, "hold") /\ mem
  /\ data' = [data EXCEPT ![buf[p]] = v]
  /\ disk' = [disk EXCEPT ![block[buf[p]]] = v]
  /\ dirty' = [dirty EXCEPT ![buf[p]] = FALSE]
  /\ UNCHANGED <<bcache, valid, lock, idequeue, ctl, irq, pc, buf, panicked>>

\* Faulty variant: iderw takes any wakeup for the end of its request.
IderwIf(p) ==
  /\ At(p, "iotest") /\ Goto(p, "used")
  /\ UNCHANGED <<bcache, valid, dirty, data, lock, ide, buf, panicked>>

\* The loop of iderw, each time the process has been woken.
IderwWait(p) ==
  /\ At(p, "iotest")
  /\ Goto(p, IF valid[buf[p]] /\ ~dirty[buf[p]] THEN "hold" ELSE "iowait")
  /\ UNCHANGED <<bcache, valid, dirty, data, lock, ide, buf, panicked>>

\* The controller carries out its command.
DiskDone ==
  /\ ctl # None /\ ~irq /\ irq' = TRUE
  /\ disk' = IF ctl.write THEN [disk EXCEPT ![ctl.block] = ctl.data] ELSE disk
  /\ UNCHANGED <<bcache, valid, dirty, data, lock, idequeue, ctl, pc, buf, panicked>>

Woken(b) == [p \in Procs |-> IF pc[p] = "iowait" /\ buf[p] = b THEN "iotest" ELSE pc[p]]

\* The end of a request: b is off the queue, and d is in it.
EndRequest(b, d) ==
  /\ idequeue' = Tail(idequeue)
  /\ data' = [data EXCEPT ![b] = d]
  /\ valid' = [valid EXCEPT ![b] = TRUE] /\ dirty' = [dirty EXCEPT ![b] = FALSE]
  /\ irq' = FALSE

\* The first request of the queue is done: the data of the disk if it was a read
\* that went well, whatever the recycled buffer held before (any value) if it
\* failed; flags, wakeup, and the next request.
ideintr ==
  /\ irq /\ idequeue # <<>>
  /\ LET b == Head(idequeue) IN
       /\ pc' = Woken(b)
       /\ \/ ~dirty[b] /\ EndRequest(b, disk[ctl.block])
          \/ dirty[b] /\ EndRequest(b, data[b])
          \/ ~dirty[b] /\ ctl.block \in Bad /\ \E v \in Values : EndRequest(b, v)
  /\ ctl' = IF Len(idequeue) > 1 THEN idestart(idequeue[2], dirty[idequeue[2]]) ELSE None
  /\ UNCHANGED <<bcache, lock, disk, buf, panicked>>

\* kill() makes a sleeping process runnable, whatever it waits for.
Kill(p) ==
  /\ At(p, "lockwait") \/ At(p, "iowait")
  /\ Goto(p, IF pc[p] = "lockwait" THEN "lock" ELSE "iotest")
  /\ UNCHANGED <<bcache, valid, dirty, data, lock, ide, buf, panicked>>
-----------------------------------------------------------------------------
Kernel(p) == acquiresleep(p) \/ brelse(p) \/ bread(p) \/ MemRead(p) \/ IderwWait(p)

Step ==
  \/ DiskDone \/ ideintr
  \/ \E p \in Procs :
       \/ Kernel(p) \/ releasesleep(p) \/ Kill(p)
       \/ \E n \in Blocks : bget(p, n)
       \/ \E v \in Values : bwrite(p, v) \/ MemWrite(p, v) \/ log_write(p, v)

\* panic("bget: no buffers") stops the machine.
Halt == panicked /\ UNCHANGED vars

Next == (~panicked /\ Step /\ UNCHANGED mem) \/ Halt

Spec == Init /\ [][Next]_vars
-----------------------------------------------------------------------------
(***************************************************************************)
(* Properties.                                                             *)
(***************************************************************************)
Users(b) == {p \in Procs : pc[p] # "idle" /\ buf[p] = b}

\* A block is in at most one buffer, and a buffer is referenced exactly by the
\* processes that work on it: bget may recycle the others.
OneCopy ==
  \A b \in Bufs :
    /\ refcnt[b] = Cardinality(Users(b)) /\ (lock[b] # None => lock[b] \in Users(b))
    /\ \A c \in Bufs : block[b] = block[c] /\ block[b] # None => b = c

\* The disk works on the head of the queue, and a queued buffer is locked by a
\* process that waits for its request, so that nobody recycles or changes it.
QueueExact ==
  /\ IF idequeue = <<>> THEN ctl = None /\ ~irq
     ELSE ctl # None /\ ctl.block = block[Head(idequeue)] /\ ctl.write = dirty[Head(idequeue)]
  /\ IsInjective(idequeue)
  /\ \A b \in Range(idequeue) : \E p \in Procs :
       lock[b] = p /\ buf[p] = b /\ pc[p] \in {"iowait", "iotest"}

\* What the log has left dirty.
Queued == Range(idequeue)
Pinned == {b \in Bufs : dirty[b] /\ b \notin Queued}

\* bget panics for want of a buffer only when there are as many processes with a
\* buffer and blocks left dirty by the log as buffers: none is lost to bget.
PanicFull ==
  panicked => \E p \in Procs :
    /\ pc[p] = "idle"
    /\ Cardinality(Bufs) <= Cardinality({q \in Procs : pc[q] # "idle"}) + Cardinality(Pinned)

\* Recycling is safe: bget takes a buffer nobody uses, and fails to find one only
\* when all are in use.
CacheExact == TypeOK /\ OneCopy /\ PanicFull

\* The block as a process that reads it finds it, and who may.
Cached(n) == {b \in Bufs : block[b] = n /\ valid[b]}
Content == [n \in Blocks \ Bad |-> IF Cached(n) = {} THEN disk[n] ELSE data[CHOOSE b \in Cached(n) : TRUE]]
Owner   == [n \in Blocks \ Bad |-> IF Cached(n) = {} THEN None ELSE lock[CHOOSE b \in Cached(n) : TRUE]]

\* The cache and the driver are one copy of every block that can be read, used by
\* one process at a time: see BlockStore.
Store == INSTANCE BlockStore WITH Blocks <- Blocks \ Bad, content <- Content, owner <- Owner
ImplementsBlockStore == Store!Spec

\* Nobody sleeps for what has already happened: who waits for a sleep lock waits
\* for another process, and who waits for the disk has a request queued.
NoLostWakeup ==
  \A p \in Procs :
    /\ pc[p] = "lockwait" => lock[buf[p]] \notin {None, p}
    /\ pc[p] = "iowait" => buf[p] \in Range(idequeue)

\* Requests and sleepers belong together: every request in the queue has its
\* process, and every process that waits has a request or a lock to wait for.
RequestsExact == QueueExact /\ NoLostWakeup
=============================================================================
