# xv6 with copy-on-write fork: a TLA+ development

The repository is the x86 teaching kernel xv6 (`src/xv6-public/`) with one
extension: `fork` shares the parent's pages copy-on-write.  `kalloc.c` keeps a
reference count per physical page (`kmem.refc_cnt`) and a count of free pages
(`kmem.freecnt`), `copyuvm` in `vm.c` write-protects and shares instead of
copying, and `CoW_handler`, called on a page fault, copies a shared page or makes
a page writable that is no longer shared.  Four system calls (`countfp`,
`countvp`, `countpp`, `countptp`) expose counters to the tests `test0.c` ..
`test3.c`.

All source paths below are relative to `src/xv6-public/`.

## 1. Inventory

| component | state | operations | shares state with | what makes it correct | module |
|---|---|---|---|---|---|
| page allocator, `kalloc.c` | `kmem.lock`, `use_lock`, `freelist`, `freecnt`, `refc_cnt[]` | `kinit1`, `kinit2`, `freerange`, `kalloc`, `kfree`, `incr_refc`, `decr_refc`, `get_refc`, `countfp` | `vm.c`, `proc.c`, `pipe.c` | one thread inside at a time; a page is on the list iff it has no reference; `freecnt` is the length of the list, less one for every failed `kalloc`; calls return | `Kmem` |
| address spaces, `vm.c` | page tables, TLB (`cr3`) | `allocuvm`, `deallocuvm`, `freevm`, `clearpteu`, `copyuvm`, `CoW_handler`, `switchuvm`, `loaduvm`, `copyout` | allocator, process table | counts equal references; a writable page is not shared; no stale translation; a process sees a private memory; no page is lost | `CoW` |
| processes, `proc.c`, `exec.c`, `sysproc.c`, `swtch.S` | `ptable` (state, parent, pid, killed, chan, sz, pgdir), `ticks` | `allocproc`, `userinit`, `fork`, `exit`, `wait`, `growproc`, `exec`, `scheduler`, `sched`, `yield`, `sleep`, `wakeup`, `kill` | everything | no lost wakeup, no stack used twice, orphans are reaped, the killed die | `Proc`, `CoW` |
| traps, `trap.c` | | `trap` | processes, drivers | a killed process exits; the page-fault gate keeps interrupts off | `Proc`, `CoW`, `Disk`, `Console` |
| spin locks and sleep locks, `spinlock.c`, `sleeplock.c` | `locked`, `cpu`, `ncli`, `intena` | `acquire`, `release`, `pushcli`, `popcli`, `acquiresleep`, `releasesleep` | everything | mutual exclusion, interrupts off while a spin lock is held, no lost wakeup | `Kmem`, `Disk` |
| write-ahead log, `log.c` | `log.lh`, `outstanding`, `committing`, the log on disk | `begin_op`, `log_write`, `end_op`, `commit`, `recover_from_log` | buffer cache, file system calls | a crash leaves all or nothing of an operation on disk; a reservation always fits | `Log` |
| buffer cache and disk, `bio.c`, `ide.c`, `memide.c` | buffer list, `refcnt`, `flags`, `idequeue` | `bget`, `bread`, `bwrite`, `brelse`, `iderw`, `idestart`, `ideintr` | log, file system | one buffer per block; a request is answered once; dirty buffers stay | `Disk` |
| inodes and blocks, `fs.c`, `mkfs.c` | inode cache (`ref`, `valid`), bitmap, inodes on disk, directories | `balloc`, `bfree`, `ialloc`, `iget`, `iput`, `ilock`, `itrunc`, `bmap`, `readi`, `writei`, `dirlookup`, `dirlink`, `namex` | log, sleep locks | a block belongs to one inode; an inode is freed when nothing refers to it, never before | `Fs` |
| files, `file.c`, `sysfile.c` | `ftable` (`ref`), descriptors | `filealloc`, `filedup`, `fileclose`, `fileread`, `filewrite`, `sys_open`, `sys_link`, `sys_unlink`, `sys_dup`, `sys_pipe` | inodes, pipes | `ref` counts descriptors; link counts cover directory entries | `Fs`, `Shell` |
| pipes, `pipe.c` | ring buffer, `nread`, `nwrite`, `readopen`, `writeopen` | `pipealloc`, `pipewrite`, `piperead`, `pipeclose` | sleep and wakeup | bytes arrive once and in order; closing wakes the other end | `Shell` |
| console, `console.c`, `kbd.c`, `uart.c` | `input` (r, w, e), modifiers, cursor | `consoleintr`, `consoleread`, `consolewrite`, `kbdgetc`, `uartintr`, `cgaputc` | interrupts, sleep | lines are edited, then read in order and once; readers are woken | `Console` |
| shell and init, `sh.c`, `init.c` | descriptors of each process | `parsecmd`, `runcmd`, `fork1`, `main` | pipes, files, processes | a line is the command of the grammar; pipes are closed everywhere; the prompt returns | `ShellParser`, `Shell` |
| user library, `umalloc.c`, `ulib.c`, `printf.c` | `freep` | `malloc`, `free`, strings | `sbrk` | blocks do not overlap | |
| boot, devices, `syscall.c` | registers | `main`, `mpinit`, `fetchint`, ... | | straight-line set-up and argument checks | |

Where the difficulty is: `kfree` switches the allocator's locking off while it
holds the lock; `CoW_handler` and `copyuvm` read and change a count in separate
critical sections; TLB entries outlive the page-table entries they come from; every
multi-page operation can fail in the middle; `ptable.lock` is taken on one side of a
context switch and released on the other; the log recovers from a crash anywhere;
`iput` tests a count under one lock and changes it under another; `link` and
`unlink` let inodes go between counting a name and entering it; an end of a pipe
that any process forgets to close stops a pipeline; interrupts edit a buffer that
readers drain.  `PROJECT.json` lists these hazards at their lines.

## 2. Modules

```
PageAllocator   what kalloc.c promises         <- Kmem     kalloc.c, spinlock.c
                                                   +- KmemProofs
     ^ its operations are used by CoW
PrivateMemory   what a process sees            <- CoW      vm.c, fork/exec/sbrk/exit/wait, page fault
                                                   +- MCCoW
                                                   +- CoWKernel, faults at kernel addresses; CoWProofs
AtomicDisk      what the log promises          <- Log      log.c, crashes and recovery
                                                   +- LogProofs
BlockStore      what the buffer cache promises <- Disk     bio.c, sleeplock.c, ide.c, memide.c
                                                   +- MCDisk, DiskProofs
LineInput       what a reader sees             <- Console  console.c, kbd.c, uart.c
                                                   +- MCConsole, ConsoleProofs
Proc            process table, scheduler, sleep and wakeup, timer          +- ProcProofs
ShellParser     the parser of sh.c
   ^ EXTENDS
Shell           sh.c, descriptors, file table, pipes, init          +- MCShell
Fs              fs.c, sysfile.c, inode part of file.c, mkfs.c       +- MCFs, FsProofs, FsLinkProofs
```

An arrow `A <- B` says that `B` is shown to implement `A` (`INSTANCE A WITH ...`,
checked as a temporal property).  The `MC` modules only add symmetry sets and the
lists of calls or command lines.  A definition commented "Faulty variant" is not
part of a specification: it shows what a property would catch.

### PageAllocator and Kmem

`PageAllocator` has the counts and the set of free frames, with `kalloc`, `kfree`,
`incr_refc` and `decr_refc` as single steps.

`Kmem` is `kalloc.c` with one action per C statement that touches shared state: the
two tests of `kmem.use_lock`, `acquire` (`AcquireCli`: `pushcli` and the `holding`
check; `AcquireSpin`: the `xchg`), `release` with `popcli`, the read and the
unlinking of the list head in `kalloc`, the five steps of `kfree`.  The nested calls
of `get_refc` and `decr_refc` inside `kfree` are one step each with the `if` around
them; when `use_lock` is on they behave as `acquire` does (wait, or panic when the
lock is the caller's own).  `intr` is the set of threads that have interrupts off: a
thread in it keeps its processor, any other runs whenever a processor is left
(`CanRun`).  `main` is alone until `kinit2` (`Alone`); afterwards a caller names a
page only if it has a reference to it, and `decr_refc` is called only in an
interrupts-off section in which `get_refc` returned more than one.

### PrivateMemory and CoW

`PrivateMemory` has `alive` and `mem[p][va]`; `Fork` copies a whole memory in one
step, `Exec` replaces it by a fixed image (`Text`), `Write` changes one memory.

State of `CoW`: the allocator (`refc`, `free`); `pte[p, k, va]`, entry `va` of table
`k` of process `p` (two tables because `exec` builds the new image before it drops
the old one); `pgdir`, `sz`, `parent`; `mode`, which is `p->state` and the place in
the kernel operation the process is in; the operation's locals (`at`, `tgt`, `dir`,
`kid`, `hold`); the content of the frames; `tlb`.

| actions | code |
|---|---|
| `Fault`, `CoWCheck`, `CoWSetW`, `CoWAlloc`, `CoWOutOfMemory`, `CoWCopy`, `CoWDrop` | trap T_PGFLT, `CoW_handler` |
| `Fork`, `CopyPage`, `CopyIncr`, `CopyBad`, `ForkDone`, `UnforkDone` | `fork`, `copyuvm` |
| `Grow`, `AllocPage`, `MapPage`, `MapFails`, `GrowDone`, `UngrowDone`, `Shrink`, `ShrinkDone` | `growproc`, `allocuvm`, `mappages`, `deallocuvm` |
| `Exec`, `ExecBad`, `ExecCommit`, `FreeOldDone` | `exec` |
| `deallocuvm` | one page of `deallocuvm`, from all its callers |
| `Exit`, `Wait`, `ReapDone` | `exit`, `wait` |
| `Write` | a store by the process, or by the kernel on its behalf (`CR0_WP` is set) |

Abstractions: sizes are in pages; kernel stacks, page directories and page-table
pages are not taken from `Frames`, that such an allocation fails is a choice
(`CopyBad`, `MapFails`, `ExecBad`); a `fork` that finds no slot, no stack or no page
directory leaves everything as it was and is no step; `kfree` and the clearing of
the entry in `deallocuvm` are one step (only the process itself, which is in the
kernel, uses that table); a page `allocuvm` could not map is freed when its caller
has freed the rest.

In `CoW` a program touches addresses below `KERNBASE` only.  `CoWKernel` adds the
others: `setupkvm` maps every frame above `KERNBASE` as well, an access from user mode
faults, and `CoW_handler` treats the kernel's entry like one of the process
(`KernelFault`; finding 3).  `kpte` has the frames whose kernel mapping the handler has
replaced in the table a process runs on; a new table (`fork`, `exec`) starts with the
mappings of `setupkvm` (`Below`).  Where the count is 1 or less the handler only sets
`PTE_W` in the kernel's entry and the access faults for ever: no step.  Not modelled:
what the kernel itself then reads and writes through a replaced entry, and the
addresses of devices.  The theorems about copy-on-write are about `CoWKernel`, with the
hypothesis `UserOnly` that no such fault happens.

### AtomicDisk and Log

`AtomicDisk` has the content the operations see (`current`), the content a crash
leaves (`durable`) and the operations in progress; `Commit` copies the first to the
second when there are none.

`Log` has `log.lh`, `outstanding` and `committing`; the disk as `home` (blocks
outside the log), `head` (the header) and `slot` (the blocks behind it); the buffer
cache as `cache`, `dirty` and `buf` (the buffer a process holds locked).  A step is
a critical section of `log.lock` or one disk write: `begin_op`; `LogCheck` and
`LogAppend` (the tests of `log_write`, made without the lock, and its critical
section with the following `brelse`); `end_op`, `EndCommit`; `write_log`,
`write_head`, `install_trans`, `Erase` (the last two and `read_head` are also
recovery); `Recycle` (`bget` reuses a clean buffer nobody holds); `Crash`, at any
moment.  The log on disk has `NLog` blocks, header included; `mkfs` makes it `LOGSIZE`
long, so that the last entry of `log.lh` has no block of its own and is copied to the
block behind the log, `After` (`write_behind`, `Copy`), the first inode block.
`durable` is what recovery would make of the disk.  A panic leaves its
process spinning with its buffer locked while the others go on.

### Proc

`struct proc` without memory and files, `cpus[].proc`, the holders of `ptable.lock`
and `tickslock`, and for each process where it is in the kernel.  A critical section
of `ptable.lock` is a step, except where the lock travels through `swtch`: a process
changes its state (`sleep`, `exit`, `wait`, the timer's `yield`), is switched away
from (`Sched`), is chosen (`Scheduler`) and goes on (`Resume`), and
the lock belongs to the processor in between.  The assignments of `fork` that are
made without the lock are steps of their own.  `Timer` is the tick with its
`wakeup(&ticks)`, and `Enter`, `Leave` and `Switch` are the tests of `killed` and of
the tick in `trap`.  `Programs` says which calls a program may make: init forks a shell
(`shell` is its pid) and waits until that has died, whatever orphans it reaps on the
way; the others do as they like, and may kill init too, after which `exit` panics and
the machine stops (`Panic`, `Halt`).

### BlockStore and Disk

`BlockStore`: every block has one content and at most one owner.

`Disk` has the LRU list with the fields of `struct buf`, the request queue, the
command the controller works on, the interrupt line and the disk.  A step is one
critical section of `bcache.lock`, of the spin lock inside a sleep lock, or of
`idelock`.  `brelse` gives up the lock and the reference in two steps.  A sleeper is
woken by `wakeup` on its channel or by `kill`; it tests again.  A `bget` that finds no
buffer panics (`Halt`).  A process holds one buffer at a time; `install_trans`,
`write_log`, `bmap` and `itrunc` hold two for a moment.  `log_write` leaves a
buffer dirty, up to `MaxDirty` of them, and the log later writes it.  The controller
is external: it carries out its command, raises an interrupt, and may fail to read a
block of `Bad`.  In a behaviour with `mem` true the kernel is linked with
`memide.c`, whose `iderw` copies at once (`MemRead`, `MemWrite`).

### LineInput and Console

`LineInput`: a line being edited and a queue of complete characters.

`Console`: scan codes with the modifiers that `kbdgetc` keeps (`KeyTypes`,
`KeyShift`, `KeyEscape`, `KeyControl`; two keys a modifier, `Keys` are those of the
keyboard, `held` the ones that are down), serial characters (`uartintr`),
`consoleintr` with its editing keys on the ring buffer `buf`, `r`, `w`, `e` whose
indices wrap, `consoleread` one character a step under `cons.lock`, with its sleep
and its way of putting an end-of-file mark back, `consolewrite`, and the cursor of
`cgaputc` with scrolling.

### ShellParser and Shell

`ShellParser` has the parser function by function, on tokens.  `ParseAgrees`
compares it with a grammar stated independently of the functions, on every line up
to `MaxTokens`.

`Shell`: a process is the script of the calls it still has to make; `runcmd` turns a
command into such a script.  Descriptors, `ftable` and pipes are shared; a step is a
section under `ftable.lock` or a pipe's lock, except that `fork` takes the references to
all open files in one step.  `fileclose` is two steps, as in the
code: the slot is free before the pipe end is closed.  `pipe()` is a step for each
`filealloc` (`sys_pipe`, `SecondFile`), one for the page and the descriptors
(`pipealloc`), and where it fails a step for each file it has to close (`UndoFile`).
Programs are external: they read their standard input and write their standard output
where these are pipes, and exit; one that has no pipe may take descriptors with `dup`
and call `pipe()` itself (`Opener`).  While the shell waits, the shell or a program in a
call on a pipe may be killed.  Process slots, file slots, the page for pipes and the counters
`nread` and `nwrite` are all at their limits.

### Fs

Inodes on disk, bitmap, blocks (directory entries and indirect blocks), the inode
cache with `ref`, `valid`, the lock and the copy, current directories and open files.
Of a process in a call: the call, the rest of the path, the next step (`pc`; `iput`
returns to the step `ret`), and the slots it holds, which are the C variables `at`
(the `ip` of `namex` and what the call then works on), `ip`, `dp` and `put` (the
argument of `iput`).  The initial state is the image that `mkfs` computes (`Image`).
A step takes at most one sleep lock and reads or writes `icache.ref` or
an allocation table at most once, so that each of these is visible to the others
where it is in the code: `iput` is the test (`iput`), the freeing (`IputFree`) and
the decrement (`IputDrop`); `namex` is a step per path element; `create` and
`unlink` are split at each lock they take or give back; a path without elements (`/`) is
`NamexNone`.  `filewrite` is a step for each block and may end after any of them.

Abstractions: sizes are in blocks and a directory has one block (the rounding of the
root's size at the end of `mkfs` is left out); contents of plain
files and offsets are left out; calls run inside transactions, which `Log` shows to
be atomic, so there is no crash here; a process has one open file (`Opened` fails
with more, which stands for a full table).  A panic is a step that is not enabled:
`ilock` of a free inode, `iget` without a slot (`HasSlot`), `balloc` without a block
(`Room`), `ialloc` without an inode, `sys_unlink` of an inode without links.
`NoPanic` states those that must not happen; running out of slots, inodes or blocks
is kept out by the bounds.  Nothing is entered into a directory that `mkdir` has yet
to fill (`Filled`): nobody can reach one.

## 3. Runs

| run | bounds | states | shows |
|---|---|---|---|
| `kmem_1cpu` | 2 threads, 2 frames, counts up to 2, `uint` of size 4, 1 processor | 70,672 | mutual exclusion, no lock panic, locking comes back, exact list and counter, refinement of `PageAllocator`, calls return |
| `kmem_2cpu` | the same with 2 processors | | finding 1 |
| `cow` | 2 processes, 4 frames, 3 pages, 1 processor | 450,308 | counts, free list, sharing, TLB, no lost frame, the panics of `copyuvm` and `mappages`, refinement of `PrivateMemory` |
| `cow_kernel` | 2 processes, 3 frames, 1 page, 1 processor | | finding 3 |
| `cow_smp` | 2 processes, 3 frames, 2 pages, 2 processors, fair | 107,526 | the inductive invariant of the proofs, privacy with two operations at the same time, every kernel operation returns |
| `log` | 2 processes, 3 blocks, 2 contents, `MAXOPBLOCKS` 1, `LOGSIZE` 3, log of 3 blocks, fair | 130,192 | commits run alone, nobody takes more than is reserved, refinement of `AtomicDisk` with crashes as far as transactions fit into the log, sleepers are woken |
| `proc` | 3 slots, 2 processors, 4 pids, fair | 35,590 | one processor per kernel stack, `ptable.lock` is handed over exactly, orphans keep a parent, no lost wakeup, the killed die, orphans are reaped |
| `shell` | lines of up to 5 tokens; 6 processes, 3 files, 1 pipe page, pipe of 2 bytes, counters modulo 4, 3 bytes a writer, fair | 323,297 | parser against grammar; counts, order of bytes, end of file, wiring, leaks, the prompt returns |
| `fs` | 2 processes, 4 calls out of 16 kinds, 4 inodes, 9 blocks, 1 direct and 1 indirect block | 514,747 | counts, cached copies, blocks, links, panics, lock order |
| `disk` | 2 processes, 3 buffers, 4 blocks, one unreadable, 2 dirty buffers | 458,742 | one copy of a block, queue and controller agree, `bget` panics only when all buffers are taken, no lost wakeup, refinement of `BlockStore` |
| `console` | 2 processes, buffer of 2, indices modulo 4, screen of 2 by 2, left shift and both control keys | 3,100,080 | readers are woken, modifiers follow the keys, cursor stays on the screen, refinement of `LineInput`, end of file is seen |
| `fs_leak` | 2 calls | | finding 2 |

Most invariants of the runs are conjunctions of named parts, with the module's type
invariant as the first: `LockSafe` and `FreeExact` (`Kmem`), `RefInv` (`CoW`),
`LogSafe` (`Log`), `SwitchSafe` (`Proc`), `FilesExact` and `StreamExact` (`Shell`),
`CacheExact` and `InodesLive` (`Fs`), `CacheExact` and `RequestsExact` (`Disk`),
`DevicesExact` (`Console`).

Why the bounds are enough:

* memory: with fewer frames than pages in use every allocation can be the one that
  fails; two or three pages let an operation stop half way; `exec` needs three.
  `uint` of size 4 lets `freecnt` wrap.  `MinSize` keeps `sbrk` from shrinking to
  nothing (see the deviations).  Sharing among three and more processes is covered by
  the theorems, which hold for every number of them.
* log: two operations fill the log, so the next has to sleep; three blocks let
  operations share a block or not, and one of them is the block behind the log.
  `NLog = LOGSIZE`, as `mkfs` has it (see the deviations).
* processes: init, its shell and one more, so that there are orphans and `fork` finds
  the table full; two processors run the scheduler and a process side by side.  Pids
  stop at `MaxPid`, the last of which is kept for init's next shell, so that slots
  are used again but the state space ends.  A zombie that init inherits while it sleeps
  needs four slots; the theorems cover that, and the invariants of the run also hold
  with four slots and five pids (2,307,014 states).
* shell: five tokens are a pipeline in a block or two redirections; the lines that
  are carried out have up to seven tokens.  Three files and one page make `pipe` and
  `open` fail in the middle; a pipe of two bytes is full, half full and empty while two
  processes write to it at the same time, and three bytes a writer wrap its counters.
* file system: a file grows from its direct into its indirect block; four calls make
  a directory, a name in it, and unlink either while the other process holds, looks
  up or links it.  No directory is made inside a directory that may go away (see the
  deviations).
* disk: fewer buffers than blocks, so that buffers are recycled, and one fewer than
  processes and dirty blocks, so that `bget` may find none.
* console: a buffer of two is full after two characters; indices wrap after four.  The
  second shift key is covered by the theorem only.

Symmetry is used where processes, frames, buffers or contents are interchangeable,
and never in a run that checks liveness.

Fairness.  `Kmem` and `CoW`: strong fairness of the steps of a thread inside the
kernel.  The timer interrupt and the round-robin `scheduler` give every runnable
process a processor again and again, and a thread with interrupts off is never
descheduled; a step that waits for a processor kept by others is enabled infinitely
often, not continuously, hence strong fairness.  Nothing is assumed about user code.
`Log`: the disk answers and the committing process goes on (weak), and an operation
ends after finitely many `log_write`s (strong fairness of `end_op`, which is disabled
during each of them): every system call that calls `begin_op` is a bounded loop.
`Proc`: until init is killed and the machine panics, timer interrupts keep coming, `scheduler` goes round the table and so runs
every process that is runnable again and again, a process in the kernel goes on when
it has a processor, and init keeps calling `wait` as its loop says.  `Shell`: every
process takes its next step if it stays possible, programs included: they end.

### Findings

1. `kmem_2cpu`: on two processors, `kfree`'s `kmem.use_lock = 0` lets another
   processor into the allocator without the lock; it then calls `release` on a lock
   it does not hold (panic "release"), or corrupts the list.  `bootxv6.sh` starts one
   processor, where this cannot happen; the Makefile's default is two.
2. `fs_leak`: two processes give up the last two references to an unlinked file;
   each `iput` reads a count of 2 and decides not to free, then both decrement.  The
   inode and its blocks stay allocated although nothing refers to them.
3. `cow_kernel`: a program reads the kernel's mapping of a page it shares.
   `CoW_handler` looks neither at `KERNBASE` nor at `PTE_U` (`vm.c:400`): it copies the
   page, enters the copy in the kernel half for user mode and lowers the count of the
   page, which both processes still map.  At the next write the handler finds a count of
   1 and makes the shared page writable.  The count is then wrong for good: privacy,
   exact counts and the free list all depend on it, and the copy is never freed.
   Frames with one reference make the access fault for ever; `usertests.c:1496-1505`
   reads such addresses and expects the process to be killed.

### Known deviations

The models do what the code does in these cases too, where nothing else is said; the
properties are stated, or the bounds chosen, so that the rest can be checked.

* A `kalloc` that finds no page decrements `freecnt` all the same (`kalloc.c:110`): the
  count is one too small from then on, and wraps to a huge number if the list is empty.

* On two processors two sharers that fault at the same time both copy; the frame they
  leave has count 0 and is on no list (`vm.c:412`).  `NoLeak` is checked on one
  processor.
* `CoW_handler` writes `PTE_U` into the copy's entry, so the page `exec` made
  inaccessible becomes accessible after a fork (`vm.c:411`); where it is not shared,
  an access faults for ever (`vm.c:414`).
* Shrinking a process to size 0 frees everything and reports failure (`proc.c:169`).
* `mkfs` makes `nlog` = `LOGSIZE` blocks, header included (`mkfs.c:25`), while
  `begin_op` reserves up to `LOGSIZE`; the test in `log_write` is made before the lock
  is taken (`log.c:213`).  Two operations one after the other at the last block make
  `log_write` panic within its reservation; two at the same time make the transaction
  one block too long, and `write_log` copies its last block over the first inode block,
  which follows the log, or waits for itself if that is the block to be copied.
  `ImplementsAtomicDisk` excepts these steps, and only these.
* `NBUF` is 30, `NPROC` 64 and `LOGSIZE` 30: when processes that wait for the disk and
  dirty blocks of a transaction have every buffer, `bget` panics (`bio.c:92`).
* Both keys of a modifier share a bit (`kbd.h:36-40`), and the release of either clears
  it (`kbd.c:26`): with both shift keys down, letting one go switches shift off.
* `kill(1)` is allowed: init exits, and `exit` panics (`proc.c:235`).
* `create` and `sys_unlink` call `iunlockput(dp)` while they hold `ip`
  (`sysfile.c:280`, `sysfile.c:225`): `iput` locks `dp` again, and a process that
  holds `dp` and waits for `ip` completes the cycle.  `CyclesOnlyInIput` states that
  there is no other cycle.  `link(x, "d/.")` waits for itself the same way.
* An inode created in a directory that has just been unlinked is never freed, and
  `..` of such a directory may lead to an inode that is free (panic "ilock: no type",
  `fs.c:645`): one process does so in six calls, `mkdir a`, `mkdir a/b`, `chdir a/b`,
  `unlink` of both and `chdir ..`.
* `kill` does not look at the state: `kill(0)`, or a stale pid, marks an unused slot,
  and the next process there starts out killed (`proc.c:488`).
* A disk read that fails marks the buffer valid with what it held before (`ide.c:118`).
* In the shell the first redirection of a descriptor wins, `>>` builds the command of
  `>`, and `a & b` is a syntax error; a write to a pipe without readers succeeds
  until the pipe is full; a writer that is killed returns without waking the reader.

## 4. Proofs

Every theorem holds for every value of the constants that satisfies the module's
assumption: any number of processes, threads, processors, frames, pages, blocks,
buffers, slots and ticks, any size of the ring buffer, its indices and the screen.
Further hypotheses: `NCPU = 1` in the theorems of `KmemProofs` and in `NoLeakCorrect`,
`UserOnly` in those of `CoWProofs`, `NLog > LOGSIZE` in `LongerLogSuffices`, a buffer for
every process and dirty block in `EnoughBuffers`, `MinSize > 0` in `AssertionsCorrect`, `TlbCorrect` and `PrivateMemoryImplemented`,
`UpSafe`, a condition on the set of calls, in `FsLinkProofs`.  Why each is needed is
said below.

| module | theorem | says | inductive invariant |
|---|---|---|---|
| `CoWProofs` | `TypeCorrect`, `RefcCorrect`, `FreeCorrect`, `CoWCorrect`, `Invariant` | `[]TypeOK`, `[]RefcExact`, `[]FreeNotInUse`, `[]WritableNotShared`, `[]RefInv` | `RefInv` |
| | `AssertionsCorrect`, `TlbCorrect` | `[]AssertionsHold`, `[]TlbSafe` | `MemInv` |
| | `NoLeakCorrect` | `[]NoLeak` | `RefInv /\ LeakInv` |
| | `PrivateMemoryImplemented` | `ImplementsPrivateMemory` | `MemInv` |
| `KmemProofs` | `LockCorrect`, `PanicCorrect`, `FreeCorrect` | `[]LockSafe`, `[]NoPanic`, `[]FreeExact` | `AllocInv` |
| | `PageAllocatorImplemented` | `ImplementsPageAllocator` | |
| `LogProofs` | `LogCorrect` | `[]LogSafe` | `LogInv` |
| | `AtomicDiskImplemented` | `ImplementsAtomicDisk` | |
| | `LongerLogSuffices` | `Disk!Spec` | |
| `ProcProofs` | `SwitchCorrect`, `FamilyCorrect`, `WakeupCorrect` | `[]SwitchSafe`, `[]FamilyTree`, `[]NoLostWakeup` | `ProcInv` |
| `DiskProofs` | `CacheCorrect`, `RequestsCorrect` | `[]CacheExact`, `[]RequestsExact` | `DiskInv` |
| | `EnoughBuffers` | `[]~panicked` | |
| | `BlockStoreImplemented` | `ImplementsBlockStore` | |
| `ConsoleProofs` | `ReadersCorrect`, `DevicesCorrect` | `[]NoReaderForgotten`, `[]DevicesExact` | `ConsInv` |
| | `EndOfFileCorrect` | `EndOfFileSeen`, an action property | |
| | `LineInputImplemented` | `ImplementsLineInput` | |
| `FsProofs` | `CacheCorrect` | `[]CacheExact` | `FsInv` |
| | `BlocksCorrect` | `[]BlocksExact` | `FsInv /\ BlocksInv` |
| `FsLinkProofs` | `InodesCorrect`, `PanicsCorrect`, `CyclesCorrect` | `[]InodesLive`, `[]NoPanic`, `[]CyclesOnlyInIput` | `NamesInv` |
| | `LinkedUpsCorrect` | the three, from `[]UpLive` in place of `UpSafe` | |

Each inductive invariant was checked with TLC on a small instance before it was
proved; `RefInv` is also an invariant of the run `cow_smp`.

**Copy-on-write** (`CoWAssumption`: finite sets, `InitProc` a process, special values
distinct).  The specification is `SpecAny`, the one with faults at kernel addresses, and
`UserOnly` says that there are none; without it the properties are false (finding 3).  None of the properties is inductive alone.  `RefInv` adds what the
operations in progress rely on: a forker owns its embryo, and between `mappages` and
`incr_refc` parent and child name the same frame (`ForkShape`); one reaper at a time,
its child stays a zombie (`ReapShape`); a fault handler that decided "not shared" is
right until it sets the bit (`FaultShape`); a frame just allocated is unknown to
everybody else (`HoldShape`).  The proof first shows what a step of `p` can do to the
others (`Effects`) and to itself (`OwnEffects`), derives the shapes from that, and
then does the counting: `Uncounted` changes only in `copyuvm` (`UncountedSplit`,
`UncountedSplitNext`), and every other step is one of six moves of a reference
(`AllocCounts`, `UnholdCounts`, `FreeCounts`, `MapCounts`, `CopyCounts`,
`ShareCounts`/`IncrCounts`).  The key fact is `UncountedPartner`: an entry that is
not counted yet is never the only one, so a frame whose count reaches 0 is mapped
nowhere.

**What processes see of their memory** (the second half of `CoWProofs`, on top of `RefInv`).
`MemInv` says which pages a table has in every mode: exactly those below `sz`, except
where `allocuvm` and `deallocuvm` are at work, and none in the table `exec` does not
use (`LayoutOk`); how far `copyuvm` has got in the child (`CopiedOk`); that mapped
pages are filled and those `sbrk` adds are zero (`Contents`, `FilledOk`); and, in every
mode that may return to user mode without a load of `cr3`, that a cached translation
is of a page below `sz`, names the frame the table names, and lets the process write a
frame only if nobody has it but the child of a fork in progress (`CachedOk`).  From
`LayoutOk` follow the absence of the panics and what the undoing of a failed `fork`,
`sbrk` or `exec` leaves behind.  The interesting case of the TLB is a `fork` that fails
after it has write-protected pages: it returns with writable translations, and by then
the child's entries, the only other ones, are gone.  `MinSize > 0` (no program shrinks
itself to nothing) is needed: `growproc` takes that for an error and returns without
setting `sz`, and `MemInv` is false afterwards (section 3).

`NoLeak` needs, beyond `RefInv`, that a frame with count 0 is free and that a count
`CoW_handler` has read as shared is still above 1 when it decrements it.  The second
holds because on one processor at most one process is in the handler, with interrupts
off, and nobody else runs (`LeakInv`); on two processors it is false (section 3).

The refinement maps `Write` to `Write`, `ForkDone` to `Fork`, `GrowDone` to `Grow`,
each page freed by `deallocuvm` for a shrinking `sbrk` to `Release`, `ExecCommit` to
`Exec` and `Exit` to `Exit`; all other steps leave what processes see as it was
(`RestUnseen` and the lemmas around it).  `CoW_handler` copies a frame before it
replaces it, `copyuvm` and its undoing touch only a child that is not alive yet, and
`allocuvm` only pages at or above `sz` or the table the process does not run on.

**Allocator.**  `NCPU = 1` is the machine `bootxv6.sh` starts; on two processors the
properties are false (finding 1).  From `pushcli` to `popcli` a thread is the only
one that runs (`RunsAlone`), so nobody tests `kmem.use_lock` while `kfree` has it
off: `LockInv` says who holds the lock at which label and when `use_lock` may be off.
`Accounts` relates `freecnt` to the frames that are free and to the calls of `kalloc`
that have failed, modulo the size of a `uint`, in the middle of each operation too.  `ListInv` says that the free frames are chained from
`kmem.freelist`: a ranking of the frames in place of an induction over the list.

**Log.**  `LogSafe` needs to know how far an operation has got (`OpShape`), that only
the committing process writes the log (`UpShape`, `OneCommit`) and how much of the
log is written (`TailShape`): together `ReserveInv`.  For the refinement, `DataShape`
relates cache, log and disk: a cached block that differs from the disk is pinned or
locked, the pinned blocks are those the log has yet to install, and their copies in
the log are what is cached.  Then `write_head` is `Commit`, a crash leaves what
recovery restores, and installing changes nothing recovery would not.  All of this holds
as long as the transactions fit into the log on disk (`Fits`), which the reservation
guarantees if `NLog > LOGSIZE`; with the log of `mkfs` a step that copies the entry
without a block, and those after it, are excepted.

**Processes.**  `ProcInv` determines the state, channel and label of a process from
the place it called `sched` at (`Slots`); a process that is not running keeps its
processor only while that processor holds `ptable.lock` (`OnCpu`); `tickslock` is held
from the test of the condition to the call of `sleep` (`Tick`); an embryo belongs to
one `fork` (`Forks`), so that `exit` may pass over it; parents are alive (`Family`)
and a pid is given away once (`Pids`).

**Disk.**  Who has a sleep lock is at a label under it (`Works`, `Locks`), so a queued
buffer belongs to one process, which waits; the controller works on the head of the
queue with its data (`QueueExact`, `Command`); a buffer that is valid and not dirty
agrees with the disk (`Clean`), so recycling it loses nothing.  `DirtyBound` counts
the buffers outside the queue that are dirty: with `Cardinality(Bufs) >=
Cardinality(Procs) + MaxDirty` (`NBUF` against the processes and the blocks of a
transaction) there is always one for `bget` to recycle (`EnoughBuffers`); with fewer, as
in `param.h`, a panic happens only when processes and log have them all (`PanicFull`).

**Console.**  A reader that has found nothing keeps `cons.lock` until it sleeps
(`Locked`), and only `consoleintr`, which needs the lock and wakes the sleepers,
completes a line.  `Ring` puts the three indices in order on the circle, at most
`INPUT_BUF` apart; with `UintMod` a multiple of `INPUT_BUF` and larger, a character is
stored in a cell no kept character uses (`CellsDiffer`, `CellOfSum`).  The cursor
needs a bound on one character (`OneCharacter`), carried along the backspaces of a
killed line by a least counterexample (`CursorStays`).

**File system.**  `FsInv` says which variables of a call hold a slot at which step
(`RegsOk`), which locks a process has there (`LockOk`: an inode is locked by whoever
is at a step under its lock, by nobody else), that a count is the number of pointers
(`RefExact`), and that the cache agrees with the disk (`Good`: one slot an inode, a
valid copy is the inode, what is locked is valid).  A step of `p` moves at most one
reference from or to a pointer of `p` and changes at most two slots (`Effect`,
`Effect2`, `Moved`); `Glue` puts counting (`Counts`, `RefStep`), locks (`LockStep`) and
cache together, once for all actions.  `Good` is needed for the counts too: `iput`
may give a slot away only because nobody else points to it.  `BlocksInv` says which
entries of an inode name blocks (`Shape`: those below its size, the indirect block
once the direct ones are full), that the marked blocks are the owned ones and that no
two inodes share one.  The steps are of three kinds: an inode keeps its blocks
(`BlocksKept`), gives all of them back (`BlocksFreed`) or gets one or two that were not
marked (`GrowDirect`, `GrowIndirect`).  The image of `mkfs` satisfies both from the first
inode on (`ImageIsOk`): its two recursions are functions (`AppendedIs`, `ImageIs`), and
as long as the blocks last a step of each keeps `ImageOk`.

**Names and links** (`FsLinkProofs`).  `InodesLive` compares each name with the link
count of the inode it leads to; that is not inductive, because `sys_link`, `create` and
`sys_unlink` let go of inodes between the counting and the entering of a name.
`LinkInv` counts everything that has a claim on an inode (`Claimed`): the names in
directories, the subdirectories (their `..`), the links that a call under way has
counted and not entered or erased and not dropped (`Pend`), and the root itself; the
sum is at most `nlink`.  It also says that a directory and what it names never name
each other (`Forest`), that a directory's `.` is itself and that a directory is filled
once `create` has let go of it (`DirsOk`), that an inode `ialloc` has marked is known to
the creating process only until `create` fills it in (`MakingOk`), and that the inode
each variable of a call stands for is in use, of the type the call has tested, and, where
`iput` is about to free it, known to nobody else (`RegLive`).  The steps that change names are a few
kinds (a count goes up and is pending, a pending link is entered, a name is erased and
pending, a pending link is dropped, a directory is filled), and each keeps `LinksOk` by
counting sets.  `InodesLive` follows because a positive claim makes `nlink` positive,
`NoPanic` from `RegLive`, and `CyclesOnlyInIput` from `Forest`: two processes that
wait for each other outside `iput` would each hold a directory that names the other's.
The image of `mkfs` satisfies `LinkInv`, by the same steps as for the blocks
(`ImageNames`).

What `LinkInv` cannot give is the `..` of a directory that has been removed: it is no
link.  Make `a` and `a/b`, change to `a/b`, remove both; a lookup of `..` then reads
an inode number that may be free or in use for something else, and `ilock` panics
(section 3).  So `NoPanic` is false for calls that nest directories and look up `..`,
and the theorems say for which calls the properties hold: `UpSafe` is that every
`mkdir` is of one name in the root (`TopDirs`; every `..` is then the root, `TopRegs` and
`UpToRoot`), as in the run `fs`, or that no path has a `..` in it (`NoUps`; `PathsOk` and
`NothingUp`).  In general they hold along every behaviour in which each `..` that is
looked up leads to a directory with a link (`UpLive`).  TLC checked `UpLive` on the
instance of the run `fs`, and `LinkInv` with the three properties on an
instance with nested directories, constrained to `UpLive`.
`NamesInv` is `FsInv /\ BlocksInv /\ LinkInv /\ TopRegs /\ PathsOk`.

Definitions are written so that both tools can use them: scans of a table or list
choose a least or greatest position (`First`, `Last`) and the cursor after several
characters is a recursive function.  Where a proof needs an induction it takes a least
counterexample (`LeastNat`).

Only model-checked:

* every liveness property (`CallsReturn`, `KernelReturns`, `SleepersWake`,
  `KilledDies`, `OrphansReaped`, `PromptReturns`): fairness and `ENABLED` are out of
  the prover's reach;
* `Shell`: its parser is recursive, and the prover has no SMT backend in a module that
  reaches a `RECURSIVE` operator.

## 5. State and plan

Modelled: allocator, copy-on-write memory, log, processes, buffer cache and disk,
console, shell with files and pipes, inodes and directories.  Proved: the safety
properties of all of them but the shell, and that allocator, copy-on-write memory, log,
disk and console implement their abstractions; the process table and the file system
have none.  What could come next: an abstract specification of the file system (a tree
of names in which each call is a step) and the pipes of `Shell` in a module that does
not reach the parser, so that their streams can be proved about.

## 6. Not modelled

Boot and device set-up, system-call dispatch and argument fetching: straight-line
code and pointer checks.  User library and the other user programs: sequential
clients that share nothing.  Of `vm.c` the segments and the kernel's own use of its mappings, of
`exec.c` the ELF reader and the argument strings, of `sh.c` the characters of a line
and `cd`, of `console.c` formatted output: string and layout handling.  `countvp`,
`countpp` and `countptp` only read.
