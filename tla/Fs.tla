--------------------------------- MODULE Fs ---------------------------------
(***************************************************************************)
(* Inodes, blocks, directories and path names: fs.c, the system calls of   *)
(* sysfile.c that use them, and the inode branches of file.c.              *)
(*                                                                         *)
(* pc is the next step of a process; iput() returns to the step ret.  A    *)
(* step takes at most one sleep lock (the first thing it does), reads or   *)
(* writes icache.ref or the allocation tables at most once, and then lets  *)
(* locks go, so that the rest of its work is covered by the lock.  Blocks  *)
(* and the disk's inodes are what the transactions of log.c make of them:  *)
(* no crash here.  A panic is a step that is not enabled.                  *)
(***************************************************************************)
EXTENDS Integers, Sequences, FiniteSets

CONSTANTS Procs,     \* processes
          NINODES,   \* inodes on the disk; 1 is the root directory
          NBLOCKS,   \* data blocks
          NINODE,    \* slots of the inode cache
          NDIRECT, NINDIRECT,
          Names,     \* names of directory entries, without "." and ".."
          Files,     \* what mkfs puts into the root: names and lengths in blocks
          Calls,     \* the calls that are made, see CallType
          MaxCalls   \* how many calls are made in a behaviour

VARIABLES
  dinode,   \* the inodes on the disk
  bitmap,   \* the blocks marked in use
  data,     \* what a block holds: directory entries, block numbers
  icache,   \* struct inode: inum, ref, valid, lock (0 or its holder) and the copy d
  cwd,      \* slot of a process's current directory
  ofile,    \* slot of the file a process has open, or None (one file per process)
  call,     \* the call a process makes
  path,     \* what namex has still to look up
  pc,       \* the next step of a process
  ret,      \* where iput returns to
  put,      \* the slot that iput gives back
  at,       \* the slot that namex has come to, and the call works on then
  ip, dp,   \* the variables of that name in the system calls: slots that are held
  inum,     \* the number of the inode that ialloc has marked
  made      \* the number of calls made so far
vars == <<dinode, bitmap, data, icache, cwd, ofile, call, path, pc, ret, put, at, ip, dp, inum, made>>
disk == <<dinode, bitmap, data>>
pcs  == <<pc, ret, put>>
ptrs == <<at, ip, dp, inum>>

Inums  == 1 .. NINODES
Blocks == 1 .. NBLOCKS
Slots  == 0 .. NINODE - 1
None   == -1
Elems  == Names \union {".", ".."}
MAXFILE == NDIRECT + NINDIRECT
\* path is looked up from the root, or from the current directory; new is the
\* second path of link().
CallType == [op : {"open", "create", "mkdir", "mknod", "link", "unlink", "chdir"},
             abs : BOOLEAN, path : Seq(Elems), new : Seq(Elems)]

Free(t) == [type |-> t, nlink |-> 0, size |-> 0, addrs |-> [k \in 0 .. NDIRECT |-> 0]]
Zero    == [ents |-> [e \in Elems |-> 0], a |-> [k \in 0 .. NINDIRECT - 1 |-> 0]]
Dots(i, parent) == [Zero EXCEPT !.ents = [Zero.ents EXCEPT !["."] = i, ![".."] = parent]]

Least(S) == CHOOSE x \in S : \A y \in S : x <= y
NoCall  == [op |-> "none", abs |-> TRUE, path |-> <<>>, new |-> <<>>]

-----------------------------------------------------------------------------
(***************************************************************************)
(* mkfs.c: the image, with the next inode and the next block to hand out.  *)
(***************************************************************************)
Blank == [dinode |-> [i \in Inums |-> Free("free")], data |-> [b \in Blocks |-> Zero],
          freeinode |-> 1, freeblock |-> 1]

MkIalloc(im, t) ==
  [im EXCEPT !.dinode[im.freeinode] = [Free(t) EXCEPT !.nlink = 1], !.freeinode = @ + 1]

\* One block more for inode i, in the indirect block once the direct ones are full.
iappend(im, i) ==
  LET d   == im.dinode[i]
      f   == im.freeblock
      new == d.addrs[NDIRECT] = 0
      ind == IF new THEN f ELSE d.addrs[NDIRECT]
      x   == IF new THEN f + 1 ELSE f
  IN  IF d.size < NDIRECT
      THEN [im EXCEPT !.dinode[i].addrs[d.size] = f, !.dinode[i].size = @ + 1, !.freeblock = f + 1]
      ELSE [im EXCEPT !.dinode[i].addrs[NDIRECT] = ind, !.dinode[i].size = @ + 1,
                      !.data[ind].a[d.size - NDIRECT] = x, !.freeblock = x + 1]

\* The root with its first two entries; then one file.
MkRoot == [iappend(MkIalloc(Blank, "dir"), 1) EXCEPT !.data[1] = Dots(1, 1)]
Appended(im, i, n) ==
  LET f[k \in 0 .. n] == IF k = 0 THEN im ELSE iappend(f[k - 1], i) IN f[n]
MkFile(im, f) ==
  LET i == im.freeinode
  IN  Appended([MkIalloc(im, "file") EXCEPT !.data[1].ents[f.name] = i], i, f.blocks)
Image ==
  LET f[k \in 0 .. Len(Files)] == IF k = 0 THEN MkRoot ELSE MkFile(f[k - 1], Files[k])
  IN  f[Len(Files)]

\* The files have different names, and there is room for them.
ASSUME FsAssumption ==
  /\ {NINODES, NBLOCKS, NINODE, NDIRECT, NINDIRECT, MaxCalls} \subseteq Nat \ {0}
  /\ IsFiniteSet(Procs) /\ 0 \notin Procs /\ IsFiniteSet(Names) /\ Names \intersect {".", ".."} = {}
  /\ Calls \subseteq CallType
  /\ Files \in Seq([name : Names, blocks : 0 .. MAXFILE])
  /\ \A j, k \in 1 .. Len(Files) : Files[j].name = Files[k].name => j = k
  /\ Len(Files) < NINODES /\ Image.freeblock <= NBLOCKS + 1

\* Every block handed out is marked.
MkBalloc(used) == {b \in Blocks : b < used}

\* The boot: the root is every process's directory.
Init ==
  /\ dinode = Image.dinode /\ data = Image.data /\ bitmap = MkBalloc(Image.freeblock)
  /\ icache = [s \in Slots |-> [inum |-> 1, ref |-> IF s = 0 THEN Cardinality(Procs) ELSE 0,
                                valid |-> FALSE, lock |-> 0, d |-> Free("free")]]
  /\ cwd = [p \in Procs |-> 0]
  /\ ofile = [p \in Procs |-> None]
  /\ call = [p \in Procs |-> NoCall]
  /\ path = [p \in Procs |-> <<>>]
  /\ pc = [p \in Procs |-> "user"]
  /\ ret = [p \in Procs |-> "user"]
  /\ put = [p \in Procs |-> None]
  /\ at = [p \in Procs |-> None]
  /\ ip = [p \in Procs |-> None]
  /\ dp = [p \in Procs |-> None]
  /\ inum = [p \in Procs |-> 0]
  /\ made = 0
-----------------------------------------------------------------------------
(***************************************************************************)
(* The inode cache.  Cache operators take and give a whole cache.          *)
(***************************************************************************)
InStep(p, l) == pc[p] = l
Goto(p, l)  == pc' = [pc EXCEPT ![p] = l] /\ UNCHANGED <<ret, put>>
\* iput(s) is called, and then step l is done.
Put(p, s, l) ==
  /\ pc' = [pc EXCEPT ![p] = "iput"]
  /\ put' = [put EXCEPT ![p] = s]
  /\ ret' = [ret EXCEPT ![p] = l]
\* The same for the slot the call is at.
PutAt(p, l) == Put(p, at[p], l) /\ at' = [at EXCEPT ![p] = None]

\* iget: the slot of inode i, taken from the unused ones if need be.
Cached(ic, i) == {s \in Slots : ic[s].ref > 0 /\ ic[s].inum = i}
Unused(ic)    == {s \in Slots : ic[s].ref = 0}
SlotOf(ic, i) == IF Cached(ic, i) # {} THEN Least(Cached(ic, i)) ELSE Least(Unused(ic))
\* Else iget panics.
HasSlot(ic, i) == Cached(ic, i) # {} \/ Unused(ic) # {}

\* Faulty variant: a recycled slot keeps what it held.
IgetStale(ic, i) ==
  [ic EXCEPT ![SlotOf(ic, i)].ref = @ + 1, ![SlotOf(ic, i)].inum = i]
iget(ic, i) ==
  IF Cached(ic, i) # {} THEN [ic EXCEPT ![SlotOf(ic, i)].ref = @ + 1]
  ELSE [ic EXCEPT ![SlotOf(ic, i)] = [@ EXCEPT !.ref = 1, !.inum = i, !.valid = FALSE]]

idup(ic, s) == [ic EXCEPT ![s].ref = @ + 1]

\* ilock reads the inode from the disk when the copy is not valid.
Loaded(s)   == IF icache[s].valid THEN icache[s]
               ELSE [icache[s] EXCEPT !.valid = TRUE, !.d = dinode[icache[s].inum]]
CanLock(s)  == icache[s].lock = 0
\* A step that begins with ilock; a free inode makes it panic.
ilock(p, l, s) == InStep(p, l) /\ CanLock(s) /\ Loaded(s).d.type # "free"

\* iupdate writes the copy d through to the disk.
iupdate(di, s, d) == [di EXCEPT ![icache[s].inum] = d]
With(ic, s, d, holder) == [ic EXCEPT ![s] = [Loaded(s) EXCEPT !.d = d, !.lock = holder]]
Seen(ic, s, holder) == With(ic, s, Loaded(s).d, holder)
-----------------------------------------------------------------------------
(***************************************************************************)
(* Blocks.  A space is the record of bitmap and data.                      *)
(***************************************************************************)
Space   == [used |-> bitmap, data |-> data]
balloc(sp) == Least(Blocks \ sp.used)
\* The block is marked, and zeroed.
Taken(sp)  == [used |-> sp.used \union {balloc(sp)}, data |-> [sp.data EXCEPT ![balloc(sp)] = Zero]]

\* bmap for the block after the last one: the inode and the space then.
bmap(d, sp) ==
  LET bn == d.size
      j  == bn - NDIRECT
      s1 == IF d.addrs[NDIRECT] = 0 THEN Taken(sp) ELSE sp
      b1 == IF d.addrs[NDIRECT] = 0 THEN balloc(sp) ELSE d.addrs[NDIRECT]
      s2 == Taken(s1)
  IN  IF bn < NDIRECT
      THEN [d |-> [d EXCEPT !.addrs[bn] = balloc(sp)], sp |-> Taken(sp)]
      ELSE [d |-> [d EXCEPT !.addrs[NDIRECT] = b1],
            sp |-> [s2 EXCEPT !.data[b1].a[j] = balloc(s1)]]

\* Else balloc panics.
Room(d, sp) ==
  /\ Blocks \ sp.used # {}
  /\ d.size >= NDIRECT /\ d.addrs[NDIRECT] = 0 => Blocks \ Taken(sp).used # {}

\* One block is written behind the end.
writei(d, sp) == LET w == bmap(d, sp) IN [w EXCEPT !.d.size = @ + 1]

\* The blocks read from the whole file: bmap finds them all, else it would
\* allocate one outside a transaction, a panic of log_write.
readi(d) == {IF bn < NDIRECT THEN d.addrs[bn] ELSE data[d.addrs[NDIRECT]].a[bn - NDIRECT] :
               bn \in 0 .. d.size - 1}

\* The blocks that itrunc frees.
Direct(d)   == {d.addrs[k] : k \in 0 .. NDIRECT - 1} \ {0}
Indirect(d) == IF d.addrs[NDIRECT] = 0 THEN {}
               ELSE {data[d.addrs[NDIRECT]].a[k] : k \in 0 .. NINDIRECT - 1} \ {0}
\* Faulty variant: what the indirect block names is forgotten.
ItruncShallow(d) == Direct(d) \union ({d.addrs[NDIRECT]} \ {0})
itrunc(d)   == Direct(d) \union Indirect(d) \union ({d.addrs[NDIRECT]} \ {0})

bfree(used, bs) == used \ bs

\* dirlookup, isdirempty and the directory write of dirlink and unlink.
dirlookup(d, e) == IF d.size = 0 THEN 0 ELSE data[d.addrs[0]].ents[e]
isdirempty(d)   == \A e \in Names : dirlookup(d, e) = 0
SetEntry(dt, d, e, i) == [dt EXCEPT ![d.addrs[0]].ents[e] = i]
-----------------------------------------------------------------------------
(***************************************************************************)
(* iput: unlocked, it looks whether this is the last use of an inode       *)
(* without links, frees it then, and gives its reference back.             *)
(***************************************************************************)
\* Faulty variant: the other references are not looked at.
LastUseOfAny(s) == icache[s].valid /\ icache[s].d.nlink = 0
LastUse(s) == icache[s].valid /\ icache[s].d.nlink = 0 /\ icache[s].ref = 1

iput(p) ==
  /\ InStep(p, "iput") /\ CanLock(put[p])
  /\ IF LastUse(put[p])
     THEN icache' = [icache EXCEPT ![put[p]].lock = p] /\ Goto(p, "free")
     ELSE Goto(p, "drop") /\ UNCHANGED icache
  /\ UNCHANGED <<disk, cwd, ofile, call, path, ptrs>>

\* Nobody reads a free block before balloc has zeroed it: it is zeroed here.
IputFree(p) ==
  /\ InStep(p, "free")
  /\ LET s == put[p]
     IN  /\ bitmap' = bfree(bitmap, itrunc(icache[s].d))
         /\ data' = [b \in Blocks |-> IF b \in itrunc(icache[s].d) THEN Zero ELSE data[b]]
         /\ dinode' = iupdate(dinode, s, Free("free"))
         /\ icache' = [icache EXCEPT ![s] = [@ EXCEPT !.valid = FALSE, !.lock = 0, !.d = Free("free")]]
  /\ Goto(p, "drop")
  /\ UNCHANGED <<cwd, ofile, call, path, ptrs>>

IputDrop(p) ==
  /\ InStep(p, "drop")
  /\ icache' = [icache EXCEPT ![put[p]].ref = @ - 1]
  /\ put' = [put EXCEPT ![p] = None]
  /\ pc' = [pc EXCEPT ![p] = ret[p]]
  /\ ret' = [ret EXCEPT ![p] = "user"]
  /\ UNCHANGED <<disk, cwd, ofile, call, path, ptrs>>
-----------------------------------------------------------------------------
(***************************************************************************)
(* namex, and the step that its result is handed to.                       *)
(***************************************************************************)
First(op) == CASE op = "open" -> "open1" [] op = "link" -> "link1" [] op = "unlink" -> "unlink1"
               [] op = "chdir" -> "chdir1" [] OTHER -> "create1"
\* While link looks its second path up it holds ip.
Result(p)      == IF ip[p] # None THEN "link2" ELSE First(call[p].op)
nameiparent(p) == Result(p) \in {"link2", "unlink1", "create1"}
skipelem(p)    == Head(path[p])
\* namex stops one level early and returns the parent.
AtParent(p)    == nameiparent(p) /\ Len(path[p]) = 1
\* namex finds nothing: link undoes its link then, with ip.
NotFound(p)    ==
  /\ Put(p, at[p], IF ip[p] # None THEN "linkbad" ELSE "end_op")
  /\ at' = [at EXCEPT ![p] = ip[p]]
  /\ ip' = [ip EXCEPT ![p] = None]

\* One round of the loop of namex.
namex(p) ==
  /\ path[p] # <<>> /\ ilock(p, "namex", at[p])
  /\ LET s  == at[p]
         d  == Loaded(s).d
         ic == Seen(icache, s, 0)
         i  == IF d.type = "dir" THEN dirlookup(d, skipelem(p)) ELSE 0
     IN  \/ /\ d.type = "dir" /\ AtParent(p)
            /\ icache' = ic
            /\ Goto(p, Result(p))
            /\ UNCHANGED <<path, at, ip>>
         \/ /\ ~(d.type = "dir" /\ AtParent(p)) /\ i = 0
            /\ icache' = ic
            /\ NotFound(p)
            /\ UNCHANGED path
         \/ /\ ~AtParent(p) /\ i # 0 /\ HasSlot(ic, i)
            /\ icache' = iget(ic, i)
            /\ path' = [path EXCEPT ![p] = Tail(@)]
            /\ at' = [at EXCEPT ![p] = SlotOf(ic, i)]
            /\ Put(p, s, IF Len(path[p]) = 1 THEN Result(p) ELSE "namex")
            /\ UNCHANGED ip
  /\ UNCHANGED <<disk, cwd, ofile, call, dp, inum>>

\* A path without elements is where namex starts, and has no parent.
NamexNone(p) ==
  /\ InStep(p, "namex") /\ path[p] = <<>>
  /\ IF nameiparent(p) THEN NotFound(p) ELSE Goto(p, Result(p)) /\ UNCHANGED <<at, ip>>
  /\ UNCHANGED <<disk, icache, cwd, ofile, call, path, dp, inum>>
-----------------------------------------------------------------------------
(***************************************************************************)
(* The system calls.  begin_op and end_op are the first and the last step. *)
(***************************************************************************)
\* namex starts at the root, or at the current directory.
StartUncounted(p, abs) == IF abs THEN iget(icache, 1) ELSE icache
Start(p, abs)     == IF abs THEN iget(icache, 1) ELSE idup(icache, cwd[p])
StartSlot(p, abs) == IF abs THEN SlotOf(icache, 1) ELSE cwd[p]
CanStart(abs)     == abs => HasSlot(icache, 1)
Syscall(p, c) ==
  /\ CanStart(c.abs)
  /\ icache' = Start(p, c.abs)
  /\ call' = [call EXCEPT ![p] = c]
  /\ path' = [path EXCEPT ![p] = c.path]
  /\ at' = [at EXCEPT ![p] = StartSlot(p, c.abs)]
  /\ Goto(p, "namex")
  /\ UNCHANGED <<disk, cwd, ofile, ip, dp, inum>>

end_op(p) ==
  /\ InStep(p, "end_op")
  /\ call' = [call EXCEPT ![p] = NoCall]
  /\ path' = [path EXCEPT ![p] = <<>>]
  /\ Goto(p, "user")
  /\ UNCHANGED <<disk, icache, cwd, ofile, ptrs>>

\* The end of sys_open, with its inode locked by the step: a file and a
\* descriptor are found, or the inode is let go.
Opened(p) ==
  \/ /\ ofile[p] = None
     /\ ofile' = [ofile EXCEPT ![p] = at[p]]
     /\ at' = [at EXCEPT ![p] = None]
     /\ Goto(p, "end_op")
  \/ ofile[p] # None /\ PutAt(p, "end_op") /\ UNCHANGED ofile

\* sys_open without O_CREATE; a directory may only be opened for reading.
open1(p) ==
  /\ ilock(p, "open1", at[p])
  /\ icache' = Seen(icache, at[p], 0)
  /\ \/ Opened(p)
     \/ Loaded(at[p]).d.type = "dir" /\ PutAt(p, "end_op") /\ UNCHANGED ofile
  /\ UNCHANGED <<disk, cwd, call, path, ip, dp, inum>>

\* Faulty variant: the new directory stays locked.
Chdir1Locked(p) ==
  /\ ilock(p, "chdir1", at[p])
  /\ Loaded(at[p]).d.type = "dir"
  /\ icache' = Seen(icache, at[p], p)
  /\ cwd' = [cwd EXCEPT ![p] = at[p]]
  /\ at' = [at EXCEPT ![p] = None]
  /\ Put(p, cwd[p], "end_op")
  /\ UNCHANGED <<disk, ofile, call, path, ip, dp, inum>>

\* sys_chdir; the reference of the old directory passes to iput.
chdir1(p) ==
  /\ ilock(p, "chdir1", at[p])
  /\ icache' = Seen(icache, at[p], 0)
  /\ \/ Loaded(at[p]).d.type # "dir" /\ PutAt(p, "end_op") /\ UNCHANGED cwd
     \/ /\ Loaded(at[p]).d.type = "dir"
        /\ cwd' = [cwd EXCEPT ![p] = at[p]]
        /\ at' = [at EXCEPT ![p] = None]
        /\ Put(p, cwd[p], "end_op")
  /\ UNCHANGED <<disk, ofile, call, path, ip, dp, inum>>

\* filewrite, one block a transaction, as long as bytes are left.  What goes to a
\* device, into the blocks the file has, or fails, changes nothing here.
filewrite(p) ==
  /\ ilock(p, "write", ofile[p])
  /\ LET s == ofile[p]
         d == Loaded(s).d
         w == writei(d, Space)
     IN  \/ /\ icache' = Seen(icache, s, 0)
            /\ Goto(p, "end_op")
            /\ UNCHANGED disk
         \/ /\ d.type = "file" /\ d.size < MAXFILE /\ Room(d, Space)
            /\ icache' = With(icache, s, w.d, 0)
            /\ dinode' = iupdate(dinode, s, w.d)
            /\ bitmap' = w.sp.used /\ data' = w.sp.data
            /\ Goto(p, "write") \/ Goto(p, "end_op")
  /\ UNCHANGED <<cwd, ofile, call, path, ptrs>>

\* read and fstat: the inode is locked, and read from the disk if need be.
Look(p) ==
  /\ icache' = Seen(icache, ofile[p], 0)
  /\ Goto(p, "user")
  /\ UNCHANGED <<disk, cwd, ofile, call, path, ptrs>>
fileread(p) == ilock(p, "read", ofile[p]) /\ 0 \notin readi(Loaded(ofile[p]).d) /\ Look(p)
filestat(p) == ilock(p, "stat", ofile[p]) /\ Look(p)

\* read, fstat, write and close on the open file, and close on exit.
UseFile(p) ==
  /\ ofile[p] # None
  /\ \/ (\E l \in {"write", "read", "stat"} : Goto(p, l)) /\ UNCHANGED ofile
     \/ Put(p, ofile[p], "end_op") /\ ofile' = [ofile EXCEPT ![p] = None]
  /\ UNCHANGED <<disk, icache, cwd, call, path, ptrs>>
-----------------------------------------------------------------------------
(***************************************************************************)
(* link and unlink.                                                        *)
(***************************************************************************)
Relinked(s, n) ==
  LET d == [Loaded(s).d EXCEPT !.nlink = @ + n]
  IN  icache' = With(icache, s, d, 0) /\ dinode' = iupdate(dinode, s, d)

\* Faulty variant: the link is not counted.
Link1Uncounted(p) ==
  /\ ilock(p, "link1", at[p])
  /\ Loaded(at[p]).d.type # "dir"
  /\ Relinked(at[p], 0)
  /\ ip' = [ip EXCEPT ![p] = at[p]]
  /\ at' = [at EXCEPT ![p] = None]
  /\ path' = [path EXCEPT ![p] = call[p].new]
  /\ Goto(p, "begin2")
  /\ UNCHANGED <<bitmap, data, cwd, ofile, call, dp, inum>>

link1(p) ==
  /\ ilock(p, "link1", at[p])
  /\ \/ /\ Loaded(at[p]).d.type = "dir"
        /\ icache' = Seen(icache, at[p], 0)
        /\ PutAt(p, "end_op")
        /\ UNCHANGED <<dinode, path, ip>>
     \/ /\ Loaded(at[p]).d.type # "dir"
        /\ Relinked(at[p], 1)
        /\ ip' = [ip EXCEPT ![p] = at[p]]
        /\ at' = [at EXCEPT ![p] = None]
        /\ path' = [path EXCEPT ![p] = call[p].new]
        /\ Goto(p, "begin2")
  /\ UNCHANGED <<bitmap, data, cwd, ofile, call, dp, inum>>

\* The second namex of link starts.
begin2(p) ==
  /\ InStep(p, "begin2") /\ CanStart(call[p].abs)
  /\ icache' = Start(p, call[p].abs)
  /\ at' = [at EXCEPT ![p] = StartSlot(p, call[p].abs)]
  /\ Goto(p, "namex")
  /\ UNCHANGED <<disk, cwd, ofile, call, path, ip, dp, inum>>

\* dirlink: a name that exists is looked up, and let go with dp still locked.
\* Nothing is entered into a directory that mkdir has yet to fill (Filled).
Filled(d) == d.size > 0
link2(p) ==
  /\ ilock(p, "link2", at[p])
  /\ LET s == at[p]
         d == Loaded(s).d
         i == dirlookup(d, skipelem(p))
     IN  \/ /\ i # 0 /\ HasSlot(icache, i)
            /\ icache' = iget(Seen(icache, s, p), i)
            /\ dp' = [dp EXCEPT ![p] = s]
            /\ Put(p, SlotOf(icache, i), "unlockdp")
            /\ UNCHANGED data
         \/ /\ i = 0 /\ Filled(d)
            /\ icache' = Seen(icache, s, 0)
            /\ data' = SetEntry(data, d, skipelem(p), icache[ip[p]].inum)
            /\ Put(p, s, "link3")
            /\ UNCHANGED dp
  /\ at' = [at EXCEPT ![p] = ip[p]]
  /\ ip' = [ip EXCEPT ![p] = None]
  /\ UNCHANGED <<dinode, bitmap, cwd, ofile, call, path, inum>>

\* iput(ip) at the end of link.
link3(p) ==
  /\ InStep(p, "link3")
  /\ PutAt(p, "end_op")
  /\ UNCHANGED <<disk, icache, cwd, ofile, call, path, ip, dp, inum>>

\* iunlockput(dp) on a path that fails; link has its link to undo then.
UnlockDp(p) ==
  /\ InStep(p, "unlockdp")
  /\ icache' = [icache EXCEPT ![dp[p]].lock = 0]
  /\ dp' = [dp EXCEPT ![p] = None]
  /\ Put(p, dp[p], IF at[p] # None THEN "linkbad" ELSE "end_op")
  /\ UNCHANGED <<disk, cwd, ofile, call, path, at, ip, inum>>

linkbad(p) ==
  /\ ilock(p, "linkbad", at[p])
  /\ Relinked(at[p], -1)
  /\ PutAt(p, "end_op")
  /\ UNCHANGED <<bitmap, data, cwd, ofile, call, path, ip, dp, inum>>

unlink1(p) ==
  /\ ilock(p, "unlink1", at[p])
  /\ LET s == at[p]
         e == skipelem(p)
         i == dirlookup(Loaded(s).d, e)
     IN  \/ /\ e \in {".", ".."} \/ i = 0
            /\ icache' = Seen(icache, s, 0)
            /\ PutAt(p, "end_op")
            /\ UNCHANGED dp
         \/ /\ e \notin {".", ".."} /\ i # 0 /\ HasSlot(icache, i)
            /\ icache' = iget(Seen(icache, s, p), i)
            /\ dp' = [dp EXCEPT ![p] = s]
            /\ at' = [at EXCEPT ![p] = SlotOf(icache, i)]
            /\ Goto(p, "unlink2")
  /\ UNCHANGED <<disk, cwd, ofile, call, path, ip, inum>>

\* The entry is cleared, dp is let go and ip stays locked.
unlink2(p) ==
  /\ ilock(p, "unlink2", at[p])
  /\ LET s  == at[p]
         d  == Loaded(s).d
         up == icache[dp[p]].d
         u  == [up EXCEPT !.nlink = IF d.type = "dir" THEN @ - 1 ELSE @]
     IN  /\ d.nlink > 0
         /\ \/ /\ d.type = "dir" /\ ~isdirempty(d)
               /\ icache' = Seen(icache, s, 0)
               /\ PutAt(p, "unlockdp")
               /\ UNCHANGED <<disk, dp>>
            \/ /\ ~(d.type = "dir" /\ ~isdirempty(d))
               /\ data' = SetEntry(data, up, skipelem(p), 0)
               /\ dinode' = iupdate(dinode, dp[p], u)
               /\ icache' = [Seen(icache, s, p) EXCEPT ![dp[p]].d = u, ![dp[p]].lock = 0]
               /\ dp' = [dp EXCEPT ![p] = None]
               /\ Put(p, dp[p], "unlink3")
               /\ UNCHANGED <<bitmap, at>>
  /\ UNCHANGED <<cwd, ofile, call, path, ip, inum>>

unlink3(p) ==
  /\ InStep(p, "unlink3")
  /\ Relinked(at[p], -1)
  /\ PutAt(p, "end_op")
  /\ UNCHANGED <<bitmap, data, cwd, ofile, call, path, ip, dp, inum>>
-----------------------------------------------------------------------------
(***************************************************************************)
(* create, for open with O_CREATE, mkdir and mknod.                        *)
(***************************************************************************)
NewType(p) == CASE call[p].op = "mkdir" -> "dir" [] call[p].op = "mknod" -> "dev" [] OTHER -> "file"

\* The name is looked up; ialloc marks a free inode if there is none.  A disk
\* without a free inode is a panic.
FreeInodes == {k \in Inums : dinode[k].type = "free"}
create1(p) ==
  /\ ilock(p, "create1", at[p])
  /\ LET s == at[p]
         d == Loaded(s).d
         i == dirlookup(d, skipelem(p))
         n == Least(FreeInodes)
     IN  \/ /\ i # 0 /\ HasSlot(icache, i)
            /\ icache' = iget(Seen(icache, s, 0), i)
            /\ at' = [at EXCEPT ![p] = SlotOf(icache, i)]
            /\ Put(p, s, "create2")
            /\ UNCHANGED <<dinode, dp, inum>>
         \/ /\ i = 0 /\ Filled(d) /\ FreeInodes # {}
            /\ icache' = Seen(icache, s, p)
            /\ dinode' = [dinode EXCEPT ![n] = Free(NewType(p))]
            /\ dp' = [dp EXCEPT ![p] = s]
            /\ at' = [at EXCEPT ![p] = None]
            /\ inum' = [inum EXCEPT ![p] = n]
            /\ Goto(p, "ialloc")
  /\ UNCHANGED <<bitmap, data, cwd, ofile, call, path, ip>>

\* The name exists: good for open, if both are files.
create2(p) ==
  /\ ilock(p, "create2", at[p])
  /\ icache' = Seen(icache, at[p], 0)
  /\ LET good == NewType(p) = "file" /\ Loaded(at[p]).d.type = "file"
     IN  \/ good /\ Opened(p)
         \/ ~good /\ PutAt(p, "end_op") /\ UNCHANGED ofile
  /\ UNCHANGED <<disk, cwd, call, path, ip, dp, inum>>

\* The iget at the end of ialloc.
ialloc(p) ==
  /\ InStep(p, "ialloc") /\ HasSlot(icache, inum[p])
  /\ icache' = iget(icache, inum[p])
  /\ at' = [at EXCEPT ![p] = SlotOf(icache, inum[p])]
  /\ inum' = [inum EXCEPT ![p] = 0]
  /\ Goto(p, "create3")
  /\ UNCHANGED <<disk, cwd, ofile, call, path, ip, dp>>

\* The new inode is filled in and entered, dp is let go, ip stays locked.
create3(p) ==
  /\ ilock(p, "create3", at[p])
  /\ LET s   == at[p]
         n   == icache[s].inum
         up  == icache[dp[p]].d
         dir == NewType(p) = "dir"
         new == [Loaded(s).d EXCEPT !.nlink = 1]
         w   == writei(new, Space)
         d   == IF dir THEN w.d ELSE new
         u   == [up EXCEPT !.nlink = IF dir THEN @ + 1 ELSE @]
         dt  == IF dir THEN [w.sp.data EXCEPT ![d.addrs[0]] = Dots(n, icache[dp[p]].inum)] ELSE data
     IN  /\ dir => new.size = 0 /\ Room(new, Space)
         /\ data' = SetEntry(dt, up, skipelem(p), n)
         /\ bitmap' = IF dir THEN w.sp.used ELSE bitmap
         /\ dinode' = iupdate(iupdate(dinode, s, d), dp[p], u)
         /\ icache' = [With(icache, s, d, p) EXCEPT ![dp[p]].d = u, ![dp[p]].lock = 0]
         /\ dp' = [dp EXCEPT ![p] = None]
         /\ Put(p, dp[p], "create4")
  /\ UNCHANGED <<cwd, ofile, call, path, at, ip, inum>>

\* Back in sys_open, sys_mkdir or sys_mknod.
create4(p) ==
  /\ InStep(p, "create4")
  /\ icache' = [icache EXCEPT ![at[p]].lock = 0]
  /\ \/ NewType(p) = "file" /\ Opened(p)
     \/ NewType(p) # "file" /\ PutAt(p, "end_op") /\ UNCHANGED ofile
  /\ UNCHANGED <<disk, cwd, call, path, ip, dp, inum>>
-----------------------------------------------------------------------------
Step(p) ==
  \/ iput(p) \/ IputFree(p) \/ IputDrop(p) \/ namex(p) \/ NamexNone(p) \/ end_op(p)
  \/ open1(p) \/ chdir1(p) \/ filewrite(p) \/ fileread(p) \/ filestat(p)
  \/ link1(p) \/ begin2(p) \/ link2(p) \/ link3(p) \/ UnlockDp(p) \/ linkbad(p)
  \/ unlink1(p) \/ unlink2(p) \/ unlink3(p)
  \/ create1(p) \/ create2(p) \/ ialloc(p) \/ create3(p) \/ create4(p)
Enter(p) ==
  /\ InStep(p, "user") /\ made < MaxCalls
  /\ made' = made + 1
  /\ UseFile(p) \/ \E c \in Calls : Syscall(p, c)
Next == \E p \in Procs : Enter(p) \/ (Step(p) /\ UNCHANGED made)
Spec == Init /\ [][Next]_vars
-----------------------------------------------------------------------------
Inode == [type : {"free", "file", "dir", "dev"}, nlink : Int, size : 0 .. MAXFILE,
          addrs : [0 .. NDIRECT -> {0} \union Blocks]]
Block == [ents : [Elems -> {0} \union Inums], a : [0 .. NINDIRECT - 1 -> {0} \union Blocks]]
Iput  == {"iput", "free", "drop"}
Back  == {"namex", "open1", "chdir1", "link1", "link2", "link3", "linkbad", "unlockdp", "unlink1",
          "unlink3", "create1", "create2", "create4", "end_op"}
TypeOK ==
  /\ dinode \in [Inums -> Inode] /\ bitmap \subseteq Blocks /\ data \in [Blocks -> Block]
  /\ icache \in [Slots -> [inum : Inums, ref : Nat, valid : BOOLEAN, lock : {0} \union Procs, d : Inode]]
  /\ cwd \in [Procs -> Slots] /\ ofile \in [Procs -> Slots \union {None}]
  /\ call \in [Procs -> Calls \union {NoCall}] /\ path \in [Procs -> Seq(Elems)]
  /\ pc \in [Procs -> Iput \union Back \union
                       {"user", "write", "read", "stat", "begin2", "unlink2", "ialloc", "create3"}]
  /\ ret \in [Procs -> Back \union {"user"}]
  /\ \A x \in {put, at, ip, dp} : x \in [Procs -> Slots \union {None}]
  /\ inum \in [Procs -> {0} \union Inums] /\ made \in Nat

\* The count of a cached inode is the number of pointers to it: current
\* directories, open files and the variables of the calls under way
\* (iget, idup and iput, on the success and failure paths of every call).
Pointer(p) == [cwd |-> cwd[p], ofile |-> ofile[p], put |-> put[p], at |-> at[p], ip |-> ip[p], dp |-> dp[p]]
PointersTo(s) ==
  {x \in Procs \X {"cwd", "ofile", "put", "at", "ip", "dp"} : Pointer(x[1])[x[2]] = s}
RefExact == \A s \in Slots : icache[s].ref = Cardinality(PointersTo(s))

\* A copy that is marked valid is what the disk has: every change is written
\* through, and neither recycling a slot nor reusing an inode number leaves an
\* old copy behind (iget, ilock, iput).
CacheCoherent ==
  \A s \in Slots : icache[s].ref > 0 /\ icache[s].valid => icache[s].d = dinode[icache[s].inum]

\* The inode cache can be trusted: nobody loses a slot he points to, and whoever
\* locks it sees the inode of the disk.
CacheExact == TypeOK /\ RefExact /\ CacheCoherent

\* None of the panics of fs.c, sysfile.c and log_write is reached: a locked
\* inode has a type, no free block is freed, reading allocates no block, what is
\* unlinked has a link, only directories are looked up in, and inodes and blocks
\* in use are found where they belong.
Locks == {"namex", "open1", "chdir1", "write", "read", "stat", "link1", "link2", "linkbad",
          "unlink1", "unlink2", "create1", "create2", "create3"}
NoPanic ==
  \A p \in Procs :
    LET s == IF pc[p] \in {"write", "read", "stat"} THEN ofile[p] ELSE at[p]
        d == Loaded(s).d
    IN  /\ pc[p] \in Locks => icache[s].ref > 0 /\ (CanLock(s) => d.type # "free")
        /\ pc[p] = "free" => itrunc(icache[put[p]].d) \subseteq bitmap
        /\ pc[p] = "read" /\ CanLock(s) => 0 \notin readi(d)
        /\ pc[p] = "unlink2" /\ CanLock(s) => d.nlink > 0
        /\ pc[p] \in {"link2", "unlink1", "create1"} /\ CanLock(s) => d.type = "dir" /\ Filled(d)
        /\ pc[p] = "create3" /\ CanLock(s) => d.size = 0

\* The blocks marked in use are exactly those of the inodes in use, each of
\* them once: no write, truncation or failed call loses a block or shares one
\* (balloc, bfree, bmap, itrunc).
Owned(i) == LET d == dinode[i] IN Direct(d) \union Indirect(d) \union ({d.addrs[NDIRECT]} \ {0})
BlocksExact ==
  /\ bitmap = UNION {Owned(i) : i \in {k \in Inums : dinode[k].type # "free"}}
  /\ \A i, j \in Inums : i # j => Owned(i) \intersect Owned(j) = {}
  /\ \A i \in Inums : Cardinality(Owned(i)) = dinode[i].size + (IF dinode[i].addrs[NDIRECT] = 0 THEN 0 ELSE 1)

\* Every name leads to an inode that is in use and counts it: an inode is never
\* freed while a directory names it, whatever link, unlink and create do at the
\* same time (sys_link counts before it enters, sys_unlink the other way round).
DirsInUse == {i \in Inums : dinode[i].type = "dir" /\ dinode[i].size > 0}
Named(i)  == {x \in DirsInUse \X Names : dirlookup(dinode[x[1]], x[2]) = i}
Subdirs(i) == {e \in Names : i \in DirsInUse /\ dirlookup(dinode[i], e) \in DirsInUse}
LinksCounted ==
  \A i \in Inums : /\ Named(i) # {} => dinode[i].type # "free"
                   /\ Cardinality(Named(i)) + Cardinality(Subdirs(i)) <= dinode[i].nlink

\* An open file and a current directory stay what they are until they are
\* given up, also after their last name is gone (iput frees on the last use).
HeldInodesLive ==
  \A p \in Procs : /\ dinode[icache[cwd[p]].inum].type = "dir"
                   /\ ofile[p] # None => dinode[icache[ofile[p]].inum].type # "free"

\* An inode lives as long as a name leads to it or a process holds it.
InodesLive == LinksCounted /\ HeldInodesLive

\* Two processes wait for each other's inode lock in one way only: one of them
\* has unlocked dp and is in iput(dp), which locks it again, and still holds the
\* inode it made or unlinks (the iunlockput(dp) in create and sys_unlink), or
\* holds dp and is in the iput of what it found there (dirlink, sys_unlink).
\* Every other path takes locks from a directory to what it names.
Waiting(p) == IF pc[p] = "iput" THEN icache[put[p]].lock
              ELSE IF pc[p] \in {"write", "read", "stat"} THEN icache[ofile[p]].lock
              ELSE IF pc[p] \in Locks THEN icache[at[p]].lock ELSE 0
Cycle(p)   == Waiting(p) # 0 /\ Waiting(p) \in {p} \union {q \in Procs : Waiting(q) = p}
CyclesOnlyInIput ==
  \A p \in Procs : Cycle(p) => \E q \in Procs : Cycle(q) /\ InStep(q, "iput")
                                                  /\ \E s \in Slots : icache[s].lock = q

\* fs.c says of iput: "If that was the last reference and the inode has no
\* links to it, free the inode (and its content) on disk."  An inode in use
\* without links is therefore referenced, or just being made by ialloc.
UnlinkedIsFreed ==
  \A i \in Inums :
    dinode[i].type # "free" /\ dinode[i].nlink = 0 =>
      Cached(icache, i) # {} \/ \E p \in Procs : InStep(p, "ialloc") /\ inum[p] = i
=============================================================================
