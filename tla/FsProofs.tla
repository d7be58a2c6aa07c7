------------------------------ MODULE FsProofs ------------------------------
(***************************************************************************)
(* Proofs about inodes, blocks and directories.                            *)
(***************************************************************************)
EXTENDS Fs, FiniteSetTheorems, SequenceTheorems, WellFoundedInduction, TLAPS

\* Where p is, or goes on when iput returns.
K(p) == IF pc[p] \in Iput THEN ret[p] ELSE pc[p]

AtSteps == {"namex", "open1", "chdir1", "link1", "link2", "link3", "linkbad", "unlink1", "unlink2",
            "unlink3", "create1", "create2", "create3", "create4"}
DpSteps == {"unlink2", "unlockdp", "ialloc", "create3"}
Idle    == {"user", "write", "read", "stat", "end_op"}

\* Which variables of a call hold a slot at which step.
RegsOk(p) ==
  /\ put[p] # None <=> pc[p] \in Iput
  /\ pc[p] \in Iput <=> ret[p] # "user"
  /\ at[p] # None <=> K(p) \in AtSteps \/ (K(p) = "unlockdp" /\ call[p].op = "link")
  /\ dp[p] # None <=> K(p) \in DpSteps
  /\ ip[p] # None => K(p) \in {"begin2", "namex", "link2"} /\ call[p].op = "link"
  /\ K(p) \in {"begin2", "link2"} => ip[p] # None
  /\ inum[p] # 0 <=> pc[p] = "ialloc"
  /\ pc[p] \in {"write", "read", "stat"} => ofile[p] # None
  /\ K(p) \in {"link2", "unlink1", "create1"} \union DpSteps => path[p] # <<>>
  /\ K(p) \notin Idle => call[p] \in Calls
  /\ K(p) = "link1" => call[p].op = "link"
  /\ K(p) \in {"unlink1", "unlink2"} => call[p].op = "unlink"

\* Who has which lock.
Holds(p, s) ==
  \/ K(p) \in DpSteps /\ dp[p] = s
  \/ K(p) \in {"unlink3", "create4"} /\ at[p] = s
  \/ pc[p] = "free" /\ put[p] = s
LockOk ==
  /\ \A p \in Procs, s \in Slots : icache[s].lock = p <=> Holds(p, s)
  /\ \A p \in Procs : pc[p] = "free" => /\ K(p) = "unlockdp" => put[p] # dp[p]
                                        /\ K(p) \in {"unlink3", "create4"} => put[p] # at[p]

\* A cache that agrees with the inodes di: one slot an inode, a valid copy is the
\* inode, and is in use, and what is locked is valid.
CacheType == [Slots -> [inum : Inums, ref : Nat, valid : BOOLEAN, lock : {0} \union Procs, d : Inode]]
Unique(ic) == \A s, t \in Slots : ic[s].ref > 0 /\ ic[t].ref > 0 /\ ic[s].inum = ic[t].inum => s = t
Good(ic, di) ==
  /\ ic \in CacheType /\ di \in [Inums -> Inode]
  /\ Unique(ic)
  /\ \A s \in Slots : ic[s].ref > 0 /\ ic[s].valid = TRUE => ic[s].d = di[ic[s].inum] /\ ic[s].d.type # "free"
  /\ \A s \in Slots : ic[s].lock # 0 => ic[s].ref > 0 /\ ic[s].valid = TRUE
-----------------------------------------------------------------------------
LEMMA LeastNat ==
  ASSUME NEW S \in SUBSET Nat, S # {}
  PROVE  \E k \in S : \A j \in S : k <= j
<1>1. PICK k \in S : \A j \in S : ~(<<j, k>> \in OpToRel(<, Nat))
  BY WFMin, NatLessThanWellFounded
<1>2. \A j \in S : ~(j < k)  BY <1>1 DEF OpToRel
<1> QED BY <1>2

LEMMA LeastIn ==
  ASSUME NEW S \in SUBSET Nat, S # {}
  PROVE  Least(S) \in S
BY LeastNat DEF Least

LEMMA Consts ==
  /\ NINODES \in Nat \ {0} /\ NBLOCKS \in Nat \ {0} /\ NINODE \in Nat \ {0}
  /\ NDIRECT \in Nat \ {0} /\ NINDIRECT \in Nat \ {0}
  /\ None \notin Slots /\ 0 \notin Procs /\ IsFiniteSet(Procs) /\ 0 \in Slots /\ 1 \in Inums
  /\ Inums \subseteq Nat /\ 0 \notin Inums /\ Blocks \subseteq Nat /\ 0 \notin Blocks /\ Slots \subseteq Nat
BY FsAssumption DEF None, Slots, Inums, Blocks

LEMMA SlotFields ==
  ASSUME NEW ic \in CacheType, NEW s \in Slots
  PROVE  /\ ic[s].inum \in Inums /\ ic[s].ref \in Nat /\ ic[s].valid \in BOOLEAN
         /\ ic[s].lock \in {0} \union Procs /\ ic[s].d \in Inode
         /\ ic[s] = [inum |-> ic[s].inum, ref |-> ic[s].ref, valid |-> ic[s].valid,
                     lock |-> ic[s].lock, d |-> ic[s].d]
BY DEF CacheType

\* What iget does to a cache: slot t has inode i now, and was its slot or is a new one.
Got(ic, jc, i, t) ==
  /\ t \in Slots /\ jc \in CacheType
  /\ \A s \in Slots : s # t => jc[s] = ic[s]
  /\ jc[t].ref = ic[t].ref + 1 /\ jc[t].inum = i /\ jc[t].lock = ic[t].lock /\ jc[t].d = ic[t].d
  /\ \/ ic[t].ref > 0 /\ ic[t].inum = i /\ jc[t].valid = ic[t].valid
     \/ ic[t].ref = 0 /\ jc[t].valid = FALSE /\ \A s \in Slots : ic[s].ref > 0 => ic[s].inum # i

LEMMA IgetSlot ==
  ASSUME NEW ic \in CacheType, NEW i \in Inums, HasSlot(ic, i)
  PROVE  Got(ic, iget(ic, i), i, SlotOf(ic, i))
<1> DEFINE t == SlotOf(ic, i)
           jc == iget(ic, i)
<1>1. CASE Cached(ic, i) # {}
  <2>1. t \in Cached(ic, i)
    <3>1. Cached(ic, i) \in SUBSET Nat  BY Consts DEF Cached
    <3> QED BY <1>1, <3>1, LeastIn DEF SlotOf
  <2>2. t \in Slots /\ ic[t].ref > 0 /\ ic[t].inum = i  BY <2>1 DEF Cached
  <2>3. jc = [ic EXCEPT ![t] = [ic[t] EXCEPT !.ref = ic[t].ref + 1]]
    BY <1>1 DEF iget
  <2> HIDE DEF t, jc
  <2>4. ic[t].ref \in Nat /\ ic[t] \in [inum : Inums, ref : Nat, valid : BOOLEAN, lock : {0} \union Procs, d : Inode]
    BY <2>2 DEF CacheType
  <2>5. jc \in CacheType  BY <2>2, <2>3, <2>4 DEF CacheType
  <2>6. \A s \in Slots : s # t => jc[s] = ic[s]  BY <2>2, <2>3 DEF CacheType
  <2>7. jc[t] = [ic[t] EXCEPT !.ref = ic[t].ref + 1]  BY <2>2, <2>3 DEF CacheType
  <2>8. Got(ic, jc, i, t)  BY <2>2, <2>4, <2>5, <2>6, <2>7 DEF Got
  <2> QED BY <2>8 DEF t, jc
<1>2. CASE Cached(ic, i) = {}
  <2>1. t \in Unused(ic)
    <3>1. Unused(ic) \in SUBSET Nat  BY Consts DEF Unused
    <3> QED BY <1>2, <3>1, LeastIn DEF SlotOf, HasSlot
  <2>2. t \in Slots /\ ic[t].ref = 0 /\ \A s \in Slots : ic[s].ref > 0 => ic[s].inum # i
    BY <2>1, <1>2 DEF Cached, Unused
  <2>3. jc = [ic EXCEPT ![t] = [ic[t] EXCEPT !.ref = 1, !.inum = i, !.valid = FALSE]]
    BY <1>2 DEF iget
  <2> HIDE DEF t, jc
  <2>4. ic[t] \in [inum : Inums, ref : Nat, valid : BOOLEAN, lock : {0} \union Procs, d : Inode]
    BY <2>2 DEF CacheType
  <2>8. [ic[t] EXCEPT !.ref = 1, !.inum = i, !.valid = FALSE]
          \in [inum : Inums, ref : Nat, valid : BOOLEAN, lock : {0} \union Procs, d : Inode]
    <3>1. 1 \in Nat /\ FALSE \in BOOLEAN  OBVIOUS
    <3> QED BY <2>4, <3>1
  <2>5. jc \in CacheType  BY <2>2, <2>3, <2>8 DEF CacheType
  <2>6. \A s \in Slots : s # t => jc[s] = ic[s]  BY <2>2, <2>3 DEF CacheType
  <2>7. jc[t] = [ic[t] EXCEPT !.ref = 1, !.inum = i, !.valid = FALSE]  BY <2>2, <2>3 DEF CacheType
  <2>9. Got(ic, jc, i, t)  BY <2>2, <2>4, <2>5, <2>6, <2>7 DEF Got
  <2> QED BY <2>9 DEF t, jc
<1> QED BY <1>1, <1>2

LEMMA GoodGot ==
  ASSUME NEW ic, NEW di, Good(ic, di), NEW i, NEW jc, NEW t, Got(ic, jc, i, t)
  PROVE  Good(jc, di)
<1>2. ic[t].ref \in Nat  BY SlotFields DEF Good, Got
<1>3. Unique(jc)  BY <1>2 DEF Unique, Got, Good
<1>4. \A s \in Slots : jc[s].ref > 0 /\ jc[s].valid = TRUE => jc[s].d = di[jc[s].inum] /\ jc[s].d.type # "free"
  BY <1>2 DEF Good, Got
<1>5. \A s \in Slots : jc[s].lock # 0 => jc[s].ref > 0 /\ jc[s].valid = TRUE
  BY <1>2 DEF Good, Got
<1> QED BY <1>3, <1>4, <1>5 DEF Good, Got

LEMMA LoadedIs ==
  ASSUME Good(icache, dinode), NEW s \in Slots, icache[s].ref > 0
  PROVE  /\ Loaded(s) = [inum |-> icache[s].inum, ref |-> icache[s].ref, valid |-> TRUE,
                         lock |-> icache[s].lock, d |-> dinode[icache[s].inum]]
         /\ Loaded(s).d = dinode[icache[s].inum] /\ Loaded(s).d \in Inode
<1>1. /\ icache[s].inum \in Inums /\ icache[s].valid \in BOOLEAN
      /\ icache[s] = [inum |-> icache[s].inum, ref |-> icache[s].ref, valid |-> icache[s].valid,
                      lock |-> icache[s].lock, d |-> icache[s].d]
  BY SlotFields DEF Good
<1>2. dinode[icache[s].inum] \in Inode  BY <1>1 DEF Good
<1>3. CASE icache[s].valid = TRUE
  <2>1. icache[s].d = dinode[icache[s].inum]  BY <1>3 DEF Good
  <2>2. Loaded(s) = icache[s]  BY <1>3 DEF Loaded
  <2> QED BY <1>1, <1>2, <1>3, <2>1, <2>2
<1>4. CASE icache[s].valid = FALSE
  <2>1. Loaded(s) = [icache[s] EXCEPT !.valid = TRUE, !.d = dinode[icache[s].inum]]
    BY <1>4 DEF Loaded
  <2> QED BY <1>1, <1>2, <2>1
<1> QED BY <1>1, <1>3, <1>4

\* What a change of one slot does that keeps its inode and its references.
Changed(ic, jc, s, d, h) ==
  /\ jc \in CacheType
  /\ \A t \in Slots : t # s => jc[t] = ic[t]
  /\ jc[s].ref = ic[s].ref /\ jc[s].inum = ic[s].inum /\ jc[s].valid = TRUE
  /\ jc[s].lock = h /\ jc[s].d = d

LEMMA GoodChanged ==
  ASSUME NEW ic, NEW di, Good(ic, di), NEW s \in Slots, NEW jc, NEW d \in Inode, NEW h,
         Changed(ic, jc, s, d, h), ic[s].ref > 0, d.type # "free"
  PROVE  Good(jc, [di EXCEPT ![ic[s].inum] = d])
<1> DEFINE dj == [di EXCEPT ![ic[s].inum] = d]
<1>1. ic[s].inum \in Inums /\ ic[s].ref \in Nat  BY SlotFields DEF Good
<1>2. dj \in [Inums -> Inode] /\ dj[ic[s].inum] = d /\ \A i \in Inums : i # ic[s].inum => dj[i] = di[i]
  BY <1>1 DEF Good
<1> HIDE DEF dj
<1>3. Unique(jc)  BY DEF Good, Changed, Unique
<1>4. \A t \in Slots : jc[t].ref > 0 /\ jc[t].valid = TRUE => jc[t].d = dj[jc[t].inum] /\ jc[t].d.type # "free"
  <2> SUFFICES ASSUME NEW t \in Slots, jc[t].ref > 0, jc[t].valid = TRUE
               PROVE  jc[t].d = dj[jc[t].inum] /\ jc[t].d.type # "free"
    OBVIOUS
  <2>1. CASE t = s  BY <1>2, <2>1 DEF Changed
  <2>2. CASE t # s
    <3>1. jc[t] = ic[t]  BY <2>2 DEF Changed
    <3>2. ic[t].inum # ic[s].inum /\ ic[t].inum \in Inums  BY <2>2, <3>1, SlotFields DEF Good, Unique
    <3> QED BY <1>2, <3>1, <3>2 DEF Good
  <2> QED BY <2>1, <2>2
<1>5. \A t \in Slots : jc[t].lock # 0 => jc[t].ref > 0 /\ jc[t].valid = TRUE  BY DEF Good, Changed
<1>6. Good(jc, dj)  BY <1>2, <1>3, <1>4, <1>5 DEF Good, Changed
<1> QED BY <1>6 DEF dj

\* ilock and a change of the copy.
LEMMA WithChanged ==
  ASSUME Good(icache, dinode), NEW s \in Slots, icache[s].ref > 0, NEW d \in Inode, NEW h \in {0} \union Procs
  PROVE  Changed(icache, With(icache, s, d, h), s, d, h)
<1> DEFINE r  == [Loaded(s) EXCEPT !.d = d, !.lock = h]
           jc == With(icache, s, d, h)
<1>2. /\ icache[s].inum \in Inums /\ icache[s].ref \in Nat /\ icache \in CacheType
      /\ icache[s].lock \in {0} \union Procs
  BY SlotFields DEF Good
<1>1. Loaded(s) \in [inum : Inums, ref : Nat, valid : BOOLEAN, lock : {0} \union Procs, d : Inode]
  <2>1. dinode[icache[s].inum] \in Inode /\ TRUE \in BOOLEAN  BY LoadedIs
  <2>2. [inum |-> icache[s].inum, ref |-> icache[s].ref, valid |-> TRUE, lock |-> icache[s].lock,
         d |-> dinode[icache[s].inum]]
          \in [inum : Inums, ref : Nat, valid : BOOLEAN, lock : {0} \union Procs, d : Inode]
    BY <1>2, <2>1
  <2> QED BY <2>2, LoadedIs
<1>3. jc = [icache EXCEPT ![s] = r]  BY DEF With
<1>4. r \in [inum : Inums, ref : Nat, valid : BOOLEAN, lock : {0} \union Procs, d : Inode]  BY <1>1
<1>7. r.inum = icache[s].inum /\ r.ref = icache[s].ref /\ r.valid = TRUE /\ r.lock = h /\ r.d = d
  <2>1. /\ Loaded(s).inum = icache[s].inum /\ Loaded(s).ref = icache[s].ref /\ Loaded(s).valid = TRUE
    BY LoadedIs
  <2> QED BY <1>1, <2>1
<1> HIDE DEF r, jc
<1>5. jc \in CacheType /\ jc[s] = r /\ \A t \in Slots : t # s => jc[t] = icache[t]
  BY <1>2, <1>3, <1>4 DEF CacheType
<1>6. Changed(icache, jc, s, d, h)  BY <1>5, <1>7 DEF Changed
<1> QED BY <1>6 DEF jc

LEMMA GoodWith ==
  ASSUME Good(icache, dinode), NEW s \in Slots, icache[s].ref > 0, NEW d \in Inode, d.type # "free",
         NEW h \in {0} \union Procs
  PROVE  Good(With(icache, s, d, h), iupdate(dinode, s, d))
<1>1. Changed(icache, With(icache, s, d, h), s, d, h)  BY WithChanged
<1>2. Good(With(icache, s, d, h), [dinode EXCEPT ![icache[s].inum] = d])  BY <1>1, GoodChanged
<1> QED BY <1>2 DEF iupdate

\* ilock alone.
LEMMA GoodSeen ==
  ASSUME Good(icache, dinode), NEW s \in Slots, icache[s].ref > 0, Loaded(s).d.type # "free",
         NEW h \in {0} \union Procs
  PROVE  /\ Good(Seen(icache, s, h), dinode)
         /\ Changed(icache, Seen(icache, s, h), s, dinode[icache[s].inum], h)
<1> DEFINE d == dinode[icache[s].inum]
<1>1. Loaded(s).d = d /\ d \in Inode  BY LoadedIs
<1>2. Seen(icache, s, h) = With(icache, s, d, h)  BY <1>1 DEF Seen
<1>3. Changed(icache, With(icache, s, d, h), s, d, h)  BY <1>1, WithChanged
<1>4. Good(With(icache, s, d, h), [dinode EXCEPT ![icache[s].inum] = d])  BY <1>1, <1>3, GoodChanged
<1>5. [dinode EXCEPT ![icache[s].inum] = d] = dinode  BY SlotFields DEF Good
<1> QED BY <1>2, <1>3, <1>4, <1>5

\* The same for a slot that is locked already: d is changed and the lock set.
LEMMA SetChanged ==
  ASSUME NEW ic, NEW di, Good(ic, di), NEW s \in Slots, ic[s].valid = TRUE,
         NEW d \in Inode, NEW h \in {0} \union Procs
  PROVE  /\ Changed(ic, [ic EXCEPT ![s].d = d, ![s].lock = h], s, d, h)
         /\ Changed(ic, [ic EXCEPT ![s].lock = h], s, ic[s].d, h)
<1> DEFINE jc == [ic EXCEPT ![s].d = d, ![s].lock = h]
           kc == [ic EXCEPT ![s].lock = h]
<1>1. ic \in CacheType /\ ic[s] \in [inum : Inums, ref : Nat, valid : BOOLEAN, lock : {0} \union Procs, d : Inode]
  BY DEF Good, CacheType
<1>2. jc = [ic EXCEPT ![s] = [ic[s] EXCEPT !.d = d, !.lock = h]]  BY <1>1 DEF CacheType
<1>3. kc = [ic EXCEPT ![s] = [ic[s] EXCEPT !.lock = h]]  BY <1>1 DEF CacheType
<1>4. [ic[s] EXCEPT !.d = d, !.lock = h] \in [inum : Inums, ref : Nat, valid : BOOLEAN, lock : {0} \union Procs, d : Inode]
  BY <1>1
<1>5. [ic[s] EXCEPT !.lock = h] \in [inum : Inums, ref : Nat, valid : BOOLEAN, lock : {0} \union Procs, d : Inode]
  BY <1>1
<1> HIDE DEF jc, kc
<1>6. jc \in CacheType /\ jc[s] = [ic[s] EXCEPT !.d = d, !.lock = h] /\ \A t \in Slots : t # s => jc[t] = ic[t]
  BY <1>1, <1>2, <1>4 DEF CacheType
<1>7. kc \in CacheType /\ kc[s] = [ic[s] EXCEPT !.lock = h] /\ \A t \in Slots : t # s => kc[t] = ic[t]
  BY <1>1, <1>3, <1>5 DEF CacheType
<1>8. Changed(ic, jc, s, d, h)  BY <1>1, <1>6 DEF Changed
<1>9. Changed(ic, kc, s, ic[s].d, h)  BY <1>1, <1>7 DEF Changed
<1> QED BY <1>8, <1>9 DEF jc, kc

\* Only the lock changes.
LEMMA GoodLocked ==
  ASSUME NEW ic, NEW di, Good(ic, di), NEW s \in Slots, ic[s].ref > 0, ic[s].valid = TRUE,
         NEW h \in {0} \union Procs
  PROVE  /\ Good([ic EXCEPT ![s].lock = h], di)
         /\ Changed(ic, [ic EXCEPT ![s].lock = h], s, di[ic[s].inum], h)
<1> DEFINE d == di[ic[s].inum]
<1>0. ic[s].inum \in Inums /\ ic[s].d = d /\ d \in Inode /\ d.type # "free"
  <2>1. ic \in CacheType /\ di \in [Inums -> Inode] /\ ic[s].d = d /\ d.type # "free"  BY DEF Good
  <2>2. ic[s].inum \in Inums  BY <2>1, SlotFields
  <2> QED BY <2>1, <2>2
<1>1. Changed(ic, [ic EXCEPT ![s].lock = h], s, d, h)  BY <1>0, SetChanged
<1>2. Good([ic EXCEPT ![s].lock = h], [di EXCEPT ![ic[s].inum] = d])  BY <1>0, <1>1, GoodChanged
<1>3. [di EXCEPT ![ic[s].inum] = d] = di  BY <1>0 DEF Good
<1> QED BY <1>1, <1>2, <1>3

\* One reference more or less.
Counted(ic, jc, s, n) ==
  /\ jc \in CacheType
  /\ \A t \in Slots : t # s => jc[t] = ic[t]
  /\ jc[s].ref = ic[s].ref + n /\ jc[s].inum = ic[s].inum /\ jc[s].valid = ic[s].valid
  /\ jc[s].lock = ic[s].lock /\ jc[s].d = ic[s].d

LEMMA RefCounted ==
  ASSUME NEW ic \in CacheType, NEW s \in Slots, NEW n \in Int, ic[s].ref + n \in Nat
  PROVE  Counted(ic, [ic EXCEPT ![s].ref = ic[s].ref + n], s, n)
<1> DEFINE jc == [ic EXCEPT ![s].ref = ic[s].ref + n]
<1>1. ic[s] \in [inum : Inums, ref : Nat, valid : BOOLEAN, lock : {0} \union Procs, d : Inode]
  BY DEF CacheType
<1>2. jc = [ic EXCEPT ![s] = [ic[s] EXCEPT !.ref = ic[s].ref + n]]  BY DEF CacheType
<1>3. [ic[s] EXCEPT !.ref = ic[s].ref + n] \in [inum : Inums, ref : Nat, valid : BOOLEAN, lock : {0} \union Procs, d : Inode]
  BY <1>1
<1> HIDE DEF jc
<1>4. jc \in CacheType /\ jc[s] = [ic[s] EXCEPT !.ref = ic[s].ref + n] /\ \A t \in Slots : t # s => jc[t] = ic[t]
  BY <1>2, <1>3 DEF CacheType
<1>5. Counted(ic, jc, s, n)  BY <1>1, <1>4 DEF Counted
<1> QED BY <1>5 DEF jc

LEMMA GoodCounted ==
  ASSUME NEW ic, NEW di, Good(ic, di), NEW s \in Slots, NEW n \in Int, NEW jc, Counted(ic, jc, s, n),
         ic[s].ref > 0, ic[s].lock # 0 => ic[s].ref + n > 0
  PROVE  Good(jc, di)
<1>1. Unique(jc)  BY DEF Good, Counted, Unique
<1>2. \A t \in Slots : jc[t].ref > 0 /\ jc[t].valid = TRUE => jc[t].d = di[jc[t].inum] /\ jc[t].d.type # "free"
  BY DEF Good, Counted
<1>3. \A t \in Slots : jc[t].lock # 0 => jc[t].ref > 0 /\ jc[t].valid = TRUE  BY DEF Good, Counted
<1> QED BY <1>1, <1>2, <1>3 DEF Good, Counted

\* iput frees the inode.
Cleared(ic, jc, s) ==
  /\ jc \in CacheType
  /\ \A t \in Slots : t # s => jc[t] = ic[t]
  /\ jc[s].ref = ic[s].ref /\ jc[s].inum = ic[s].inum /\ jc[s].valid = FALSE /\ jc[s].lock = 0

LEMMA FreeIsInode == ASSUME NEW t \in {"free", "file", "dir", "dev"} PROVE Free(t) \in Inode
<1>1. [k \in 0 .. NDIRECT |-> 0] \in [0 .. NDIRECT -> {0} \union Blocks]  OBVIOUS
<1>2. 0 \in Int /\ 0 \in 0 .. MAXFILE  BY Consts DEF MAXFILE
<1> QED BY <1>1, <1>2 DEF Free, Inode

LEMMA FreeCleared ==
  ASSUME NEW ic \in CacheType, NEW s \in Slots
  PROVE  Cleared(ic, [ic EXCEPT ![s] = [@ EXCEPT !.valid = FALSE, !.lock = 0, !.d = Free("free")]], s)
<1> DEFINE r  == [ic[s] EXCEPT !.valid = FALSE, !.lock = 0, !.d = Free("free")]
           jc == [ic EXCEPT ![s] = r]
<1>1. ic[s] \in [inum : Inums, ref : Nat, valid : BOOLEAN, lock : {0} \union Procs, d : Inode]
  BY DEF CacheType
<1>2. r \in [inum : Inums, ref : Nat, valid : BOOLEAN, lock : {0} \union Procs, d : Inode]
  <2>1. Free("free") \in Inode  BY FreeIsInode
  <2> HIDE DEF r
  <2> QED BY <1>1, <2>1 DEF r
<1>3. r.ref = ic[s].ref /\ r.inum = ic[s].inum /\ r.valid = FALSE /\ r.lock = 0  BY <1>1
<1> HIDE DEF r
<1>4. jc \in CacheType /\ jc[s] = r /\ \A t \in Slots : t # s => jc[t] = ic[t]  BY <1>2 DEF CacheType
<1> HIDE DEF jc
<1>5. Cleared(ic, jc, s)  BY <1>3, <1>4 DEF Cleared
<1> QED BY <1>5 DEF jc, r

LEMMA GoodCleared ==
  ASSUME NEW ic, NEW di, Good(ic, di), NEW s \in Slots, NEW jc, Cleared(ic, jc, s), ic[s].ref > 0,
         NEW d \in Inode
  PROVE  Good(jc, [di EXCEPT ![ic[s].inum] = d])
<1> DEFINE dj == [di EXCEPT ![ic[s].inum] = d]
<1>1. ic[s].inum \in Inums /\ ic[s].ref \in Nat  BY SlotFields DEF Good
<1>2. dj \in [Inums -> Inode] /\ \A i \in Inums : i # ic[s].inum => dj[i] = di[i]
  BY <1>1 DEF Good
<1> HIDE DEF dj
<1>3. Unique(jc)  BY DEF Good, Cleared, Unique
<1>4. \A t \in Slots : jc[t].ref > 0 /\ jc[t].valid = TRUE => jc[t].d = dj[jc[t].inum] /\ jc[t].d.type # "free"
  <2> SUFFICES ASSUME NEW t \in Slots, jc[t].ref > 0, jc[t].valid = TRUE
               PROVE  jc[t].d = dj[jc[t].inum] /\ jc[t].d.type # "free"
    OBVIOUS
  <2>1. t # s  BY DEF Cleared
  <2>2. jc[t] = ic[t]  BY <2>1 DEF Cleared
  <2>3. ic[t].inum # ic[s].inum /\ ic[t].inum \in Inums  BY <2>1, <2>2, SlotFields DEF Good, Unique
  <2> QED BY <1>2, <2>2, <2>3 DEF Good
<1>5. \A t \in Slots : jc[t].lock # 0 => jc[t].ref > 0 /\ jc[t].valid = TRUE  BY DEF Good, Cleared
<1>6. Good(jc, dj)  BY <1>2, <1>3, <1>4, <1>5 DEF Good, Cleared
<1> QED BY <1>6 DEF dj

\* ialloc marks a free inode: no valid copy is of a free inode.
LEMMA GoodAlloc ==
  ASSUME NEW ic, NEW di, Good(ic, di), NEW n \in Inums, di[n].type = "free", NEW d \in Inode
  PROVE  Good(ic, [di EXCEPT ![n] = d])
<1> DEFINE dj == [di EXCEPT ![n] = d]
<1>1. dj \in [Inums -> Inode] /\ \A i \in Inums : i # n => dj[i] = di[i]  BY DEF Good
<1> HIDE DEF dj
<1>2. \A t \in Slots : ic[t].ref > 0 /\ ic[t].valid = TRUE => ic[t].d = dj[ic[t].inum] /\ ic[t].d.type # "free"
  <2> SUFFICES ASSUME NEW t \in Slots, ic[t].ref > 0, ic[t].valid = TRUE
               PROVE  ic[t].d = dj[ic[t].inum] /\ ic[t].d.type # "free"
    OBVIOUS
  <2>1. ic[t].d = di[ic[t].inum] /\ ic[t].d.type # "free" /\ ic[t].inum \in Inums  BY SlotFields DEF Good
  <2> QED BY <1>1, <2>1
<1>3. Good(ic, dj)  BY <1>1, <1>2 DEF Good
<1> QED BY <1>3 DEF dj
-----------------------------------------------------------------------------
Steps == Iput \union Back \union {"user", "write", "read", "stat", "begin2", "unlink2", "ialloc", "create3"}
RegType ==
  /\ cwd \in [Procs -> Slots] /\ ofile \in [Procs -> Slots \union {None}]
  /\ call \in [Procs -> Calls \union {NoCall}] /\ path \in [Procs -> Seq(Elems)]
  /\ pc \in [Procs -> Steps] /\ ret \in [Procs -> Back \union {"user"}]
  /\ put \in [Procs -> Slots \union {None}] /\ at \in [Procs -> Slots \union {None}]
  /\ ip \in [Procs -> Slots \union {None}] /\ dp \in [Procs -> Slots \union {None}]
  /\ inum \in [Procs -> {0} \union Inums] /\ made \in Nat
\* A file that is not empty has its first block.
Headed(d) == d.size > 0 => d.addrs[0] # 0
DiskType == bitmap \subseteq Blocks /\ data \in [Blocks -> Block] /\ \A i \in Inums : Headed(dinode[i])

\* The inductive invariant of the cache.
FsInv == RegType /\ DiskType /\ Good(icache, dinode) /\ RefExact /\ LockOk /\ \A p \in Procs : RegsOk(p)

LEMMA FsInvExact == FsInv => CacheExact
<1> SUFFICES ASSUME FsInv PROVE CacheExact  OBVIOUS
<1> USE DEF FsInv
<1>1. TypeOK
  <2>1. \A x \in {put, at, ip, dp} : x \in [Procs -> Slots \union {None}]  BY DEF RegType
  <2>2. dinode \in [Inums -> Inode] /\ icache \in CacheType  BY DEF Good
  <2> QED BY <2>1, <2>2 DEF TypeOK, RegType, DiskType, CacheType, Steps
<1>2. CacheCoherent
  <2> SUFFICES ASSUME NEW s \in Slots, icache[s].ref > 0, icache[s].valid
               PROVE  icache[s].d = dinode[icache[s].inum]
    BY DEF CacheCoherent
  <2>1. icache[s].valid = TRUE  BY SlotFields DEF Good
  <2> QED BY <2>1 DEF Good
<1> QED BY <1>1, <1>2 DEF CacheExact

\* The pointers of p to slot s, counted.
One(x, s) == IF x = s THEN 1 ELSE 0
Own(p, s) == One(cwd[p], s) + One(ofile[p], s) + One(put[p], s) + One(at[p], s) + One(ip[p], s) + One(dp[p], s)
Others(p, s) == {x \in PointersTo(s) : x[1] # p}

LEMMA AddIf ==
  ASSUME NEW S, IsFiniteSet(S), NEW e, e \notin S, NEW x, NEW s, NEW T,
         x = s => T = S \union {e}, x # s => T = S
  PROVE  IsFiniteSet(T) /\ Cardinality(T) = Cardinality(S) + One(x, s)
<1>1. CASE x = s  BY <1>1, FS_AddElement, FS_CardinalityType DEF One
<1>2. CASE x # s  BY <1>2, FS_CardinalityType DEF One
<1> QED BY <1>1, <1>2

LEMMA PointersFinite == \A s \in Slots : IsFiniteSet(PointersTo(s))
<1> TAKE s \in Slots
<1> DEFINE Tags == {"cwd", "ofile", "put", "at", "ip", "dp"}
<1>0. IsFiniteSet(Tags)
  <2>1. IsFiniteSet({})  BY FS_EmptySet
  <2>2. IsFiniteSet({"cwd"})  BY FS_Singleton
  <2>3. IsFiniteSet({"cwd"} \union {"ofile"})  BY <2>2, FS_AddElement
  <2>4. IsFiniteSet(({"cwd"} \union {"ofile"}) \union {"put"})  BY <2>3, FS_AddElement
  <2>5. IsFiniteSet((({"cwd"} \union {"ofile"}) \union {"put"}) \union {"at"})  BY <2>4, FS_AddElement
  <2>6. IsFiniteSet(((({"cwd"} \union {"ofile"}) \union {"put"}) \union {"at"}) \union {"ip"})  BY <2>5, FS_AddElement
  <2>7. IsFiniteSet((((({"cwd"} \union {"ofile"}) \union {"put"}) \union {"at"}) \union {"ip"}) \union {"dp"})
    BY <2>6, FS_AddElement
  <2>8. Tags = (((({"cwd"} \union {"ofile"}) \union {"put"}) \union {"at"}) \union {"ip"}) \union {"dp"}
    OBVIOUS
  <2> QED BY <2>7, <2>8
<1> HIDE DEF Tags
<1>1. IsFiniteSet(Procs \X Tags)  BY <1>0, FS_Product, Consts
<1>2. PointersTo(s) \subseteq Procs \X Tags  BY DEF PointersTo, Tags
<1> QED BY <1>1, <1>2, FS_Subset

PointersCounted ==
  \A p \in Procs, s \in Slots :
    /\ Cardinality(Others(p, s)) \in Nat
    /\ Cardinality(PointersTo(s)) = Cardinality(Others(p, s)) + Own(p, s)

LEMMA Counts == PointersCounted
<1> USE DEF PointersCounted
<1> TAKE p \in Procs, s \in Slots
<1> DEFINE B0 == Others(p, s)
           B1 == B0 \union (IF cwd[p] = s THEN {<<p, "cwd">>} ELSE {})
           B2 == B1 \union (IF ofile[p] = s THEN {<<p, "ofile">>} ELSE {})
           B3 == B2 \union (IF put[p] = s THEN {<<p, "put">>} ELSE {})
           B4 == B3 \union (IF at[p] = s THEN {<<p, "at">>} ELSE {})
           B5 == B4 \union (IF ip[p] = s THEN {<<p, "ip">>} ELSE {})
           B6 == B5 \union (IF dp[p] = s THEN {<<p, "dp">>} ELSE {})
<1>0. IsFiniteSet(B0)
  <2>1. B0 \subseteq PointersTo(s)  BY DEF Others
  <2> QED BY <2>1, PointersFinite, FS_Subset
<1>7. PointersTo(s) = B6
  <2>1. \A x \in PointersTo(s) : x \in B6
    <3> SUFFICES ASSUME NEW x \in PointersTo(s) PROVE x \in B6  OBVIOUS
    <3>1. CASE x[1] # p  BY <3>1 DEF Others
    <3>2. CASE x[1] = p
      <4>1. PICK t \in {"cwd", "ofile", "put", "at", "ip", "dp"} : x = <<p, t>> /\ Pointer(p)[t] = s
        BY <3>2 DEF PointersTo
      <4> QED BY <4>1 DEF Pointer
    <3> QED BY <3>1, <3>2
  <2>2. \A x \in B6 : x \in PointersTo(s)
    <3>1. \A t \in {"cwd", "ofile", "put", "at", "ip", "dp"} : Pointer(p)[t] = s => <<p, t>> \in PointersTo(s)
      BY DEF PointersTo
    <3> QED BY <3>1 DEF Others, Pointer
  <2> QED BY <2>1, <2>2
<1>8. \A t : <<p, t>> \notin B0  BY DEF Others
<1>1. IsFiniteSet(B1) /\ Cardinality(B1) = Cardinality(B0) + One(cwd[p], s)
  <2>1. <<p, "cwd">> \notin B0  BY <1>8
  <2>2. (cwd[p] = s => B1 = B0 \union {<<p, "cwd">>}) /\ (cwd[p] # s => B1 = B0)  OBVIOUS
  <2> HIDE DEF B0, B1
  <2> QED BY <1>0, <2>1, <2>2, AddIf
<1>2. IsFiniteSet(B2) /\ Cardinality(B2) = Cardinality(B1) + One(ofile[p], s)
  <2>1. <<p, "ofile">> \notin B1  BY <1>8
  <2>2. (ofile[p] = s => B2 = B1 \union {<<p, "ofile">>}) /\ (ofile[p] # s => B2 = B1)  OBVIOUS
  <2> HIDE DEF B1, B2
  <2> QED BY <1>1, <2>1, <2>2, AddIf
<1>3. IsFiniteSet(B3) /\ Cardinality(B3) = Cardinality(B2) + One(put[p], s)
  <2>1. <<p, "put">> \notin B2  BY <1>8
  <2>2. (put[p] = s => B3 = B2 \union {<<p, "put">>}) /\ (put[p] # s => B3 = B2)  OBVIOUS
  <2> HIDE DEF B2, B3
  <2> QED BY <1>2, <2>1, <2>2, AddIf
<1>4. IsFiniteSet(B4) /\ Cardinality(B4) = Cardinality(B3) + One(at[p], s)
  <2>1. <<p, "at">> \notin B3  BY <1>8
  <2>2. (at[p] = s => B4 = B3 \union {<<p, "at">>}) /\ (at[p] # s => B4 = B3)  OBVIOUS
  <2> HIDE DEF B3, B4
  <2> QED BY <1>3, <2>1, <2>2, AddIf
<1>5. IsFiniteSet(B5) /\ Cardinality(B5) = Cardinality(B4) + One(ip[p], s)
  <2>1. <<p, "ip">> \notin B4  BY <1>8
  <2>2. (ip[p] = s => B5 = B4 \union {<<p, "ip">>}) /\ (ip[p] # s => B5 = B4)  OBVIOUS
  <2> HIDE DEF B4, B5
  <2> QED BY <1>4, <2>1, <2>2, AddIf
<1>6. IsFiniteSet(B6) /\ Cardinality(B6) = Cardinality(B5) + One(dp[p], s)
  <2>1. <<p, "dp">> \notin B5  BY <1>8
  <2>2. (dp[p] = s => B6 = B5 \union {<<p, "dp">>}) /\ (dp[p] # s => B6 = B5)  OBVIOUS
  <2> HIDE DEF B5, B6
  <2> QED BY <1>5, <2>1, <2>2, AddIf
<1>9. Cardinality(B0) \in Nat  BY <1>0, FS_CardinalityType
<1> HIDE DEF B0, B1, B2, B3, B4, B5, B6
<1>10. Cardinality(B6) = Cardinality(B0) + Own(p, s)
  BY <1>1, <1>2, <1>3, <1>4, <1>5, <1>6, <1>9 DEF Own, One
<1>11. B0 = Others(p, s)  BY DEF B0
<1> QED BY <1>7, <1>9, <1>10, <1>11

\* What is pointed to has a reference, and is counted as often as p points to it.
LEMMA Pointed ==
  ASSUME FsInv, NEW p \in Procs, NEW s \in Slots
  PROVE  /\ icache[s].ref \in Nat /\ Own(p, s) \in Nat /\ icache[s].ref >= Own(p, s)
         /\ s \in {cwd[p], ofile[p], put[p], at[p], ip[p], dp[p]} => icache[s].ref > 0
<1>1. icache[s].ref = Cardinality(Others(p, s)) + Own(p, s) /\ Cardinality(Others(p, s)) \in Nat
  BY Counts DEF FsInv, RefExact, PointersCounted
<1>2. Own(p, s) \in Nat /\ (s \in {cwd[p], ofile[p], put[p], at[p], ip[p], dp[p]} => Own(p, s) > 0)
  BY DEF Own, One
<1> QED BY <1>1, <1>2

Same(f, g, p) == \A q \in Procs : q # p => g[q] = f[q]
\* A step of p changes the variables of p.
Only(p) ==
  /\ Same(cwd, cwd', p) /\ Same(ofile, ofile', p) /\ Same(call, call', p) /\ Same(path, path', p)
  /\ Same(pc, pc', p) /\ Same(ret, ret', p) /\ Same(put, put', p)
  /\ Same(at, at', p) /\ Same(ip, ip', p) /\ Same(dp, dp', p) /\ Same(inum, inum', p)
\* It changes the counts as it changes its pointers, and no lock of others.
Recounts(p) == \A s \in Slots : icache'[s].ref = icache[s].ref + Own(p, s)' - Own(p, s)
Relocks(p) ==
  /\ \A s \in Slots : \/ icache'[s].lock = icache[s].lock
                      \/ icache'[s].lock \in {0, p} /\ icache[s].lock \in {0, p}
  /\ \A s \in Slots : icache'[s].lock = p <=> Holds(p, s)'
\* What iput frees is not what the call holds besides.
Apart(p) == pc[p] = "free" => /\ K(p) = "unlockdp" => put[p] # dp[p]
                              /\ K(p) \in {"unlink3", "create4"} => put[p] # at[p]

LEMMA OthersSame ==
  ASSUME NEW p \in Procs, Only(p), NEW s \in Slots
  PROVE  Others(p, s)' = Others(p, s)
<1>1. \A q \in Procs : q # p => Pointer(q)' = Pointer(q)  BY DEF Only, Same, Pointer
<1> QED BY <1>1 DEF Others, PointersTo

LEMMA RefStep ==
  ASSUME FsInv, NEW p \in Procs, Only(p), Recounts(p)
  PROVE  RefExact'
<1> SUFFICES ASSUME NEW s \in Slots PROVE icache'[s].ref = Cardinality(PointersTo(s))'
  BY DEF RefExact
<1>1. PointersCounted'  BY Counts, PTL
<1>2. Cardinality(PointersTo(s))' = Cardinality(Others(p, s))' + Own(p, s)'  BY <1>1 DEF PointersCounted
<1>3. Cardinality(Others(p, s))' = Cardinality(Others(p, s))  BY OthersSame
<1>4. icache[s].ref = Cardinality(Others(p, s)) + Own(p, s) /\ Cardinality(Others(p, s)) \in Nat
  BY Counts DEF FsInv, RefExact, PointersCounted
<1>5. Own(p, s) \in Nat /\ Own(p, s)' \in Nat  BY DEF Own, One
<1> HIDE DEF Own
<1> QED BY <1>2, <1>3, <1>4, <1>5 DEF Recounts

LEMMA LockStep ==
  ASSUME FsInv, NEW p \in Procs, Only(p), Relocks(p), Apart(p)'
  PROVE  LockOk'
<1>1. \A q \in Procs, s \in Slots : q # p => (Holds(q, s)' <=> Holds(q, s))
  BY DEF Only, Same, Holds, K
<1>2. \A q \in Procs, s \in Slots : icache'[s].lock = q <=> Holds(q, s)'
  <2> TAKE q \in Procs, s \in Slots
  <2>1. CASE q = p  BY <2>1 DEF Relocks
  <2>2. CASE q # p  BY <1>1, <2>2, Consts DEF Relocks, FsInv, LockOk
  <2> QED BY <2>1, <2>2
<1>3. \A q \in Procs : Apart(q)'
  <2> TAKE q \in Procs
  <2>1. CASE q = p  BY <2>1
  <2>2. CASE q # p  BY <2>2 DEF Only, Same, Apart, FsInv, LockOk, K
  <2> QED BY <2>1, <2>2
<1> QED BY <1>2, <1>3 DEF LockOk, Apart

LEMMA Glue ==
  ASSUME FsInv, NEW p \in Procs, Only(p), RegType', DiskType', RegsOk(p)', Good(icache, dinode)',
         Recounts(p), Relocks(p), Apart(p)'
  PROVE  FsInv'
<1>1. RefExact'  BY RefStep
<1>2. LockOk'  BY LockStep
<1>3. \A q \in Procs : RegsOk(q)'
  <2> TAKE q \in Procs
  <2>1. CASE q = p  BY <2>1
  <2>2. CASE q # p  BY <2>2 DEF Only, Same, FsInv, RegsOk, K
  <2> QED BY <2>1, <2>2
<1> QED BY <1>1, <1>2, <1>3 DEF FsInv

-----------------------------------------------------------------------------
\* What a step does to the cache: slot s gets the lock h, slot t a reference.
Effect(s, h, t) ==
  \A x \in Slots : /\ icache'[x].ref = icache[x].ref + One(t, x)
                   /\ icache'[x].lock = IF x = s THEN h ELSE icache[x].lock

LEMMA RefNat ==
  ASSUME FsInv
  PROVE  icache \in CacheType /\ \A x \in Slots : icache[x].ref \in Nat /\ x # None
<1>1. icache \in CacheType  BY DEF FsInv, Good
<1>2. \A x \in Slots : icache[x].ref \in Nat  BY <1>1, SlotFields
<1>3. \A x \in Slots : x # None  BY Consts
<1> QED BY <1>1, <1>2, <1>3

LEMMA EffectSame ==
  ASSUME FsInv, UNCHANGED <<icache, dinode>>
  PROVE  Good(icache, dinode)' /\ Effect(None, 0, None)
<1>1. \A x \in Slots : icache[x].ref \in Nat /\ x # None  BY RefNat
<1>2. Effect(None, 0, None)  BY <1>1 DEF Effect, One
<1>3. Good(icache, dinode)'  BY DEF FsInv, Good, Unique
<1> QED BY <1>2, <1>3

LEMMA EffectSeen ==
  ASSUME FsInv, NEW s \in Slots, icache[s].ref > 0, Loaded(s).d.type # "free", NEW h \in {0} \union Procs,
         icache' = Seen(icache, s, h), dinode' = dinode
  PROVE  Good(icache, dinode)' /\ Effect(s, h, None)
<1>1. Good(Seen(icache, s, h), dinode) /\ Changed(icache, Seen(icache, s, h), s, dinode[icache[s].inum], h)
  BY GoodSeen DEF FsInv
<1>2. \A x \in Slots : icache[x].ref \in Nat /\ x # None  BY RefNat
<1>3. Effect(s, h, None)  BY <1>1, <1>2 DEF Effect, One, Changed
<1>4. Good(icache', dinode')  BY <1>1
<1> QED BY <1>3, <1>4 DEF Good, Unique

LEMMA EffectWith ==
  ASSUME FsInv, NEW s \in Slots, icache[s].ref > 0, NEW d \in Inode, d.type # "free", NEW h \in {0} \union Procs,
         icache' = With(icache, s, d, h), dinode' = iupdate(dinode, s, d)
  PROVE  Good(icache, dinode)' /\ Effect(s, h, None)
<1>1. Good(With(icache, s, d, h), iupdate(dinode, s, d)) /\ Changed(icache, With(icache, s, d, h), s, d, h)
  BY GoodWith, WithChanged DEF FsInv
<1>2. \A x \in Slots : icache[x].ref \in Nat /\ x # None  BY RefNat
<1>3. Effect(s, h, None)  BY <1>1, <1>2 DEF Effect, One, Changed
<1>4. Good(icache', dinode')  BY <1>1
<1> QED BY <1>3, <1>4 DEF Good, Unique

\* Slots keep their place under ilock.
LEMMA SeenSlot ==
  ASSUME FsInv, NEW s \in Slots, icache[s].ref > 0, Loaded(s).d.type # "free", NEW h \in {0} \union Procs, NEW i
  PROVE  /\ SlotOf(Seen(icache, s, h), i) = SlotOf(icache, i)
         /\ HasSlot(Seen(icache, s, h), i) <=> HasSlot(icache, i)
<1> DEFINE jc == Seen(icache, s, h)
<1>1. Changed(icache, jc, s, dinode[icache[s].inum], h)  BY GoodSeen DEF FsInv
<1> HIDE DEF jc
<1>2. \A x \in Slots : jc[x].ref = icache[x].ref /\ jc[x].inum = icache[x].inum  BY <1>1 DEF Changed
<1>3. Cached(jc, i) = Cached(icache, i) /\ Unused(jc) = Unused(icache)  BY <1>2 DEF Cached, Unused
<1>4. SlotOf(jc, i) = SlotOf(icache, i) /\ (HasSlot(jc, i) <=> HasSlot(icache, i))
  BY <1>3 DEF SlotOf, HasSlot
<1> QED BY <1>4 DEF jc

LEMMA EffectGet ==
  ASSUME FsInv, NEW i \in Inums, HasSlot(icache, i), icache' = iget(icache, i), dinode' = dinode
  PROVE  Good(icache, dinode)' /\ Effect(None, 0, SlotOf(icache, i)) /\ SlotOf(icache, i) \in Slots
<1>1. icache \in CacheType  BY DEF FsInv, Good
<1>2. Got(icache, icache', i, SlotOf(icache, i))  BY <1>1, IgetSlot
<1>3. \A x \in Slots : icache[x].ref \in Nat /\ x # None  BY RefNat
<1>4. Effect(None, 0, SlotOf(icache, i))  BY <1>2, <1>3 DEF Effect, One, Got
<1>5. Good(icache', dinode')  BY <1>2, GoodGot DEF FsInv
<1>6. SlotOf(icache, i) \in Slots  BY <1>2 DEF Got
<1> QED BY <1>4, <1>5, <1>6 DEF Good, Unique

LEMMA EffectSeenGet ==
  ASSUME FsInv, NEW s \in Slots, icache[s].ref > 0, Loaded(s).d.type # "free", NEW h \in {0} \union Procs,
         NEW i \in Inums, HasSlot(icache, i), icache' = iget(Seen(icache, s, h), i), dinode' = dinode
  PROVE  Good(icache, dinode)' /\ Effect(s, h, SlotOf(icache, i)) /\ SlotOf(icache, i) \in Slots
<1> DEFINE jc == Seen(icache, s, h)
<1>1. Good(jc, dinode) /\ Changed(icache, jc, s, dinode[icache[s].inum], h)  BY GoodSeen DEF FsInv
<1>2. SlotOf(jc, i) = SlotOf(icache, i) /\ HasSlot(jc, i)  BY SeenSlot
<1> HIDE DEF jc
<1>3. icache' = iget(jc, i)  BY DEF jc
<1>4. jc \in CacheType  BY <1>1 DEF Good
<1>5. Got(jc, icache', i, SlotOf(icache, i))  BY <1>2, <1>3, <1>4, IgetSlot
<1>6. \A x \in Slots : icache[x].ref \in Nat /\ x # None  BY RefNat
<1>7. Effect(s, h, SlotOf(icache, i))  BY <1>1, <1>5, <1>6 DEF Effect, One, Got, Changed
<1>8. Good(icache', dinode')  BY <1>1, <1>5, GoodGot
<1>9. SlotOf(icache, i) \in Slots  BY <1>5 DEF Got
<1> QED BY <1>7, <1>8, <1>9 DEF Good, Unique

LEMMA EffectDup ==
  ASSUME FsInv, NEW s \in Slots, icache[s].ref > 0, icache' = idup(icache, s), dinode' = dinode
  PROVE  Good(icache, dinode)' /\ Effect(None, 0, s)
<1>1. icache \in CacheType  BY DEF FsInv, Good
<1>2. \A x \in Slots : icache[x].ref \in Nat /\ x # None  BY RefNat
<1>3. Counted(icache, icache', s, 1)
  <2>1. 1 \in Int /\ icache[s].ref + 1 \in Nat  BY <1>2
  <2>2. Counted(icache, [icache EXCEPT ![s].ref = icache[s].ref + 1], s, 1)  BY <1>1, <2>1, RefCounted
  <2> QED BY <2>2 DEF idup
<1>4. Effect(None, 0, s)  BY <1>2, <1>3 DEF Effect, One, Counted
<1>5. Good(icache', dinode')  BY <1>2, <1>3, GoodCounted DEF FsInv
<1> QED BY <1>4, <1>5 DEF Good, Unique

\* p goes to another step, and takes a pointer to slot t.
Moved(p, t) ==
  /\ Only(p) /\ RegType' /\ RegsOk(p)' /\ pc'[p] # "free"
  /\ \A x \in Slots : Own(p, x)' = Own(p, x) + One(t, x)

\* A step of p that locks slot s or lets it go, and takes a pointer to t.
LEMMA StepInv ==
  ASSUME FsInv, NEW p \in Procs, NEW s, NEW h \in {0, p}, NEW t, Moved(p, t), DiskType',
         Good(icache, dinode)', Effect(s, h, t), s \in Slots => icache[s].lock \in {0, p},
         \A x \in Slots : Holds(p, x)' <=> IF x = s THEN h = p ELSE Holds(p, x)
  PROVE  FsInv'
<1>1. Recounts(p)
  <2>1. \A x \in Slots : icache[x].ref \in Nat /\ Own(p, x) \in Nat  BY Pointed
  <2>2. \A x \in Slots : One(t, x) \in Nat  BY DEF One
  <2>3. \A x \in Slots : Own(p, x)' = Own(p, x) + One(t, x)  BY DEF Moved
  <2> HIDE DEF Own
  <2> QED BY <2>1, <2>2, <2>3 DEF Effect, Recounts
<1>2. Relocks(p)
  <2>1. \A x \in Slots : icache[x].lock = p <=> Holds(p, x)  BY DEF FsInv, LockOk
  <2> QED BY <2>1 DEF Effect, Relocks
<1>3. Apart(p)'  BY DEF Apart, Moved
<1> QED BY <1>1, <1>2, <1>3, Glue DEF Moved

\* The step of p is not one that holds a lock.
LEMMA NoLock ==
  ASSUME NEW p \in Procs, pc[p] # "free", K(p) \notin DpSteps \union {"unlink3", "create4"}
  PROVE  \A x \in Slots : ~Holds(p, x)
BY DEF Holds

LEMMA PutAtEnd ==
  ASSUME FsInv, NEW p \in Procs, pc[p] \in AtSteps \ {"namex", "link2", "unlink2", "create3"}, made' \in Nat,
         PutAt(p, "end_op"), UNCHANGED <<cwd, ofile, call, path, ip, dp, inum>>
  PROVE  Moved(p, None) /\ \A x \in Slots : ~Holds(p, x)'
<1> USE DEF PutAt, Put
<1>0. RegType /\ RegsOk(p)  BY DEF FsInv
<1>1. /\ pc'[p] = "iput" /\ ret'[p] = "end_op" /\ put'[p] = at[p] /\ at'[p] = None
      /\ ofile'[p] = ofile[p] /\ call'[p] = call[p] /\ path'[p] = path[p]
      /\ cwd'[p] = cwd[p] /\ ip'[p] = ip[p] /\ dp'[p] = dp[p] /\ inum'[p] = inum[p]
  BY <1>0 DEF RegType
<1>2. Only(p)  BY <1>0 DEF Only, Same, RegType
<1>3. RegType'  BY <1>0 DEF RegType, Steps, Iput, Back
<1>4. put[p] = None /\ at[p] # None /\ ip[p] = None /\ dp[p] = None /\ inum[p] = 0
  BY <1>0 DEF RegsOk, K, AtSteps, DpSteps, Iput
<1>5. RegsOk(p)'  BY <1>1, <1>4, Consts DEF RegsOk, K, AtSteps, DpSteps, Iput, Idle
<1>6. \A x \in Slots : Own(p, x)' = Own(p, x) + One(None, x)
  BY <1>1, <1>4, Consts DEF Own, One
<1>7. \A x \in Slots : ~Holds(p, x)'  BY <1>1 DEF Holds, K, Iput, DpSteps
<1> QED BY <1>1, <1>2, <1>3, <1>5, <1>6, <1>7 DEF Moved

\* What p finds when a step of its call begins.
LEMMA AtStep ==
  ASSUME FsInv, NEW p \in Procs, pc[p] \in AtSteps
  PROVE  /\ at[p] \in Slots /\ icache[at[p]].ref > 0 /\ at[p] # None /\ put[p] = None /\ pc[p] \notin Iput
         /\ K(p) = pc[p] /\ ret[p] = "user" /\ inum[p] = 0 /\ call[p] \in Calls
<1>1. RegType /\ RegsOk(p)  BY DEF FsInv
<1>2. at[p] # None /\ pc[p] \notin Iput /\ put[p] = None /\ ret[p] = "user" /\ K(p) = pc[p] /\ inum[p] = 0
  BY <1>1 DEF RegsOk, AtSteps, K, Iput
<1>3. call[p] \in Calls  BY <1>1, <1>2 DEF RegsOk, AtSteps, Idle
<1>4. at[p] \in Slots  BY <1>1, <1>2 DEF RegType
<1>5. icache[at[p]].ref > 0  BY <1>4, Pointed
<1> QED BY <1>2, <1>3, <1>4, <1>5

LEMMA OpenedMoves ==
  ASSUME FsInv, NEW p \in Procs, pc[p] \in {"open1", "create2", "create4"}, made' \in Nat,
         Opened(p), UNCHANGED <<cwd, call, path, ip, dp, inum>>
  PROVE  Moved(p, None) /\ \A x \in Slots : ~Holds(p, x)'
<1>1. CASE ofile[p] # None
  <2>1. PutAt(p, "end_op") /\ UNCHANGED ofile  BY <1>1 DEF Opened
  <2>2. pc[p] \in AtSteps \ {"namex", "link2", "unlink2", "create3"}  BY DEF AtSteps
  <2> QED BY <2>1, <2>2, PutAtEnd
<1>2. CASE ofile[p] = None
  <2>0. RegType /\ RegsOk(p)  BY DEF FsInv
  <2>a. ofile' = [ofile EXCEPT ![p] = at[p]] /\ at' = [at EXCEPT ![p] = None] /\ Goto(p, "end_op")
    BY <1>2 DEF Opened
  <2> USE DEF Goto
  <2>1. /\ pc'[p] = "end_op" /\ ret'[p] = ret[p] /\ put'[p] = put[p] /\ at'[p] = None
        /\ ofile'[p] = at[p] /\ call'[p] = call[p] /\ path'[p] = path[p]
        /\ cwd'[p] = cwd[p] /\ ip'[p] = ip[p] /\ dp'[p] = dp[p] /\ inum'[p] = inum[p]
    BY <2>0, <2>a DEF RegType
  <2>2. Only(p)  BY <2>0, <2>a DEF Only, Same, RegType
  <2>4. /\ put[p] = None /\ at[p] # None /\ ip[p] = None /\ dp[p] = None /\ inum[p] = 0
        /\ ret[p] = "user" /\ at[p] \in Slots
    BY <2>0 DEF RegsOk, K, AtSteps, DpSteps, Iput, RegType
  <2>3. RegType'  BY <2>0, <2>a, <2>4 DEF RegType, Steps, Iput, Back
  <2>5. RegsOk(p)'  BY <2>1, <2>4, Consts DEF RegsOk, K, AtSteps, DpSteps, Iput, Idle
  <2>6. \A x \in Slots : Own(p, x)' = Own(p, x) + One(None, x)
    BY <1>2, <2>1, <2>4, Consts DEF Own, One
  <2>7. \A x \in Slots : ~Holds(p, x)'  BY <2>1 DEF Holds, K, Iput, DpSteps
  <2> QED BY <2>1, <2>2, <2>3, <2>5, <2>6, <2>7 DEF Moved
<1> QED BY <1>1, <1>2

LEMMA Open1Inv ==
  ASSUME FsInv, NEW p \in Procs, open1(p), made' \in Nat
  PROVE  FsInv'
<1>1. ilock(p, "open1", at[p]) /\ icache' = Seen(icache, at[p], 0) /\ UNCHANGED <<disk, cwd, call, path, ip, dp, inum>>
  BY DEF open1
<1>2. pc[p] = "open1" /\ icache[at[p]].lock = 0 /\ Loaded(at[p]).d.type # "free" /\ pc[p] \in AtSteps
  BY <1>1 DEF ilock, InStep, CanLock, AtSteps
<1>3. at[p] \in Slots /\ icache[at[p]].ref > 0 /\ K(p) = pc[p]  BY <1>2, AtStep
<1>4. Good(icache, dinode)' /\ Effect(at[p], 0, None)  BY <1>1, <1>2, <1>3, EffectSeen DEF disk
<1>5. Moved(p, None) /\ \A x \in Slots : ~Holds(p, x)'
  <2>1. pc[p] \in AtSteps \ {"namex", "link2", "unlink2", "create3"}  BY <1>2 DEF AtSteps
  <2>2. CASE Opened(p)  BY <1>1, <1>2, <2>2, OpenedMoves
  <2>3. CASE PutAt(p, "end_op") /\ UNCHANGED ofile  BY <1>1, <2>1, <2>3, PutAtEnd
  <2> QED BY <2>2, <2>3 DEF open1
<1>6. \A x \in Slots : ~Holds(p, x)  BY <1>2, <1>3, NoLock DEF DpSteps
<1>7. DiskType'  BY <1>1 DEF FsInv, DiskType, disk
<1> QED BY <1>2, <1>4, <1>5, <1>6, <1>7, Consts, StepInv

LEMMA CallFields ==
  ASSUME NEW c \in Calls
  PROVE  /\ c.path \in Seq(Elems) /\ c.new \in Seq(Elems) /\ c.abs \in BOOLEAN
BY FsAssumption DEF CallType

LEMMA ChdirMoves ==
  ASSUME FsInv, NEW p \in Procs, pc[p] = "chdir1", made' \in Nat,
         cwd' = [cwd EXCEPT ![p] = at[p]], at' = [at EXCEPT ![p] = None], Put(p, cwd[p], "end_op"),
         UNCHANGED <<ofile, call, path, ip, dp, inum>>
  PROVE  Moved(p, None) /\ \A x \in Slots : ~Holds(p, x)'
<1> USE DEF Put
<1>0. RegType /\ RegsOk(p)  BY DEF FsInv
<1>1. /\ cwd'[p] = at[p] /\ ofile'[p] = ofile[p] /\ call'[p] = call[p] /\ path'[p] = path[p]
      /\ pc'[p] = "iput" /\ ret'[p] = "end_op" /\ put'[p] = cwd[p] /\ at'[p] = None
      /\ ip'[p] = ip[p] /\ dp'[p] = dp[p] /\ inum'[p] = inum[p]
  BY <1>0 DEF RegType
<1>2. Only(p)  BY <1>0 DEF Only, Same, RegType
<1>3. put[p] = None /\ at[p] \in Slots /\ ip[p] = None /\ dp[p] = None /\ inum[p] = 0 /\ cwd[p] \in Slots
  BY <1>0 DEF RegsOk, K, AtSteps, DpSteps, Iput, Idle, RegType
<1>4. RegType'  BY <1>0, <1>3 DEF RegType, Steps, Iput, Back
<1>5. RegsOk(p)'  BY <1>1, <1>3, Consts DEF RegsOk, K, AtSteps, DpSteps, Iput, Idle
<1>6. \A x \in Slots : Own(p, x)' = Own(p, x) + One(None, x)  BY <1>1, <1>3, Consts DEF Own, One
<1>7. \A x \in Slots : ~Holds(p, x)'  BY <1>1, <1>3 DEF Holds, K, Iput, DpSteps
<1>8. pc'[p] # "free"  BY <1>1, <1>3
<1> QED BY <1>2, <1>4, <1>5, <1>6, <1>7, <1>8 DEF Moved

LEMMA EndMoves ==
  ASSUME FsInv, NEW p \in Procs, pc[p] = "end_op", made' \in Nat,
         call' = [call EXCEPT ![p] = NoCall], path' = [path EXCEPT ![p] = <<>>], Goto(p, "user"),
         UNCHANGED <<cwd, ofile, at, ip, dp, inum>>
  PROVE  Moved(p, None) /\ \A x \in Slots : ~Holds(p, x)'
<1> USE DEF Goto
<1>0. RegType /\ RegsOk(p)  BY DEF FsInv
<1>1. /\ cwd'[p] = cwd[p] /\ ofile'[p] = ofile[p] /\ call'[p] = NoCall /\ path'[p] = <<>>
      /\ pc'[p] = "user" /\ ret'[p] = ret[p] /\ put'[p] = put[p] /\ at'[p] = at[p]
      /\ ip'[p] = ip[p] /\ dp'[p] = dp[p] /\ inum'[p] = inum[p]
  BY <1>0 DEF RegType
<1>2. Only(p)  BY <1>0 DEF Only, Same, RegType
<1>3. put[p] = None /\ at[p] = None /\ ip[p] = None /\ dp[p] = None /\ inum[p] = 0 /\ ret[p] = "user"
  BY <1>0 DEF RegsOk, K, AtSteps, DpSteps, Iput, Idle, RegType
<1>4. RegType'  BY <1>0, <1>3 DEF RegType, Steps, Iput, Back
<1>5. RegsOk(p)'  BY <1>1, <1>3, Consts DEF RegsOk, K, AtSteps, DpSteps, Iput, Idle
<1>6. \A x \in Slots : Own(p, x)' = Own(p, x) + One(None, x)  BY <1>1, <1>3, Consts DEF Own, One
<1>7. \A x \in Slots : ~Holds(p, x)'  BY <1>1, <1>3 DEF Holds, K, Iput, DpSteps
<1>8. pc'[p] # "free"  BY <1>1, <1>3
<1> QED BY <1>2, <1>4, <1>5, <1>6, <1>7, <1>8 DEF Moved

LEMMA FileMoves ==
  ASSUME FsInv, NEW p \in Procs, pc[p] \in {"user", "write", "read", "stat"}, NEW l \in {"user", "write", "read", "stat", "end_op"}, ofile[p] # None, made' \in Nat,
         Goto(p, l),
         UNCHANGED <<cwd, ofile, call, path, at, ip, dp, inum>>
  PROVE  Moved(p, None) /\ \A x \in Slots : ~Holds(p, x)'
<1> USE DEF Goto
<1>0. RegType /\ RegsOk(p)  BY DEF FsInv
<1>1. /\ cwd'[p] = cwd[p] /\ ofile'[p] = ofile[p] /\ call'[p] = call[p] /\ path'[p] = path[p]
      /\ pc'[p] = l /\ ret'[p] = ret[p] /\ put'[p] = put[p] /\ at'[p] = at[p]
      /\ ip'[p] = ip[p] /\ dp'[p] = dp[p] /\ inum'[p] = inum[p]
  BY <1>0 DEF RegType
<1>2. Only(p)  BY <1>0 DEF Only, Same, RegType
<1>3. put[p] = None /\ at[p] = None /\ ip[p] = None /\ dp[p] = None /\ inum[p] = 0 /\ ret[p] = "user"
  BY <1>0 DEF RegsOk, K, AtSteps, DpSteps, Iput, Idle, RegType
<1>4. RegType'  BY <1>0, <1>3 DEF RegType, Steps, Iput, Back
<1>5. RegsOk(p)'  BY <1>1, <1>3, Consts DEF RegsOk, K, AtSteps, DpSteps, Iput, Idle
<1>6. \A x \in Slots : Own(p, x)' = Own(p, x) + One(None, x)  BY <1>1, <1>3, Consts DEF Own, One
<1>7. \A x \in Slots : ~Holds(p, x)'  BY <1>1, <1>3 DEF Holds, K, Iput, DpSteps
<1>8. pc'[p] # "free"  BY <1>1, <1>3
<1> QED BY <1>2, <1>4, <1>5, <1>6, <1>7, <1>8 DEF Moved

LEMMA CloseMoves ==
  ASSUME FsInv, NEW p \in Procs, pc[p] = "user", ofile[p] # None, made' \in Nat,
         Put(p, ofile[p], "end_op"), ofile' = [ofile EXCEPT ![p] = None],
         UNCHANGED <<cwd, call, path, at, ip, dp, inum>>
  PROVE  Moved(p, None) /\ \A x \in Slots : ~Holds(p, x)'
<1> USE DEF Put
<1>0. RegType /\ RegsOk(p)  BY DEF FsInv
<1>1. /\ cwd'[p] = cwd[p] /\ ofile'[p] = None /\ call'[p] = call[p] /\ path'[p] = path[p]
      /\ pc'[p] = "iput" /\ ret'[p] = "end_op" /\ put'[p] = ofile[p] /\ at'[p] = at[p]
      /\ ip'[p] = ip[p] /\ dp'[p] = dp[p] /\ inum'[p] = inum[p]
  BY <1>0 DEF RegType
<1>2. Only(p)  BY <1>0 DEF Only, Same, RegType
<1>3. put[p] = None /\ at[p] = None /\ ip[p] = None /\ dp[p] = None /\ inum[p] = 0 /\ ofile[p] \in Slots
  BY <1>0 DEF RegsOk, K, AtSteps, DpSteps, Iput, Idle, RegType
<1>4. RegType'  BY <1>0, <1>3 DEF RegType, Steps, Iput, Back
<1>5. RegsOk(p)'  BY <1>1, <1>3, Consts DEF RegsOk, K, AtSteps, DpSteps, Iput, Idle
<1>6. \A x \in Slots : Own(p, x)' = Own(p, x) + One(None, x)  BY <1>1, <1>3, Consts DEF Own, One
<1>7. \A x \in Slots : ~Holds(p, x)'  BY <1>1, <1>3 DEF Holds, K, Iput, DpSteps
<1>8. pc'[p] # "free"  BY <1>1, <1>3
<1> QED BY <1>2, <1>4, <1>5, <1>6, <1>7, <1>8 DEF Moved

LEMMA StartMoves ==
  ASSUME FsInv, NEW p \in Procs, pc[p] = "user", NEW c \in Calls, NEW s \in Slots, made' \in Nat,
         call' = [call EXCEPT ![p] = c], path' = [path EXCEPT ![p] = c.path], at' = [at EXCEPT ![p] = s], Goto(p, "namex"),
         UNCHANGED <<cwd, ofile, ip, dp, inum>>
  PROVE  Moved(p, s) /\ \A x \in Slots : ~Holds(p, x)'
<1> USE DEF Goto
<1>0. RegType /\ RegsOk(p)  BY DEF FsInv
<1>1. /\ cwd'[p] = cwd[p] /\ ofile'[p] = ofile[p] /\ call'[p] = c /\ path'[p] = c.path
      /\ pc'[p] = "namex" /\ ret'[p] = ret[p] /\ put'[p] = put[p] /\ at'[p] = s
      /\ ip'[p] = ip[p] /\ dp'[p] = dp[p] /\ inum'[p] = inum[p]
  BY <1>0 DEF RegType
<1>2. Only(p)  BY <1>0 DEF Only, Same, RegType
<1>3. put[p] = None /\ at[p] = None /\ ip[p] = None /\ dp[p] = None /\ inum[p] = 0 /\ ret[p] = "user"
  BY <1>0 DEF RegsOk, K, AtSteps, DpSteps, Iput, Idle, RegType
<1>4. RegType'  BY <1>0, <1>3, CallFields DEF RegType, Steps, Iput, Back
<1>5. RegsOk(p)'  BY <1>1, <1>3, Consts, CallFields DEF RegsOk, K, AtSteps, DpSteps, Iput, Idle
<1>6. \A x \in Slots : Own(p, x)' = Own(p, x) + One(s, x)  BY <1>1, <1>3, Consts DEF Own, One
<1>7. \A x \in Slots : ~Holds(p, x)'  BY <1>1, <1>3 DEF Holds, K, Iput, DpSteps
<1>8. pc'[p] # "free"  BY <1>1, <1>3
<1> QED BY <1>2, <1>4, <1>5, <1>6, <1>7, <1>8 DEF Moved

LEMMA Begin2Moves ==
  ASSUME FsInv, NEW p \in Procs, pc[p] = "begin2", NEW s \in Slots, made' \in Nat,
         at' = [at EXCEPT ![p] = s], Goto(p, "namex"),
         UNCHANGED <<cwd, ofile, call, path, ip, dp, inum>>
  PROVE  Moved(p, s) /\ \A x \in Slots : ~Holds(p, x)'
<1> USE DEF Goto
<1>0. RegType /\ RegsOk(p)  BY DEF FsInv
<1>1. /\ cwd'[p] = cwd[p] /\ ofile'[p] = ofile[p] /\ call'[p] = call[p] /\ path'[p] = path[p]
      /\ pc'[p] = "namex" /\ ret'[p] = ret[p] /\ put'[p] = put[p] /\ at'[p] = s
      /\ ip'[p] = ip[p] /\ dp'[p] = dp[p] /\ inum'[p] = inum[p]
  BY <1>0 DEF RegType
<1>2. Only(p)  BY <1>0 DEF Only, Same, RegType
<1>3. /\ put[p] = None /\ at[p] = None /\ ip[p] # None /\ dp[p] = None /\ inum[p] = 0 /\ ret[p] = "user"
      /\ call[p] \in Calls /\ call[p].op = "link"
  BY <1>0 DEF RegsOk, K, AtSteps, DpSteps, Iput, Idle, RegType
<1>4. RegType'  BY <1>0, <1>3 DEF RegType, Steps, Iput, Back
<1>5. RegsOk(p)'  BY <1>1, <1>3, Consts DEF RegsOk, K, AtSteps, DpSteps, Iput, Idle
<1>6. \A x \in Slots : Own(p, x)' = Own(p, x) + One(s, x)  BY <1>1, <1>3, Consts DEF Own, One
<1>7. \A x \in Slots : ~Holds(p, x)'  BY <1>1, <1>3 DEF Holds, K, Iput, DpSteps
<1>8. pc'[p] # "free"  BY <1>1, <1>3
<1> QED BY <1>2, <1>4, <1>5, <1>6, <1>7, <1>8 DEF Moved

LEMMA Link1Moves ==
  ASSUME FsInv, NEW p \in Procs, pc[p] = "link1", made' \in Nat,
         ip' = [ip EXCEPT ![p] = at[p]], at' = [at EXCEPT ![p] = None], path' = [path EXCEPT ![p] = call[p].new], Goto(p, "begin2"),
         UNCHANGED <<cwd, ofile, call, dp, inum>>
  PROVE  Moved(p, None) /\ \A x \in Slots : ~Holds(p, x)'
<1> USE DEF Goto
<1>0. RegType /\ RegsOk(p)  BY DEF FsInv
<1>1. /\ cwd'[p] = cwd[p] /\ ofile'[p] = ofile[p] /\ call'[p] = call[p] /\ path'[p] = call[p].new
      /\ pc'[p] = "begin2" /\ ret'[p] = ret[p] /\ put'[p] = put[p] /\ at'[p] = None
      /\ ip'[p] = at[p] /\ dp'[p] = dp[p] /\ inum'[p] = inum[p]
  BY <1>0 DEF RegType
<1>2. Only(p)  BY <1>0 DEF Only, Same, RegType
<1>3. /\ put[p] = None /\ at[p] \in Slots /\ ip[p] = None /\ dp[p] = None /\ inum[p] = 0 /\ ret[p] = "user"
      /\ call[p] \in Calls /\ call[p].op = "link"
  BY <1>0 DEF RegsOk, K, AtSteps, DpSteps, Iput, Idle, RegType
<1>4. RegType'  BY <1>0, <1>3, CallFields DEF RegType, Steps, Iput, Back
<1>5. RegsOk(p)'  BY <1>1, <1>3, Consts, CallFields DEF RegsOk, K, AtSteps, DpSteps, Iput, Idle
<1>6. \A x \in Slots : Own(p, x)' = Own(p, x) + One(None, x)  BY <1>1, <1>3, Consts DEF Own, One
<1>7. \A x \in Slots : ~Holds(p, x)'  BY <1>1, <1>3 DEF Holds, K, Iput, DpSteps
<1>8. pc'[p] # "free"  BY <1>1, <1>3
<1> QED BY <1>2, <1>4, <1>5, <1>6, <1>7, <1>8 DEF Moved

LEMMA ResultIs ==
  ASSUME NEW p
  PROVE  \/ ip[p] # None /\ Result(p) = "link2"
         \/ ip[p] = None /\ Result(p) \in {"open1", "chdir1", "create1"}
         \/ ip[p] = None /\ Result(p) = "unlink1" /\ call[p].op = "unlink"
         \/ ip[p] = None /\ Result(p) = "link1" /\ call[p].op = "link"
BY DEF Result, First

LEMMA PathTail ==
  ASSUME RegType, NEW p \in Procs, path[p] # <<>>
  PROVE  Tail(path[p]) \in Seq(Elems) /\ Head(path[p]) \in Elems /\ (Len(path[p]) # 1 => Tail(path[p]) # <<>>)
<1>1. path[p] \in Seq(Elems)  BY DEF RegType
<1>2. Tail(path[p]) \in Seq(Elems) /\ Head(path[p]) \in Elems /\ Len(Tail(path[p])) = Len(path[p]) - 1
  BY <1>1, HeadTailProperties
<1>3. Len(path[p]) # 0 /\ Len(path[p]) \in Nat  BY <1>1, EmptySeq
<1>4. Len(path[p]) # 1 => Tail(path[p]) # <<>>
  <2> SUFFICES ASSUME Len(path[p]) # 1, Tail(path[p]) = <<>> PROVE FALSE  OBVIOUS
  <2>1. Len(Tail(path[p])) = 0  BY EmptySeq
  <2> QED BY <1>2, <1>3, <2>1
<1> QED BY <1>2, <1>4

LEMMA NamexParentMoves ==
  ASSUME FsInv, NEW p \in Procs, pc[p] = "namex", path[p] # <<>> \/ ~nameiparent(p), made' \in Nat,
         Goto(p, Result(p)),
         UNCHANGED <<cwd, ofile, call, path, at, ip, dp, inum>>
  PROVE  Moved(p, None) /\ \A x \in Slots : ~Holds(p, x)'
<1> USE DEF Goto
<1>0. RegType /\ RegsOk(p)  BY DEF FsInv
<1>1. /\ cwd'[p] = cwd[p] /\ ofile'[p] = ofile[p] /\ call'[p] = call[p] /\ path'[p] = path[p]
      /\ pc'[p] = Result(p) /\ ret'[p] = ret[p] /\ put'[p] = put[p] /\ at'[p] = at[p]
      /\ ip'[p] = ip[p] /\ dp'[p] = dp[p] /\ inum'[p] = inum[p]
  BY <1>0 DEF RegType
<1>2. Only(p)  BY <1>0 DEF Only, Same, RegType
<1>3. /\ put[p] = None /\ at[p] \in Slots /\ dp[p] = None /\ inum[p] = 0 /\ ret[p] = "user"
      /\ call[p] \in Calls /\ (ip[p] # None => call[p].op = "link") /\ ip[p] \in Slots \union {None}
  BY <1>0 DEF RegsOk, K, AtSteps, DpSteps, Iput, Idle, RegType
<1>9. Result(p) \in {"link2", "unlink1", "create1"} => path[p] # <<>>  BY DEF nameiparent
<1>4. RegType'  BY <1>0, <1>3, ResultIs DEF RegType, Steps, Iput, Back
<1>5. RegsOk(p)'  BY <1>1, <1>3, <1>9, Consts, ResultIs DEF RegsOk, K, AtSteps, DpSteps, Iput, Idle
<1>6. \A x \in Slots : Own(p, x)' = Own(p, x) + One(None, x)  BY <1>1, <1>3, Consts DEF Own, One
<1>7. \A x \in Slots : ~Holds(p, x)'  BY <1>1, <1>3, ResultIs DEF Holds, K, Iput, DpSteps
<1>8. pc'[p] # "free"  BY <1>1, <1>3, ResultIs
<1> QED BY <1>2, <1>4, <1>5, <1>6, <1>7, <1>8 DEF Moved

LEMMA NamexFailMoves ==
  ASSUME FsInv, NEW p \in Procs, pc[p] = "namex", made' \in Nat,
         NotFound(p),
         UNCHANGED <<cwd, ofile, call, path, dp, inum>>
  PROVE  Moved(p, None) /\ \A x \in Slots : ~Holds(p, x)'
<1> USE DEF Put, NotFound
<1>0. RegType /\ RegsOk(p)  BY DEF FsInv
<1>1. /\ cwd'[p] = cwd[p] /\ ofile'[p] = ofile[p] /\ call'[p] = call[p] /\ path'[p] = path[p]
      /\ pc'[p] = "iput" /\ ret'[p] = (IF ip[p] # None THEN "linkbad" ELSE "end_op") /\ put'[p] = at[p] /\ at'[p] = ip[p]
      /\ ip'[p] = None /\ dp'[p] = dp[p] /\ inum'[p] = inum[p]
  BY <1>0 DEF RegType
<1>2. Only(p)  BY <1>0 DEF Only, Same, RegType
<1>3. /\ put[p] = None /\ at[p] \in Slots /\ dp[p] = None /\ inum[p] = 0 /\ ret[p] = "user"
      /\ call[p] \in Calls /\ (ip[p] # None => call[p].op = "link") /\ ip[p] \in Slots \union {None}
  BY <1>0 DEF RegsOk, K, AtSteps, DpSteps, Iput, Idle, RegType
<1>4. RegType'  BY <1>0, <1>3 DEF RegType, Steps, Iput, Back
<1>5. RegsOk(p)'  BY <1>1, <1>3, Consts DEF RegsOk, K, AtSteps, DpSteps, Iput, Idle
<1>6. \A x \in Slots : Own(p, x)' = Own(p, x) + One(None, x)  BY <1>1, <1>3, Consts DEF Own, One
<1>7. \A x \in Slots : ~Holds(p, x)'  BY <1>1, <1>3 DEF Holds, K, Iput, DpSteps
<1>8. pc'[p] # "free"  BY <1>1, <1>3
<1> QED BY <1>2, <1>4, <1>5, <1>6, <1>7, <1>8 DEF Moved

LEMMA NamexDownMoves ==
  ASSUME FsInv, NEW p \in Procs, pc[p] = "namex", path[p] # <<>>, ~AtParent(p), NEW s \in Slots, made' \in Nat,
         path' = [path EXCEPT ![p] = Tail(@)], at' = [at EXCEPT ![p] = s], Put(p, at[p], IF Len(path[p]) = 1 THEN Result(p) ELSE "namex"),
         UNCHANGED <<cwd, ofile, call, ip, dp, inum>>
  PROVE  Moved(p, s) /\ \A x \in Slots : ~Holds(p, x)'
<1> USE DEF Put
<1>0. RegType /\ RegsOk(p)  BY DEF FsInv
<1>1. /\ cwd'[p] = cwd[p] /\ ofile'[p] = ofile[p] /\ call'[p] = call[p] /\ path'[p] = Tail(path[p])
      /\ pc'[p] = "iput" /\ ret'[p] = (IF Len(path[p]) = 1 THEN Result(p) ELSE "namex") /\ put'[p] = at[p] /\ at'[p] = s
      /\ ip'[p] = ip[p] /\ dp'[p] = dp[p] /\ inum'[p] = inum[p]
  BY <1>0 DEF RegType
<1>2. Only(p)  BY <1>0 DEF Only, Same, RegType
<1>3. /\ put[p] = None /\ at[p] \in Slots /\ dp[p] = None /\ inum[p] = 0 /\ ret[p] = "user"
      /\ path[p] # <<>> /\ call[p] \in Calls /\ (ip[p] # None => call[p].op = "link") /\ ip[p] \in Slots \union {None}
  BY <1>0 DEF RegsOk, K, AtSteps, DpSteps, Iput, Idle, RegType
<1>9. /\ Tail(path[p]) \in Seq(Elems) /\ (Len(path[p]) # 1 => Tail(path[p]) # <<>>)
      /\ Len(path[p]) = 1 => Result(p) \in {"open1", "link1", "chdir1"}
  BY <1>0, <1>3, PathTail, ResultIs DEF AtParent, nameiparent
<1>4. RegType'  BY <1>0, <1>3, <1>9, ResultIs DEF RegType, Steps, Iput, Back
<1>5. RegsOk(p)'  BY <1>1, <1>3, Consts, <1>9, ResultIs DEF RegsOk, K, AtSteps, DpSteps, Iput, Idle
<1>6. \A x \in Slots : Own(p, x)' = Own(p, x) + One(s, x)  BY <1>1, <1>3, Consts DEF Own, One
<1>7. \A x \in Slots : ~Holds(p, x)'  BY <1>1, <1>3, <1>9, ResultIs DEF Holds, K, Iput, DpSteps
<1>8. pc'[p] # "free"  BY <1>1, <1>3, <1>9, ResultIs
<1> QED BY <1>2, <1>4, <1>5, <1>6, <1>7, <1>8 DEF Moved

LEMMA Link2FailMoves ==
  ASSUME FsInv, NEW p \in Procs, pc[p] = "link2", NEW s \in Slots, made' \in Nat,
         dp' = [dp EXCEPT ![p] = at[p]], Put(p, s, "unlockdp"), at' = [at EXCEPT ![p] = ip[p]], ip' = [ip EXCEPT ![p] = None],
         UNCHANGED <<cwd, ofile, call, path, inum>>
  PROVE  Moved(p, s)
<1> USE DEF Put
<1>0. RegType /\ RegsOk(p)  BY DEF FsInv
<1>1. /\ cwd'[p] = cwd[p] /\ ofile'[p] = ofile[p] /\ call'[p] = call[p] /\ path'[p] = path[p]
      /\ pc'[p] = "iput" /\ ret'[p] = "unlockdp" /\ put'[p] = s /\ at'[p] = ip[p]
      /\ ip'[p] = None /\ dp'[p] = at[p] /\ inum'[p] = inum[p]
  BY <1>0 DEF RegType
<1>2. Only(p)  BY <1>0 DEF Only, Same, RegType
<1>3. /\ put[p] = None /\ at[p] \in Slots /\ ip[p] \in Slots /\ dp[p] = None /\ inum[p] = 0 /\ ret[p] = "user"
      /\ path[p] # <<>> /\ call[p] \in Calls /\ call[p].op = "link"
  BY <1>0 DEF RegsOk, K, AtSteps, DpSteps, Iput, Idle, RegType
<1>4. RegType'  BY <1>0, <1>3 DEF RegType, Steps, Iput, Back
<1>5. RegsOk(p)'  BY <1>1, <1>3, Consts DEF RegsOk, K, AtSteps, DpSteps, Iput, Idle
<1>6. \A x \in Slots : Own(p, x)' = Own(p, x) + One(s, x)  BY <1>1, <1>3, Consts DEF Own, One
<1>8. pc'[p] # "free"  BY <1>1, <1>3
<1> QED BY <1>2, <1>4, <1>5, <1>6, <1>8 DEF Moved

LEMMA Link2Moves ==
  ASSUME FsInv, NEW p \in Procs, pc[p] = "link2", made' \in Nat,
         Put(p, at[p], "link3"), at' = [at EXCEPT ![p] = ip[p]], ip' = [ip EXCEPT ![p] = None],
         UNCHANGED <<cwd, ofile, call, path, dp, inum>>
  PROVE  Moved(p, None) /\ \A x \in Slots : ~Holds(p, x)'
<1> USE DEF Put
<1>0. RegType /\ RegsOk(p)  BY DEF FsInv
<1>1. /\ cwd'[p] = cwd[p] /\ ofile'[p] = ofile[p] /\ call'[p] = call[p] /\ path'[p] = path[p]
      /\ pc'[p] = "iput" /\ ret'[p] = "link3" /\ put'[p] = at[p] /\ at'[p] = ip[p]
      /\ ip'[p] = None /\ dp'[p] = dp[p] /\ inum'[p] = inum[p]
  BY <1>0 DEF RegType
<1>2. Only(p)  BY <1>0 DEF Only, Same, RegType
<1>3. /\ put[p] = None /\ at[p] \in Slots /\ ip[p] \in Slots /\ dp[p] = None /\ inum[p] = 0 /\ ret[p] = "user"
      /\ path[p] # <<>> /\ call[p] \in Calls /\ call[p].op = "link"
  BY <1>0 DEF RegsOk, K, AtSteps, DpSteps, Iput, Idle, RegType
<1>4. RegType'  BY <1>0, <1>3 DEF RegType, Steps, Iput, Back
<1>5. RegsOk(p)'  BY <1>1, <1>3, Consts DEF RegsOk, K, AtSteps, DpSteps, Iput, Idle
<1>6. \A x \in Slots : Own(p, x)' = Own(p, x) + One(None, x)  BY <1>1, <1>3, Consts DEF Own, One
<1>7. \A x \in Slots : ~Holds(p, x)'  BY <1>1, <1>3 DEF Holds, K, Iput, DpSteps
<1>8. pc'[p] # "free"  BY <1>1, <1>3
<1> QED BY <1>2, <1>4, <1>5, <1>6, <1>7, <1>8 DEF Moved

LEMMA UnlockDpMoves ==
  ASSUME FsInv, NEW p \in Procs, pc[p] = "unlockdp", made' \in Nat,
         dp' = [dp EXCEPT ![p] = None], Put(p, dp[p], IF at[p] # None THEN "linkbad" ELSE "end_op"),
         UNCHANGED <<cwd, ofile, call, path, at, ip, inum>>
  PROVE  Moved(p, None) /\ \A x \in Slots : ~Holds(p, x)'
<1> USE DEF Put
<1>0. RegType /\ RegsOk(p)  BY DEF FsInv
<1>1. /\ cwd'[p] = cwd[p] /\ ofile'[p] = ofile[p] /\ call'[p] = call[p] /\ path'[p] = path[p]
      /\ pc'[p] = "iput" /\ ret'[p] = (IF at[p] # None THEN "linkbad" ELSE "end_op") /\ put'[p] = dp[p] /\ at'[p] = at[p]
      /\ ip'[p] = ip[p] /\ dp'[p] = None /\ inum'[p] = inum[p]
  BY <1>0 DEF RegType
<1>2. Only(p)  BY <1>0 DEF Only, Same, RegType
<1>3. /\ put[p] = None /\ dp[p] \in Slots /\ ip[p] = None /\ inum[p] = 0 /\ call[p] \in Calls /\ at[p] \in Slots \union {None}
  BY <1>0 DEF RegsOk, K, AtSteps, DpSteps, Iput, Idle, RegType
<1>4. RegType'  BY <1>0, <1>3 DEF RegType, Steps, Iput, Back
<1>5. RegsOk(p)'  BY <1>1, <1>3, Consts DEF RegsOk, K, AtSteps, DpSteps, Iput, Idle
<1>6. \A x \in Slots : Own(p, x)' = Own(p, x) + One(None, x)  BY <1>1, <1>3, Consts DEF Own, One
<1>7. \A x \in Slots : ~Holds(p, x)'  BY <1>1, <1>3 DEF Holds, K, Iput, DpSteps
<1>8. pc'[p] # "free"  BY <1>1, <1>3
<1> QED BY <1>2, <1>4, <1>5, <1>6, <1>7, <1>8 DEF Moved

LEMMA Unlink1Moves ==
  ASSUME FsInv, NEW p \in Procs, pc[p] = "unlink1", NEW s \in Slots, made' \in Nat,
         dp' = [dp EXCEPT ![p] = at[p]], at' = [at EXCEPT ![p] = s], Goto(p, "unlink2"),
         UNCHANGED <<cwd, ofile, call, path, ip, inum>>
  PROVE  Moved(p, s)
<1> USE DEF Goto
<1>0. RegType /\ RegsOk(p)  BY DEF FsInv
<1>1. /\ cwd'[p] = cwd[p] /\ ofile'[p] = ofile[p] /\ call'[p] = call[p] /\ path'[p] = path[p]
      /\ pc'[p] = "unlink2" /\ ret'[p] = ret[p] /\ put'[p] = put[p] /\ at'[p] = s
      /\ ip'[p] = ip[p] /\ dp'[p] = at[p] /\ inum'[p] = inum[p]
  BY <1>0 DEF RegType
<1>2. Only(p)  BY <1>0 DEF Only, Same, RegType
<1>3. /\ put[p] = None /\ at[p] \in Slots /\ ip[p] = None /\ dp[p] = None /\ inum[p] = 0 /\ ret[p] = "user"
      /\ path[p] # <<>> /\ call[p] \in Calls /\ call[p].op = "unlink"
  BY <1>0 DEF RegsOk, K, AtSteps, DpSteps, Iput, Idle, RegType
<1>4. RegType'  BY <1>0, <1>3 DEF RegType, Steps, Iput, Back
<1>5. RegsOk(p)'  BY <1>1, <1>3, Consts DEF RegsOk, K, AtSteps, DpSteps, Iput, Idle
<1>6. \A x \in Slots : Own(p, x)' = Own(p, x) + One(s, x)  BY <1>1, <1>3, Consts DEF Own, One
<1>8. pc'[p] # "free"  BY <1>1, <1>3
<1> QED BY <1>2, <1>4, <1>5, <1>6, <1>8 DEF Moved

LEMMA Unlink2FailMoves ==
  ASSUME FsInv, NEW p \in Procs, pc[p] = "unlink2", made' \in Nat,
         PutAt(p, "unlockdp"),
         UNCHANGED <<cwd, ofile, call, path, ip, dp, inum>>
  PROVE  Moved(p, None)
<1> USE DEF PutAt, Put
<1>0. RegType /\ RegsOk(p)  BY DEF FsInv
<1>1. /\ cwd'[p] = cwd[p] /\ ofile'[p] = ofile[p] /\ call'[p] = call[p] /\ path'[p] = path[p]
      /\ pc'[p] = "iput" /\ ret'[p] = "unlockdp" /\ put'[p] = at[p] /\ at'[p] = None
      /\ ip'[p] = ip[p] /\ dp'[p] = dp[p] /\ inum'[p] = inum[p]
  BY <1>0 DEF RegType
<1>2. Only(p)  BY <1>0 DEF Only, Same, RegType
<1>3. /\ put[p] = None /\ at[p] \in Slots /\ ip[p] = None /\ dp[p] \in Slots /\ inum[p] = 0
      /\ path[p] # <<>> /\ call[p] \in Calls /\ call[p].op = "unlink"
  BY <1>0 DEF RegsOk, K, AtSteps, DpSteps, Iput, Idle, RegType
<1>4. RegType'  BY <1>0, <1>3 DEF RegType, Steps, Iput, Back
<1>5. RegsOk(p)'  BY <1>1, <1>3, Consts DEF RegsOk, K, AtSteps, DpSteps, Iput, Idle
<1>6. \A x \in Slots : Own(p, x)' = Own(p, x) + One(None, x)  BY <1>1, <1>3, Consts DEF Own, One
<1>8. pc'[p] # "free"  BY <1>1, <1>3
<1> QED BY <1>2, <1>4, <1>5, <1>6, <1>8 DEF Moved

LEMMA Unlink2Moves ==
  ASSUME FsInv, NEW p \in Procs, pc[p] = "unlink2", made' \in Nat,
         dp' = [dp EXCEPT ![p] = None], Put(p, dp[p], "unlink3"),
         UNCHANGED <<cwd, ofile, call, path, at, ip, inum>>
  PROVE  Moved(p, None)
<1> USE DEF Put
<1>0. RegType /\ RegsOk(p)  BY DEF FsInv
<1>1. /\ cwd'[p] = cwd[p] /\ ofile'[p] = ofile[p] /\ call'[p] = call[p] /\ path'[p] = path[p]
      /\ pc'[p] = "iput" /\ ret'[p] = "unlink3" /\ put'[p] = dp[p] /\ at'[p] = at[p]
      /\ ip'[p] = ip[p] /\ dp'[p] = None /\ inum'[p] = inum[p]
  BY <1>0 DEF RegType
<1>2. Only(p)  BY <1>0 DEF Only, Same, RegType
<1>3. /\ put[p] = None /\ at[p] \in Slots /\ ip[p] = None /\ dp[p] \in Slots /\ inum[p] = 0
      /\ path[p] # <<>> /\ call[p] \in Calls
  BY <1>0 DEF RegsOk, K, AtSteps, DpSteps, Iput, Idle, RegType
<1>4. RegType'  BY <1>0, <1>3 DEF RegType, Steps, Iput, Back
<1>5. RegsOk(p)'  BY <1>1, <1>3, Consts DEF RegsOk, K, AtSteps, DpSteps, Iput, Idle
<1>6. \A x \in Slots : Own(p, x)' = Own(p, x) + One(None, x)  BY <1>1, <1>3, Consts DEF Own, One
<1>8. pc'[p] # "free"  BY <1>1, <1>3
<1> QED BY <1>2, <1>4, <1>5, <1>6, <1>8 DEF Moved

LEMMA Create1FoundMoves ==
  ASSUME FsInv, NEW p \in Procs, pc[p] = "create1", NEW s \in Slots, made' \in Nat,
         at' = [at EXCEPT ![p] = s], Put(p, at[p], "create2"),
         UNCHANGED <<cwd, ofile, call, path, ip, dp, inum>>
  PROVE  Moved(p, s) /\ \A x \in Slots : ~Holds(p, x)'
<1> USE DEF Put
<1>0. RegType /\ RegsOk(p)  BY DEF FsInv
<1>1. /\ cwd'[p] = cwd[p] /\ ofile'[p] = ofile[p] /\ call'[p] = call[p] /\ path'[p] = path[p]
      /\ pc'[p] = "iput" /\ ret'[p] = "create2" /\ put'[p] = at[p] /\ at'[p] = s
      /\ ip'[p] = ip[p] /\ dp'[p] = dp[p] /\ inum'[p] = inum[p]
  BY <1>0 DEF RegType
<1>2. Only(p)  BY <1>0 DEF Only, Same, RegType
<1>3. /\ put[p] = None /\ at[p] \in Slots /\ ip[p] = None /\ dp[p] = None /\ inum[p] = 0 /\ ret[p] = "user"
      /\ path[p] # <<>> /\ call[p] \in Calls
  BY <1>0 DEF RegsOk, K, AtSteps, DpSteps, Iput, Idle, RegType
<1>4. RegType'  BY <1>0, <1>3 DEF RegType, Steps, Iput, Back
<1>5. RegsOk(p)'  BY <1>1, <1>3, Consts DEF RegsOk, K, AtSteps, DpSteps, Iput, Idle
<1>6. \A x \in Slots : Own(p, x)' = Own(p, x) + One(s, x)  BY <1>1, <1>3, Consts DEF Own, One
<1>7. \A x \in Slots : ~Holds(p, x)'  BY <1>1, <1>3 DEF Holds, K, Iput, DpSteps
<1>8. pc'[p] # "free"  BY <1>1, <1>3
<1> QED BY <1>2, <1>4, <1>5, <1>6, <1>7, <1>8 DEF Moved

LEMMA Create1Moves ==
  ASSUME FsInv, NEW p \in Procs, pc[p] = "create1", NEW n \in Inums, made' \in Nat,
         dp' = [dp EXCEPT ![p] = at[p]], at' = [at EXCEPT ![p] = None], inum' = [inum EXCEPT ![p] = n], Goto(p, "ialloc"),
         UNCHANGED <<cwd, ofile, call, path, ip>>
  PROVE  Moved(p, None)
<1> USE DEF Goto
<1>0. RegType /\ RegsOk(p)  BY DEF FsInv
<1>1. /\ cwd'[p] = cwd[p] /\ ofile'[p] = ofile[p] /\ call'[p] = call[p] /\ path'[p] = path[p]
      /\ pc'[p] = "ialloc" /\ ret'[p] = ret[p] /\ put'[p] = put[p] /\ at'[p] = None
      /\ ip'[p] = ip[p] /\ dp'[p] = at[p] /\ inum'[p] = n
  BY <1>0 DEF RegType
<1>2. Only(p)  BY <1>0 DEF Only, Same, RegType
<1>3. /\ put[p] = None /\ at[p] \in Slots /\ ip[p] = None /\ dp[p] = None /\ inum[p] = 0 /\ ret[p] = "user"
      /\ path[p] # <<>> /\ call[p] \in Calls
  BY <1>0 DEF RegsOk, K, AtSteps, DpSteps, Iput, Idle, RegType
<1>4. RegType'  BY <1>0, <1>3 DEF RegType, Steps, Iput, Back
<1>5. RegsOk(p)'  BY <1>1, <1>3, Consts DEF RegsOk, K, AtSteps, DpSteps, Iput, Idle
<1>6. \A x \in Slots : Own(p, x)' = Own(p, x) + One(None, x)  BY <1>1, <1>3, Consts DEF Own, One
<1>8. pc'[p] # "free"  BY <1>1, <1>3
<1> QED BY <1>2, <1>4, <1>5, <1>6, <1>8 DEF Moved

LEMMA IallocMoves ==
  ASSUME FsInv, NEW p \in Procs, pc[p] = "ialloc", NEW s \in Slots, made' \in Nat,
         at' = [at EXCEPT ![p] = s], inum' = [inum EXCEPT ![p] = 0], Goto(p, "create3"),
         UNCHANGED <<cwd, ofile, call, path, ip, dp>>
  PROVE  Moved(p, s)
<1> USE DEF Goto
<1>0. RegType /\ RegsOk(p)  BY DEF FsInv
<1>1. /\ cwd'[p] = cwd[p] /\ ofile'[p] = ofile[p] /\ call'[p] = call[p] /\ path'[p] = path[p]
      /\ pc'[p] = "create3" /\ ret'[p] = ret[p] /\ put'[p] = put[p] /\ at'[p] = s
      /\ ip'[p] = ip[p] /\ dp'[p] = dp[p] /\ inum'[p] = 0
  BY <1>0 DEF RegType
<1>2. Only(p)  BY <1>0 DEF Only, Same, RegType
<1>3. /\ put[p] = None /\ at[p] = None /\ ip[p] = None /\ dp[p] \in Slots /\ inum[p] \in Inums /\ ret[p] = "user"
      /\ path[p] # <<>> /\ call[p] \in Calls
  BY <1>0 DEF RegsOk, K, AtSteps, DpSteps, Iput, Idle, RegType
<1>4. RegType'  BY <1>0, <1>3 DEF RegType, Steps, Iput, Back
<1>5. RegsOk(p)'  BY <1>1, <1>3, Consts DEF RegsOk, K, AtSteps, DpSteps, Iput, Idle
<1>6. \A x \in Slots : Own(p, x)' = Own(p, x) + One(s, x)  BY <1>1, <1>3, Consts DEF Own, One
<1>8. pc'[p] # "free"  BY <1>1, <1>3
<1> QED BY <1>2, <1>4, <1>5, <1>6, <1>8 DEF Moved

LEMMA Create3Moves ==
  ASSUME FsInv, NEW p \in Procs, pc[p] = "create3", made' \in Nat,
         dp' = [dp EXCEPT ![p] = None], Put(p, dp[p], "create4"),
         UNCHANGED <<cwd, ofile, call, path, at, ip, inum>>
  PROVE  Moved(p, None)
<1> USE DEF Put
<1>0. RegType /\ RegsOk(p)  BY DEF FsInv
<1>1. /\ cwd'[p] = cwd[p] /\ ofile'[p] = ofile[p] /\ call'[p] = call[p] /\ path'[p] = path[p]
      /\ pc'[p] = "iput" /\ ret'[p] = "create4" /\ put'[p] = dp[p] /\ at'[p] = at[p]
      /\ ip'[p] = ip[p] /\ dp'[p] = None /\ inum'[p] = inum[p]
  BY <1>0 DEF RegType
<1>2. Only(p)  BY <1>0 DEF Only, Same, RegType
<1>3. /\ put[p] = None /\ at[p] \in Slots /\ ip[p] = None /\ dp[p] \in Slots /\ inum[p] = 0
      /\ path[p] # <<>> /\ call[p] \in Calls
  BY <1>0 DEF RegsOk, K, AtSteps, DpSteps, Iput, Idle, RegType
<1>4. RegType'  BY <1>0, <1>3 DEF RegType, Steps, Iput, Back
<1>5. RegsOk(p)'  BY <1>1, <1>3, Consts DEF RegsOk, K, AtSteps, DpSteps, Iput, Idle
<1>6. \A x \in Slots : Own(p, x)' = Own(p, x) + One(None, x)  BY <1>1, <1>3, Consts DEF Own, One
<1>8. pc'[p] # "free"  BY <1>1, <1>3
<1> QED BY <1>2, <1>4, <1>5, <1>6, <1>8 DEF Moved

-----------------------------------------------------------------------------
LEMMA InodeFields ==
  ASSUME NEW d \in Inode
  PROVE  /\ d.type \in {"free", "file", "dir", "dev"} /\ d.nlink \in Int /\ d.size \in 0 .. MAXFILE
         /\ d.addrs \in [0 .. NDIRECT -> {0} \union Blocks]
BY DEF Inode

LEMMA BlockFields ==
  ASSUME data \in [Blocks -> Block], NEW b \in Blocks
  PROVE  /\ data[b] \in Block /\ data[b].ents \in [Elems -> {0} \union Inums]
         /\ data[b].a \in [0 .. NINDIRECT - 1 -> {0} \union Blocks]
BY DEF Block

LEMMA LookupType ==
  ASSUME FsInv, NEW i \in Inums, NEW e \in Elems
  PROVE  dirlookup(dinode[i], e) \in {0} \union Inums
<1> DEFINE d == dinode[i]
<1>1. d \in Inode /\ Headed(d)  BY DEF FsInv, Good, DiskType
<1>2. d.size \in 0 .. MAXFILE /\ d.addrs[0] \in {0} \union Blocks
  <2>1. 0 \in 0 .. NDIRECT  BY Consts
  <2> QED BY <1>1, <2>1, InodeFields
<1>3. CASE d.size = 0  BY <1>3 DEF dirlookup
<1>4. CASE d.size # 0
  <2>1. d.addrs[0] \in Blocks  BY <1>1, <1>2, <1>4, Consts DEF Headed, MAXFILE
  <2>2. data[d.addrs[0]].ents \in [Elems -> {0} \union Inums]  BY <2>1, BlockFields DEF FsInv, DiskType
  <2> QED BY <1>4, <2>2 DEF dirlookup
<1> QED BY <1>3, <1>4

EntrySet(dt, d, e, i, du) ==
  /\ du \in [Blocks -> Block]
  /\ \A c \in Blocks : du[c].a = dt[c].a
  /\ \A c \in Blocks : c # d.addrs[0] => du[c] = dt[c]
  /\ d.addrs[0] \in Blocks => du[d.addrs[0]].ents = [dt[d.addrs[0]].ents EXCEPT ![e] = i]
LEMMA SetEntryIs ==
  ASSUME NEW dt \in [Blocks -> Block], NEW d, NEW e \in Elems, NEW i \in {0} \union Inums
  PROVE  EntrySet(dt, d, e, i, SetEntry(dt, d, e, i))
<1>0. PICK b : b = d.addrs[0]  OBVIOUS
<1>1. SetEntry(dt, d, e, i) = [dt EXCEPT ![b].ents[e] = i]  BY <1>0 DEF SetEntry
<1>2. CASE b \in Blocks
  <2>1. dt[b] \in Block /\ dt[b].ents \in [Elems -> {0} \union Inums]  BY <1>2 DEF Block
  <2>2. [dt[b].ents EXCEPT ![e] = i] \in [Elems -> {0} \union Inums]  BY <2>1
  <2>3. /\ [dt[b] EXCEPT !.ents[e] = i] \in Block /\ [dt[b] EXCEPT !.ents[e] = i].a = dt[b].a
        /\ [dt[b] EXCEPT !.ents[e] = i].ents = [dt[b].ents EXCEPT ![e] = i]
    BY <2>1, <2>2 DEF Block
  <2>4. [dt EXCEPT ![b].ents[e] = i] = [dt EXCEPT ![b] = [dt[b] EXCEPT !.ents[e] = i]]  BY <1>2
  <2> HIDE DEF SetEntry
  <2> QED BY <1>0, <1>1, <1>2, <2>3, <2>4 DEF EntrySet
<1>3. CASE b \notin Blocks
  <2>1. [dt EXCEPT ![b].ents[e] = i] = dt  BY <1>3
  <2> QED BY <1>0, <1>1, <1>3, <2>1 DEF EntrySet
<1> QED BY <1>2, <1>3

LEMMA SetEntryType ==
  ASSUME NEW dt \in [Blocks -> Block], NEW d, NEW e \in Elems, NEW i \in {0} \union Inums
  PROVE  /\ SetEntry(dt, d, e, i) \in [Blocks -> Block]
         /\ \A c \in Blocks : SetEntry(dt, d, e, i)[c].a = dt[c].a
         /\ \A c \in Blocks : c # d.addrs[0] => SetEntry(dt, d, e, i)[c] = dt[c]
         /\ d.addrs[0] \in Blocks => SetEntry(dt, d, e, i)[d.addrs[0]].ents = [dt[d.addrs[0]].ents EXCEPT ![e] = i]
BY SetEntryIs DEF EntrySet

LEMMA ZeroType == Zero \in Block /\ \A i \in Inums, j \in Inums : Dots(i, j) \in Block /\ Dots(i, j).a = Zero.a
<1>1. Zero \in Block  BY DEF Zero, Block
<1>2. ASSUME NEW i \in Inums, NEW j \in Inums PROVE Dots(i, j) \in Block /\ Dots(i, j).a = Zero.a
  <2>1. Zero.ents \in [Elems -> {0} \union Inums] /\ Zero.a \in [0 .. NINDIRECT - 1 -> {0} \union Blocks]  BY DEF Zero
  <2>2. [Zero.ents EXCEPT !["."] = i, ![".."] = j] \in [Elems -> {0} \union Inums]  BY <2>1
  <2> DEFINE E == [Zero.ents EXCEPT !["."] = i, ![".."] = j]
  <2> HIDE DEF E
  <2>3. Dots(i, j) = [Zero EXCEPT !.ents = E]  BY DEF Dots, E
  <2>4. E \in [Elems -> {0} \union Inums]  BY <2>2 DEF E
  <2> QED BY <1>1, <2>3, <2>4 DEF Block
<1> QED BY <1>1, <1>2

\* balloc: a block that is not marked, marked and zeroed.
LEMMA TakenIs ==
  ASSUME NEW sp, sp.used \subseteq Blocks, sp.data \in [Blocks -> Block], Blocks \ sp.used # {}
  PROVE  /\ balloc(sp) \in Blocks \ sp.used
         /\ Taken(sp).used = sp.used \union {balloc(sp)} /\ Taken(sp).used \subseteq Blocks
         /\ Taken(sp).data \in [Blocks -> Block] /\ Taken(sp).data[balloc(sp)] = Zero
         /\ \A c \in Blocks : c # balloc(sp) => Taken(sp).data[c] = sp.data[c]
<1>1. balloc(sp) \in Blocks \ sp.used
  <2>1. Blocks \ sp.used \in SUBSET Nat  BY Consts
  <2> QED BY <2>1, LeastIn DEF balloc
<1>2. Taken(sp).used = sp.used \union {balloc(sp)} /\ Taken(sp).data = [sp.data EXCEPT ![balloc(sp)] = Zero]
  BY DEF Taken
<1>3. Zero \in Block  BY ZeroType
<1> HIDE DEF balloc
<1> QED BY <1>1, <1>2, <1>3

LEMMA WriteFields ==
  ASSUME NEW d \in Inode, NEW sp, NEW D \in Inode, NEW S, bmap(d, sp) = [d |-> D, sp |-> S], D.size < MAXFILE
  PROVE  /\ writei(d, sp).d \in Inode /\ writei(d, sp).sp = S
         /\ writei(d, sp).d.type = D.type /\ writei(d, sp).d.nlink = D.nlink
         /\ writei(d, sp).d.addrs = D.addrs /\ writei(d, sp).d.size = D.size + 1
<1>1. writei(d, sp) = [[d |-> D, sp |-> S] EXCEPT !.d.size = D.size + 1]  BY DEF writei
<1>2. [[d |-> D, sp |-> S] EXCEPT !.d.size = D.size + 1].d = [D EXCEPT !.size = D.size + 1]
  OBVIOUS
<1>3. [[d |-> D, sp |-> S] EXCEPT !.d.size = D.size + 1].sp = S
  OBVIOUS
<1>4. D.size + 1 \in 0 .. MAXFILE  BY InodeFields, Consts DEF MAXFILE
<1> HIDE DEF writei
<1> QED BY <1>1, <1>2, <1>3, <1>4 DEF Inode

LEMMA AddrType ==
  ASSUME NEW d \in Inode, NEW k \in 0 .. NDIRECT, NEW b \in Blocks
  PROVE  /\ [d EXCEPT !.addrs[k] = b] \in Inode
         /\ [d EXCEPT !.addrs[k] = b].type = d.type /\ [d EXCEPT !.addrs[k] = b].nlink = d.nlink
         /\ [d EXCEPT !.addrs[k] = b].size = d.size
         /\ [d EXCEPT !.addrs[k] = b].addrs = [d.addrs EXCEPT ![k] = b]
<1>1. d.addrs \in [0 .. NDIRECT -> {0} \union Blocks]  BY InodeFields
<1>2. [d.addrs EXCEPT ![k] = b] \in [0 .. NDIRECT -> {0} \union Blocks]  BY <1>1
<1> QED BY <1>2 DEF Inode

\* writei within the direct blocks.
WroteDirect(d, w, b) ==
  /\ b \in Blocks \ bitmap
  /\ w.d \in Inode /\ w.d.type = d.type /\ w.d.nlink = d.nlink /\ w.d.size = d.size + 1
  /\ w.d.addrs = [d.addrs EXCEPT ![d.size] = b]
  /\ w.sp.used = bitmap \union {b} /\ w.sp.data \in [Blocks -> Block]
  /\ w.sp.data[b] = Zero /\ \A c \in Blocks : c # b => w.sp.data[c] = data[c]

LEMMA WriteDirect ==
  ASSUME DiskType, NEW d \in Inode, d.size < NDIRECT, Room(d, Space)
  PROVE  WroteDirect(d, writei(d, Space), balloc(Space))
<1> DEFINE b == balloc(Space)
           D == [d EXCEPT !.addrs[d.size] = b]
<1>1. Space.used = bitmap /\ Space.data = data  BY DEF Space
<1>2. Space.used \subseteq Blocks /\ Space.data \in [Blocks -> Block] /\ Blocks \ Space.used # {}
  BY <1>1 DEF DiskType, Room
<1>3. /\ b \in Blocks \ bitmap /\ Taken(Space).used = bitmap \union {b} /\ Taken(Space).data \in [Blocks -> Block]
      /\ Taken(Space).data[b] = Zero /\ \A c \in Blocks : c # b => Taken(Space).data[c] = data[c]
  BY <1>1, <1>2, TakenIs
<1>4. d.size \in 0 .. NDIRECT /\ d.size < MAXFILE  BY InodeFields, Consts DEF MAXFILE
<1>5. bmap(d, Space) = [d |-> D, sp |-> Taken(Space)]  BY DEF bmap
<1> HIDE DEF b
<1>6. D \in Inode /\ D.type = d.type /\ D.nlink = d.nlink /\ D.size = d.size /\ D.addrs = [d.addrs EXCEPT ![d.size] = b]
  BY <1>3, <1>4, AddrType
<1> HIDE DEF D
<1>7. /\ writei(d, Space).d \in Inode /\ writei(d, Space).sp = Taken(Space)
      /\ writei(d, Space).d.type = D.type /\ writei(d, Space).d.nlink = D.nlink
      /\ writei(d, Space).d.addrs = D.addrs /\ writei(d, Space).d.size = D.size + 1
  BY <1>4, <1>5, <1>6, WriteFields
<1>8. WroteDirect(d, writei(d, Space), b)  BY <1>3, <1>6, <1>7 DEF WroteDirect
<1> QED BY <1>8 DEF b

\* writei in the indirect block i; used are the blocks that were in use, or are after i is taken.
WroteIndirect(d, w, i, b) ==
  /\ i \in Blocks /\ b \in Blocks \ bitmap /\ b # i
  /\ d.addrs[NDIRECT] # 0 => i = d.addrs[NDIRECT]
  /\ d.addrs[NDIRECT] = 0 => i \notin bitmap
  /\ w.d \in Inode /\ w.d.type = d.type /\ w.d.nlink = d.nlink /\ w.d.size = d.size + 1
  /\ w.d.addrs = [d.addrs EXCEPT ![NDIRECT] = i]
  /\ w.sp.used = bitmap \union {b} \union (IF d.addrs[NDIRECT] = 0 THEN {i} ELSE {})
  /\ w.sp.data \in [Blocks -> Block]
  /\ w.sp.data[b] = Zero /\ \A c \in Blocks : c \notin {b, i} => w.sp.data[c] = data[c]
  /\ w.sp.data[i].a = [(IF d.addrs[NDIRECT] = 0 THEN Zero.a ELSE data[i].a) EXCEPT ![d.size - NDIRECT] = b]
  /\ w.sp.data[i].ents = IF d.addrs[NDIRECT] = 0 THEN Zero.ents ELSE data[i].ents

LEMMA WriteIndirect ==
  ASSUME DiskType, NEW d \in Inode, d.size >= NDIRECT, d.size < MAXFILE, Room(d, Space),
         d.addrs[NDIRECT] \in {0} \union bitmap
  PROVE  \E i, b : WroteIndirect(d, writei(d, Space), i, b)
<1> DEFINE j  == d.size - NDIRECT
           s1 == IF d.addrs[NDIRECT] = 0 THEN Taken(Space) ELSE Space
           i  == IF d.addrs[NDIRECT] = 0 THEN balloc(Space) ELSE d.addrs[NDIRECT]
           b  == balloc(s1)
           s2 == Taken(s1)
           D  == [d EXCEPT !.addrs[NDIRECT] = i]
           S  == [s2 EXCEPT !.data[i].a[j] = b]
<1>1. Space.used = bitmap /\ Space.data = data  BY DEF Space
<1>2. Space.used \subseteq Blocks /\ Space.data \in [Blocks -> Block] /\ Blocks \ Space.used # {}
  BY <1>1 DEF DiskType, Room
<1>3. d.addrs[NDIRECT] \in {0} \union Blocks /\ d.size \in Nat /\ j \in 0 .. NINDIRECT - 1 /\ NDIRECT \in 0 .. NDIRECT
  BY InodeFields, Consts DEF MAXFILE
<1>4. /\ s1.used \subseteq Blocks /\ s1.data \in [Blocks -> Block] /\ Blocks \ s1.used # {}
      /\ i \in s1.used /\ bitmap \subseteq s1.used
      /\ s1.used = bitmap \union (IF d.addrs[NDIRECT] = 0 THEN {i} ELSE {})
      /\ s1.data[i] = (IF d.addrs[NDIRECT] = 0 THEN Zero ELSE data[i])
      /\ \A c \in Blocks : c # i => s1.data[c] = data[c]
      /\ d.addrs[NDIRECT] = 0 => i \notin bitmap
  <2>1. CASE d.addrs[NDIRECT] = 0
    <3>1. Blocks \ Taken(Space).used # {}  BY <2>1 DEF Room
    <3>2. s1 = Taken(Space) /\ i = balloc(Space)  BY <2>1
    <3> HIDE DEF s1, i
    <3> QED BY <1>1, <1>2, <2>1, <3>1, <3>2, TakenIs
  <2>2. CASE d.addrs[NDIRECT] # 0  BY <1>1, <1>2, <2>2
  <2> QED BY <2>1, <2>2
<1>5. i \in Blocks  BY <1>4
<1>6. bmap(d, Space) = [d |-> D, sp |-> S]
  <2>1. ~(d.size < NDIRECT)  BY <1>3, Consts
  <2> QED BY <2>1 DEF bmap
<1> HIDE DEF s1, i
<1>7. /\ b \in Blocks \ s1.used /\ s2.used = s1.used \union {b} /\ s2.data \in [Blocks -> Block]
      /\ s2.data[b] = Zero /\ \A c \in Blocks : c # b => s2.data[c] = s1.data[c]
  BY <1>4, TakenIs
<1>8. s2 = [used |-> s2.used, data |-> s2.data]  BY DEF Taken
<1> HIDE DEF b, s2
<1>9. D \in Inode /\ D.type = d.type /\ D.nlink = d.nlink /\ D.size = d.size /\ D.addrs = [d.addrs EXCEPT ![NDIRECT] = i]
  BY <1>3, <1>5, AddrType
<1>10. S.used = s2.used /\ S.data = [s2.data EXCEPT ![i].a[j] = b]  BY <1>8
<1> HIDE DEF D, S
<1>11. /\ writei(d, Space).d \in Inode /\ writei(d, Space).sp = S
       /\ writei(d, Space).d.type = D.type /\ writei(d, Space).d.nlink = D.nlink
       /\ writei(d, Space).d.addrs = D.addrs /\ writei(d, Space).d.size = D.size + 1
  BY <1>6, <1>9, WriteFields
<1>12. i # b  BY <1>4, <1>7
<1>13. /\ S.data \in [Blocks -> Block] /\ \A c \in Blocks : c # i => S.data[c] = s2.data[c]
       /\ S.data[i].a = [s2.data[i].a EXCEPT ![j] = b] /\ S.data[i].ents = s2.data[i].ents
  <2>1. s2.data[i] \in Block /\ s2.data[i].a \in [0 .. NINDIRECT - 1 -> {0} \union Blocks]  BY <1>5, <1>7 DEF Block
  <2>2. [s2.data[i].a EXCEPT ![j] = b] \in [0 .. NINDIRECT - 1 -> {0} \union Blocks]  BY <2>1, <1>7
  <2> DEFINE r == [s2.data[i] EXCEPT !.a = [s2.data[i].a EXCEPT ![j] = b]]
  <2>3. r \in Block /\ r.a = [s2.data[i].a EXCEPT ![j] = b] /\ r.ents = s2.data[i].ents
    BY <2>1, <2>2 DEF Block
  <2>4. S.data = [s2.data EXCEPT ![i] = r]  BY <1>5, <1>7, <1>10
  <2> HIDE DEF r
  <2> QED BY <1>5, <1>7, <2>3, <2>4
<1>14. s2.data[i] = IF d.addrs[NDIRECT] = 0 THEN Zero ELSE data[i]  BY <1>4, <1>5, <1>7, <1>12
<1>15. WroteIndirect(d, writei(d, Space), i, b)
  <2>1. b \in Blocks \ bitmap /\ S.used = bitmap \union {b} \union (IF d.addrs[NDIRECT] = 0 THEN {i} ELSE {})
    BY <1>4, <1>7, <1>10
  <2>2. S.data[b] = Zero /\ \A c \in Blocks : c \notin {b, i} => S.data[c] = data[c]
    BY <1>4, <1>7, <1>12, <1>13
  <2>3. S.data[i].a = [(IF d.addrs[NDIRECT] = 0 THEN Zero.a ELSE data[i].a) EXCEPT ![j] = b]
    BY <1>13, <1>14
  <2>4. S.data[i].ents = IF d.addrs[NDIRECT] = 0 THEN Zero.ents ELSE data[i].ents
    BY <1>13, <1>14
  <2>5. (d.addrs[NDIRECT] # 0 => i = d.addrs[NDIRECT]) /\ (d.addrs[NDIRECT] = 0 => i \notin bitmap)
    BY <1>4 DEF i
  <2> QED BY <1>5, <1>9, <1>11, <1>12, <1>13, <2>1, <2>2, <2>3, <2>4, <2>5 DEF WroteIndirect
<1> QED BY <1>15

\* What is known of writei without looking where the inode has its blocks.
LEMMA WriteType ==
  ASSUME DiskType, NEW d \in Inode, Headed(d), d.size < MAXFILE, Room(d, Space)
  PROVE  /\ writei(d, Space).d \in Inode /\ writei(d, Space).d.type = d.type /\ Headed(writei(d, Space).d)
         /\ writei(d, Space).d.size = d.size + 1 /\ writei(d, Space).d.nlink = d.nlink
         /\ writei(d, Space).sp.used \subseteq Blocks /\ writei(d, Space).sp.data \in [Blocks -> Block]
<1>0. d.size \in Nat /\ NDIRECT \in Nat \ {0} /\ d.addrs \in [0 .. NDIRECT -> {0} \union Blocks]
  BY InodeFields, Consts DEF MAXFILE
<1>1. CASE d.size < NDIRECT
  <2>1. WroteDirect(d, writei(d, Space), balloc(Space))  BY <1>1, WriteDirect
  <2> DEFINE b == balloc(Space)
             w == writei(d, Space)
  <2>2. WroteDirect(d, w, b)  BY <2>1
  <2> HIDE DEF b, w
  <2>3. w.d \in Inode /\ w.d.type = d.type /\ w.d.size = d.size + 1 /\ w.sp.used \subseteq Blocks /\ w.sp.data \in [Blocks -> Block]
    BY <2>2 DEF WroteDirect, DiskType
  <2>4. Headed(w.d)
    <3>1. w.d.addrs = [d.addrs EXCEPT ![d.size] = b] /\ b \in Blocks  BY <2>2 DEF WroteDirect
    <3> QED BY <1>0, <3>1, Consts DEF Headed
  <2>5. w.d.nlink = d.nlink  BY <2>2 DEF WroteDirect
  <2> QED BY <2>3, <2>4, <2>5 DEF w
<1>2. CASE ~(d.size < NDIRECT)
  <2> DEFINE j  == d.size - NDIRECT
             s1 == IF d.addrs[NDIRECT] = 0 THEN Taken(Space) ELSE Space
             i  == IF d.addrs[NDIRECT] = 0 THEN balloc(Space) ELSE d.addrs[NDIRECT]
             b  == balloc(s1)
             s2 == Taken(s1)
             D  == [d EXCEPT !.addrs[NDIRECT] = i]
             S  == [s2 EXCEPT !.data[i].a[j] = b]
             w  == writei(d, Space)
  <2>1. Space.used = bitmap /\ Space.data = data  BY DEF Space
  <2>2. Space.used \subseteq Blocks /\ Space.data \in [Blocks -> Block] /\ Blocks \ Space.used # {}
    BY <2>1 DEF DiskType, Room
  <2>3. j \in 0 .. NINDIRECT - 1 /\ NDIRECT \in 0 .. NDIRECT /\ d.addrs[NDIRECT] \in {0} \union Blocks
    BY <1>0, <1>2, Consts DEF MAXFILE
  <2>4. s1.used \subseteq Blocks /\ s1.data \in [Blocks -> Block] /\ Blocks \ s1.used # {} /\ i \in Blocks
    <3>1. CASE d.addrs[NDIRECT] = 0
      <4>1. Blocks \ Taken(Space).used # {}  BY <1>0, <1>2, <3>1 DEF Room
      <4>2. s1 = Taken(Space) /\ i = balloc(Space)  BY <3>1
      <4> HIDE DEF s1, i
      <4> QED BY <2>2, <4>1, <4>2, TakenIs
    <3>2. CASE d.addrs[NDIRECT] # 0  BY <2>2, <2>3, <3>2
    <3> QED BY <3>1, <3>2
  <2>6. bmap(d, Space) = [d |-> D, sp |-> S]  BY <1>2 DEF bmap
  <2> HIDE DEF s1, i
  <2>7. b \in Blocks /\ s2.used = s1.used \union {b} /\ s2.data \in [Blocks -> Block]  BY <2>4, TakenIs
  <2>8. s2 = [used |-> s2.used, data |-> s2.data]  BY DEF Taken
  <2> HIDE DEF b, s2
  <2>9. D \in Inode /\ D.type = d.type /\ D.size = d.size /\ D.addrs = [d.addrs EXCEPT ![NDIRECT] = i] /\ D.nlink = d.nlink
    BY <2>3, <2>4, AddrType
  <2>10. S.used = s2.used /\ S.data = [s2.data EXCEPT ![i].a[j] = b]  BY <2>8
  <2> HIDE DEF D, S
  <2>11. /\ w.d \in Inode /\ w.sp = S /\ w.d.type = D.type /\ w.d.addrs = D.addrs /\ w.d.size = D.size + 1 /\ w.d.nlink = D.nlink
    BY <2>6, <2>9, WriteFields
  <2> HIDE DEF w
  <2>12. S.data \in [Blocks -> Block]
    <3>1. s2.data[i] \in Block /\ s2.data[i].a \in [0 .. NINDIRECT - 1 -> {0} \union Blocks]  BY <2>4, <2>7 DEF Block
    <3>2. [s2.data[i].a EXCEPT ![j] = b] \in [0 .. NINDIRECT - 1 -> {0} \union Blocks]  BY <3>1, <2>7
    <3> DEFINE r == [s2.data[i] EXCEPT !.a = [s2.data[i].a EXCEPT ![j] = b]]
    <3>3. r \in Block  BY <3>1, <3>2 DEF Block
    <3>4. S.data = [s2.data EXCEPT ![i] = r]  BY <2>4, <2>7, <2>10
    <3> HIDE DEF r
    <3> QED BY <2>7, <3>3, <3>4
  <2>13. Headed(w.d)  BY <1>0, <1>2, <2>9, <2>11 DEF Headed
  <2> QED BY <2>4, <2>7, <2>9, <2>10, <2>11, <2>12, <2>13 DEF w
<1> QED BY <1>1, <1>2

-----------------------------------------------------------------------------
\* A step of a call that begins with ilock.
LEMMA LockedAt ==
  ASSUME FsInv, NEW p \in Procs, NEW l \in AtSteps, ilock(p, l, at[p])
  PROVE  /\ pc[p] = l /\ K(p) = l /\ at[p] \in Slots /\ icache[at[p]].ref > 0 /\ icache[at[p]].lock = 0
         /\ icache[at[p]].inum \in Inums /\ Loaded(at[p]).d = dinode[icache[at[p]].inum]
         /\ Loaded(at[p]).d \in Inode /\ Loaded(at[p]).d.type # "free" /\ Headed(Loaded(at[p]).d)
         /\ ret[p] = "user" /\ call[p] \in Calls
<1>1. pc[p] = l /\ icache[at[p]].lock = 0 /\ Loaded(at[p]).d.type # "free"  BY DEF ilock, InStep, CanLock
<1>2. K(p) = l /\ at[p] \in Slots /\ icache[at[p]].ref > 0 /\ ret[p] = "user" /\ call[p] \in Calls  BY <1>1, AtStep
<1>3. icache[at[p]].inum \in Inums  BY <1>2, RefNat, SlotFields
<1>4. Loaded(at[p]).d = dinode[icache[at[p]].inum] /\ Loaded(at[p]).d \in Inode  BY <1>2, LoadedIs DEF FsInv
<1>5. Headed(Loaded(at[p]).d)  BY <1>3, <1>4 DEF FsInv, DiskType
<1> QED BY <1>1, <1>2, <1>3, <1>4, <1>5

\* It lets the lock go at its end, and holds none.
LEMMA SeenInv ==
  ASSUME FsInv, NEW p \in Procs, NEW l \in AtSteps \ {"unlink2", "unlink3", "create3", "create4"},
         ilock(p, l, at[p]), icache' = Seen(icache, at[p], 0), dinode' = dinode, DiskType', Moved(p, None),
         \A x \in Slots : ~Holds(p, x)'
  PROVE  FsInv'
<1>1. /\ pc[p] = l /\ K(p) = l /\ at[p] \in Slots /\ icache[at[p]].ref > 0 /\ icache[at[p]].lock = 0
      /\ Loaded(at[p]).d.type # "free"
  BY LockedAt
<1>2. Good(icache, dinode)' /\ Effect(at[p], 0, None)  BY <1>1, EffectSeen
<1>3. \A x \in Slots : ~Holds(p, x)  BY <1>1, NoLock DEF DpSteps, AtSteps
<1> QED BY <1>1, <1>2, <1>3, Consts, StepInv

LEMMA SameDisk == ASSUME FsInv, UNCHANGED disk PROVE DiskType' /\ dinode' = dinode
BY DEF FsInv, DiskType, disk

LEMMA Chdir1Inv ==
  ASSUME FsInv, NEW p \in Procs, chdir1(p), made' \in Nat
  PROVE  FsInv'
<1>1. /\ ilock(p, "chdir1", at[p]) /\ icache' = Seen(icache, at[p], 0)
      /\ UNCHANGED <<disk, ofile, call, path, ip, dp, inum>>
  BY DEF chdir1
<1>2. pc[p] = "chdir1"  BY <1>1 DEF ilock, InStep
<1>3. Moved(p, None) /\ \A x \in Slots : ~Holds(p, x)'
  <2>1. CASE PutAt(p, "end_op") /\ UNCHANGED cwd  BY <1>1, <1>2, <2>1, PutAtEnd DEF AtSteps
  <2>2. CASE /\ cwd' = [cwd EXCEPT ![p] = at[p]]
             /\ at' = [at EXCEPT ![p] = None]
             /\ Put(p, cwd[p], "end_op")
    BY <1>1, <1>2, <2>2, ChdirMoves
  <2> QED BY <2>1, <2>2 DEF chdir1
<1>4. DiskType' /\ dinode' = dinode  BY <1>1, SameDisk
<1>5. "chdir1" \in AtSteps \ {"unlink2", "unlink3", "create3", "create4"}  BY DEF AtSteps
<1> QED BY <1>1, <1>3, <1>4, <1>5, SeenInv

LEMMA Create2Inv ==
  ASSUME FsInv, NEW p \in Procs, create2(p), made' \in Nat
  PROVE  FsInv'
<1>1. /\ ilock(p, "create2", at[p]) /\ icache' = Seen(icache, at[p], 0)
      /\ UNCHANGED <<disk, cwd, call, path, ip, dp, inum>>
  BY DEF create2
<1>2. pc[p] = "create2"  BY <1>1 DEF ilock, InStep
<1>3. Moved(p, None) /\ \A x \in Slots : ~Holds(p, x)'
  <2>1. CASE PutAt(p, "end_op") /\ UNCHANGED ofile  BY <1>1, <1>2, <2>1, PutAtEnd DEF AtSteps
  <2>2. CASE Opened(p)  BY <1>1, <1>2, <2>2, OpenedMoves
  <2> QED BY <2>1, <2>2 DEF create2
<1>4. DiskType' /\ dinode' = dinode  BY <1>1, SameDisk
<1>5. "create2" \in AtSteps \ {"unlink2", "unlink3", "create3", "create4"}  BY DEF AtSteps
<1> QED BY <1>1, <1>3, <1>4, <1>5, SeenInv

\* Steps that leave the cache alone.
LEMMA StillInv ==
  ASSUME FsInv, NEW p \in Procs, pc[p] # "free", K(p) \notin DpSteps \union {"unlink3", "create4"},
         UNCHANGED <<disk, icache>>, Moved(p, None), \A x \in Slots : ~Holds(p, x)'
  PROVE  FsInv'
<1>1. DiskType' /\ dinode' = dinode  BY SameDisk
<1>2. Good(icache, dinode)' /\ Effect(None, 0, None)  BY <1>1, EffectSame
<1>3. \A x \in Slots : ~Holds(p, x)  BY NoLock
<1> QED BY <1>1, <1>2, <1>3, Consts, StepInv

LEMMA EndInv == ASSUME FsInv, NEW p \in Procs, end_op(p), made' \in Nat PROVE FsInv'
<1>1. pc[p] = "end_op" /\ UNCHANGED <<disk, icache>>  BY DEF end_op, InStep
<1>2. Moved(p, None) /\ \A x \in Slots : ~Holds(p, x)'  BY <1>1, EndMoves DEF end_op, ptrs
<1> QED BY <1>1, <1>2, StillInv DEF K, Iput, DpSteps

LEMMA Link3Inv == ASSUME FsInv, NEW p \in Procs, link3(p), made' \in Nat PROVE FsInv'
<1>1. pc[p] = "link3" /\ UNCHANGED <<disk, icache>>  BY DEF link3, InStep
<1>2. Moved(p, None) /\ \A x \in Slots : ~Holds(p, x)'  BY <1>1, PutAtEnd DEF link3, AtSteps
<1> QED BY <1>1, <1>2, StillInv DEF K, Iput, DpSteps

LEMMA UseFileInv == ASSUME FsInv, NEW p \in Procs, InStep(p, "user"), UseFile(p), made' \in Nat PROVE FsInv'
<1>1. pc[p] = "user" /\ ofile[p] # None /\ UNCHANGED <<disk, icache, cwd, call, path, ptrs>>  BY DEF UseFile, InStep
<1>2. Moved(p, None) /\ \A x \in Slots : ~Holds(p, x)'
  <2>1. CASE (\E l \in {"write", "read", "stat"} : Goto(p, l)) /\ UNCHANGED ofile
    BY <1>1, <2>1, FileMoves DEF ptrs
  <2>2. CASE Put(p, ofile[p], "end_op") /\ ofile' = [ofile EXCEPT ![p] = None]
    BY <1>1, <2>2, CloseMoves DEF ptrs
  <2> QED BY <2>1, <2>2 DEF UseFile
<1> QED BY <1>1, <1>2, StillInv DEF K, Iput, DpSteps

\* The step begins with ilock of the open file.
LEMMA LockedFile ==
  ASSUME FsInv, NEW p \in Procs, NEW l \in {"write", "read", "stat"}, ilock(p, l, ofile[p])
  PROVE  /\ pc[p] = l /\ K(p) = l /\ ofile[p] \in Slots /\ icache[ofile[p]].ref > 0 /\ icache[ofile[p]].lock = 0
         /\ icache[ofile[p]].inum \in Inums /\ Loaded(ofile[p]).d = dinode[icache[ofile[p]].inum]
         /\ Loaded(ofile[p]).d \in Inode /\ Loaded(ofile[p]).d.type # "free" /\ Headed(Loaded(ofile[p]).d)
         /\ ofile[p] # None
<1>1. pc[p] = l /\ icache[ofile[p]].lock = 0 /\ Loaded(ofile[p]).d.type # "free"  BY DEF ilock, InStep, CanLock
<1>2. K(p) = l /\ ofile[p] # None /\ ofile[p] \in Slots  BY <1>1 DEF FsInv, RegType, RegsOk, K, Iput
<1>3. icache[ofile[p]].ref > 0  BY <1>2, Pointed
<1>4. icache[ofile[p]].inum \in Inums  BY <1>2, RefNat, SlotFields
<1>5. Loaded(ofile[p]).d = dinode[icache[ofile[p]].inum] /\ Loaded(ofile[p]).d \in Inode  BY <1>2, <1>3, LoadedIs DEF FsInv
<1>6. Headed(Loaded(ofile[p]).d)  BY <1>4, <1>5 DEF FsInv, DiskType
<1> QED BY <1>1, <1>2, <1>3, <1>4, <1>5, <1>6

LEMMA LookInv ==
  ASSUME FsInv, NEW p \in Procs, NEW l \in {"write", "read", "stat"}, ilock(p, l, ofile[p]),
         NEW m \in {"user", "end_op"}, icache' = Seen(icache, ofile[p], 0), Goto(p, m), made' \in Nat,
         UNCHANGED <<disk, cwd, ofile, call, path, ptrs>>
  PROVE  FsInv'
<1>1. /\ pc[p] = l /\ K(p) = l /\ ofile[p] \in Slots /\ icache[ofile[p]].ref > 0 /\ icache[ofile[p]].lock = 0
      /\ Loaded(ofile[p]).d.type # "free" /\ ofile[p] # None
  BY LockedFile
<1>2. DiskType' /\ dinode' = dinode  BY SameDisk
<1>3. Good(icache, dinode)' /\ Effect(ofile[p], 0, None)  BY <1>1, <1>2, EffectSeen
<1>4. Moved(p, None) /\ \A x \in Slots : ~Holds(p, x)'  BY <1>1, FileMoves DEF ptrs
<1>5. \A x \in Slots : ~Holds(p, x)  BY <1>1, NoLock DEF DpSteps
<1> QED BY <1>1, <1>2, <1>3, <1>4, <1>5, Consts, StepInv

LEMMA DiskUpdate ==
  ASSUME FsInv, NEW s \in Slots, NEW d \in Inode, Headed(d), dinode' = iupdate(dinode, s, d),
         bitmap' \subseteq Blocks, data' \in [Blocks -> Block]
  PROVE  DiskType'
<1>1. dinode \in [Inums -> Inode] /\ \A i \in Inums : Headed(dinode[i])  BY DEF FsInv, Good, DiskType
<1>2. \A i \in Inums : dinode'[i] \in {d, dinode[i]}  BY <1>1 DEF iupdate
<1>3. \A i \in Inums : Headed(dinode'[i])  BY <1>1, <1>2
<1> QED BY <1>3 DEF DiskType

LEMMA FileReadInv == ASSUME FsInv, NEW p \in Procs, fileread(p), made' \in Nat PROVE FsInv'
BY LookInv DEF fileread, Look

LEMMA FileStatInv == ASSUME FsInv, NEW p \in Procs, filestat(p), made' \in Nat PROVE FsInv'
BY LookInv DEF filestat, Look

LEMMA FileWriteInv ==
  ASSUME FsInv, NEW p \in Procs, filewrite(p), made' \in Nat
  PROVE  FsInv'
<1> DEFINE s == ofile[p]
           d == Loaded(s).d
           w == writei(d, Space)
<1>1. ilock(p, "write", s) /\ UNCHANGED <<cwd, ofile, call, path, ptrs>>  BY DEF filewrite
<1>2. /\ pc[p] = "write" /\ K(p) = "write" /\ s \in Slots /\ icache[s].ref > 0 /\ icache[s].lock = 0
      /\ d \in Inode /\ d.type # "free" /\ ofile[p] # None /\ Headed(d)
  BY <1>1, LockedFile
<1>3. CASE icache' = Seen(icache, s, 0) /\ Goto(p, "end_op") /\ UNCHANGED disk
  BY <1>1, <1>3, LookInv
<1>4. CASE /\ d.type = "file" /\ d.size < MAXFILE /\ Room(d, Space)
           /\ icache' = With(icache, s, w.d, 0)
           /\ dinode' = iupdate(dinode, s, w.d)
           /\ bitmap' = w.sp.used /\ data' = w.sp.data
           /\ Goto(p, "write") \/ Goto(p, "end_op")
  <2>0. DiskType  BY DEF FsInv
  <2>1. w.d \in Inode /\ w.d.type = d.type /\ Headed(w.d) /\ w.sp.used \subseteq Blocks /\ w.sp.data \in [Blocks -> Block]
    BY <1>2, <1>4, <2>0, WriteType
  <2> HIDE DEF w, d
  <2>2. Good(icache, dinode)' /\ Effect(s, 0, None)  BY <1>2, <1>4, <2>1, EffectWith
  <2>3. DiskType'  BY <1>2, <1>4, <2>1, DiskUpdate
  <2>5. Moved(p, None) /\ \A x \in Slots : ~Holds(p, x)'  BY <1>1, <1>2, <1>4, FileMoves DEF ptrs
  <2>6. \A x \in Slots : ~Holds(p, x)  BY <1>2, NoLock DEF DpSteps
  <2> QED BY <1>2, <2>2, <2>3, <2>5, <2>6, Consts, StepInv
<1> QED BY <1>3, <1>4 DEF filewrite

\* The link count changes and the lock is let go.
LEMMA RelinkedEffect ==
  ASSUME FsInv, NEW s \in Slots, icache[s].ref > 0, Loaded(s).d.type # "free", NEW n \in Int, Relinked(s, n),
         UNCHANGED <<bitmap, data>>
  PROVE  Good(icache, dinode)' /\ Effect(s, 0, None) /\ DiskType'
<1> DEFINE e == Loaded(s).d
           d == [e EXCEPT !.nlink = e.nlink + n]
<1>1. e \in Inode /\ e = dinode[icache[s].inum] /\ icache[s].inum \in Inums
  BY LoadedIs, RefNat, SlotFields DEF FsInv
<1>2. Headed(e)  BY <1>1 DEF FsInv, DiskType
<1>3. icache' = With(icache, s, d, 0) /\ dinode' = iupdate(dinode, s, d)  BY DEF Relinked
<1>4. e.type # "free"  OBVIOUS
<1> HIDE DEF e
<1>5. d \in Inode /\ d.type # "free" /\ d.size = e.size /\ d.addrs = e.addrs  BY <1>1, <1>4 DEF Inode
<1> HIDE DEF d
<1>6. Headed(d)  BY <1>2, <1>5 DEF Headed
<1>7. Good(icache, dinode)' /\ Effect(s, 0, None)  BY <1>3, <1>5, EffectWith
<1>8. DiskType'  BY <1>3, <1>5, <1>6, DiskUpdate DEF FsInv, DiskType
<1> QED BY <1>7, <1>8

LEMMA LinkBadInv ==
  ASSUME FsInv, NEW p \in Procs, linkbad(p), made' \in Nat
  PROVE  FsInv'
<1>1. /\ ilock(p, "linkbad", at[p]) /\ Relinked(at[p], -1) /\ PutAt(p, "end_op")
      /\ UNCHANGED <<bitmap, data, cwd, ofile, call, path, ip, dp, inum>>
  BY DEF linkbad
<1>2. /\ pc[p] = "linkbad" /\ K(p) = "linkbad" /\ at[p] \in Slots /\ icache[at[p]].ref > 0 /\ icache[at[p]].lock = 0
      /\ Loaded(at[p]).d.type # "free"
  BY <1>1, LockedAt DEF AtSteps
<1>3. Good(icache, dinode)' /\ Effect(at[p], 0, None) /\ DiskType'  BY <1>1, <1>2, RelinkedEffect
<1>4. Moved(p, None) /\ \A x \in Slots : ~Holds(p, x)'  BY <1>1, <1>2, PutAtEnd DEF AtSteps
<1>5. \A x \in Slots : ~Holds(p, x)  BY <1>2, NoLock DEF DpSteps
<1> QED BY <1>2, <1>3, <1>4, <1>5, Consts, StepInv

\* unlink3 and create4 begin with the slot at locked, and no other.
LEMMA HeldAt ==
  ASSUME FsInv, NEW p \in Procs, pc[p] \in {"unlink3", "create4"}
  PROVE  /\ K(p) = pc[p] /\ at[p] \in Slots /\ icache[at[p]].ref > 0 /\ icache[at[p]].lock = p
         /\ icache[at[p]].valid = TRUE /\ Loaded(at[p]).d = dinode[icache[at[p]].inum] /\ Loaded(at[p]).d.type # "free"
         /\ \A x \in Slots : x # at[p] => ~Holds(p, x)
<1>1. at[p] \in Slots /\ icache[at[p]].ref > 0 /\ K(p) = pc[p]  BY AtStep DEF AtSteps
<1>2. Holds(p, at[p]) /\ \A x \in Slots : x # at[p] => ~Holds(p, x)  BY <1>1 DEF Holds, DpSteps
<1>3. icache[at[p]].lock = p  BY <1>1, <1>2 DEF FsInv, LockOk
<1>4. icache[at[p]].valid = TRUE  BY <1>1, <1>3, Consts DEF FsInv, Good
<1>5. icache[at[p]].d.type # "free" /\ Loaded(at[p]) = icache[at[p]]  BY <1>1, <1>4 DEF FsInv, Good, Loaded
<1>6. Loaded(at[p]).d = dinode[icache[at[p]].inum]  BY <1>1, LoadedIs DEF FsInv
<1> QED BY <1>1, <1>2, <1>3, <1>4, <1>5, <1>6

LEMMA Unlink3Inv ==
  ASSUME FsInv, NEW p \in Procs, unlink3(p), made' \in Nat
  PROVE  FsInv'
<1>1. /\ pc[p] = "unlink3" /\ Relinked(at[p], -1) /\ PutAt(p, "end_op")
      /\ UNCHANGED <<bitmap, data, cwd, ofile, call, path, ip, dp, inum>>
  BY DEF unlink3, InStep
<1>2. /\ at[p] \in Slots /\ icache[at[p]].ref > 0 /\ icache[at[p]].lock = p /\ Loaded(at[p]).d.type # "free"
      /\ \A x \in Slots : x # at[p] => ~Holds(p, x)
  BY <1>1, HeldAt
<1>3. Good(icache, dinode)' /\ Effect(at[p], 0, None) /\ DiskType'  BY <1>1, <1>2, RelinkedEffect
<1>4. Moved(p, None) /\ \A x \in Slots : ~Holds(p, x)'  BY <1>1, <1>2, PutAtEnd DEF AtSteps
<1> QED BY <1>2, <1>3, <1>4, Consts, StepInv

LEMMA EffectLock ==
  ASSUME FsInv, NEW s \in Slots, icache[s].ref > 0, icache[s].valid = TRUE, NEW h \in {0} \union Procs,
         icache' = [icache EXCEPT ![s].lock = h], dinode' = dinode
  PROVE  Good(icache, dinode)' /\ Effect(s, h, None)
<1>1. Good(icache', dinode) /\ Changed(icache, icache', s, dinode[icache[s].inum], h)  BY GoodLocked DEF FsInv
<1>2. \A x \in Slots : icache[x].ref \in Nat /\ x # None  BY RefNat
<1>3. Effect(s, h, None)  BY <1>1, <1>2 DEF Effect, One, Changed
<1> QED BY <1>1, <1>3 DEF Good, Unique

LEMMA Create4Inv ==
  ASSUME FsInv, NEW p \in Procs, create4(p), made' \in Nat
  PROVE  FsInv'
<1>1. /\ pc[p] = "create4" /\ icache' = [icache EXCEPT ![at[p]].lock = 0]
      /\ UNCHANGED <<disk, cwd, call, path, ip, dp, inum>>
  BY DEF create4, InStep
<1>2. /\ at[p] \in Slots /\ icache[at[p]].ref > 0 /\ icache[at[p]].lock = p /\ icache[at[p]].valid = TRUE
      /\ \A x \in Slots : x # at[p] => ~Holds(p, x)
  BY <1>1, HeldAt
<1>3. DiskType' /\ dinode' = dinode  BY <1>1, SameDisk
<1>4. Good(icache, dinode)' /\ Effect(at[p], 0, None)  BY <1>1, <1>2, <1>3, EffectLock
<1>5. Moved(p, None) /\ \A x \in Slots : ~Holds(p, x)'
  <2>1. CASE PutAt(p, "end_op") /\ UNCHANGED ofile  BY <1>1, <2>1, PutAtEnd DEF AtSteps
  <2>2. CASE Opened(p)  BY <1>1, <2>2, OpenedMoves
  <2> QED BY <2>1, <2>2 DEF create4
<1> QED BY <1>2, <1>3, <1>4, <1>5, Consts, StepInv

LEMMA Link1Inv ==
  ASSUME FsInv, NEW p \in Procs, link1(p), made' \in Nat
  PROVE  FsInv'
<1>1. ilock(p, "link1", at[p]) /\ UNCHANGED <<bitmap, data, cwd, ofile, call, dp, inum>>  BY DEF link1
<1>2. /\ pc[p] = "link1" /\ K(p) = "link1" /\ at[p] \in Slots /\ icache[at[p]].ref > 0 /\ icache[at[p]].lock = 0
      /\ Loaded(at[p]).d.type # "free"
  BY <1>1, LockedAt DEF AtSteps
<1>3. CASE icache' = Seen(icache, at[p], 0) /\ PutAt(p, "end_op") /\ UNCHANGED <<dinode, path, ip>>
  <2>1. Moved(p, None) /\ \A x \in Slots : ~Holds(p, x)'  BY <1>1, <1>2, <1>3, PutAtEnd DEF AtSteps
  <2>2. UNCHANGED disk  BY <1>1, <1>3 DEF disk
  <2>3. DiskType' /\ dinode' = dinode  BY <2>2, SameDisk
  <2> QED BY <1>1, <1>3, <2>1, <2>3, SeenInv DEF AtSteps
<1>4. CASE /\ Relinked(at[p], 1)
           /\ ip' = [ip EXCEPT ![p] = at[p]]
           /\ at' = [at EXCEPT ![p] = None]
           /\ path' = [path EXCEPT ![p] = call[p].new]
           /\ Goto(p, "begin2")
  <2>1. Good(icache, dinode)' /\ Effect(at[p], 0, None) /\ DiskType'  BY <1>1, <1>2, <1>4, RelinkedEffect
  <2>2. Moved(p, None) /\ \A x \in Slots : ~Holds(p, x)'  BY <1>1, <1>2, <1>4, Link1Moves
  <2>3. \A x \in Slots : ~Holds(p, x)  BY <1>2, NoLock DEF DpSteps
  <2> QED BY <1>2, <2>1, <2>2, <2>3, Consts, StepInv
<1> QED BY <1>3, <1>4 DEF link1

-----------------------------------------------------------------------------
LEMMA EffectStart ==
  ASSUME FsInv, NEW p \in Procs, NEW abs \in BOOLEAN, CanStart(abs), icache' = Start(p, abs), dinode' = dinode
  PROVE  Good(icache, dinode)' /\ Effect(None, 0, StartSlot(p, abs)) /\ StartSlot(p, abs) \in Slots
<1>1. CASE abs = TRUE
  <2>1. HasSlot(icache, 1) /\ icache' = iget(icache, 1) /\ StartSlot(p, abs) = SlotOf(icache, 1)
    BY <1>1 DEF CanStart, Start, StartSlot
  <2> QED BY <2>1, Consts, EffectGet
<1>2. CASE abs = FALSE
  <2>1. icache' = idup(icache, cwd[p]) /\ StartSlot(p, abs) = cwd[p]  BY <1>2 DEF Start, StartSlot
  <2>2. cwd[p] \in Slots  BY DEF FsInv, RegType
  <2>3. icache[cwd[p]].ref > 0  BY <2>2, Pointed
  <2> QED BY <2>1, <2>2, <2>3, EffectDup
<1> QED BY <1>1, <1>2

LEMMA SyscallInv ==
  ASSUME FsInv, NEW p \in Procs, InStep(p, "user"), NEW c \in Calls, Syscall(p, c), made' \in Nat
  PROVE  FsInv'
<1>1. pc[p] = "user" /\ UNCHANGED disk /\ icache' = Start(p, c.abs) /\ CanStart(c.abs)  BY DEF Syscall, InStep
<1>2. c.abs \in BOOLEAN  BY CallFields
<1>3. DiskType' /\ dinode' = dinode  BY <1>1, SameDisk
<1> DEFINE s == StartSlot(p, c.abs)
<1>4. Good(icache, dinode)' /\ Effect(None, 0, s) /\ s \in Slots  BY <1>1, <1>2, <1>3, EffectStart
<1>5. /\ call' = [call EXCEPT ![p] = c] /\ path' = [path EXCEPT ![p] = c.path] /\ at' = [at EXCEPT ![p] = s]
      /\ Goto(p, "namex") /\ UNCHANGED <<cwd, ofile, ip, dp, inum>>
  BY DEF Syscall
<1> HIDE DEF s
<1>6. Moved(p, s) /\ \A x \in Slots : ~Holds(p, x)'  BY <1>1, <1>4, <1>5, StartMoves
<1>7. \A x \in Slots : ~Holds(p, x)  BY <1>1, NoLock DEF DpSteps, K, Iput
<1> QED BY <1>3, <1>4, <1>6, <1>7, Consts, StepInv

LEMMA Begin2Inv ==
  ASSUME FsInv, NEW p \in Procs, begin2(p), made' \in Nat
  PROVE  FsInv'
<1>1. pc[p] = "begin2" /\ UNCHANGED disk /\ icache' = Start(p, call[p].abs) /\ CanStart(call[p].abs)
  BY DEF begin2, InStep
<1>2. call[p].abs \in BOOLEAN
  <2>1. call[p] \in Calls  BY <1>1 DEF FsInv, RegsOk, K, Iput, Idle
  <2> QED BY <2>1, CallFields
<1>3. DiskType' /\ dinode' = dinode  BY <1>1, SameDisk
<1> DEFINE s == StartSlot(p, call[p].abs)
<1>4. Good(icache, dinode)' /\ Effect(None, 0, s) /\ s \in Slots  BY <1>1, <1>2, <1>3, EffectStart
<1>5. at' = [at EXCEPT ![p] = s] /\ Goto(p, "namex") /\ UNCHANGED <<cwd, ofile, call, path, ip, dp, inum>>
  BY DEF begin2
<1> HIDE DEF s
<1>6. Moved(p, s) /\ \A x \in Slots : ~Holds(p, x)'  BY <1>1, <1>4, <1>5, Begin2Moves
<1>7. \A x \in Slots : ~Holds(p, x)  BY <1>1, NoLock DEF DpSteps, K, Iput
<1> QED BY <1>3, <1>4, <1>6, <1>7, Consts, StepInv

\* The element that is looked up.
LEMMA SkipElem ==
  ASSUME FsInv, NEW p \in Procs,
         path[p] # <<>> \/ K(p) \in {"link2", "unlink1", "create1"} \union DpSteps
  PROVE  skipelem(p) \in Elems
<1>1. RegType /\ path[p] # <<>>  BY DEF FsInv, RegsOk
<1> QED BY <1>1, PathTail DEF skipelem

LEMMA NamexInv ==
  ASSUME FsInv, NEW p \in Procs, namex(p), made' \in Nat
  PROVE  FsInv'
<1> DEFINE s  == at[p]
           d  == Loaded(s).d
           ic == Seen(icache, s, 0)
           i  == IF d.type = "dir" THEN dirlookup(d, skipelem(p)) ELSE 0
<1>1. path[p] # <<>> /\ ilock(p, "namex", s) /\ UNCHANGED <<disk, cwd, ofile, call, dp, inum>>  BY DEF namex
<1>2. /\ pc[p] = "namex" /\ K(p) = "namex" /\ s \in Slots /\ icache[s].ref > 0 /\ icache[s].lock = 0
      /\ d.type # "free" /\ d = dinode[icache[s].inum] /\ icache[s].inum \in Inums
  BY <1>1, LockedAt DEF AtSteps
<1>3. DiskType' /\ dinode' = dinode  BY <1>1, SameDisk
<1>4. "namex" \in AtSteps \ {"unlink2", "unlink3", "create3", "create4"}  BY DEF AtSteps
<1>5. CASE icache' = ic /\ Goto(p, Result(p)) /\ UNCHANGED <<path, at, ip>>
  <2>1. Moved(p, None) /\ \A x \in Slots : ~Holds(p, x)'  BY <1>1, <1>2, <1>5, NamexParentMoves
  <2> QED BY <1>1, <1>3, <1>4, <1>5, <2>1, SeenInv
<1>6. CASE icache' = ic /\ NotFound(p) /\ UNCHANGED path
  <2>1. Moved(p, None) /\ \A x \in Slots : ~Holds(p, x)'  BY <1>1, <1>2, <1>6, NamexFailMoves
  <2> QED BY <1>1, <1>3, <1>4, <1>6, <2>1, SeenInv
<1>7. CASE /\ ~AtParent(p) /\ i # 0 /\ HasSlot(ic, i)
           /\ icache' = iget(ic, i)
           /\ path' = [path EXCEPT ![p] = Tail(@)]
           /\ at' = [at EXCEPT ![p] = SlotOf(ic, i)]
           /\ Put(p, s, IF Len(path[p]) = 1 THEN Result(p) ELSE "namex")
           /\ UNCHANGED ip
  <2>1. i \in Inums
    <3>1. skipelem(p) \in Elems  BY <1>1, SkipElem
    <3>2. dirlookup(dinode[icache[s].inum], skipelem(p)) \in {0} \union Inums  BY <1>2, <3>1, LookupType
    <3> QED BY <1>2, <1>7, <3>2
  <2> HIDE DEF i, d
  <2>2. SlotOf(ic, i) = SlotOf(icache, i) /\ HasSlot(icache, i)  BY <1>2, <1>7, SeenSlot DEF d
  <2>3. /\ Good(icache, dinode)' /\ Effect(s, 0, SlotOf(icache, i)) /\ SlotOf(icache, i) \in Slots
    BY <1>2, <1>3, <1>7, <2>1, <2>2, EffectSeenGet DEF d
  <2> DEFINE t == SlotOf(icache, i)
  <2>4. at' = [at EXCEPT ![p] = t]  BY <1>7, <2>2
  <2> HIDE DEF t
  <2>5. t \in Slots /\ Effect(s, 0, t)  BY <2>3 DEF t
  <2>6. Moved(p, t) /\ \A x \in Slots : ~Holds(p, x)'  BY <1>1, <1>2, <1>7, <2>4, <2>5, NamexDownMoves
  <2>7. \A x \in Slots : ~Holds(p, x)  BY <1>2, NoLock DEF DpSteps
  <2> QED BY <1>2, <1>3, <2>3, <2>5, <2>6, <2>7, Consts, StepInv
<1> QED BY <1>5, <1>6, <1>7 DEF namex

LEMMA NamexNoneInv == ASSUME FsInv, NEW p \in Procs, NamexNone(p), made' \in Nat PROVE FsInv'
<1>1. pc[p] = "namex" /\ UNCHANGED <<disk, icache, cwd, ofile, call, path, dp, inum>>  BY DEF NamexNone, InStep
<1>2. Moved(p, None) /\ \A x \in Slots : ~Holds(p, x)'
  <2>1. CASE nameiparent(p)
    <3>1. NotFound(p)  BY <2>1 DEF NamexNone
    <3> QED BY <1>1, <3>1, NamexFailMoves
  <2>2. CASE ~nameiparent(p)
    <3>1. Goto(p, Result(p)) /\ UNCHANGED <<at, ip>>  BY <2>2 DEF NamexNone
    <3> QED BY <1>1, <2>2, <3>1, NamexParentMoves
  <2> QED BY <2>1, <2>2
<1> QED BY <1>1, <1>2, StillInv DEF K, Iput, DpSteps

LEMMA Link2Inv ==
  ASSUME FsInv, NEW p \in Procs, link2(p), made' \in Nat
  PROVE  FsInv'
<1> DEFINE s == at[p]
           d == Loaded(s).d
           i == dirlookup(d, skipelem(p))
<1>1. /\ ilock(p, "link2", s) /\ at' = [at EXCEPT ![p] = ip[p]] /\ ip' = [ip EXCEPT ![p] = None]
      /\ UNCHANGED <<dinode, bitmap, cwd, ofile, call, path, inum>>
  BY DEF link2
<1>2. /\ pc[p] = "link2" /\ K(p) = "link2" /\ s \in Slots /\ icache[s].ref > 0 /\ icache[s].lock = 0
      /\ d.type # "free" /\ d = dinode[icache[s].inum] /\ icache[s].inum \in Inums
  BY <1>1, LockedAt DEF AtSteps
<1>3. skipelem(p) \in Elems  BY <1>2, SkipElem
<1>4. i \in {0} \union Inums  BY <1>2, <1>3, LookupType
<1>5. \A x \in Slots : ~Holds(p, x)  BY <1>2, NoLock DEF DpSteps
<1> HIDE DEF i
<1>6. CASE /\ i # 0 /\ HasSlot(icache, i)
           /\ icache' = iget(Seen(icache, s, p), i)
           /\ dp' = [dp EXCEPT ![p] = s]
           /\ Put(p, SlotOf(icache, i), "unlockdp")
           /\ UNCHANGED data
  <2> DEFINE t == SlotOf(icache, i)
  <2>1. Good(icache, dinode)' /\ Effect(s, p, t) /\ t \in Slots  BY <1>1, <1>2, <1>4, <1>6, EffectSeenGet
  <2>2. Put(p, t, "unlockdp")  BY <1>6
  <2> HIDE DEF t
  <2>3. Moved(p, t)  BY <1>1, <1>2, <1>6, <2>1, <2>2, Link2FailMoves
  <2>4. DiskType'  BY <1>1, <1>6 DEF FsInv, DiskType
  <2>5. \A x \in Slots : Holds(p, x)' <=> x = s
    <3>1. pc'[p] = "iput" /\ ret'[p] = "unlockdp" /\ dp'[p] = s  BY <1>6 DEF Put, FsInv, RegType
    <3> QED BY <3>1 DEF Holds, K, Iput, DpSteps
  <2> QED BY <1>2, <1>5, <2>1, <2>3, <2>4, <2>5, StepInv
<1>7. CASE /\ i = 0 /\ Filled(d)
           /\ icache' = Seen(icache, s, 0)
           /\ data' = SetEntry(data, d, skipelem(p), icache[ip[p]].inum)
           /\ Put(p, s, "link3")
           /\ UNCHANGED dp
  <2>1. Moved(p, None) /\ \A x \in Slots : ~Holds(p, x)'  BY <1>1, <1>2, <1>7, Link2Moves
  <2>2. icache[ip[p]].inum \in Inums
    <3>1. ip[p] \in Slots  BY <1>2 DEF FsInv, RegType, RegsOk
    <3> QED BY <3>1, RefNat, SlotFields
  <2>3. data' \in [Blocks -> Block]
    <3>1. data \in [Blocks -> Block] /\ icache[ip[p]].inum \in {0} \union Inums  BY <2>2 DEF FsInv, DiskType
    <3> QED BY <1>3, <1>7, <3>1, SetEntryType
  <2>4. DiskType'  BY <1>1, <2>3 DEF FsInv, DiskType
  <2> QED BY <1>1, <1>7, <2>1, <2>4, SeenInv DEF AtSteps
<1> QED BY <1>6, <1>7 DEF link2, i

\* Steps that begin with dp locked, and nothing else.
LEMMA HeldDp ==
  ASSUME FsInv, NEW p \in Procs, pc[p] \in DpSteps
  PROVE  /\ K(p) = pc[p] /\ dp[p] \in Slots /\ icache[dp[p]].ref > 0 /\ icache[dp[p]].lock = p
         /\ icache[dp[p]].valid = TRUE /\ icache[dp[p]].inum \in Inums
         /\ icache[dp[p]].d = dinode[icache[dp[p]].inum] /\ icache[dp[p]].d.type # "free"
         /\ icache[dp[p]].d \in Inode /\ Headed(icache[dp[p]].d)
         /\ \A x \in Slots : Holds(p, x) <=> x = dp[p]
<1>1. RegType /\ RegsOk(p) /\ K(p) = pc[p]  BY DEF FsInv, K, DpSteps, Iput
<1>2. dp[p] \in Slots  BY <1>1 DEF RegsOk, RegType
<1>3. icache[dp[p]].ref > 0  BY <1>2, Pointed
<1>4. \A x \in Slots : Holds(p, x) <=> x = dp[p]  BY <1>1 DEF Holds, DpSteps
<1>5. icache[dp[p]].lock = p  BY <1>2, <1>4 DEF FsInv, LockOk
<1>6. icache[dp[p]].valid = TRUE  BY <1>2, <1>5, Consts DEF FsInv, Good
<1>7. icache[dp[p]].d.type # "free" /\ icache[dp[p]].d = dinode[icache[dp[p]].inum]  BY <1>2, <1>3, <1>6 DEF FsInv, Good
<1>8. icache[dp[p]].inum \in Inums /\ icache[dp[p]].d \in Inode  BY <1>2, RefNat, SlotFields
<1>9. Headed(icache[dp[p]].d)  BY <1>7, <1>8 DEF FsInv, DiskType
<1> QED BY <1>1, <1>2, <1>3, <1>4, <1>5, <1>6, <1>7, <1>8, <1>9

LEMMA UnlockDpInv ==
  ASSUME FsInv, NEW p \in Procs, UnlockDp(p), made' \in Nat
  PROVE  FsInv'
<1>1. /\ pc[p] = "unlockdp" /\ icache' = [icache EXCEPT ![dp[p]].lock = 0] /\ dp' = [dp EXCEPT ![p] = None]
      /\ Put(p, dp[p], IF at[p] # None THEN "linkbad" ELSE "end_op")
      /\ UNCHANGED <<disk, cwd, ofile, call, path, at, ip, inum>>
  BY DEF UnlockDp, InStep
<1>2. /\ dp[p] \in Slots /\ icache[dp[p]].ref > 0 /\ icache[dp[p]].lock = p /\ icache[dp[p]].valid = TRUE
      /\ \A x \in Slots : Holds(p, x) <=> x = dp[p]
  BY <1>1, HeldDp DEF DpSteps
<1>3. DiskType' /\ dinode' = dinode  BY <1>1, SameDisk
<1>4. Good(icache, dinode)' /\ Effect(dp[p], 0, None)  BY <1>1, <1>2, <1>3, EffectLock
<1>5. Moved(p, None) /\ \A x \in Slots : ~Holds(p, x)'  BY <1>1, UnlockDpMoves
<1> QED BY <1>2, <1>3, <1>4, <1>5, Consts, StepInv

LEMMA Unlink1Inv ==
  ASSUME FsInv, NEW p \in Procs, unlink1(p), made' \in Nat
  PROVE  FsInv'
<1> DEFINE s == at[p]
           e == skipelem(p)
           i == dirlookup(Loaded(s).d, e)
<1>1. ilock(p, "unlink1", s) /\ UNCHANGED <<disk, cwd, ofile, call, path, ip, inum>>  BY DEF unlink1
<1>2. /\ pc[p] = "unlink1" /\ K(p) = "unlink1" /\ s \in Slots /\ icache[s].ref > 0 /\ icache[s].lock = 0
      /\ Loaded(s).d.type # "free" /\ Loaded(s).d = dinode[icache[s].inum] /\ icache[s].inum \in Inums
  BY <1>1, LockedAt DEF AtSteps
<1>3. e \in Elems  BY <1>2, SkipElem
<1>4. i \in {0} \union Inums  BY <1>2, <1>3, LookupType
<1>5. DiskType' /\ dinode' = dinode  BY <1>1, SameDisk
<1> HIDE DEF i
<1>6. CASE icache' = Seen(icache, s, 0) /\ PutAt(p, "end_op") /\ UNCHANGED dp
  <2>1. Moved(p, None) /\ \A x \in Slots : ~Holds(p, x)'  BY <1>1, <1>2, <1>6, PutAtEnd DEF AtSteps
  <2> QED BY <1>1, <1>5, <1>6, <2>1, SeenInv DEF AtSteps
<1>7. CASE /\ i # 0 /\ HasSlot(icache, i)
           /\ icache' = iget(Seen(icache, s, p), i)
           /\ dp' = [dp EXCEPT ![p] = s]
           /\ at' = [at EXCEPT ![p] = SlotOf(icache, i)]
           /\ Goto(p, "unlink2")
  <2> DEFINE t == SlotOf(icache, i)
  <2>1. Good(icache, dinode)' /\ Effect(s, p, t) /\ t \in Slots  BY <1>2, <1>4, <1>5, <1>7, EffectSeenGet
  <2>2. at' = [at EXCEPT ![p] = t]  BY <1>7
  <2> HIDE DEF t
  <2>3. Moved(p, t)  BY <1>1, <1>2, <1>7, <2>1, <2>2, Unlink1Moves
  <2>5. \A x \in Slots : Holds(p, x)' <=> x = s
    <3>1. pc'[p] = "unlink2" /\ dp'[p] = s  BY <1>7 DEF Goto, FsInv, RegType
    <3> QED BY <3>1 DEF Holds, K, Iput, DpSteps
  <2>6. \A x \in Slots : ~Holds(p, x)  BY <1>2, NoLock DEF DpSteps
  <2> QED BY <1>2, <1>5, <2>1, <2>3, <2>5, <2>6, StepInv
<1> QED BY <1>6, <1>7 DEF unlink1, i

LEMMA Create1Inv ==
  ASSUME FsInv, NEW p \in Procs, create1(p), made' \in Nat
  PROVE  FsInv'
<1> DEFINE s == at[p]
           d == Loaded(s).d
           i == dirlookup(d, skipelem(p))
           n == Least(FreeInodes)
<1>1. ilock(p, "create1", s) /\ UNCHANGED <<bitmap, data, cwd, ofile, call, path, ip>>  BY DEF create1
<1>2. /\ pc[p] = "create1" /\ K(p) = "create1" /\ s \in Slots /\ icache[s].ref > 0 /\ icache[s].lock = 0
      /\ d.type # "free" /\ d = dinode[icache[s].inum] /\ icache[s].inum \in Inums
  BY <1>1, LockedAt DEF AtSteps
<1>3. skipelem(p) \in Elems  BY <1>2, SkipElem
<1>4. i \in {0} \union Inums  BY <1>2, <1>3, LookupType
<1>5. \A x \in Slots : ~Holds(p, x)  BY <1>2, NoLock DEF DpSteps
<1> HIDE DEF i, n
<1>6. CASE /\ i # 0 /\ HasSlot(icache, i)
           /\ icache' = iget(Seen(icache, s, 0), i)
           /\ at' = [at EXCEPT ![p] = SlotOf(icache, i)]
           /\ Put(p, s, "create2")
           /\ UNCHANGED <<dinode, dp, inum>>
  <2> DEFINE t == SlotOf(icache, i)
  <2>1. Good(icache, dinode)' /\ Effect(s, 0, t) /\ t \in Slots  BY <1>2, <1>4, <1>6, EffectSeenGet
  <2>2. at' = [at EXCEPT ![p] = t]  BY <1>6
  <2> HIDE DEF t
  <2>3. Moved(p, t) /\ \A x \in Slots : ~Holds(p, x)'  BY <1>1, <1>2, <1>6, <2>1, <2>2, Create1FoundMoves
  <2>4. DiskType'  BY <1>1, <1>6 DEF FsInv, DiskType
  <2> QED BY <1>2, <1>5, <2>1, <2>3, <2>4, Consts, StepInv
<1>7. CASE /\ FreeInodes # {}
           /\ icache' = Seen(icache, s, p)
           /\ dinode' = [dinode EXCEPT ![n] = Free(NewType(p))]
           /\ dp' = [dp EXCEPT ![p] = s]
           /\ at' = [at EXCEPT ![p] = None]
           /\ inum' = [inum EXCEPT ![p] = n]
           /\ Goto(p, "ialloc")
  <2>1. n \in Inums /\ dinode[n].type = "free"
    <3>1. FreeInodes \in SUBSET Nat  BY Consts DEF FreeInodes
    <3>2. n \in FreeInodes  BY <1>7, <3>1, LeastIn DEF n
    <3> QED BY <3>2 DEF FreeInodes
  <2>2. Free(NewType(p)) \in Inode  BY FreeIsInode DEF NewType
  <2>3. Good(Seen(icache, s, p), dinode) /\ Changed(icache, Seen(icache, s, p), s, dinode[icache[s].inum], p)
    BY <1>2, GoodSeen DEF FsInv
  <2>4. Good(icache', dinode')  BY <1>7, <2>1, <2>2, <2>3, GoodAlloc
  <2>5. Good(icache, dinode)'  BY <2>4 DEF Good, Unique
  <2>6. Effect(s, p, None)
    <3>1. \A x \in Slots : icache[x].ref \in Nat /\ x # None  BY RefNat
    <3> QED BY <1>7, <2>3, <3>1 DEF Effect, One, Changed
  <2>7. DiskType'
    <3>1. Headed(Free(NewType(p)))  BY DEF Headed, Free
    <3>2. \A k \in Inums : dinode'[k] \in {dinode[k], Free(NewType(p))}  BY <1>7, <2>1 DEF FsInv, Good
    <3>3. \A k \in Inums : Headed(dinode'[k])  BY <3>1, <3>2 DEF FsInv, DiskType
    <3> QED BY <1>1, <3>3 DEF FsInv, DiskType
  <2>8. Moved(p, None)  BY <1>1, <1>2, <1>7, <2>1, Create1Moves
  <2>9. \A x \in Slots : Holds(p, x)' <=> x = s
    <3>1. pc'[p] = "ialloc" /\ dp'[p] = s  BY <1>7 DEF Goto, FsInv, RegType
    <3> QED BY <3>1 DEF Holds, K, Iput, DpSteps
  <2> QED BY <1>2, <1>5, <2>5, <2>6, <2>7, <2>8, <2>9, StepInv
<1> QED BY <1>6, <1>7 DEF create1, i, n

LEMMA IallocInv ==
  ASSUME FsInv, NEW p \in Procs, ialloc(p), made' \in Nat
  PROVE  FsInv'
<1>1. /\ pc[p] = "ialloc" /\ HasSlot(icache, inum[p]) /\ icache' = iget(icache, inum[p])
      /\ at' = [at EXCEPT ![p] = SlotOf(icache, inum[p])] /\ inum' = [inum EXCEPT ![p] = 0] /\ Goto(p, "create3")
      /\ UNCHANGED <<disk, cwd, ofile, call, path, ip, dp>>
  BY DEF ialloc, InStep
<1>2. inum[p] \in Inums  BY <1>1 DEF FsInv, RegsOk, RegType
<1>3. DiskType' /\ dinode' = dinode  BY <1>1, SameDisk
<1> DEFINE t == SlotOf(icache, inum[p])
<1>4. Good(icache, dinode)' /\ Effect(None, 0, t) /\ t \in Slots  BY <1>1, <1>2, <1>3, EffectGet
<1>5. at' = [at EXCEPT ![p] = t]  BY <1>1
<1> HIDE DEF t
<1>6. Moved(p, t)  BY <1>1, <1>4, <1>5, IallocMoves
<1>7. dp[p] \in Slots /\ \A x \in Slots : Holds(p, x) <=> x = dp[p]  BY <1>1, HeldDp DEF DpSteps
<1>8. \A x \in Slots : Holds(p, x)' <=> x = dp[p]
  <2>1. pc'[p] = "create3" /\ dp'[p] = dp[p]  BY <1>1 DEF Goto, FsInv, RegType
  <2> QED BY <2>1 DEF Holds, K, Iput, DpSteps
<1> QED BY <1>3, <1>4, <1>6, <1>7, <1>8, Consts, StepInv

-----------------------------------------------------------------------------
\* Steps that end with the inode s locked, or not, and let dp go, which they have changed.
Effect2(s, h, r) ==
  \A x \in Slots : /\ icache'[x].ref = icache[x].ref
                   /\ icache'[x].lock = IF x = s THEN h ELSE IF x = r THEN 0 ELSE icache[x].lock

LEMMA StepInv2 ==
  ASSUME FsInv, NEW p \in Procs, NEW s \in Slots, NEW h \in {0, p}, NEW r \in Slots, Moved(p, None), DiskType',
         Good(icache, dinode)', Effect2(s, h, r), icache[s].lock \in {0, p}, icache[r].lock \in {0, p},
         \A x \in Slots : Holds(p, x)' <=> IF x = s THEN h = p ELSE x # r /\ Holds(p, x)
  PROVE  FsInv'
<1>1. Recounts(p)
  <2>1. \A x \in Slots : icache[x].ref \in Nat /\ Own(p, x) \in Nat  BY Pointed
  <2>2. \A x \in Slots : Own(p, x)' = Own(p, x) + One(None, x)  BY DEF Moved
  <2>3. \A x \in Slots : One(None, x) = 0  BY Consts DEF One
  <2> HIDE DEF Own
  <2> QED BY <2>1, <2>2, <2>3 DEF Effect2, Recounts
<1>2. Relocks(p)
  <2>1. \A x \in Slots : icache[x].lock = p <=> Holds(p, x)  BY DEF FsInv, LockOk
  <2> QED BY <2>1, Consts DEF Effect2, Relocks
<1>3. Apart(p)'  BY DEF Apart, Moved
<1> QED BY <1>1, <1>2, <1>3, Glue DEF Moved

\* The slots s and r of a cache change.
Two(ic, kc, s, d, h, r, u) ==
  /\ kc[s].ref = ic[s].ref /\ kc[s].lock = h /\ kc[s].inum = ic[s].inum /\ kc[s].valid = TRUE /\ kc[s].d = d
  /\ kc[r].ref = ic[r].ref /\ kc[r].lock = 0 /\ kc[r].inum = ic[r].inum /\ kc[r].valid = TRUE /\ kc[r].d = u
  /\ \A x \in Slots : x # s /\ x # r => kc[x] = ic[x]

LEMMA TwoSlots ==
  ASSUME FsInv, NEW s \in Slots, icache[s].ref > 0, NEW d \in Inode, d.type # "free", NEW h \in {0} \union Procs,
         NEW r \in Slots, r # s, icache[r].ref > 0, icache[r].valid = TRUE, NEW u \in Inode, u.type # "free"
  PROVE  /\ Good([With(icache, s, d, h) EXCEPT ![r].d = u, ![r].lock = 0], iupdate(iupdate(dinode, s, d), r, u))
         /\ Two(icache, [With(icache, s, d, h) EXCEPT ![r].d = u, ![r].lock = 0], s, d, h, r, u)
<1>0. PICK jc : jc = With(icache, s, d, h)  OBVIOUS
<1>1. PICK dj : dj = iupdate(dinode, s, d)  OBVIOUS
<1>2. Good(jc, dj) /\ Changed(icache, jc, s, d, h)  BY <1>0, <1>1, GoodWith, WithChanged DEF FsInv
<1>3. jc[r] = icache[r] /\ jc[r].ref > 0 /\ jc[r].valid = TRUE  BY <1>2 DEF Changed
<1>4. PICK kc : kc = [jc EXCEPT ![r].d = u, ![r].lock = 0]  OBVIOUS
<1>5. Changed(jc, kc, r, u, 0)
  <2>1. 0 \in {0} \union Procs  OBVIOUS
  <2>2. Changed(jc, [jc EXCEPT ![r].d = u, ![r].lock = 0], r, u, 0)  BY <1>2, <1>3, <2>1, SetChanged
  <2> QED BY <1>4, <2>2
<1>6. Good(kc, iupdate(dj, r, u))
  <2>1. Good(kc, [dj EXCEPT ![jc[r].inum] = u])  BY <1>2, <1>3, <1>5, GoodChanged
  <2> QED BY <1>3, <2>1 DEF iupdate
<1>7. Two(icache, kc, s, d, h, r, u)  BY <1>2, <1>3, <1>5 DEF Changed, Two
<1> QED BY <1>0, <1>1, <1>4, <1>6, <1>7

LEMMA EffectTwo ==
  ASSUME FsInv, NEW s \in Slots, icache[s].ref > 0, NEW d \in Inode, d.type # "free", NEW h \in {0} \union Procs,
         NEW r \in Slots, r # s, icache[r].ref > 0, icache[r].valid = TRUE, NEW u \in Inode, u.type # "free",
         icache' = [With(icache, s, d, h) EXCEPT ![r].d = u, ![r].lock = 0],
         dinode' = iupdate(iupdate(dinode, s, d), r, u)
  PROVE  Good(icache, dinode)' /\ Effect2(s, h, r) /\ Two(icache, icache', s, d, h, r, u)
<1>1. Good(icache', dinode') /\ Two(icache, icache', s, d, h, r, u)  BY TwoSlots
<1>2. PICK kc : kc = icache'  OBVIOUS
<1>3. Two(icache, kc, s, d, h, r, u)  BY <1>1, <1>2
<1>4. \A x \in Slots : /\ kc[x].ref = icache[x].ref
                       /\ kc[x].lock = IF x = s THEN h ELSE IF x = r THEN 0 ELSE icache[x].lock
  BY <1>3 DEF Two
<1>5. Effect2(s, h, r)  BY <1>2, <1>4 DEF Effect2
<1> QED BY <1>1, <1>5 DEF Good, Unique

LEMMA NlinkOnly ==
  ASSUME NEW d \in Inode, NEW n \in Int
  PROVE  /\ [d EXCEPT !.nlink = n] \in Inode /\ [d EXCEPT !.nlink = n].type = d.type
         /\ [d EXCEPT !.nlink = n].size = d.size /\ [d EXCEPT !.nlink = n].addrs = d.addrs
         /\ [d EXCEPT !.nlink = n].nlink = n
BY DEF Inode

LEMMA Unlink2Inv ==
  ASSUME FsInv, NEW p \in Procs, unlink2(p), made' \in Nat
  PROVE  FsInv'
<1> DEFINE s  == at[p]
           d  == Loaded(s).d
           up == icache[dp[p]].d
           n  == IF d.type = "dir" THEN up.nlink - 1 ELSE up.nlink
           u  == [up EXCEPT !.nlink = n]
<1>1. ilock(p, "unlink2", s) /\ UNCHANGED <<cwd, ofile, call, path, ip, inum>>  BY DEF unlink2
<1>2. /\ pc[p] = "unlink2" /\ K(p) = "unlink2" /\ s \in Slots /\ icache[s].ref > 0 /\ icache[s].lock = 0
      /\ d.type # "free" /\ d = dinode[icache[s].inum] /\ icache[s].inum \in Inums /\ d \in Inode
  BY <1>1, LockedAt DEF AtSteps
<1>3. /\ dp[p] \in Slots /\ icache[dp[p]].ref > 0 /\ icache[dp[p]].lock = p /\ icache[dp[p]].valid = TRUE
      /\ up = dinode[icache[dp[p]].inum] /\ up.type # "free" /\ up \in Inode /\ Headed(up)
      /\ \A x \in Slots : Holds(p, x) <=> x = dp[p]
  BY <1>2, HeldDp DEF DpSteps
<1>4. s # dp[p]  BY <1>2, <1>3, Consts
<1>5. skipelem(p) \in Elems  BY <1>2, SkipElem DEF DpSteps
<1>6. CASE icache' = Seen(icache, s, 0) /\ PutAt(p, "unlockdp") /\ UNCHANGED <<disk, dp>>
  <2>1. DiskType' /\ dinode' = dinode  BY <1>6, SameDisk
  <2>2. Moved(p, None)  BY <1>1, <1>2, <1>6, Unlink2FailMoves
  <2>3. Good(icache, dinode)' /\ Effect(s, 0, None)  BY <1>2, <1>6, <2>1, EffectSeen
  <2>4. \A x \in Slots : Holds(p, x)' <=> x = dp[p]
    <3>1. pc'[p] = "iput" /\ ret'[p] = "unlockdp" /\ dp'[p] = dp[p]  BY <1>6 DEF PutAt, Put, FsInv, RegType
    <3> QED BY <3>1 DEF Holds, K, Iput, DpSteps
  <2> QED BY <1>2, <1>3, <1>4, <2>1, <2>2, <2>3, <2>4, Consts, StepInv
<1>7. CASE /\ data' = SetEntry(data, up, skipelem(p), 0)
           /\ dinode' = iupdate(dinode, dp[p], u)
           /\ icache' = [Seen(icache, s, p) EXCEPT ![dp[p]].d = u, ![dp[p]].lock = 0]
           /\ dp' = [dp EXCEPT ![p] = None]
           /\ Put(p, dp[p], "unlink3")
           /\ UNCHANGED <<bitmap, at>>
  <2>1. n \in Int  BY <1>3, InodeFields
  <2> HIDE DEF n
  <2>2. u \in Inode /\ u.type = up.type /\ u.size = up.size /\ u.addrs = up.addrs  BY <1>3, <2>1, NlinkOnly
  <2>3. Headed(u)  BY <1>3, <2>2 DEF Headed
  <2> HIDE DEF u, up
  <2>4. iupdate(dinode, s, d) = dinode  BY <1>2 DEF iupdate, FsInv, Good
  <2>5. dinode' = iupdate(iupdate(dinode, s, d), dp[p], u)  BY <1>7, <2>4
  <2>6. icache' = [With(icache, s, d, p) EXCEPT ![dp[p]].d = u, ![dp[p]].lock = 0]  BY <1>7 DEF Seen
  <2> HIDE DEF d
  <2>7. Good(icache, dinode)' /\ Effect2(s, p, dp[p])
    <3>1. d \in Inode /\ d.type # "free" /\ u.type # "free" /\ p \in {0} \union Procs  BY <1>2, <1>3, <2>2
    <3> HIDE DEF s
    <3>2. PICK r \in Slots : r = dp[p]  BY <1>3
    <3>3. Good(icache, dinode)' /\ Effect2(s, p, r)
      BY <1>2, <1>3, <1>4, <2>2, <2>5, <2>6, <3>1, <3>2, EffectTwo
    <3> QED BY <3>2, <3>3
  <2>8. DiskType'
    <3>1. data' \in [Blocks -> Block]  BY <1>5, <1>7, SetEntryType DEF FsInv, DiskType
    <3>2. bitmap' \subseteq Blocks  BY <1>7 DEF FsInv, DiskType
    <3> QED BY <1>3, <1>7, <2>2, <2>3, <3>1, <3>2, DiskUpdate
  <2>9. Moved(p, None)  BY <1>1, <1>2, <1>7, Unlink2Moves
  <2>10. \A x \in Slots : Holds(p, x)' <=> x = s
    <3>1. pc'[p] = "iput" /\ ret'[p] = "unlink3" /\ at'[p] = s  BY <1>7 DEF Put, FsInv, RegType
    <3> QED BY <3>1 DEF Holds, K, Iput, DpSteps
  <2> QED BY <1>2, <1>3, <1>4, <2>7, <2>8, <2>9, <2>10, StepInv2
<1> QED BY <1>6, <1>7 DEF unlink2

LEMMA Create3Inv ==
  ASSUME FsInv, NEW p \in Procs, create3(p), made' \in Nat
  PROVE  FsInv'
<1> DEFINE s   == at[p]
           n   == icache[s].inum
           up  == icache[dp[p]].d
           dir == NewType(p) = "dir"
           new == [Loaded(s).d EXCEPT !.nlink = 1]
           w   == writei(new, Space)
           d   == IF dir THEN w.d ELSE new
           l   == IF dir THEN up.nlink + 1 ELSE up.nlink
           u   == [up EXCEPT !.nlink = l]
           dt  == IF dir THEN [w.sp.data EXCEPT ![d.addrs[0]] = Dots(n, icache[dp[p]].inum)] ELSE data
<1>1. ilock(p, "create3", s) /\ UNCHANGED <<cwd, ofile, call, path, at, ip, inum>>  BY DEF create3
<1>2. /\ pc[p] = "create3" /\ K(p) = "create3" /\ s \in Slots /\ icache[s].ref > 0 /\ icache[s].lock = 0
      /\ Loaded(s).d.type # "free" /\ n \in Inums /\ Loaded(s).d \in Inode /\ Headed(Loaded(s).d)
  BY <1>1, LockedAt DEF AtSteps
<1>3. /\ dp[p] \in Slots /\ icache[dp[p]].ref > 0 /\ icache[dp[p]].lock = p /\ icache[dp[p]].valid = TRUE
      /\ icache[dp[p]].inum \in Inums
      /\ up = dinode[icache[dp[p]].inum] /\ up.type # "free" /\ up \in Inode /\ Headed(up)
      /\ \A x \in Slots : Holds(p, x) <=> x = dp[p]
  BY <1>2, HeldDp DEF DpSteps
<1>4. s # dp[p]  BY <1>2, <1>3, Consts
<1>5. skipelem(p) \in Elems  BY <1>2, SkipElem DEF DpSteps
<1>6. /\ dir => new.size = 0 /\ Room(new, Space)
      /\ data' = SetEntry(dt, up, skipelem(p), n)
      /\ bitmap' = IF dir THEN w.sp.used ELSE bitmap
      /\ dinode' = iupdate(iupdate(dinode, s, d), dp[p], u)
      /\ icache' = [With(icache, s, d, p) EXCEPT ![dp[p]].d = u, ![dp[p]].lock = 0]
      /\ dp' = [dp EXCEPT ![p] = None]
      /\ Put(p, dp[p], "create4")
  BY DEF create3
<1>7. new \in Inode /\ new.type # "free" /\ Headed(new)
  <2>1. /\ new \in Inode /\ new.type = Loaded(s).d.type /\ new.size = Loaded(s).d.size /\ new.addrs = Loaded(s).d.addrs
    BY <1>2, NlinkOnly
  <2> HIDE DEF new
  <2> QED BY <1>2, <2>1 DEF Headed
<1>8. DiskType /\ data \in [Blocks -> Block] /\ bitmap \subseteq Blocks  BY DEF FsInv, DiskType
<1> HIDE DEF new, dir
<1>9. dir => /\ w.d \in Inode /\ w.d.type = new.type /\ Headed(w.d)
             /\ w.sp.used \subseteq Blocks /\ w.sp.data \in [Blocks -> Block]
  <2>1. 0 < MAXFILE  BY Consts DEF MAXFILE
  <2> HIDE DEF w
  <2> QED BY <1>6, <1>7, <1>8, <2>1, WriteType DEF w
<1> HIDE DEF w
<1>10. d \in Inode /\ d.type # "free" /\ Headed(d)  BY <1>7, <1>9
<1> HIDE DEF d
<1>11. dt \in [Blocks -> Block]
  <2>1. Dots(n, icache[dp[p]].inum) \in Block  BY <1>2, <1>3, ZeroType
  <2> QED BY <1>8, <1>9, <2>1
<1> HIDE DEF dt
<1>12. l \in Int  BY <1>3, InodeFields
<1> HIDE DEF l
<1>13. u \in Inode /\ u.type # "free" /\ Headed(u)
  <2>1. u \in Inode /\ u.type = up.type /\ u.size = up.size /\ u.addrs = up.addrs  BY <1>3, <1>12, NlinkOnly
  <2> HIDE DEF u, up
  <2> QED BY <1>3, <2>1 DEF Headed
<1> HIDE DEF u, up
<1>14. Good(icache, dinode)' /\ Effect2(s, p, dp[p])
  <2>1. p \in {0} \union Procs  OBVIOUS
  <2>2. PICK r \in Slots : r = dp[p]  BY <1>3
  <2> HIDE DEF s
  <2>3. Good(icache, dinode)' /\ Effect2(s, p, r)  BY <1>2, <1>3, <1>4, <1>6, <1>10, <1>13, <2>1, <2>2, EffectTwo
  <2> QED BY <2>2, <2>3
<1>15. DiskType'
  <2>1. data' \in [Blocks -> Block]  BY <1>2, <1>5, <1>6, <1>11, SetEntryType
  <2>2. bitmap' \subseteq Blocks  BY <1>6, <1>8, <1>9
  <2>3. \A k \in Inums : dinode'[k] \in {dinode[k], d, u}  BY <1>2, <1>3, <1>6 DEF iupdate, FsInv, Good
  <2>4. \A k \in Inums : Headed(dinode'[k])  BY <1>8, <1>10, <1>13, <2>3 DEF DiskType
  <2> QED BY <2>1, <2>2, <2>4 DEF DiskType
<1>16. Moved(p, None)  BY <1>1, <1>2, <1>6, Create3Moves
<1>17. \A x \in Slots : Holds(p, x)' <=> x = s
  <2>1. pc'[p] = "iput" /\ ret'[p] = "create4" /\ at'[p] = s  BY <1>1, <1>6 DEF Put, FsInv, RegType
  <2> QED BY <2>1 DEF Holds, K, Iput, DpSteps
<1> QED BY <1>2, <1>3, <1>4, <1>14, <1>15, <1>16, <1>17, StepInv2

-----------------------------------------------------------------------------
\* The steps of iput.
LEMMA InIput ==
  ASSUME FsInv, NEW p \in Procs, pc[p] \in Iput
  PROVE  /\ put[p] \in Slots /\ icache[put[p]].ref > 0 /\ K(p) = ret[p] /\ ret[p] \in Back
         /\ icache[put[p]].inum \in Inums /\ RegType /\ RegsOk(p)
<1>1. RegType /\ RegsOk(p)  BY DEF FsInv
<1>2. put[p] \in Slots /\ K(p) = ret[p] /\ ret[p] \in Back  BY <1>1 DEF RegType, RegsOk, K
<1>3. icache[put[p]].ref > 0  BY <1>2, Pointed
<1>4. icache[put[p]].inum \in Inums  BY <1>2, RefNat, SlotFields
<1> QED BY <1>1, <1>2, <1>3, <1>4

\* From one step of iput to the next.
LEMMA IputMoves ==
  ASSUME FsInv, NEW p \in Procs, pc[p] \in Iput, NEW l \in Iput, Goto(p, l), made' \in Nat,
         UNCHANGED <<cwd, ofile, call, path, ptrs>>
  PROVE  /\ Only(p) /\ RegType' /\ RegsOk(p)' /\ pc'[p] = l /\ K(p)' = K(p)
         /\ \A x \in Slots : Own(p, x)' = Own(p, x)
         /\ put'[p] = put[p] /\ at'[p] = at[p] /\ dp'[p] = dp[p]
<1>0. RegType /\ RegsOk(p)  BY DEF FsInv
<1> USE DEF Goto, ptrs
<1>1. /\ pc' = [pc EXCEPT ![p] = l]
      /\ UNCHANGED <<ret, put, cwd, ofile, call, path, at, ip, dp, inum>>
  OBVIOUS
<1>2. Only(p)  BY <1>0 DEF Only, Same, RegType
<1>3. RegType'  BY <1>0 DEF RegType, Steps
<1>4. pc'[p] = l  BY <1>0 DEF RegType
<1>5. K(p)' = K(p)  BY <1>1, <1>4 DEF K
<1>6. RegsOk(p)'
  <2>1. pc[p] # "ialloc" /\ l # "ialloc" /\ pc[p] \notin {"write", "read", "stat"} /\ l \notin {"write", "read", "stat"}
    BY DEF Iput
  <2> HIDE DEF Iput
  <2> QED BY <1>0, <1>1, <1>4, <1>5, <2>1 DEF RegsOk
<1>7. \A x \in Slots : Own(p, x)' = Own(p, x)  BY <1>1 DEF Own, One
<1> QED BY <1>1, <1>2, <1>3, <1>4, <1>5, <1>6, <1>7

LEMMA IputInv ==
  ASSUME FsInv, NEW p \in Procs, iput(p), made' \in Nat
  PROVE  FsInv'
<1>1. pc[p] = "iput" /\ icache[put[p]].lock = 0 /\ UNCHANGED <<disk, cwd, ofile, call, path, ptrs>>
  BY DEF iput, InStep, CanLock
<1>2. /\ put[p] \in Slots /\ icache[put[p]].ref > 0 /\ K(p) = ret[p] /\ ret[p] \in Back /\ RegType /\ RegsOk(p)
  BY <1>1, InIput DEF Iput
<1>3. DiskType' /\ dinode' = dinode  BY <1>1, SameDisk
<1>4. \A x \in Slots : icache[x].lock = p <=> Holds(p, x)  BY DEF FsInv, LockOk
<1>5. \A x \in Slots : icache[x].ref \in Nat /\ x # None  BY RefNat
<1>6. \A x \in Slots : Own(p, x) \in Nat  BY Pointed
<1>7. CASE ~LastUse(put[p])
  <2>1. Goto(p, "drop") /\ UNCHANGED icache  BY <1>7 DEF iput
  <2>2. /\ Only(p) /\ RegType' /\ RegsOk(p)' /\ pc'[p] = "drop" /\ K(p)' = K(p)
        /\ \A x \in Slots : Own(p, x)' = Own(p, x)
        /\ put'[p] = put[p] /\ at'[p] = at[p] /\ dp'[p] = dp[p]
    BY <1>1, <2>1, IputMoves DEF Iput
  <2>3. Good(icache, dinode)'  BY <1>3, <2>1, EffectSame
  <2>4. Recounts(p)  BY <1>5, <1>6, <2>1, <2>2 DEF Recounts
  <2>5. Relocks(p)
    <3>1. \A x \in Slots : Holds(p, x)' <=> Holds(p, x)  BY <1>1, <2>2 DEF Holds
    <3> QED BY <1>4, <2>1, <3>1 DEF Relocks
  <2>6. Apart(p)'  BY <2>2 DEF Apart
  <2> QED BY <1>3, <2>2, <2>3, <2>4, <2>5, <2>6, Glue
<1>8. CASE LastUse(put[p])
  <2>1. Goto(p, "free") /\ icache' = [icache EXCEPT ![put[p]].lock = p]  BY <1>8 DEF iput
  <2>2. /\ Only(p) /\ RegType' /\ RegsOk(p)' /\ pc'[p] = "free" /\ K(p)' = K(p)
        /\ \A x \in Slots : Own(p, x)' = Own(p, x)
        /\ put'[p] = put[p] /\ at'[p] = at[p] /\ dp'[p] = dp[p]
    BY <1>1, <2>1, IputMoves DEF Iput
  <2>3. icache[put[p]].valid = TRUE  BY <1>2, <1>8, RefNat, SlotFields DEF LastUse
  <2>4. p \in {0} \union Procs  OBVIOUS
  <2>5. Good(icache, dinode)' /\ Effect(put[p], p, None)  BY <1>2, <1>3, <2>1, <2>3, <2>4, EffectLock
  <2>6. Recounts(p)
    <3>1. \A x \in Slots : One(None, x) = 0  BY <1>5 DEF One
    <3> HIDE DEF Own
    <3> QED BY <1>5, <1>6, <2>2, <2>5, <3>1 DEF Recounts, Effect
  <2>7. Relocks(p)
    <3>1. \A x \in Slots : Holds(p, x)' <=> x = put[p] \/ Holds(p, x)  BY <1>1, <2>2 DEF Holds
    <3> QED BY <1>1, <1>4, <2>5, <3>1 DEF Relocks, Effect
  <2>8. Apart(p)'
    <3>1. K(p) = "unlockdp" => dp[p] # put[p]
      <4> SUFFICES ASSUME K(p) = "unlockdp", dp[p] = put[p] PROVE FALSE  OBVIOUS
      <4>1. Holds(p, put[p])  BY DEF Holds, DpSteps
      <4> QED BY <1>1, <1>2, <1>4, <4>1, Consts
    <3>2. K(p) \in {"unlink3", "create4"} => at[p] # put[p]
      <4> SUFFICES ASSUME K(p) \in {"unlink3", "create4"}, at[p] = put[p] PROVE FALSE  OBVIOUS
      <4>1. Holds(p, put[p])  BY DEF Holds
      <4> QED BY <1>1, <1>2, <1>4, <4>1, Consts
    <3> QED BY <2>2, <3>1, <3>2 DEF Apart
  <2> QED BY <1>3, <2>2, <2>5, <2>6, <2>7, <2>8, Glue
<1> QED BY <1>7, <1>8

LEMMA IputFreeInv ==
  ASSUME FsInv, NEW p \in Procs, IputFree(p), made' \in Nat
  PROVE  FsInv'
<1> DEFINE s == put[p]
<1>1. /\ pc[p] = "free" /\ bitmap' = bfree(bitmap, itrunc(icache[s].d))
      /\ data' = [b \in Blocks |-> IF b \in itrunc(icache[s].d) THEN Zero ELSE data[b]]
      /\ dinode' = iupdate(dinode, s, Free("free"))
      /\ icache' = [icache EXCEPT ![s] = [@ EXCEPT !.valid = FALSE, !.lock = 0, !.d = Free("free")]]
      /\ Goto(p, "drop") /\ UNCHANGED <<cwd, ofile, call, path, ptrs>>
  BY DEF IputFree, InStep
<1>2. /\ s \in Slots /\ icache[s].ref > 0 /\ K(p) = ret[p] /\ ret[p] \in Back
  BY <1>1, InIput DEF Iput
<1>3. \A x \in Slots : icache[x].lock = p <=> Holds(p, x)  BY DEF FsInv, LockOk
<1>4. icache \in CacheType /\ \A x \in Slots : icache[x].ref \in Nat /\ x # None  BY RefNat
<1>5. \A x \in Slots : Own(p, x) \in Nat  BY Pointed
<1>6. /\ Only(p) /\ RegType' /\ RegsOk(p)' /\ pc'[p] = "drop" /\ K(p)' = K(p)
      /\ \A x \in Slots : Own(p, x)' = Own(p, x)
      /\ put'[p] = put[p] /\ at'[p] = at[p] /\ dp'[p] = dp[p]
  BY <1>1, IputMoves DEF Iput
<1>7. Free("free") \in Inode /\ Headed(Free("free"))
  <2>1. Free("free") \in Inode  BY FreeIsInode
  <2>2. Headed(Free("free"))  BY DEF Headed, Free
  <2> QED BY <2>1, <2>2
<1>8. Cleared(icache, icache', s)  BY <1>1, <1>2, <1>4, FreeCleared
<1>9. Good(icache', dinode')
  <2>1. Good(icache', [dinode EXCEPT ![icache[s].inum] = Free("free")])  BY <1>2, <1>7, <1>8, GoodCleared DEF FsInv
  <2> QED BY <1>1, <2>1 DEF iupdate
<1>10. Good(icache, dinode)'  BY <1>9 DEF Good, Unique
<1>11. DiskType'
  <2>1. bitmap' \subseteq Blocks  BY <1>1 DEF FsInv, DiskType, bfree
  <2>2. data' \in [Blocks -> Block]
    <3>1. Zero \in Block /\ data \in [Blocks -> Block]  BY ZeroType DEF FsInv, DiskType
    <3> QED BY <1>1, <3>1
  <2> QED BY <1>1, <1>2, <1>7, <2>1, <2>2, DiskUpdate
<1>12. Recounts(p)  BY <1>4, <1>5, <1>6, <1>8 DEF Recounts, Cleared
<1>13. Holds(p, s) /\ \A x \in Slots : Holds(p, x)' <=> x # s /\ Holds(p, x)
  <2>1. Apart(p)  BY DEF FsInv, LockOk, Apart
  <2>2. K(p) = "unlockdp" => s # dp[p]  BY <1>1, <2>1 DEF Apart
  <2>3. K(p) \in {"unlink3", "create4"} => s # at[p]  BY <1>1, <2>1 DEF Apart
  <2>4. K(p) \in DpSteps => K(p) = "unlockdp"  BY <1>2 DEF DpSteps, Back
  <2> QED BY <1>1, <1>6, <2>2, <2>3, <2>4 DEF Holds
<1>14. Relocks(p)
  <2>1. icache[s].lock = p /\ icache'[s].lock = 0 /\ \A x \in Slots : x # s => icache'[x] = icache[x]
    BY <1>2, <1>3, <1>8, <1>13 DEF Cleared
  <2> QED BY <1>3, <1>13, <2>1, Consts DEF Relocks
<1>15. Apart(p)'  BY <1>6 DEF Apart
<1> QED BY <1>6, <1>10, <1>11, <1>12, <1>14, <1>15, Glue

LEMMA DropMoves ==
  ASSUME FsInv, NEW p \in Procs, IputDrop(p), made' \in Nat
  PROVE  /\ Only(p) /\ RegType' /\ RegsOk(p)' /\ pc'[p] # "free" /\ K(p)' = K(p)
         /\ \A x \in Slots : Own(p, x) = Own(p, x)' + One(put[p], x)
         /\ at'[p] = at[p] /\ dp'[p] = dp[p] /\ pc[p] = "drop"
<1>1. /\ pc[p] = "drop" /\ put' = [put EXCEPT ![p] = None] /\ pc' = [pc EXCEPT ![p] = ret[p]]
      /\ ret' = [ret EXCEPT ![p] = "user"] /\ UNCHANGED <<cwd, ofile, call, path, at, ip, dp, inum>>
  BY DEF IputDrop, InStep, ptrs
<1>2. /\ put[p] \in Slots /\ K(p) = ret[p] /\ ret[p] \in Back /\ RegType /\ RegsOk(p)
  BY <1>1, InIput DEF Iput
<1>3. Only(p)  BY <1>1, <1>2 DEF Only, Same, RegType
<1>4. RegType'  BY <1>1, <1>2 DEF RegType, Steps, Back
<1>5. pc'[p] = ret[p] /\ ret'[p] = "user" /\ put'[p] = None  BY <1>1, <1>2 DEF RegType
<1>6. K(p)' = K(p) /\ pc'[p] \notin Iput /\ pc'[p] \notin {"free", "ialloc", "write", "read", "stat"} /\ inum[p] = 0
  BY <1>1, <1>2, <1>5 DEF K, Iput, Back, RegsOk
<1>7. RegsOk(p)'
  <2> HIDE DEF Iput
  <2> QED BY <1>1, <1>2, <1>5, <1>6 DEF RegsOk
<1>8. \A x \in Slots : Own(p, x) = Own(p, x)' + One(put[p], x)  BY <1>1, <1>5, Consts DEF Own, One
<1> QED BY <1>1, <1>3, <1>4, <1>5, <1>6, <1>7, <1>8

\* The reference that is given back is not the last one of a locked inode.
LEMMA IputDropInv ==
  ASSUME FsInv, NEW p \in Procs, IputDrop(p), made' \in Nat
  PROVE  FsInv'
<1>0. PICK s : s = put[p]  OBVIOUS
<1>1. /\ Only(p) /\ RegType' /\ RegsOk(p)' /\ pc'[p] # "free" /\ K(p)' = K(p)
      /\ \A x \in Slots : Own(p, x) = Own(p, x)' + One(s, x)
      /\ at'[p] = at[p] /\ dp'[p] = dp[p] /\ pc[p] = "drop"
  BY <1>0, DropMoves
<1>2. icache' = [icache EXCEPT ![s].ref = @ - 1] /\ UNCHANGED disk  BY <1>0 DEF IputDrop
<1>3. s \in Slots /\ icache[s].ref > 0  BY <1>0, <1>1, InIput DEF Iput
<1>4. icache \in CacheType /\ \A x \in Slots : icache[x].ref \in Nat /\ x # None  BY RefNat
<1>5. Counted(icache, icache', s, -1)
  <2>1. -1 \in Int /\ icache[s].ref + (-1) \in Nat /\ icache[s].ref + (-1) = icache[s].ref - 1  BY <1>3, <1>4
  <2>2. Counted(icache, [icache EXCEPT ![s].ref = icache[s].ref + (-1)], s, -1)  BY <1>3, <1>4, <2>1, RefCounted
  <2> QED BY <1>2, <2>1, <2>2
<1>6. DiskType' /\ dinode' = dinode  BY <1>2, SameDisk
<1>7. Recounts(p)
  <2>1. \A x \in Slots : One(s, x) \in Nat /\ (x = s => One(s, x) = 1) /\ (x # s => One(s, x) = 0)  BY DEF One
  <2>2. \A x \in Slots : Own(p, x) \in Nat /\ Own(p, x)' \in Nat  BY DEF Own, One
  <2> HIDE DEF Own
  <2> QED BY <1>1, <1>3, <1>4, <1>5, <2>1, <2>2 DEF Recounts, Counted
<1>8. \A x \in Slots : Holds(p, x)' <=> Holds(p, x)  BY <1>1 DEF Holds
<1>9. \A x \in Slots : icache'[x].lock = icache[x].lock  BY <1>5 DEF Counted
<1>10. Relocks(p)  BY <1>8, <1>9 DEF Relocks, FsInv, LockOk
<1>11. Apart(p)'  BY <1>1 DEF Apart
<1>12. RefExact' /\ LockOk'  BY <1>1, <1>7, <1>10, <1>11, RefStep, LockStep
<1>13. icache[s].lock # 0 => icache[s].ref + (-1) > 0
  <2> SUFFICES ASSUME icache[s].lock # 0 PROVE icache'[s].ref > 0
    BY <1>5, <1>3, <1>4 DEF Counted
  <2>1. PICK q \in Procs : icache'[s].lock = q  BY <1>3, <1>4, <1>9, SlotFields
  <2>2. Holds(q, s)'  BY <1>3, <1>12, <2>1 DEF LockOk
  <2>3. Own(q, s)' > 0 /\ Own(q, s)' \in Nat  BY <2>2 DEF Holds, Own, One
  <2>4. PointersCounted'  BY Counts, PTL
  <2>5. icache'[s].ref = Cardinality(Others(q, s))' + Own(q, s)' /\ Cardinality(Others(q, s))' \in Nat
    BY <1>3, <1>12, <2>4 DEF RefExact, PointersCounted
  <2> HIDE DEF Own
  <2> QED BY <2>3, <2>5
<1>14. Good(icache', dinode')
  <2>1. -1 \in Int  OBVIOUS
  <2> QED BY <1>3, <1>5, <1>6, <1>13, <2>1, GoodCounted DEF FsInv
<1>15. Good(icache, dinode)'  BY <1>14 DEF Good, Unique
<1> QED BY <1>1, <1>6, <1>7, <1>10, <1>11, <1>15, Glue

-----------------------------------------------------------------------------
LEMMA StepKeeps ==
  ASSUME FsInv, NEW p \in Procs, Step(p), made' \in Nat
  PROVE  FsInv'
BY IputInv, IputFreeInv, IputDropInv, NamexInv, NamexNoneInv, EndInv, Open1Inv, Chdir1Inv, FileWriteInv, FileReadInv, FileStatInv,
   Link1Inv, Begin2Inv, Link2Inv, Link3Inv, UnlockDpInv, LinkBadInv, Unlink1Inv, Unlink2Inv, Unlink3Inv,
   Create1Inv, Create2Inv, IallocInv, Create3Inv, Create4Inv
DEF Step

LEMMA NextKeeps == FsInv /\ [Next]_vars => FsInv'
<1> SUFFICES ASSUME FsInv, [Next]_vars PROVE FsInv'  OBVIOUS
<1>1. made \in Nat  BY DEF FsInv, RegType
<1>2. CASE Next
  <2>1. PICK p \in Procs : Enter(p) \/ (Step(p) /\ UNCHANGED made)  BY <1>2 DEF Next
  <2>2. CASE Step(p) /\ UNCHANGED made  BY <1>1, <2>2, StepKeeps
  <2>3. CASE Enter(p)
    <3>1. InStep(p, "user") /\ made' \in Nat  BY <1>1, <2>3 DEF Enter
    <3>2. CASE UseFile(p)  BY <3>1, <3>2, UseFileInv
    <3>3. CASE \E c \in Calls : Syscall(p, c)  BY <3>1, <3>3, SyscallInv
    <3> QED BY <2>3, <3>2, <3>3 DEF Enter
  <2> QED BY <2>1, <2>2, <2>3
<1>3. CASE UNCHANGED vars
  <2> USE <1>3 DEF vars
  <2>1. RegType' /\ DiskType'  BY DEF FsInv, RegType, DiskType
  <2>3. RefExact'
    <3>1. \A s \in Slots : PointersTo(s)' = PointersTo(s)  BY DEF PointersTo, Pointer
    <3> QED BY <3>1 DEF FsInv, RefExact
  <2>4. LockOk'  BY DEF FsInv, LockOk, Holds, K
  <2>5. \A p \in Procs : RegsOk(p)'  BY DEF FsInv, RegsOk, K
  <2>2. Good(icache, dinode)'  BY <1>3 DEF vars, FsInv, Good, Unique
  <2> QED BY <2>1, <2>2, <2>3, <2>4, <2>5 DEF FsInv
<1> QED BY <1>2, <1>3

-----------------------------------------------------------------------------
(***************************************************************************)
(* Blocks: which inode has which, on a disk of inodes di and data dt with  *)
(* the blocks used in use.                                                 *)
(***************************************************************************)
IndirectIn(d, dt) ==
  IF d.addrs[NDIRECT] = 0 THEN {} ELSE {dt[d.addrs[NDIRECT]].a[k] : k \in 0 .. NINDIRECT - 1} \ {0}
OwnedIn(d, dt) == Direct(d) \union IndirectIn(d, dt) \union ({d.addrs[NDIRECT]} \ {0})
\* An inode has blocks up to its size, all of them different.
Shape(d, dt) ==
  /\ \A k \in 0 .. NDIRECT - 1 : d.addrs[k] # 0 <=> k < d.size
  /\ d.addrs[NDIRECT] # 0 <=> NDIRECT < d.size
  /\ d.addrs[NDIRECT] # 0 => \A k \in 0 .. NINDIRECT - 1 : dt[d.addrs[NDIRECT]].a[k] # 0 <=> NDIRECT + k < d.size
  /\ d.type = "free" => d = Free("free")
  /\ IsFiniteSet(OwnedIn(d, dt))
  /\ Cardinality(OwnedIn(d, dt)) = d.size + (IF d.addrs[NDIRECT] = 0 THEN 0 ELSE 1)
BlocksIn(di, dt, used) ==
  /\ di \in [Inums -> Inode] /\ dt \in [Blocks -> Block]
  /\ \A i \in Inums : Shape(di[i], dt)
  /\ \A b \in Blocks : b \in used <=> \E i \in Inums : b \in OwnedIn(di[i], dt)
  /\ \A i, j \in Inums : i # j => OwnedIn(di[i], dt) \intersect OwnedIn(di[j], dt) = {}
BlocksInv == BlocksIn(dinode, data, bitmap)

LEMMA OwnedAreBlocks ==
  ASSUME NEW d \in Inode, NEW dt \in [Blocks -> Block]
  PROVE  OwnedIn(d, dt) \subseteq Blocks
<1>1. d.addrs \in [0 .. NDIRECT -> {0} \union Blocks] /\ NDIRECT \in 0 .. NDIRECT /\ NDIRECT \in Nat
  BY InodeFields, Consts
<1>2. Direct(d) \subseteq Blocks  BY <1>1 DEF Direct
<1>3. IndirectIn(d, dt) \subseteq Blocks
  <2>1. CASE d.addrs[NDIRECT] = 0  BY <2>1 DEF IndirectIn
  <2>2. CASE d.addrs[NDIRECT] # 0
    <3>1. d.addrs[NDIRECT] \in Blocks  BY <1>1, <2>2
    <3>2. dt[d.addrs[NDIRECT]].a \in [0 .. NINDIRECT - 1 -> {0} \union Blocks]  BY <3>1 DEF Block
    <3> QED BY <2>2, <3>2 DEF IndirectIn
  <2> QED BY <2>1, <2>2
<1> QED BY <1>1, <1>2, <1>3 DEF OwnedIn

LEMMA FreeOwnsNothing == ASSUME NEW d, NEW dt, d.addrs = Free("free").addrs PROVE OwnedIn(d, dt) = {}
<1>1. \A k \in 0 .. NDIRECT : d.addrs[k] = 0  BY DEF Free
<1>2. d.addrs[NDIRECT] = 0  BY <1>1, Consts
<1>3. Direct(d) = {}  BY <1>1, Consts DEF Direct
<1> QED BY <1>2, <1>3 DEF OwnedIn, IndirectIn

LEMMA SameIndirect ==
  ASSUME NEW d, NEW dt, NEW e, NEW du, e.addrs = d.addrs,
         d.addrs[NDIRECT] # 0 => du[d.addrs[NDIRECT]].a = dt[d.addrs[NDIRECT]].a
  PROVE  IndirectIn(e, du) = IndirectIn(d, dt)
<1>1. CASE d.addrs[NDIRECT] = 0  BY <1>1 DEF IndirectIn
<1>2. CASE d.addrs[NDIRECT] # 0
  <2>1. PICK a : a = dt[d.addrs[NDIRECT]].a /\ a = du[d.addrs[NDIRECT]].a  BY <1>2
  <2>2. IndirectIn(e, du) = {a[k] : k \in 0 .. NINDIRECT - 1} \ {0}  BY <1>2, <2>1 DEF IndirectIn
  <2>3. IndirectIn(d, dt) = {a[k] : k \in 0 .. NINDIRECT - 1} \ {0}  BY <1>2, <2>1 DEF IndirectIn
  <2> QED BY <2>2, <2>3
<1> QED BY <1>1, <1>2

LEMMA BlocksInvExact == FsInv /\ BlocksInv => BlocksExact
<1> SUFFICES ASSUME FsInv, BlocksInv PROVE BlocksExact  OBVIOUS
<1>1. \A i \in Inums : Owned(i) = OwnedIn(dinode[i], data)  BY DEF Owned, OwnedIn, Indirect, IndirectIn
<1>2. \A i \in Inums : dinode[i].type = "free" => OwnedIn(dinode[i], data) = {}
  <2> SUFFICES ASSUME NEW i \in Inums, dinode[i].type = "free" PROVE OwnedIn(dinode[i], data) = {}  OBVIOUS
  <2>1. dinode[i] = Free("free")  BY DEF BlocksInv, BlocksIn, Shape
  <2> QED BY <2>1, FreeOwnsNothing
<1>3. bitmap \subseteq Blocks /\ \A i \in Inums : OwnedIn(dinode[i], data) \subseteq Blocks
  BY OwnedAreBlocks DEF BlocksInv, BlocksIn, FsInv, DiskType
<1>4. bitmap = UNION {Owned(i) : i \in {k \in Inums : dinode[k].type # "free"}}
  <2>1. \A b \in Blocks : b \in bitmap <=> \E i \in Inums : b \in OwnedIn(dinode[i], data)  BY DEF BlocksInv, BlocksIn
  <2> HIDE DEF OwnedIn, Owned
  <2> QED BY <1>1, <1>2, <1>3, <2>1
<1>5. \A i, j \in Inums : i # j => Owned(i) \intersect Owned(j) = {}  BY <1>1 DEF BlocksInv, BlocksIn
<1>6. \A i \in Inums : Cardinality(Owned(i)) = dinode[i].size + (IF dinode[i].addrs[NDIRECT] = 0 THEN 0 ELSE 1)
  BY <1>1 DEF BlocksInv, BlocksIn, Shape
<1> QED BY <1>4, <1>5, <1>6 DEF BlocksExact

\* Inodes that keep their blocks, on data that keep the block numbers in them.
LEMMA BlocksKept ==
  ASSUME NEW di, NEW dt, NEW used, BlocksIn(di, dt, used), NEW dj \in [Inums -> Inode], NEW du \in [Blocks -> Block],
         \A i \in Inums : dj[i].addrs = di[i].addrs /\ dj[i].size = di[i].size /\ (dj[i].type = "free" => dj[i] = di[i]),
         \A b \in Blocks : du[b].a = dt[b].a
  PROVE  BlocksIn(dj, du, used)
<1>1. ASSUME NEW i \in Inums PROVE OwnedIn(dj[i], du) = OwnedIn(di[i], dt) /\ Shape(dj[i], du)
  <2>1. di[i] \in Inode /\ dj[i] \in Inode /\ Shape(di[i], dt)  BY DEF BlocksIn
  <2>2. NDIRECT \in 0 .. NDIRECT /\ di[i].addrs \in [0 .. NDIRECT -> {0} \union Blocks]  BY <2>1, InodeFields, Consts
  <2>3. di[i].addrs[NDIRECT] # 0 => du[di[i].addrs[NDIRECT]].a = dt[di[i].addrs[NDIRECT]].a  BY <2>2
  <2>4. Direct(dj[i]) = Direct(di[i])  BY DEF Direct
  <2>5. IndirectIn(dj[i], du) = IndirectIn(di[i], dt)  BY <2>3, SameIndirect
  <2>6. OwnedIn(dj[i], du) = OwnedIn(di[i], dt)  BY <2>4, <2>5 DEF OwnedIn
  <2>7. dj[i].type = "free" => dj[i] = Free("free")  BY <2>1 DEF Shape
  <2> HIDE DEF OwnedIn
  <2>8. Shape(dj[i], du)  BY <2>1, <2>3, <2>6, <2>7 DEF Shape
  <2> QED BY <2>6, <2>8
<1> HIDE DEF OwnedIn, Shape
<1> QED BY <1>1 DEF BlocksIn

\* An inode that is freed gives its blocks back.
LEMMA BlocksFreed ==
  ASSUME NEW di, NEW dt, NEW used, BlocksIn(di, dt, used), NEW i \in Inums, NEW du \in [Blocks -> Block],
         \A b \in Blocks : b \notin OwnedIn(di[i], dt) => du[b] = dt[b]
  PROVE  BlocksIn([di EXCEPT ![i] = Free("free")], du, used \ OwnedIn(di[i], dt))
<1> DEFINE dj == [di EXCEPT ![i] = Free("free")]
<1>1. Free("free") \in Inode  BY FreeIsInode
<1>2. dj \in [Inums -> Inode] /\ dj[i] = Free("free") /\ \A j \in Inums : j # i => dj[j] = di[j]  BY <1>1 DEF BlocksIn
<1> HIDE DEF dj
<1>3. OwnedIn(dj[i], du) = {}  BY <1>2, FreeOwnsNothing
<1>4. Shape(dj[i], du)
  <2>1. IsFiniteSet({}) /\ Cardinality({}) = 0  BY FS_EmptySet
  <2>2. \A k \in 0 .. NDIRECT : Free("free").addrs[k] = 0  BY DEF Free
  <2>3. Free("free").size = 0 /\ NDIRECT \in 0 .. NDIRECT /\ NDIRECT \in Nat  BY Consts DEF Free
  <2>4. \A k \in 0 .. NDIRECT - 1 : Free("free").addrs[k] # 0 <=> k < Free("free").size  BY <2>2, <2>3
  <2>5. Free("free").addrs[NDIRECT] = 0 /\ ~(NDIRECT < Free("free").size)  BY <2>2, <2>3
  <2>6. Cardinality(OwnedIn(dj[i], du)) = 0 + 0 /\ IsFiniteSet(OwnedIn(dj[i], du))  BY <1>3, <2>1
  <2> HIDE DEF OwnedIn
  <2> QED BY <1>2, <2>3, <2>4, <2>5, <2>6 DEF Shape
<1>5. ASSUME NEW j \in Inums, j # i PROVE OwnedIn(dj[j], du) = OwnedIn(di[j], dt) /\ Shape(dj[j], du)
  <2>1. di[j] \in Inode /\ dj[j] = di[j] /\ Shape(di[j], dt)  BY <1>2, <1>5 DEF BlocksIn
  <2>2. NDIRECT \in 0 .. NDIRECT /\ di[j].addrs \in [0 .. NDIRECT -> {0} \union Blocks]  BY <2>1, InodeFields, Consts
  <2>3. OwnedIn(di[i], dt) \intersect OwnedIn(di[j], dt) = {}  BY <1>5 DEF BlocksIn
  <2>4. di[j].addrs[NDIRECT] # 0 => du[di[j].addrs[NDIRECT]] = dt[di[j].addrs[NDIRECT]]
    <3> SUFFICES ASSUME di[j].addrs[NDIRECT] # 0 PROVE du[di[j].addrs[NDIRECT]] = dt[di[j].addrs[NDIRECT]]  OBVIOUS
    <3>1. di[j].addrs[NDIRECT] \in OwnedIn(di[j], dt)  BY DEF OwnedIn
    <3>2. di[j].addrs[NDIRECT] \in Blocks  BY <2>2
    <3> QED BY <2>3, <3>1, <3>2
  <2>5. IndirectIn(dj[j], du) = IndirectIn(di[j], dt)  BY <2>1, <2>4, SameIndirect
  <2>6. OwnedIn(dj[j], du) = OwnedIn(di[j], dt)  BY <2>1, <2>5 DEF OwnedIn
  <2> HIDE DEF OwnedIn
  <2>7. Shape(dj[j], du)  BY <2>1, <2>4, <2>6 DEF Shape
  <2> QED BY <2>6, <2>7
<1>6. \A j \in Inums : Shape(dj[j], du)  BY <1>4, <1>5
<1>7. \A b \in Blocks : b \in used \ OwnedIn(di[i], dt) <=> \E j \in Inums : b \in OwnedIn(dj[j], du)
  <2> HIDE DEF OwnedIn
  <2> TAKE b \in Blocks
  <2>1. ASSUME b \in used \ OwnedIn(di[i], dt) PROVE \E j \in Inums : b \in OwnedIn(dj[j], du)
    <3>1. PICK j \in Inums : b \in OwnedIn(di[j], dt)  BY <2>1 DEF BlocksIn
    <3>2. j # i  BY <2>1, <3>1
    <3> QED BY <1>5, <3>1, <3>2
  <2>2. ASSUME NEW j \in Inums, b \in OwnedIn(dj[j], du) PROVE b \in used \ OwnedIn(di[i], dt)
    <3>1. j # i  BY <1>3, <2>2
    <3>2. b \in OwnedIn(di[j], dt)  BY <1>5, <2>2, <3>1
    <3>3. b \in used  BY <3>2 DEF BlocksIn
    <3>4. b \notin OwnedIn(di[i], dt)  BY <3>1, <3>2 DEF BlocksIn
    <3> QED BY <3>3, <3>4
  <2> QED BY <2>1, <2>2
<1>8. \A j, k \in Inums : j # k => OwnedIn(dj[j], du) \intersect OwnedIn(dj[k], du) = {}
  <2> HIDE DEF OwnedIn
  <2> TAKE j, k \in Inums
  <2>1. CASE j = i \/ k = i  BY <1>3, <2>1
  <2>2. CASE j # i /\ k # i  BY <1>5, <2>2 DEF BlocksIn
  <2> QED BY <2>1, <2>2
<1> HIDE DEF Shape, OwnedIn
<1>9. BlocksIn(dj, du, used \ OwnedIn(di[i], dt))  BY <1>2, <1>6, <1>7, <1>8 DEF BlocksIn
<1> QED BY <1>9 DEF dj

\* An inode takes the blocks N that were not in use.
LEMMA BlocksTaken ==
  ASSUME NEW di, NEW dt, NEW used, BlocksIn(di, dt, used), NEW i \in Inums, NEW e \in Inode,
         NEW du \in [Blocks -> Block], NEW N \in SUBSET Blocks, N \intersect used = {}, Shape(e, du),
         OwnedIn(e, du) = OwnedIn(di[i], dt) \union N,
         \A b \in Blocks : b \notin N \union OwnedIn(di[i], dt) => du[b].a = dt[b].a
  PROVE  BlocksIn([di EXCEPT ![i] = e], du, used \union N)
<1> DEFINE dj == [di EXCEPT ![i] = e]
<1>1. dj \in [Inums -> Inode] /\ dj[i] = e /\ \A j \in Inums : j # i => dj[j] = di[j]  BY DEF BlocksIn
<1> HIDE DEF dj
<1>2. ASSUME NEW j \in Inums, j # i PROVE OwnedIn(dj[j], du) = OwnedIn(di[j], dt) /\ Shape(dj[j], du)
  <2>1. di[j] \in Inode /\ dj[j] = di[j] /\ Shape(di[j], dt)  BY <1>1, <1>2 DEF BlocksIn
  <2>2. NDIRECT \in 0 .. NDIRECT /\ di[j].addrs \in [0 .. NDIRECT -> {0} \union Blocks]  BY <2>1, InodeFields, Consts
  <2>3. OwnedIn(di[i], dt) \intersect OwnedIn(di[j], dt) = {}  BY <1>2 DEF BlocksIn
  <2>4. di[j].addrs[NDIRECT] # 0 => du[di[j].addrs[NDIRECT]].a = dt[di[j].addrs[NDIRECT]].a
    <3> SUFFICES ASSUME di[j].addrs[NDIRECT] # 0 PROVE du[di[j].addrs[NDIRECT]].a = dt[di[j].addrs[NDIRECT]].a
      OBVIOUS
    <3>1. PICK c : c = di[j].addrs[NDIRECT]  OBVIOUS
    <3>2. c \in OwnedIn(di[j], dt)  BY <3>1 DEF OwnedIn
    <3>3. c \in Blocks  BY <2>2, <3>1
    <3>4. c \in used  BY <3>2, <3>3 DEF BlocksIn
    <3>5. c \notin N /\ c \notin OwnedIn(di[i], dt)  BY <2>3, <3>2, <3>4
    <3> HIDE DEF OwnedIn
    <3>6. du[c].a = dt[c].a  BY <3>3, <3>5
    <3> QED BY <3>1, <3>6
  <2>5. IndirectIn(dj[j], du) = IndirectIn(di[j], dt)  BY <2>1, <2>4, SameIndirect
  <2>6. OwnedIn(dj[j], du) = OwnedIn(di[j], dt)  BY <2>1, <2>5 DEF OwnedIn
  <2> HIDE DEF OwnedIn
  <2>7. Shape(dj[j], du)  BY <2>1, <2>4, <2>6 DEF Shape
  <2> QED BY <2>6, <2>7
<1> HIDE DEF OwnedIn
<1>3. \A j \in Inums : Shape(dj[j], du)  BY <1>1, <1>2
<1>4. OwnedIn(dj[i], du) = OwnedIn(di[i], dt) \union N  BY <1>1
<1>5. \A b \in Blocks : b \in used \union N <=> \E j \in Inums : b \in OwnedIn(dj[j], du)
  <2> TAKE b \in Blocks
  <2>1. ASSUME b \in N PROVE \E j \in Inums : b \in OwnedIn(dj[j], du)  BY <1>4, <2>1
  <2>2. ASSUME b \in used PROVE \E j \in Inums : b \in OwnedIn(dj[j], du)
    <3>1. PICK j \in Inums : b \in OwnedIn(di[j], dt)  BY <2>2 DEF BlocksIn
    <3> QED BY <1>2, <1>4, <3>1
  <2>3. ASSUME NEW j \in Inums, b \in OwnedIn(dj[j], du) PROVE b \in used \union N
    <3>1. b \in OwnedIn(di[j], dt) \/ b \in N  BY <1>2, <1>4, <2>3
    <3> QED BY <3>1 DEF BlocksIn
  <2> QED BY <2>1, <2>2, <2>3
<1>6. \A j, k \in Inums : j # k => OwnedIn(dj[j], du) \intersect OwnedIn(dj[k], du) = {}
  <2>1. \A j \in Inums : j # i => N \intersect OwnedIn(di[j], dt) = {}  BY DEF BlocksIn
  <2>2. \A j, k \in Inums : j # k => OwnedIn(di[j], dt) \intersect OwnedIn(di[k], dt) = {}  BY DEF BlocksIn
  <2> TAKE j, k \in Inums
  <2>3. CASE j # k /\ j = i  BY <1>2, <1>4, <2>1, <2>2, <2>3
  <2>4. CASE j # k /\ k = i  BY <1>2, <1>4, <2>1, <2>2, <2>4
  <2>5. CASE j # i /\ k # i  BY <1>2, <2>2, <2>5
  <2> QED BY <2>3, <2>4, <2>5
<1>7. BlocksIn(dj, du, used \union N)  BY <1>1, <1>3, <1>5, <1>6 DEF BlocksIn
<1> QED BY <1>7 DEF dj

LEMMA AddBlock ==
  ASSUME NEW S, IsFiniteSet(S), NEW b, b \notin S
  PROVE  IsFiniteSet(S \union {b}) /\ Cardinality(S \union {b}) = Cardinality(S) + 1 /\ Cardinality(S) \in Nat
BY FS_AddElement, FS_CardinalityType

\* One block more, a direct one.
LEMMA GrowDirect ==
  ASSUME NEW di, NEW dt, NEW used, BlocksIn(di, dt, used), NEW i \in Inums, di[i].size < NDIRECT,
         NEW b \in Blocks, b \notin used, NEW e \in Inode, e.type # "free", e.size = di[i].size + 1,
         e.addrs = [di[i].addrs EXCEPT ![di[i].size] = b],
         NEW du \in [Blocks -> Block], \A c \in Blocks : c # b => du[c].a = dt[c].a
  PROVE  BlocksIn([di EXCEPT ![i] = e], du, used \union {b})
<1>0. PICK d \in Inode : d = di[i] /\ Shape(d, dt)  BY DEF BlocksIn
<1>1. /\ d.size \in 0 .. MAXFILE /\ d.addrs \in [0 .. NDIRECT -> {0} \union Blocks] /\ NDIRECT \in Nat \ {0}
      /\ d.size \in 0 .. NDIRECT - 1 /\ NDIRECT \in 0 .. NDIRECT /\ NINDIRECT \in Nat \ {0}
  BY <1>0, InodeFields, Consts DEF MAXFILE
<1>2. /\ e.addrs[d.size] = b /\ \A k \in 0 .. NDIRECT : k # d.size => e.addrs[k] = d.addrs[k]
  BY <1>0, <1>1
<1>3. d.addrs[NDIRECT] = 0 /\ e.addrs[NDIRECT] = 0 /\ d.addrs[d.size] = 0 /\ b # 0
  <2>1. d.addrs[NDIRECT] = 0 /\ d.addrs[d.size] = 0  BY <1>0, <1>1 DEF Shape
  <2> QED BY <1>1, <1>2, <2>1, Consts
<1>4. Direct(e) = Direct(d) \union {b}
  <2>1. \A k \in 0 .. NDIRECT - 1 : k # d.size => e.addrs[k] = d.addrs[k]  BY <1>1, <1>2
  <2>2. \A y : y \in Direct(d) <=> y # 0 /\ \E k \in 0 .. NDIRECT - 1 : y = d.addrs[k]  BY DEF Direct
  <2>3. \A y : y \in Direct(e) <=> y # 0 /\ \E k \in 0 .. NDIRECT - 1 : y = e.addrs[k]  BY DEF Direct
  <2>4. \A y : y \in Direct(e) => y \in Direct(d) \/ y = b  BY <1>2, <2>1, <2>2, <2>3
  <2>5. \A y : y \in Direct(d) => y \in Direct(e)  BY <1>3, <2>1, <2>2, <2>3
  <2>6. b \in Direct(e)  BY <1>1, <1>2, <1>3, <2>3
  <2> QED BY <2>4, <2>5, <2>6
<1>5. OwnedIn(e, du) = OwnedIn(d, dt) \union {b}  BY <1>3, <1>4 DEF OwnedIn, IndirectIn
<1>6. b \notin OwnedIn(d, dt)  BY <1>0 DEF BlocksIn
<1> HIDE DEF OwnedIn
<1>7. Shape(e, du)
  <2>1. \A k \in 0 .. NDIRECT - 1 : e.addrs[k] # 0 <=> k < e.size
    <3> TAKE k \in 0 .. NDIRECT - 1
    <3>1. k \in 0 .. NDIRECT /\ k \in Nat  BY <1>1
    <3>2. CASE k = d.size  BY <1>0, <1>1, <1>2, <1>3, <3>1, <3>2
    <3>3. CASE k # d.size
      <4>1. d.addrs[k] # 0 <=> k < d.size  BY <1>0 DEF Shape
      <4> QED BY <1>0, <1>1, <1>2, <3>1, <3>3, <4>1
    <3> QED BY <3>2, <3>3
  <2>2. ~(NDIRECT < e.size)  BY <1>0, <1>1
  <2>3. IsFiniteSet(OwnedIn(e, du)) /\ Cardinality(OwnedIn(e, du)) = e.size + 0
    <3>1. IsFiniteSet(OwnedIn(d, dt)) /\ Cardinality(OwnedIn(d, dt)) = d.size + 0  BY <1>0, <1>3 DEF Shape
    <3> QED BY <1>0, <1>1, <1>5, <1>6, <3>1, AddBlock
  <2> QED BY <1>3, <2>1, <2>2, <2>3 DEF Shape
<1>8. {b} \in SUBSET Blocks /\ {b} \intersect used = {}  OBVIOUS
<1>9. \A c \in Blocks : c \notin {b} \union OwnedIn(di[i], dt) => du[c].a = dt[c].a  OBVIOUS
<1>10. OwnedIn(e, du) = OwnedIn(di[i], dt) \union {b}  BY <1>0, <1>5
<1> HIDE DEF Shape
<1> QED BY <1>7, <1>8, <1>9, <1>10, BlocksTaken

\* One block more, behind the direct ones; x is the indirect block, new or not.
GrowsBehind(di, dt, used, i, x, b, e, du, a) ==
  /\ BlocksIn(di, dt, used) /\ i \in Inums /\ di[i].size >= NDIRECT /\ di[i].size < MAXFILE
  /\ x \in Blocks /\ b \in Blocks /\ b \notin used /\ b # x
  /\ di[i].addrs[NDIRECT] # 0 => x = di[i].addrs[NDIRECT]
  /\ di[i].addrs[NDIRECT] = 0 => x \notin used
  /\ e \in Inode /\ e.type # "free" /\ e.size = di[i].size + 1 /\ e.addrs = [di[i].addrs EXCEPT ![NDIRECT] = x]
  /\ du \in [Blocks -> Block] /\ \A c \in Blocks : c \notin {b, x} => du[c].a = dt[c].a
  /\ a \in [0 .. NINDIRECT - 1 -> {0} \union Blocks]
  /\ a = IF di[i].addrs[NDIRECT] = 0 THEN [k \in 0 .. NINDIRECT - 1 |-> 0] ELSE dt[x].a
  /\ du[x].a = [a EXCEPT ![di[i].size - NDIRECT] = b]
LEMMA GrowIndirect ==
  ASSUME NEW di, NEW dt, NEW used, NEW i, NEW x, NEW b, NEW e, NEW du, NEW a,
         GrowsBehind(di, dt, used, i, x, b, e, du, a)
  PROVE  BlocksIn([di EXCEPT ![i] = e], du, used \union {b} \union (IF di[i].addrs[NDIRECT] = 0 THEN {x} ELSE {}))
<1> /\ BlocksIn(di, dt, used) /\ i \in Inums /\ di[i].size >= NDIRECT /\ di[i].size < MAXFILE
    /\ x \in Blocks /\ b \in Blocks /\ b \notin used /\ b # x
    /\ di[i].addrs[NDIRECT] # 0 => x = di[i].addrs[NDIRECT]
    /\ di[i].addrs[NDIRECT] = 0 => x \notin used
    /\ e \in Inode /\ e.type # "free" /\ e.size = di[i].size + 1 /\ e.addrs = [di[i].addrs EXCEPT ![NDIRECT] = x]
    /\ du \in [Blocks -> Block] /\ \A c \in Blocks : c \notin {b, x} => du[c].a = dt[c].a
    /\ a \in [0 .. NINDIRECT - 1 -> {0} \union Blocks]
    /\ a = IF di[i].addrs[NDIRECT] = 0 THEN [k \in 0 .. NINDIRECT - 1 |-> 0] ELSE dt[x].a
    /\ du[x].a = [a EXCEPT ![di[i].size - NDIRECT] = b]
  BY DEF GrowsBehind
<1>0. PICK d \in Inode : d = di[i] /\ Shape(d, dt)  BY DEF BlocksIn
<1> DEFINE j == d.size - NDIRECT
           N == {b} \union (IF d.addrs[NDIRECT] = 0 THEN {x} ELSE {})
<1>1. /\ d.size \in Nat /\ d.addrs \in [0 .. NDIRECT -> {0} \union Blocks] /\ NDIRECT \in Nat \ {0}
      /\ NDIRECT \in 0 .. NDIRECT /\ NINDIRECT \in Nat \ {0} /\ j \in 0 .. NINDIRECT - 1 /\ x # 0 /\ b # 0
  BY <1>0, InodeFields, Consts DEF MAXFILE
<1>2. e.addrs[NDIRECT] = x /\ \A k \in 0 .. NDIRECT - 1 : e.addrs[k] = d.addrs[k]  BY <1>0, <1>1
<1>3. du[x].a[j] = b /\ \A k \in 0 .. NINDIRECT - 1 : k # j => du[x].a[k] = a[k]  BY <1>0, <1>1
<1> HIDE DEF j
<1>4. \A k \in 0 .. NINDIRECT - 1 : a[k] # 0 <=> d.addrs[NDIRECT] # 0 /\ NDIRECT + k < d.size
  <2>1. CASE d.addrs[NDIRECT] = 0  BY <1>0, <2>1
  <2>2. CASE d.addrs[NDIRECT] # 0  BY <1>0, <2>2 DEF Shape
  <2> QED BY <2>1, <2>2
<1>5. d.addrs[NDIRECT] = 0 <=> j = 0
  <2>1. d.addrs[NDIRECT] # 0 <=> NDIRECT < d.size  BY <1>0 DEF Shape
  <2> QED BY <1>0, <1>1, <2>1 DEF j
<1>6. a[j] = 0 /\ \A k \in 0 .. NINDIRECT - 1 : a[k] # 0 <=> k < j
  BY <1>0, <1>1, <1>4, <1>5 DEF j
<1>7. IndirectIn(d, dt) = {a[k] : k \in 0 .. NINDIRECT - 1} \ {0}
  <2>1. CASE d.addrs[NDIRECT] = 0
    <3>1. IndirectIn(d, dt) = {}  BY <2>1 DEF IndirectIn
    <3>2. \A k \in 0 .. NINDIRECT - 1 : a[k] = 0  BY <1>4, <2>1
    <3> QED BY <3>1, <3>2
  <2>2. CASE d.addrs[NDIRECT] # 0
    <3>1. IndirectIn(d, dt) = {dt[d.addrs[NDIRECT]].a[k] : k \in 0 .. NINDIRECT - 1} \ {0}  BY <2>2 DEF IndirectIn
    <3>2. \A k \in 0 .. NINDIRECT - 1 : dt[d.addrs[NDIRECT]].a[k] = a[k]  BY <1>0, <2>2
    <3> QED BY <3>1, <3>2
  <2> QED BY <2>1, <2>2
<1>8. IndirectIn(e, du) = IndirectIn(d, dt) \union {b}
  <2>1. PICK z : z = du[x].a  OBVIOUS
  <2>2. IndirectIn(e, du) = {z[k] : k \in 0 .. NINDIRECT - 1} \ {0}
    <3>1. IndirectIn(e, du) = {du[e.addrs[NDIRECT]].a[k] : k \in 0 .. NINDIRECT - 1} \ {0}  BY <1>1, <1>2 DEF IndirectIn
    <3>2. \A k \in 0 .. NINDIRECT - 1 : du[e.addrs[NDIRECT]].a[k] = z[k]  BY <1>2, <2>1
    <3> QED BY <3>1, <3>2
  <2>3. z[j] = b /\ \A k \in 0 .. NINDIRECT - 1 : k # j => z[k] = a[k]  BY <1>3, <2>1
  <2>4. {z[k] : k \in 0 .. NINDIRECT - 1} \ {0} = ({a[k] : k \in 0 .. NINDIRECT - 1} \ {0}) \union {b}
    <3> DEFINE Z == {z[k] : k \in 0 .. NINDIRECT - 1}
               A == {a[k] : k \in 0 .. NINDIRECT - 1}
    <3>1. ASSUME NEW y \in Z, y # 0 PROVE y = b \/ y \in A
      <4>1. PICK k \in 0 .. NINDIRECT - 1 : y = z[k]  BY <3>1
      <4> QED BY <2>3, <4>1
    <3>2. ASSUME NEW y \in A, y # 0 PROVE y \in Z
      <4>1. PICK k \in 0 .. NINDIRECT - 1 : y = a[k]  BY <3>2
      <4>2. k # j  BY <1>6, <3>2, <4>1
      <4> QED BY <2>3, <4>1, <4>2
    <3>3. b \in Z /\ b # 0  BY <1>1, <2>3
    <3> HIDE DEF Z, A
    <3>4. Z \ {0} = (A \ {0}) \union {b}  BY <3>1, <3>2, <3>3
    <3> QED BY <3>4 DEF Z, A
  <2> QED BY <1>7, <2>2, <2>4
<1>9. Direct(e) = Direct(d)  BY <1>2 DEF Direct
<1>10. OwnedIn(e, du) = OwnedIn(d, dt) \union N  BY <1>0, <1>1, <1>2, <1>8, <1>9 DEF OwnedIn
<1>11. b \notin OwnedIn(d, dt) /\ (d.addrs[NDIRECT] = 0 => x \notin OwnedIn(d, dt))  BY <1>0 DEF BlocksIn
<1>16. d.addrs[NDIRECT] # 0 => x \in OwnedIn(d, dt)  BY <1>0 DEF OwnedIn
<1> HIDE DEF OwnedIn
<1>12. Shape(e, du)
  <2>1. \A k \in 0 .. NDIRECT - 1 : e.addrs[k] # 0 <=> k < e.size
    <3> TAKE k \in 0 .. NDIRECT - 1
    <3>1. d.addrs[k] # 0 <=> k < d.size  BY <1>0 DEF Shape
    <3> QED BY <1>0, <1>1, <1>2, <3>1
  <2>2. e.addrs[NDIRECT] # 0 /\ NDIRECT < e.size  BY <1>0, <1>1, <1>2
  <2>3. \A k \in 0 .. NINDIRECT - 1 : du[e.addrs[NDIRECT]].a[k] # 0 <=> NDIRECT + k < e.size
    <3> TAKE k \in 0 .. NINDIRECT - 1
    <3>1. CASE k = j
      <4>1. du[e.addrs[NDIRECT]].a[k] # 0  BY <1>1, <1>2, <1>3, <3>1
      <4>2. NDIRECT + k < e.size  BY <1>0, <1>1, <3>1 DEF j
      <4> QED BY <4>1, <4>2
    <3>2. CASE k # j
      <4>1. du[e.addrs[NDIRECT]].a[k] = a[k]  BY <1>2, <1>3, <3>2
      <4>2. a[k] # 0 <=> k < j  BY <1>6
      <4>3. k < j <=> NDIRECT + k < e.size  BY <1>0, <1>1, <3>2 DEF j
      <4> QED BY <4>1, <4>2, <4>3
    <3> QED BY <3>1, <3>2
  <2>4. IsFiniteSet(OwnedIn(e, du)) /\ Cardinality(OwnedIn(e, du)) = e.size + 1
    <3>1. IsFiniteSet(OwnedIn(d, dt)) /\ Cardinality(OwnedIn(d, dt)) = d.size + (IF d.addrs[NDIRECT] = 0 THEN 0 ELSE 1)
      BY <1>0 DEF Shape
    <3>2. CASE d.addrs[NDIRECT] = 0
      <4>1. OwnedIn(e, du) = (OwnedIn(d, dt) \union {x}) \union {b}  BY <1>10, <3>2
      <4>2. IsFiniteSet(OwnedIn(d, dt) \union {x}) /\ Cardinality(OwnedIn(d, dt) \union {x}) = d.size + 1
        BY <1>1, <1>11, <3>1, <3>2, AddBlock
      <4>3. b \notin OwnedIn(d, dt) \union {x}  BY <1>11
      <4>4. Cardinality(OwnedIn(e, du)) = d.size + 1 + 1 /\ IsFiniteSet(OwnedIn(e, du))
        <5>1. PICK X : X = OwnedIn(d, dt) \union {x}  OBVIOUS
        <5>2. IsFiniteSet(X) /\ Cardinality(X) = d.size + 1 /\ b \notin X  BY <4>2, <4>3, <5>1
        <5>3. IsFiniteSet(X \union {b}) /\ Cardinality(X \union {b}) = Cardinality(X) + 1  BY <5>2, AddBlock
        <5>4. OwnedIn(e, du) = X \union {b}  BY <4>1, <5>1
        <5> QED BY <5>2, <5>3, <5>4
      <4>5. e.size + 1 = d.size + 1 + 1  BY <1>0
      <4> QED BY <4>4, <4>5
    <3>3. CASE d.addrs[NDIRECT] # 0
      <4>1. OwnedIn(e, du) = OwnedIn(d, dt) \union {b}  BY <1>10, <3>3
      <4> QED BY <1>0, <1>1, <1>11, <3>1, <3>3, <4>1, AddBlock
    <3> QED BY <3>2, <3>3
  <2> QED BY <2>1, <2>2, <2>3, <2>4 DEF Shape
<1>13. N \in SUBSET Blocks /\ N \intersect used = {}  BY <1>0
<1>14. \A c \in Blocks : c \notin N \union OwnedIn(d, dt) => du[c].a = dt[c].a  BY <1>16
<1> HIDE DEF Shape, N
<1>15. BlocksIn([di EXCEPT ![i] = e], du, used \union N)  BY <1>0, <1>10, <1>12, <1>13, <1>14, BlocksTaken
<1>17. used \union N = used \union {b} \union (IF di[i].addrs[NDIRECT] = 0 THEN {x} ELSE {})  BY <1>0 DEF N
<1> QED BY <1>15, <1>17

-----------------------------------------------------------------------------
(***************************************************************************)
(* mkfs: the image that the system starts with.  An image is a record, and *)
(* as long as the blocks last its inodes own the blocks handed out.        *)
(***************************************************************************)
ImageRec(im) ==
  /\ im = [dinode |-> im.dinode, data |-> im.data, freeinode |-> im.freeinode, freeblock |-> im.freeblock]
  /\ im.freeinode \in Nat \ {0} /\ im.freeblock \in Nat \ {0}
ImageOk(im) ==
  /\ BlocksIn(im.dinode, im.data, MkBalloc(im.freeblock))
  /\ \A i \in Inums : i >= im.freeinode => im.dinode[i] = Free("free")
  /\ \A b \in Blocks : b >= im.freeblock => im.data[b].a = [k \in 0 .. NINDIRECT - 1 |-> 0]
\* The blocks up to NBLOCKS are enough.
Fits(im) == im.freeblock <= NBLOCKS + 1

LEMMA RecIs ==
  ASSUME NEW di, NEW dt, NEW fi \in Nat \ {0}, NEW fb \in Nat \ {0}, NEW im,
         im = [dinode |-> di, data |-> dt, freeinode |-> fi, freeblock |-> fb]
  PROVE  ImageRec(im) /\ im.dinode = di /\ im.data = dt /\ im.freeinode = fi /\ im.freeblock = fb
BY DEF ImageRec

LEMMA AppendDirect ==
  ASSUME NEW im, ImageRec(im), NEW i, im.dinode[i].size < NDIRECT
  PROVE  /\ ImageRec(iappend(im, i))
         /\ iappend(im, i).dinode = [im.dinode EXCEPT ![i].addrs[im.dinode[i].size] = im.freeblock, ![i].size = @ + 1]
         /\ iappend(im, i).data = im.data
         /\ iappend(im, i).freeinode = im.freeinode /\ iappend(im, i).freeblock = im.freeblock + 1
<1> DEFINE dj == [im.dinode EXCEPT ![i].addrs[im.dinode[i].size] = im.freeblock, ![i].size = @ + 1]
<1>0. im = [dinode |-> im.dinode, data |-> im.data, freeinode |-> im.freeinode, freeblock |-> im.freeblock]
  BY DEF ImageRec
<1>1. iappend(im, i) = [dinode |-> dj, data |-> im.data, freeinode |-> im.freeinode, freeblock |-> im.freeblock + 1]
  BY <1>0 DEF iappend
<1>2. im.freeinode \in Nat \ {0} /\ im.freeblock + 1 \in Nat \ {0}  BY DEF ImageRec
<1> HIDE DEF dj
<1>3. /\ ImageRec(iappend(im, i)) /\ iappend(im, i).dinode = dj /\ iappend(im, i).data = im.data
      /\ iappend(im, i).freeinode = im.freeinode /\ iappend(im, i).freeblock = im.freeblock + 1
  BY <1>1, <1>2, RecIs
<1> QED BY <1>3 DEF dj

\* The indirect block, and the block behind it.
IndOf(im, i) == IF im.dinode[i].addrs[NDIRECT] = 0 THEN im.freeblock ELSE im.dinode[i].addrs[NDIRECT]
NewOf(im, i) == IF im.dinode[i].addrs[NDIRECT] = 0 THEN im.freeblock + 1 ELSE im.freeblock
LEMMA AppendIndirect ==
  ASSUME NEW im, ImageRec(im), NEW i, ~(im.dinode[i].size < NDIRECT)
  PROVE  /\ ImageRec(iappend(im, i))
         /\ iappend(im, i).dinode = [im.dinode EXCEPT ![i].addrs[NDIRECT] = IndOf(im, i), ![i].size = @ + 1]
         /\ iappend(im, i).data = [im.data EXCEPT ![IndOf(im, i)].a[im.dinode[i].size - NDIRECT] = NewOf(im, i)]
         /\ iappend(im, i).freeinode = im.freeinode /\ iappend(im, i).freeblock = NewOf(im, i) + 1
<1> DEFINE dj == [im.dinode EXCEPT ![i].addrs[NDIRECT] = IndOf(im, i), ![i].size = @ + 1]
           du == [im.data EXCEPT ![IndOf(im, i)].a[im.dinode[i].size - NDIRECT] = NewOf(im, i)]
<1>0. im = [dinode |-> im.dinode, data |-> im.data, freeinode |-> im.freeinode, freeblock |-> im.freeblock]
  BY DEF ImageRec
<1>1. iappend(im, i) = [dinode |-> dj, data |-> du, freeinode |-> im.freeinode, freeblock |-> NewOf(im, i) + 1]
  BY <1>0 DEF iappend, IndOf, NewOf
<1>2. im.freeinode \in Nat \ {0} /\ NewOf(im, i) + 1 \in Nat \ {0}  BY DEF ImageRec, NewOf
<1> HIDE DEF dj, du
<1>3. /\ ImageRec(iappend(im, i)) /\ iappend(im, i).dinode = dj /\ iappend(im, i).data = du
      /\ iappend(im, i).freeinode = im.freeinode /\ iappend(im, i).freeblock = NewOf(im, i) + 1
  BY <1>1, <1>2, RecIs
<1> QED BY <1>3 DEF dj, du

LEMMA OneMore == \A f \in Blocks : MkBalloc(f) \union {f} = MkBalloc(f + 1)
<1> SUFFICES ASSUME NEW f \in Blocks PROVE MkBalloc(f) \union {f} = MkBalloc(f + 1)  OBVIOUS
<1>1. \A c \in Blocks : c < f + 1 <=> c < f \/ c = f  BY Consts
<1> QED BY <1>1 DEF MkBalloc

LEMMA AppendOk ==
  ASSUME NEW im, ImageRec(im), ImageOk(im), NEW i \in Inums, i < im.freeinode, im.dinode[i].type # "free",
         im.dinode[i].size < MAXFILE, Fits(iappend(im, i))
  PROVE  ImageOk(iappend(im, i)) /\ iappend(im, i).dinode[i].type = im.dinode[i].type
         /\ iappend(im, i).dinode[i].size = im.dinode[i].size + 1
<1>a. PICK di : di = im.dinode  OBVIOUS
<1>b. PICK dt : dt = im.data  OBVIOUS
<1>c. PICK fb \in Nat \ {0} : fb = im.freeblock  BY DEF ImageRec
<1>1. di = im.dinode /\ dt = im.data /\ fb = im.freeblock  BY <1>a, <1>b, <1>c
<1>2. PICK d : d = di[i]  OBVIOUS
<1>3. /\ di \in [Inums -> Inode] /\ dt \in [Blocks -> Block] /\ BlocksIn(di, dt, MkBalloc(fb)) /\ Shape(d, dt)
      /\ d \in Inode
  BY <1>1, <1>2 DEF ImageOk, BlocksIn
<1>4. /\ d.size \in Nat /\ d.size < MAXFILE /\ d.addrs \in [0 .. NDIRECT -> {0} \union Blocks] /\ d.type # "free"
      /\ NDIRECT \in Nat /\ NDIRECT \in 0 .. NDIRECT
  BY <1>1, <1>2, <1>3, InodeFields, Consts
<1>5. /\ \A j \in Inums : j >= im.freeinode => di[j] = Free("free")
      /\ \A b \in Blocks : b >= fb => dt[b].a = [k \in 0 .. NINDIRECT - 1 |-> 0]
  BY <1>1 DEF ImageOk
<1>6. im.freeinode \in Nat  BY DEF ImageRec
<1>7. CASE d.size < NDIRECT
  <2> DEFINE e == [[d EXCEPT !.addrs[d.size] = fb] EXCEPT !.size = d.size + 1]
             dj == [di EXCEPT ![i] = e]
  <2>1. /\ iappend(im, i).dinode = dj /\ iappend(im, i).data = dt
        /\ iappend(im, i).freeinode = im.freeinode /\ iappend(im, i).freeblock = fb + 1
    <3>1. im.dinode[i].size < NDIRECT  BY <1>1, <1>2, <1>7
    <3>2. iappend(im, i).dinode = [im.dinode EXCEPT ![i].addrs[im.dinode[i].size] = im.freeblock, ![i].size = @ + 1]
      BY <3>1, AppendDirect
    <3>3. /\ iappend(im, i).data = dt /\ iappend(im, i).freeinode = im.freeinode /\ iappend(im, i).freeblock = fb + 1
      BY <1>1, <3>1, AppendDirect
    <3>4. iappend(im, i).dinode = [di EXCEPT ![i].addrs[d.size] = fb, ![i].size = @ + 1]  BY <1>1, <1>2, <3>2
    <3>5. [di EXCEPT ![i].addrs[d.size] = fb, ![i].size = @ + 1] = dj  BY <1>2, <1>3
    <3> QED BY <3>3, <3>4, <3>5
  <2>2. fb \in Blocks /\ fb \notin MkBalloc(fb)  BY <2>1, Consts DEF Fits, Blocks, MkBalloc
  <2>3. d.size \in 0 .. NDIRECT /\ d.size + 1 \in 0 .. MAXFILE  BY <1>4, <1>7, Consts DEF MAXFILE
  <2>4. e \in Inode /\ e.type = d.type /\ e.size = d.size + 1 /\ e.addrs = [d.addrs EXCEPT ![d.size] = fb]
    <3>0. PICK c : c = [d EXCEPT !.addrs[d.size] = fb]  OBVIOUS
    <3>1. /\ c = [d EXCEPT !.addrs[d.size] = fb] /\ c \in Inode /\ c.type = d.type /\ c.size = d.size
          /\ c.addrs = [d.addrs EXCEPT ![d.size] = fb]
      BY <3>0, <1>3, <2>2, <2>3, AddrType
    <3>2. e = [c EXCEPT !.size = d.size + 1]  BY <3>1
    <3> HIDE DEF e
    <3> QED BY <2>3, <3>1, <3>2 DEF Inode
  <2> HIDE DEF e
  <2>5. BlocksIn(dj, dt, MkBalloc(fb) \union {fb})  BY <1>2, <1>3, <1>4, <1>7, <2>2, <2>4, GrowDirect
  <2>6. MkBalloc(fb) \union {fb} = MkBalloc(fb + 1)  BY <2>2, OneMore
  <2>7. dj[i] = e /\ \A j \in Inums : j # i => dj[j] = di[j]  BY <1>3
  <2> HIDE DEF dj
  <2>8. \A j \in Inums : j >= im.freeinode => dj[j] = Free("free")
    <3> TAKE j \in Inums
    <3>1. j >= im.freeinode => j # i  BY <1>6, Consts
    <3> QED BY <1>5, <2>7, <3>1
  <2>9. \A b \in Blocks : b >= fb + 1 => dt[b].a = [k \in 0 .. NINDIRECT - 1 |-> 0]  BY <1>5, Consts
  <2> QED BY <1>1, <1>2, <2>1, <2>4, <2>5, <2>6, <2>7, <2>8, <2>9 DEF ImageOk
<1>8. CASE ~(d.size < NDIRECT)
  <2> DEFINE x == IF d.addrs[NDIRECT] = 0 THEN fb ELSE d.addrs[NDIRECT]
             b == IF d.addrs[NDIRECT] = 0 THEN fb + 1 ELSE fb
             e == [[d EXCEPT !.addrs[NDIRECT] = x] EXCEPT !.size = d.size + 1]
             dj == [di EXCEPT ![i] = e]
             j == d.size - NDIRECT
             du == [dt EXCEPT ![x].a[j] = b]
  <2>1. /\ iappend(im, i).dinode = dj /\ iappend(im, i).data = du
        /\ iappend(im, i).freeinode = im.freeinode /\ iappend(im, i).freeblock = b + 1
    <3>1. IndOf(im, i) = x /\ NewOf(im, i) = b  BY <1>1, <1>2 DEF IndOf, NewOf
    <3>2. ~(im.dinode[i].size < NDIRECT)  BY <1>1, <1>2, <1>8
    <3>3. /\ iappend(im, i).dinode = [im.dinode EXCEPT ![i].addrs[NDIRECT] = IndOf(im, i), ![i].size = @ + 1]
          /\ iappend(im, i).data = [im.data EXCEPT ![IndOf(im, i)].a[im.dinode[i].size - NDIRECT] = NewOf(im, i)]
          /\ iappend(im, i).freeinode = im.freeinode /\ iappend(im, i).freeblock = NewOf(im, i) + 1
      BY <3>2, AppendIndirect
    <3> HIDE DEF x, b
    <3>4. /\ iappend(im, i).dinode = [di EXCEPT ![i].addrs[NDIRECT] = x, ![i].size = @ + 1]
          /\ iappend(im, i).data = du
          /\ iappend(im, i).freeinode = im.freeinode /\ iappend(im, i).freeblock = b + 1
      BY <1>1, <1>2, <3>1, <3>3
    <3>5. [di EXCEPT ![i].addrs[NDIRECT] = x, ![i].size = @ + 1] = dj  BY <1>2, <1>3
    <3> HIDE DEF du, dj
    <3> QED BY <3>4, <3>5
  <2>2. /\ b \in Blocks /\ b \notin MkBalloc(fb) /\ b \in Nat /\ x \in Blocks /\ b # x
        /\ d.addrs[NDIRECT] # 0 => x = d.addrs[NDIRECT]
        /\ d.addrs[NDIRECT] = 0 => x \notin MkBalloc(fb)
    <3>1. b + 1 <= NBLOCKS + 1  BY <2>1 DEF Fits
    <3>2. CASE d.addrs[NDIRECT] = 0  BY <3>1, <3>2, Consts DEF Blocks, MkBalloc
    <3>3. CASE d.addrs[NDIRECT] # 0
      <4>1. fb \in Blocks /\ fb \notin MkBalloc(fb)  BY <3>1, <3>3, Consts DEF Blocks, MkBalloc
      <4>2. d.addrs[NDIRECT] \in Blocks  BY <1>4, <3>3
      <4>3. d.addrs[NDIRECT] \in OwnedIn(d, dt)  BY <3>3 DEF OwnedIn
      <4>4. d.addrs[NDIRECT] \in MkBalloc(fb)  BY <1>2, <1>3, <4>2, <4>3 DEF BlocksIn
      <4> QED BY <3>3, <4>1, <4>2, <4>4
    <3> QED BY <3>2, <3>3
  <2>3. j \in 0 .. NINDIRECT - 1 /\ d.size + 1 \in 0 .. MAXFILE  BY <1>4, <1>8, Consts DEF MAXFILE
  <2> HIDE DEF x, b, j
  <2>4. e \in Inode /\ e.type = d.type /\ e.size = d.size + 1 /\ e.addrs = [d.addrs EXCEPT ![NDIRECT] = x]
    <3>0. PICK c : c = [d EXCEPT !.addrs[NDIRECT] = x]  OBVIOUS
    <3>1. /\ c = [d EXCEPT !.addrs[NDIRECT] = x] /\ c \in Inode /\ c.type = d.type /\ c.size = d.size
          /\ c.addrs = [d.addrs EXCEPT ![NDIRECT] = x]
      BY <3>0, <1>3, <1>4, <2>2, AddrType
    <3>2. e = [c EXCEPT !.size = d.size + 1]  BY <3>1
    <3> HIDE DEF e
    <3> QED BY <2>3, <3>1, <3>2 DEF Inode
  <2> HIDE DEF e
  <2>5. /\ du \in [Blocks -> Block] /\ du[x].a = [dt[x].a EXCEPT ![j] = b] /\ \A c \in Blocks : c # x => du[c] = dt[c]
    <3>1. dt[x] \in Block  BY <1>3, <2>2
    <3>2. dt[x].a \in [0 .. NINDIRECT - 1 -> {0} \union Blocks]  BY <3>1 DEF Block
    <3>3. [dt[x].a EXCEPT ![j] = b] \in [0 .. NINDIRECT - 1 -> {0} \union Blocks]  BY <2>2, <3>2
    <3>4. PICK y : y = [dt[x].a EXCEPT ![j] = b]  OBVIOUS
    <3>5. PICK z : z = [dt[x] EXCEPT !.a = y]  OBVIOUS
    <3>6. z \in Block /\ z.a = y  BY <3>1, <3>3, <3>4, <3>5 DEF Block
    <3>7. du = [dt EXCEPT ![x] = z]  BY <3>4, <3>5
    <3> QED BY <1>3, <2>2, <3>4, <3>6, <3>7
  <2> HIDE DEF du
  <2>6. PICK a \in [0 .. NINDIRECT - 1 -> {0} \union Blocks] :
          a = dt[x].a /\ (d.addrs[NDIRECT] = 0 => a = [k \in 0 .. NINDIRECT - 1 |-> 0])
    <3>1. dt[x].a \in [0 .. NINDIRECT - 1 -> {0} \union Blocks]  BY <1>3, <2>2 DEF Block
    <3>2. d.addrs[NDIRECT] = 0 => dt[x].a = [k \in 0 .. NINDIRECT - 1 |-> 0]
      <4> SUFFICES ASSUME d.addrs[NDIRECT] = 0 PROVE dt[x].a = [k \in 0 .. NINDIRECT - 1 |-> 0]  OBVIOUS
      <4>1. x = fb  BY DEF x
      <4>2. x \in Blocks /\ x >= fb  BY <2>2, <4>1
      <4> QED BY <1>5, <4>2
    <3> QED BY <3>1, <3>2
  <2>7. BlocksIn(dj, du, MkBalloc(fb) \union {b} \union (IF d.addrs[NDIRECT] = 0 THEN {x} ELSE {}))
    <3>1. a = IF di[i].addrs[NDIRECT] = 0 THEN [k \in 0 .. NINDIRECT - 1 |-> 0] ELSE dt[x].a  BY <1>2, <2>6
    <3>2. du[x].a = [a EXCEPT ![di[i].size - NDIRECT] = b]  BY <1>2, <2>5, <2>6 DEF j
    <3>3. di[i].size >= NDIRECT /\ di[i].size < MAXFILE  BY <1>2, <1>4, <1>8
    <3>4. \A c \in Blocks : c \notin {b, x} => du[c].a = dt[c].a  BY <2>5
    <3>5. /\ di[i].addrs[NDIRECT] # 0 => x = di[i].addrs[NDIRECT]
          /\ di[i].addrs[NDIRECT] = 0 => x \notin MkBalloc(fb)
          /\ e.type # "free" /\ e.size = di[i].size + 1 /\ e.addrs = [di[i].addrs EXCEPT ![NDIRECT] = x]
      BY <1>2, <1>4, <2>2, <2>4
    <3>6. /\ BlocksIn(di, dt, MkBalloc(fb)) /\ x \in Blocks /\ b \in Blocks /\ b \notin MkBalloc(fb) /\ b # x
          /\ e \in Inode /\ du \in [Blocks -> Block]
      BY <1>3, <2>2, <2>4, <2>5
    <3> HIDE DEF dj
    <3>8. GrowsBehind(di, dt, MkBalloc(fb), i, x, b, e, du, a)
      BY <2>6, <3>1, <3>2, <3>3, <3>4, <3>5, <3>6 DEF GrowsBehind
    <3>7. BlocksIn([di EXCEPT ![i] = e], du, MkBalloc(fb) \union {b} \union (IF di[i].addrs[NDIRECT] = 0 THEN {x} ELSE {}))
      BY <3>8, GrowIndirect
    <3> QED BY <1>2, <3>7 DEF dj
  <2>8. MkBalloc(fb) \union {b} \union (IF d.addrs[NDIRECT] = 0 THEN {x} ELSE {}) = MkBalloc(b + 1)
    <3>1. CASE d.addrs[NDIRECT] = 0
      <4>1. x = fb /\ b = fb + 1 /\ fb \in Blocks /\ fb + 1 \in Blocks  BY <2>2, <3>1 DEF x, b
      <4>2. MkBalloc(fb) \union {fb} = MkBalloc(fb + 1)  BY <4>1, OneMore
      <4>3. MkBalloc(fb + 1) \union {fb + 1} = MkBalloc(fb + 1 + 1)  BY <4>1, OneMore
      <4>4. MkBalloc(fb) \union {b} \union {x} = MkBalloc(fb + 1 + 1)  BY <4>1, <4>2, <4>3
      <4> QED BY <3>1, <4>1, <4>4
    <3>2. CASE d.addrs[NDIRECT] # 0
      <4>1. b = fb /\ fb \in Blocks  BY <2>2, <3>2 DEF b
      <4>2. MkBalloc(fb) \union {fb} = MkBalloc(fb + 1)  BY <4>1, OneMore
      <4> QED BY <3>2, <4>1, <4>2
    <3> QED BY <3>1, <3>2
  <2>9. dj[i] = e /\ \A l \in Inums : l # i => dj[l] = di[l]  BY <1>3
  <2> HIDE DEF dj
  <2>10. \A l \in Inums : l >= im.freeinode => dj[l] = Free("free")
    <3> TAKE l \in Inums
    <3>1. l >= im.freeinode => l # i  BY <1>6, Consts
    <3> QED BY <1>5, <2>9, <3>1
  <2>11. ASSUME NEW c \in Blocks, c >= b + 1 PROVE du[c].a = [k \in 0 .. NINDIRECT - 1 |-> 0]
    <3>1. c \in Nat /\ c >= fb  BY <2>11, Consts DEF b
    <3>2. CASE c # x  BY <1>5, <2>5, <3>1, <3>2
    <3>3. CASE c = x
      <4>1. d.addrs[NDIRECT] # 0  BY <2>11, <3>1, <3>3 DEF x, b
      <4>2. d.addrs[NDIRECT] \in OwnedIn(d, dt)  BY <4>1 DEF OwnedIn
      <4>3. c \in MkBalloc(fb)  BY <1>2, <1>3, <2>2, <3>3, <4>1, <4>2 DEF BlocksIn
      <4> QED BY <3>1, <4>3 DEF MkBalloc
    <3> QED BY <3>2, <3>3
  <2> QED BY <1>1, <1>2, <2>1, <2>4, <2>7, <2>8, <2>9, <2>10, <2>11 DEF ImageOk
<1> QED BY <1>7, <1>8

\* The recursive definitions of the image are functions.
LEMMA AppendedIs ==
  ASSUME NEW im, NEW i, NEW n \in Nat
  PROVE  \E f : /\ \A k \in 0 .. n : f[k] = IF k = 0 THEN im ELSE iappend(f[k - 1], i)
                /\ Appended(im, i, n) = f[n]
<1> DEFINE Is(f, j) == f = [k \in 0 .. j |-> IF k = 0 THEN im ELSE iappend(f[k - 1], i)]
           S == {j \in Nat : ~\E f : Is(f, j)}
<1>1. S = {}
  <2> SUFFICES ASSUME S # {} PROVE FALSE  OBVIOUS
  <2>1. PICK j \in S : \A l \in S : j <= l
    <3>1. S \in SUBSET Nat  OBVIOUS
    <3> HIDE DEF S
    <3> QED BY <3>1, LeastNat
  <2>2. CASE j = 0
    <3> DEFINE f == [k \in 0 .. 0 |-> im]
    <3>1. Is(f, 0)  OBVIOUS
    <3> QED BY <2>2, <3>1
  <2>3. CASE j # 0
    <3>0. j \in Nat  OBVIOUS
    <3>1. j - 1 \in Nat /\ j - 1 \notin S
      <4>1. j - 1 \in Nat /\ ~(j <= j - 1)  BY <2>3, <3>0
      <4> HIDE DEF S
      <4> QED BY <2>1, <4>1
    <3>2. PICK f : Is(f, j - 1)  BY <3>1
    <3> DEFINE g == [k \in 0 .. j |-> IF k <= j - 1 THEN f[k] ELSE iappend(f[j - 1], i)]
    <3>3. \A k \in 0 .. j : g[k] = IF k = 0 THEN im ELSE iappend(g[k - 1], i)
      <4> SUFFICES ASSUME NEW k \in 0 .. j
                   PROVE  g[k] = IF k = 0 THEN im ELSE iappend(g[k - 1], i)  OBVIOUS
      <4>1. \A x \in 0 .. j - 1 : f[x] = IF x = 0 THEN im ELSE iappend(f[x - 1], i)
        BY <3>1, <3>2
      <4>2. k # 0 => k - 1 \in 0 .. j - 1 /\ g[k - 1] = f[k - 1]  BY <3>1
      <4>3. CASE k <= j - 1  BY <3>1, <4>1, <4>2, <4>3
      <4>4. CASE k = j  BY <3>1, <4>2, <4>4
      <4> QED BY <3>1, <4>3, <4>4
    <3>4. Is(g, j)
      <4>1. g = [k \in 0 .. j |-> g[k]]  OBVIOUS
      <4> HIDE DEF g
      <4> QED BY <3>3, <4>1
    <3> HIDE DEF g
    <3> QED BY <3>4
  <2> QED BY <2>2, <2>3
<1>2. PICK f : Is(f, n)  BY <1>1
<1> DEFINE h == CHOOSE g : g = [k \in 0 .. n |-> IF k = 0 THEN im ELSE iappend(g[k - 1], i)]
<1>3. Is(h, n)  BY <1>2
<1>4. Appended(im, i, n) = h[n]  BY DEF Appended
<1> HIDE DEF h
<1>5. \A k \in 0 .. n : h[k] = IF k = 0 THEN im ELSE iappend(h[k - 1], i)  BY <1>3
<1> QED BY <1>4, <1>5

LEMMA ImageIs ==
  \E f : /\ \A k \in 0 .. Len(Files) : f[k] = IF k = 0 THEN MkRoot ELSE MkFile(f[k - 1], Files[k])
         /\ Image = f[Len(Files)]
<1> DEFINE Is(f, j) == f = [k \in 0 .. j |-> IF k = 0 THEN MkRoot ELSE MkFile(f[k - 1], Files[k])]
           S == {j \in Nat : ~\E f : Is(f, j)}
           n == Len(Files)
<1>0. n \in Nat  BY FsAssumption
<1>1. S = {}
  <2> SUFFICES ASSUME S # {} PROVE FALSE  OBVIOUS
  <2>1. PICK j \in S : \A l \in S : j <= l
    <3>1. S \in SUBSET Nat  OBVIOUS
    <3> HIDE DEF S
    <3> QED BY <3>1, LeastNat
  <2>2. CASE j = 0
    <3> DEFINE f == [k \in 0 .. 0 |-> MkRoot]
    <3>1. Is(f, 0)  OBVIOUS
    <3> QED BY <2>2, <3>1
  <2>3. CASE j # 0
    <3>0. j \in Nat  OBVIOUS
    <3>1. j - 1 \in Nat /\ j - 1 \notin S
      <4>1. j - 1 \in Nat /\ ~(j <= j - 1)  BY <2>3, <3>0
      <4> HIDE DEF S
      <4> QED BY <2>1, <4>1
    <3>2. PICK f : Is(f, j - 1)  BY <3>1
    <3> DEFINE g == [k \in 0 .. j |-> IF k <= j - 1 THEN f[k] ELSE MkFile(f[j - 1], Files[j])]
    <3>3. \A k \in 0 .. j : g[k] = IF k = 0 THEN MkRoot ELSE MkFile(g[k - 1], Files[k])
      <4> SUFFICES ASSUME NEW k \in 0 .. j
                   PROVE  g[k] = IF k = 0 THEN MkRoot ELSE MkFile(g[k - 1], Files[k])  OBVIOUS
      <4>1. \A x \in 0 .. j - 1 : f[x] = IF x = 0 THEN MkRoot ELSE MkFile(f[x - 1], Files[x])
        BY <3>1, <3>2
      <4>2. k # 0 => k - 1 \in 0 .. j - 1 /\ g[k - 1] = f[k - 1]  BY <3>1
      <4>3. CASE k <= j - 1  BY <3>1, <4>1, <4>2, <4>3
      <4>4. CASE k = j  BY <3>1, <4>2, <4>4
      <4> QED BY <3>1, <4>3, <4>4
    <3>4. Is(g, j)
      <4>1. g = [k \in 0 .. j |-> g[k]]  OBVIOUS
      <4> HIDE DEF g
      <4> QED BY <3>3, <4>1
    <3> HIDE DEF g
    <3> QED BY <3>4
  <2> QED BY <2>2, <2>3
<1>2. PICK f : Is(f, n)  BY <1>0, <1>1
<1> DEFINE h == CHOOSE g : g = [k \in 0 .. Len(Files) |-> IF k = 0 THEN MkRoot ELSE MkFile(g[k - 1], Files[k])]
<1>3. Is(h, n)  BY <1>2
<1>4. Image = h[n]  BY DEF Image
<1> HIDE DEF h
<1>5. \A k \in 0 .. n : h[k] = IF k = 0 THEN MkRoot ELSE MkFile(h[k - 1], Files[k])  BY <1>3
<1> QED BY <1>4, <1>5

\* n blocks are appended to the empty inode i.
Appending(im, i, fi, k) ==
  /\ ImageRec(im) /\ im.freeinode = fi
  /\ Fits(im) => ImageOk(im) /\ im.dinode[i].type # "free" /\ im.dinode[i].size = k
LEMMA AppendingStep ==
  ASSUME NEW im, NEW i \in Inums, NEW fi \in Nat, i < fi, NEW k \in Nat, k < MAXFILE, Appending(im, i, fi, k)
  PROVE  Appending(iappend(im, i), i, fi, k + 1)
<1>1. ImageRec(im) /\ im.freeinode = fi /\ im.freeblock \in Nat  BY DEF Appending, ImageRec
<1>2. /\ ImageRec(iappend(im, i)) /\ iappend(im, i).freeinode = fi
      /\ iappend(im, i).freeblock \in Nat /\ iappend(im, i).freeblock > im.freeblock
  <2>1. CASE im.dinode[i].size < NDIRECT
    <3>1. ImageRec(iappend(im, i)) /\ iappend(im, i).freeinode = im.freeinode /\ iappend(im, i).freeblock = im.freeblock + 1
      BY <1>1, <2>1, AppendDirect
    <3> QED BY <1>1, <3>1
  <2>2. CASE ~(im.dinode[i].size < NDIRECT)
    <3>1. ImageRec(iappend(im, i)) /\ iappend(im, i).freeinode = im.freeinode /\ iappend(im, i).freeblock = NewOf(im, i) + 1
      BY <1>1, <2>2, AppendIndirect
    <3>2. NewOf(im, i) \in Nat /\ NewOf(im, i) >= im.freeblock  BY <1>1 DEF NewOf
    <3> QED BY <1>1, <3>1, <3>2
  <2> QED BY <2>1, <2>2
<1>3. ASSUME Fits(iappend(im, i))
      PROVE  /\ ImageOk(iappend(im, i)) /\ iappend(im, i).dinode[i].type # "free"
             /\ iappend(im, i).dinode[i].size = k + 1
  <2>1. Fits(im)  BY <1>1, <1>2, <1>3, Consts DEF Fits
  <2>2. ImageOk(im) /\ im.dinode[i].type # "free" /\ im.dinode[i].size = k  BY <2>1 DEF Appending
  <2>3. im.dinode[i].size < MAXFILE /\ i < im.freeinode  BY <1>1, <2>2
  <2>4. /\ ImageOk(iappend(im, i)) /\ iappend(im, i).dinode[i].type = im.dinode[i].type
        /\ iappend(im, i).dinode[i].size = im.dinode[i].size + 1
    BY <1>1, <1>3, <2>2, <2>3, AppendOk
  <2> QED BY <2>2, <2>4
<1> QED BY <1>2, <1>3 DEF Appending

LEMMA AppendedOk ==
  ASSUME NEW im, NEW i \in Inums, NEW fi \in Nat, i < fi, NEW n \in 0 .. MAXFILE, Appending(im, i, fi, 0)
  PROVE  Appending(Appended(im, i, n), i, fi, n)
<1>0. MAXFILE \in Nat /\ n \in Nat  BY Consts DEF MAXFILE
<1>1. PICK f : /\ \A k \in 0 .. n : f[k] = IF k = 0 THEN im ELSE iappend(f[k - 1], i)
               /\ Appended(im, i, n) = f[n]
  BY <1>0, AppendedIs
<1> DEFINE S == {k \in 0 .. n : ~Appending(f[k], i, fi, k)}
<1>2. S = {}
  <2> SUFFICES ASSUME S # {} PROVE FALSE  OBVIOUS
  <2>1. PICK j \in S : \A l \in S : j <= l
    <3>1. S \in SUBSET Nat  OBVIOUS
    <3> HIDE DEF S
    <3> QED BY <3>1, LeastNat
  <2>2. j \in 0 .. n /\ ~Appending(f[j], i, fi, j)  OBVIOUS
  <2>3. f[0] = im  BY <1>0, <1>1
  <2>4. j # 0  BY <2>2, <2>3
  <2>5. j - 1 \in 0 .. n /\ j - 1 \in Nat /\ j - 1 < MAXFILE /\ ~(j <= j - 1) /\ j - 1 + 1 = j  BY <1>0, <2>2, <2>4
  <2>6. Appending(f[j - 1], i, fi, j - 1)  BY <2>1, <2>5
  <2>7. Appending(iappend(f[j - 1], i), i, fi, j - 1 + 1)  BY <2>5, <2>6, AppendingStep
  <2>8. f[j] = iappend(f[j - 1], i)  BY <1>1, <2>2, <2>4
  <2> QED BY <2>2, <2>5, <2>7, <2>8
<1>3. n \in 0 .. n  BY <1>0
<1> QED BY <1>1, <1>2, <1>3

\* ialloc of mkfs: the next inode, which owns nothing.
LEMMA MkIallocOk ==
  ASSUME NEW im, ImageRec(im), Fits(im) => ImageOk(im), im.freeinode \in Inums, NEW t \in {"file", "dir"}
  PROVE  Appending(MkIalloc(im, t), im.freeinode, im.freeinode + 1, 0)
<1> DEFINE n == im.freeinode
           e == [Free(t) EXCEPT !.nlink = 1]
           dj == [im.dinode EXCEPT ![n] = e]
<1>1. MkIalloc(im, t) = [dinode |-> dj, data |-> im.data, freeinode |-> n + 1, freeblock |-> im.freeblock]
  <2>1. im = [dinode |-> im.dinode, data |-> im.data, freeinode |-> im.freeinode, freeblock |-> im.freeblock]
    BY DEF ImageRec
  <2>2. PICK c : c = e  OBVIOUS
  <2>3. MkIalloc(im, t) = [im EXCEPT !.dinode[im.freeinode] = c, !.freeinode = @ + 1]  BY <2>2 DEF MkIalloc
  <2> HIDE DEF e
  <2>4. dj = [im.dinode EXCEPT ![im.freeinode] = c]  BY <2>2
  <2> HIDE DEF dj
  <2> QED BY <2>1, <2>3, <2>4
<1>2. e \in Inode /\ e.type = t /\ e.size = 0 /\ e.addrs = Free("free").addrs
  BY Consts DEF Free, Inode, MAXFILE
<1> HIDE DEF e
<1>3. n \in Nat \ {0} /\ n + 1 \in Nat \ {0} /\ im.freeblock \in Nat \ {0}  BY DEF ImageRec
<1> HIDE DEF dj
<1>4. /\ ImageRec(MkIalloc(im, t)) /\ MkIalloc(im, t).dinode = dj /\ MkIalloc(im, t).data = im.data
      /\ MkIalloc(im, t).freeinode = n + 1 /\ MkIalloc(im, t).freeblock = im.freeblock
  BY <1>1, <1>3, RecIs
<1>5. ASSUME Fits(im) PROVE ImageOk(MkIalloc(im, t)) /\ dj[n] = e
  <2>1. /\ BlocksIn(im.dinode, im.data, MkBalloc(im.freeblock))
        /\ \A i \in Inums : i >= im.freeinode => im.dinode[i] = Free("free")
        /\ \A b \in Blocks : b >= im.freeblock => im.data[b].a = [k \in 0 .. NINDIRECT - 1 |-> 0]
    BY <1>5 DEF ImageOk
  <2>2. im.dinode \in [Inums -> Inode] /\ im.data \in [Blocks -> Block]  BY <2>1 DEF BlocksIn
  <2>3. dj \in [Inums -> Inode] /\ dj[n] = e /\ \A i \in Inums : i # n => dj[i] = im.dinode[i]  BY <1>2, <2>2 DEF dj
  <2>4. im.dinode[n] = Free("free") /\ im.dinode[n].size = 0 /\ im.dinode[n].addrs = Free("free").addrs
    <3>1. im.dinode[n] = Free("free")  BY <1>3, <2>1
    <3> QED BY <3>1 DEF Free
  <2>5. \A i \in Inums : /\ dj[i].addrs = im.dinode[i].addrs /\ dj[i].size = im.dinode[i].size
                         /\ dj[i].type = "free" => dj[i] = im.dinode[i]
    BY <1>2, <2>3, <2>4
  <2>6. BlocksIn(dj, im.data, MkBalloc(im.freeblock))  BY <2>1, <2>2, <2>3, <2>5, BlocksKept
  <2>7. \A i \in Inums : i >= n + 1 => dj[i] = Free("free")
    <3> TAKE i \in Inums
    <3>1. i >= n + 1 => i # n /\ i >= n  BY <1>3, Consts
    <3> QED BY <2>1, <2>3, <3>1
  <2> QED BY <1>4, <2>1, <2>3, <2>6, <2>7 DEF ImageOk
<1> QED BY <1>2, <1>4, <1>5 DEF Appending, Fits

\* A block that is written, but for the block numbers in it.
LEMMA AppendingData ==
  ASSUME NEW im, NEW i, NEW fi, NEW k, Appending(im, i, fi, k), NEW dt, NEW w, w = [im EXCEPT !.data = dt],
         Fits(im) => dt \in [Blocks -> Block] /\ \A b \in Blocks : dt[b].a = im.data[b].a
  PROVE  Appending(w, i, fi, k)
<1>1. /\ im = [dinode |-> im.dinode, data |-> im.data, freeinode |-> im.freeinode, freeblock |-> im.freeblock]
      /\ im.freeinode \in Nat \ {0} /\ im.freeblock \in Nat \ {0} /\ im.freeinode = fi
  BY DEF Appending, ImageRec
<1>2. w = [dinode |-> im.dinode, data |-> dt, freeinode |-> im.freeinode, freeblock |-> im.freeblock]  BY <1>1
<1>3. /\ ImageRec(w) /\ w.dinode = im.dinode /\ w.data = dt /\ w.freeinode = fi /\ w.freeblock = im.freeblock
  BY <1>1, <1>2, RecIs
<1>4. ASSUME Fits(im) PROVE ImageOk(w) /\ w.dinode[i].type # "free" /\ w.dinode[i].size = k
  <2>1. ImageOk(im) /\ im.dinode[i].type # "free" /\ im.dinode[i].size = k  BY <1>4 DEF Appending
  <2>2. BlocksIn(im.dinode, im.data, MkBalloc(im.freeblock)) /\ im.dinode \in [Inums -> Inode]  BY <2>1 DEF ImageOk, BlocksIn
  <2>3. BlocksIn(im.dinode, dt, MkBalloc(im.freeblock))  BY <1>4, <2>2, BlocksKept
  <2>4. \A b \in Blocks : b >= im.freeblock => dt[b].a = [l \in 0 .. NINDIRECT - 1 |-> 0]  BY <1>4, <2>1 DEF ImageOk
  <2> QED BY <1>1, <1>3, <2>1, <2>3, <2>4 DEF ImageOk
<1> QED BY <1>3, <1>4 DEF Appending, Fits

LEMMA MkFileOk ==
  ASSUME NEW im, ImageRec(im), Fits(im) => ImageOk(im), im.freeinode \in Inums,
         NEW f \in [name : Names, blocks : 0 .. MAXFILE]
  PROVE  Appending(MkFile(im, f), im.freeinode, im.freeinode + 1, f.blocks)
<1> DEFINE i == im.freeinode
           m == MkIalloc(im, "file")
<1>1. Appending(m, i, i + 1, 0)  BY MkIallocOk
<1>2. i \in Nat /\ i < i + 1 /\ f.name \in Elems /\ f.blocks \in 0 .. MAXFILE
  <2>1. i \in Nat /\ i < i + 1  BY DEF ImageRec
  <2>2. f.name \in Elems /\ f.blocks \in 0 .. MAXFILE  BY DEF Elems
  <2> QED BY <2>1, <2>2
<1> HIDE DEF m
<1> DEFINE x == [m.data[1].ents EXCEPT ![f.name] = i]
           y == [m.data[1] EXCEPT !.ents = x]
           dt == [m.data EXCEPT ![1] = y]
           w == [m EXCEPT !.data = dt]
<1>3. Fits(m) => dt \in [Blocks -> Block] /\ \A b \in Blocks : dt[b].a = m.data[b].a
  <2> SUFFICES ASSUME Fits(m) PROVE dt \in [Blocks -> Block] /\ \A b \in Blocks : dt[b].a = m.data[b].a  OBVIOUS
  <2>1. m.data \in [Blocks -> Block] /\ 1 \in Blocks  BY <1>1, Consts DEF Appending, ImageOk, BlocksIn, Blocks
  <2>2. m.data[1] \in Block  BY <2>1
  <2>3. x \in [Elems -> {0} \union Inums]  BY <1>2, <2>2 DEF Block
  <2> HIDE DEF x
  <2>4. y \in Block /\ y.a = m.data[1].a  BY <2>2, <2>3 DEF Block
  <2> HIDE DEF y
  <2> QED BY <2>1, <2>4
<1>4. w = [m EXCEPT !.data[1].ents[f.name] = i]
  <2>1. m = [dinode |-> m.dinode, data |-> m.data, freeinode |-> m.freeinode, freeblock |-> m.freeblock]
    BY <1>1 DEF Appending, ImageRec
  <2> QED BY <2>1
<1> HIDE DEF dt
<1>5. Appending(w, i, i + 1, 0)  BY <1>1, <1>3, AppendingData
<1> HIDE DEF w
<1>6. MkFile(im, f) = Appended(w, i, f.blocks)  BY <1>4 DEF MkFile, m
<1>7. Appending(Appended(w, i, f.blocks), i, i + 1, f.blocks)  BY <1>2, <1>5, AppendedOk
<1> QED BY <1>6, <1>7

LEMMA BlankOk == ImageRec(Blank) /\ ImageOk(Blank) /\ Blank.freeinode = 1 /\ Blank.freeblock = 1
<1>1. ImageRec(Blank) /\ Blank.freeinode = 1 /\ Blank.freeblock = 1  BY DEF Blank, ImageRec
<1>2. PICK di, dt : di = Blank.dinode /\ dt = Blank.data  OBVIOUS
<1>3. di = [i \in Inums |-> Free("free")] /\ dt = [b \in Blocks |-> Zero]  BY <1>2 DEF Blank
<1>4. Free("free") \in Inode  BY Consts DEF Free, Inode, MAXFILE
<1>5. di \in [Inums -> Inode] /\ dt \in [Blocks -> Block]  BY <1>3, <1>4, ZeroType
<1>6. OwnedIn(Free("free"), dt) = {}  BY FreeOwnsNothing
<1>7. Shape(Free("free"), dt)
  <2>1. Free("free").size = 0 /\ \A k \in 0 .. NDIRECT : Free("free").addrs[k] = 0  BY DEF Free
  <2>2. NDIRECT \in 0 .. NDIRECT /\ \A k \in 0 .. NDIRECT - 1 : k \in 0 .. NDIRECT /\ ~(k < 0)  BY Consts
  <2>3. ~(NDIRECT < 0)  BY Consts
  <2>4. IsFiniteSet({}) /\ Cardinality({}) = 0  BY FS_EmptySet
  <2>5. PICK d : d = Free("free")  OBVIOUS
  <2>6. /\ \A k \in 0 .. NDIRECT - 1 : d.addrs[k] = 0 /\ ~(k < d.size)
        /\ d.addrs[NDIRECT] = 0 /\ ~(NDIRECT < d.size) /\ d.size = 0
    BY <2>1, <2>2, <2>3, <2>5
  <2>7. IsFiniteSet(OwnedIn(d, dt)) /\ Cardinality(OwnedIn(d, dt)) = 0  BY <1>6, <2>4, <2>5
  <2>8. Shape(d, dt)  BY <2>5, <2>6, <2>7 DEF Shape
  <2> QED BY <2>5, <2>8
<1>8. MkBalloc(1) = {}  BY Consts DEF MkBalloc, Blocks
<1>9. BlocksIn(di, dt, {})
  <2>1. \A i \in Inums : di[i] = Free("free")  BY <1>3
  <2> QED BY <1>5, <1>6, <1>7, <2>1 DEF BlocksIn
<1>10. \A b \in Blocks : dt[b].a = [k \in 0 .. NINDIRECT - 1 |-> 0]  BY <1>3 DEF Zero
<1>11. \A i \in Inums : di[i] = Free("free")  BY <1>3
<1> QED BY <1>1, <1>2, <1>8, <1>9, <1>10, <1>11 DEF ImageOk

LEMMA MkRootOk == Appending(MkRoot, 1, 2, 1)
<1> DEFINE m == MkIalloc(Blank, "dir")
           w == iappend(m, 1)
<1>0. 1 \in Inums /\ 1 + 1 = 2 /\ 0 + 1 = 1 /\ 0 < MAXFILE  BY Consts DEF MAXFILE
<1>1. Appending(m, 1, 2, 0)
  <2>1. Appending(m, Blank.freeinode, Blank.freeinode + 1, 0)  BY <1>0, BlankOk, MkIallocOk
  <2> QED BY <1>0, <2>1, BlankOk
<1>2. m.data = Blank.data /\ m.freeblock = 1  BY DEF MkIalloc, Blank
<1> HIDE DEF m
<1>3. Appending(w, 1, 2, 1)  BY <1>0, <1>1, AppendingStep
<1>4. w.data = Blank.data
  <2>1. m.dinode[1].size = 0 /\ ImageRec(m)  BY <1>1, <1>2, Consts DEF Appending, Fits
  <2>2. m.dinode[1].size < NDIRECT  BY <2>1, Consts
  <2> QED BY <1>2, <2>1, <2>2, AppendDirect
<1> HIDE DEF w
<1> DEFINE dt == [w.data EXCEPT ![1] = Dots(1, 1)]
<1>5. dt \in [Blocks -> Block] /\ \A b \in Blocks : dt[b].a = w.data[b].a
  <2>1. w.data = [b \in Blocks |-> Zero] /\ 1 \in Blocks  BY <1>4, Consts DEF Blank, Blocks
  <2>2. Dots(1, 1) \in Block /\ Dots(1, 1).a = Zero.a /\ Zero \in Block  BY <1>0, ZeroType
  <2> QED BY <2>1, <2>2
<1>6. MkRoot = [w EXCEPT !.data = dt]
  <2>1. w = [dinode |-> w.dinode, data |-> w.data, freeinode |-> w.freeinode, freeblock |-> w.freeblock]
    BY <1>3 DEF Appending, ImageRec
  <2>2. MkRoot = [w EXCEPT !.data[1] = Dots(1, 1)]  BY DEF MkRoot, w, m
  <2>3. PICK y : y = Dots(1, 1)  OBVIOUS
  <2> QED BY <2>1, <2>2, <2>3
<1> HIDE DEF dt
<1> QED BY <1>3, <1>5, <1>6, AppendingData

LEMMA ImageIsOk == ImageRec(Image) /\ ImageOk(Image)
<1> DEFINE n == Len(Files)
           Ok(im, k) == ImageRec(im) /\ im.freeinode = k + 2 /\ (Fits(im) => ImageOk(im))
<1>0. n \in Nat /\ n < NINODES /\ \A k \in 1 .. n : Files[k] \in [name : Names, blocks : 0 .. MAXFILE]
  <2>1. Files \in Seq([name : Names, blocks : 0 .. MAXFILE]) /\ Len(Files) < NINODES  BY FsAssumption
  <2>2. PICK T : T = [name : Names, blocks : 0 .. MAXFILE]  OBVIOUS
  <2>3. Files \in Seq(T)  BY <2>1, <2>2
  <2>4. \A k \in 1 .. Len(Files) : Files[k] \in T  BY <2>3, ElementOfSeq
  <2>5. Len(Files) \in Nat  BY <2>3
  <2> QED BY <2>1, <2>2, <2>4, <2>5
<1>1. PICK f : /\ \A k \in 0 .. n : f[k] = IF k = 0 THEN MkRoot ELSE MkFile(f[k - 1], Files[k])
               /\ Image = f[n]
  BY ImageIs
<1>2. ASSUME NEW im, NEW k \in 1 .. n, Ok(im, k - 1) PROVE Ok(MkFile(im, Files[k]), k)
  <2>1. im.freeinode = k + 1 /\ im.freeinode \in Inums  BY <1>0, <1>2, Consts DEF Inums
  <2>2. Appending(MkFile(im, Files[k]), im.freeinode, im.freeinode + 1, Files[k].blocks)
    BY <1>0, <1>2, <2>1, MkFileOk
  <2>3. im.freeinode + 1 = k + 2  BY <2>1
  <2> QED BY <2>2, <2>3 DEF Appending
<1>3. Ok(MkRoot, 0)  BY MkRootOk DEF Appending
<1> HIDE DEF Ok
<1> DEFINE S == {k \in 0 .. n : ~Ok(f[k], k)}
<1>4. S = {}
  <2> SUFFICES ASSUME S # {} PROVE FALSE  OBVIOUS
  <2>1. PICK j \in S : \A l \in S : j <= l
    <3>1. S \in SUBSET Nat  OBVIOUS
    <3> HIDE DEF S
    <3> QED BY <3>1, LeastNat
  <2>2. j \in 0 .. n /\ ~Ok(f[j], j)  OBVIOUS
  <2>3. f[0] = MkRoot  BY <1>0, <1>1
  <2>4. j # 0  BY <1>3, <2>2, <2>3
  <2>5. j - 1 \in 0 .. n /\ j \in 1 .. n /\ ~(j <= j - 1)  BY <1>0, <2>2, <2>4
  <2>6. Ok(f[j - 1], j - 1)  BY <2>1, <2>5
  <2>7. f[j] = MkFile(f[j - 1], Files[j])  BY <1>1, <2>2, <2>4
  <2> QED BY <1>2, <2>2, <2>5, <2>6, <2>7
<1>5. n \in 0 .. n  BY <1>0
<1>6. Ok(Image, n)  BY <1>1, <1>4, <1>5
<1> QED BY <1>6, FsAssumption DEF Ok, Fits

LEMMA InitFsInv == Init => FsInv /\ BlocksInv
<1> SUFFICES ASSUME Init PROVE FsInv /\ BlocksInv  OBVIOUS
<1>1. BlocksInv
  <2>1. dinode = Image.dinode /\ data = Image.data /\ bitmap = MkBalloc(Image.freeblock)  BY DEF Init
  <2> QED BY <2>1, ImageIsOk DEF ImageOk, BlocksInv
<1>2. /\ cwd = [p \in Procs |-> 0] /\ ofile = [p \in Procs |-> None] /\ call = [p \in Procs |-> NoCall]
      /\ path = [p \in Procs |-> <<>>] /\ pc = [p \in Procs |-> "user"] /\ ret = [p \in Procs |-> "user"]
      /\ put = [p \in Procs |-> None] /\ at = [p \in Procs |-> None] /\ ip = [p \in Procs |-> None]
      /\ dp = [p \in Procs |-> None] /\ inum = [p \in Procs |-> 0] /\ made = 0
      /\ icache = [s \in Slots |-> [inum |-> 1, ref |-> IF s = 0 THEN Cardinality(Procs) ELSE 0,
                                    valid |-> FALSE, lock |-> 0, d |-> Free("free")]]
  BY DEF Init
<1>3. RegType
  <2>1. \A p \in Procs : <<>> \in Seq(Elems)  OBVIOUS
  <2>2. 0 \in Slots /\ 0 \in Nat  BY Consts
  <2>3. pc \in [Procs -> Steps] /\ ret \in [Procs -> Back \union {"user"}]  BY <1>2 DEF Steps, Back
  <2>4. path \in [Procs -> Seq(Elems)]  BY <1>2, <2>1
  <2>5. cwd \in [Procs -> Slots] /\ call \in [Procs -> Calls \union {NoCall}] /\ inum \in [Procs -> {0} \union Inums]
    BY <1>2, <2>2
  <2>6. \A x \in {ofile, put, at, ip, dp} : x \in [Procs -> Slots \union {None}]  BY <1>2
  <2> QED BY <1>2, <2>2, <2>3, <2>4, <2>5, <2>6 DEF RegType
<1>4. DiskType
  <2>1. bitmap \subseteq Blocks  BY DEF Init, MkBalloc
  <2>2. \A i \in Inums : Headed(dinode[i])
    <3> TAKE i \in Inums
    <3>1. dinode[i] \in Inode /\ Shape(dinode[i], data)  BY <1>1 DEF BlocksInv, BlocksIn
    <3>2. 0 \in 0 .. NDIRECT - 1  BY Consts
    <3>3. dinode[i].addrs[0] # 0 <=> 0 < dinode[i].size  BY <3>1, <3>2 DEF Shape
    <3> QED BY <3>1, <3>3, InodeFields DEF Headed
  <2> QED BY <1>1, <2>1, <2>2 DEF DiskType, BlocksInv, BlocksIn
<1>5. Good(icache, dinode)
  <2>1. Free("free") \in Inode  BY Consts DEF Free, Inode, MAXFILE
  <2>2. Cardinality(Procs) \in Nat  BY Consts, FS_CardinalityType
  <2>3. \A s \in Slots : /\ icache[s].inum = 1 /\ icache[s].ref = (IF s = 0 THEN Cardinality(Procs) ELSE 0)
                         /\ icache[s].valid = FALSE /\ icache[s].lock = 0 /\ icache[s].d = Free("free")
    BY <1>2
  <2>4. icache \in CacheType  BY <1>2, <2>1, <2>2, Consts DEF CacheType
  <2>5. Unique(icache)  BY <2>3 DEF Unique
  <2> QED BY <1>1, <2>3, <2>4, <2>5 DEF Good, BlocksInv, BlocksIn
<1>6. RefExact
  <2> SUFFICES ASSUME NEW s \in Slots PROVE icache[s].ref = Cardinality(PointersTo(s))  BY DEF RefExact
  <2>1. \A p \in Procs : Pointer(p) = [cwd |-> 0, ofile |-> None, put |-> None, at |-> None, ip |-> None, dp |-> None]
    BY <1>2 DEF Pointer
  <2>2. s # None  BY Consts
  <2>3. CASE s # 0
    <3>1. PointersTo(s) = {}  BY <2>1, <2>2, <2>3 DEF PointersTo
    <3> QED BY <1>2, <2>3, <3>1, FS_EmptySet
  <2>4. CASE s = 0
    <3>1. PointersTo(s) = Procs \X {"cwd"}
      <4>1. \A x \in Procs \X {"cwd", "ofile", "put", "at", "ip", "dp"} : Pointer(x[1])[x[2]] = 0 <=> x[2] = "cwd"
        <5> TAKE x \in Procs \X {"cwd", "ofile", "put", "at", "ip", "dp"}
        <5>1. x[1] \in Procs /\ x[2] \in {"cwd", "ofile", "put", "at", "ip", "dp"}  OBVIOUS
        <5>2. None # 0  BY Consts
        <5> QED BY <2>1, <5>1, <5>2
      <4>2. \A x : x \in Procs \X {"cwd", "ofile", "put", "at", "ip", "dp"} /\ x[2] = "cwd" <=> x \in Procs \X {"cwd"}
        OBVIOUS
      <4> QED BY <2>4, <4>1, <4>2 DEF PointersTo
    <3>2. Cardinality(Procs \X {"cwd"}) = Cardinality(Procs)
      <4>1. IsFiniteSet({"cwd"}) /\ Cardinality({"cwd"}) = 1  BY FS_Singleton
      <4>2. Cardinality(Procs \X {"cwd"}) = Cardinality(Procs) * Cardinality({"cwd"})  BY <4>1, Consts, FS_Product
      <4> QED BY <4>1, <4>2, Consts, FS_CardinalityType
    <3> QED BY <1>2, <2>4, <3>1, <3>2
  <2> QED BY <2>3, <2>4
<1>7. \A p \in Procs : K(p) = "user" /\ pc[p] = "user"  BY <1>2 DEF K, Iput
<1>8. LockOk
  <2>1. \A s \in Slots : icache[s].lock = 0  BY <1>2
  <2> QED BY <1>7, <2>1, Consts DEF LockOk, Holds, DpSteps
<1>9. \A p \in Procs : RegsOk(p)
  BY <1>2, <1>7 DEF RegsOk, Iput, AtSteps, DpSteps, Idle
<1> QED BY <1>1, <1>3, <1>4, <1>5, <1>6, <1>8, <1>9 DEF FsInv

\* The inode cache can be trusted in every behaviour, whatever calls the
\* processes make and however many slots, inodes and blocks there are: the count
\* of a slot is the number of pointers to it, and a valid copy is the inode of
\* the disk (iget, idup, ilock, iput and all the calls of sysfile.c).
THEOREM CacheCorrect == Spec => []CacheExact
<1>1. FsInv /\ [Next]_vars => FsInv'  BY NextKeeps
<1>2. FsInv => CacheExact  BY FsInvExact
<1>3. Init => FsInv  BY InitFsInv
<1> QED BY <1>1, <1>2, <1>3, PTL DEF Spec

-----------------------------------------------------------------------------
(***************************************************************************)
(* Which steps disturb the ownership of blocks, and how.                   *)
(***************************************************************************)
LEMMA SameBlocks == ASSUME BlocksInv, UNCHANGED disk PROVE BlocksInv'
<1>1. dinode' = dinode /\ data' = data /\ bitmap' = bitmap  BY DEF disk
<1>2. BlocksIn(dinode', data', bitmap')  BY <1>1 DEF BlocksInv
<1> QED BY <1>2 DEF BlocksInv, BlocksIn, Shape, OwnedIn, IndirectIn

\* An inode is written that has the blocks it had, and directory entries.
LEMMA BlocksRewritten ==
  ASSUME BlocksInv, NEW i \in Inums, NEW e \in Inode, e.addrs = dinode[i].addrs, e.size = dinode[i].size,
         e.type # "free", dinode' = [dinode EXCEPT ![i] = e], bitmap' = bitmap,
         data' \in [Blocks -> Block], \A b \in Blocks : data'[b].a = data[b].a
  PROVE  BlocksInv'
<1>1. dinode \in [Inums -> Inode] /\ BlocksIn(dinode, data, bitmap)  BY DEF BlocksInv, BlocksIn
<1>2. PICK dj : dj = dinode'  OBVIOUS
<1>3. PICK du : du = data'  OBVIOUS
<1>4. dj \in [Inums -> Inode] /\ dj[i] = e /\ \A j \in Inums : j # i => dj[j] = dinode[j]  BY <1>1, <1>2
<1>5. \A j \in Inums : /\ dj[j].addrs = dinode[j].addrs /\ dj[j].size = dinode[j].size
                       /\ dj[j].type = "free" => dj[j] = dinode[j]
  BY <1>4
<1>6. du \in [Blocks -> Block] /\ \A b \in Blocks : du[b].a = data[b].a  BY <1>3
<1>7. BlocksIn(dj, du, bitmap)  BY <1>1, <1>4, <1>5, <1>6, BlocksKept
<1>8. BlocksIn(dinode', data', bitmap')  BY <1>2, <1>3, <1>7
<1> QED BY <1>8 DEF BlocksInv, BlocksIn, Shape, OwnedIn, IndirectIn

LEMMA EntryBlocks ==
  ASSUME BlocksInv, NEW d, NEW e \in Elems, NEW i \in {0} \union Inums,
         data' = SetEntry(data, d, e, i), UNCHANGED <<dinode, bitmap>>
  PROVE  BlocksInv'
<1>1. dinode \in [Inums -> Inode] /\ data \in [Blocks -> Block] /\ BlocksIn(dinode, data, bitmap)  BY DEF BlocksInv, BlocksIn
<1>2. PICK du : du = SetEntry(data, d, e, i)  OBVIOUS
<1>3. du \in [Blocks -> Block] /\ \A b \in Blocks : du[b].a = data[b].a
  <2>1. EntrySet(data, d, e, i, du)  BY <1>1, <1>2, SetEntryIs
  <2> QED BY <2>1 DEF EntrySet
<1>4. BlocksIn(dinode, du, bitmap)  BY <1>1, <1>3, BlocksKept
<1>5. BlocksIn(dinode', data', bitmap')  BY <1>2, <1>4
<1> QED BY <1>5 DEF BlocksInv, BlocksIn, Shape, OwnedIn, IndirectIn

LEMMA RelinkedBlocks ==
  ASSUME FsInv, BlocksInv, NEW s \in Slots, icache[s].ref > 0, Loaded(s).d.type # "free", NEW n \in Int, Relinked(s, n),
         UNCHANGED <<bitmap, data>>
  PROVE  BlocksInv'
<1> DEFINE e == Loaded(s).d
           d == [e EXCEPT !.nlink = e.nlink + n]
<1>1. e \in Inode /\ e = dinode[icache[s].inum] /\ icache[s].inum \in Inums
  BY LoadedIs, RefNat, SlotFields DEF FsInv
<1>2. dinode' = iupdate(dinode, s, d)  BY DEF Relinked
<1>3. e.type # "free"  OBVIOUS
<1> HIDE DEF e
<1>4. d \in Inode /\ d.type # "free" /\ d.size = e.size /\ d.addrs = e.addrs  BY <1>1, <1>3 DEF Inode
<1> HIDE DEF d
<1>5. dinode' = [dinode EXCEPT ![icache[s].inum] = d]  BY <1>2 DEF iupdate
<1>6. data' \in [Blocks -> Block] /\ \A b \in Blocks : data'[b].a = data[b].a  BY DEF BlocksInv, BlocksIn
<1> QED BY <1>1, <1>4, <1>5, <1>6, BlocksRewritten

LEMMA Link1Blocks == ASSUME FsInv, BlocksInv, NEW p \in Procs, link1(p) PROVE BlocksInv'
<1>1. ilock(p, "link1", at[p]) /\ UNCHANGED <<bitmap, data>>  BY DEF link1
<1>2. at[p] \in Slots /\ icache[at[p]].ref > 0 /\ Loaded(at[p]).d.type # "free"  BY <1>1, LockedAt DEF AtSteps
<1>3. CASE UNCHANGED dinode  BY <1>1, <1>3, SameBlocks DEF disk
<1>4. CASE Relinked(at[p], 1)  BY <1>1, <1>2, <1>4, RelinkedBlocks
<1> QED BY <1>3, <1>4 DEF link1

LEMMA LinkBadBlocks == ASSUME FsInv, BlocksInv, NEW p \in Procs, linkbad(p) PROVE BlocksInv'
<1>1. ilock(p, "linkbad", at[p]) /\ UNCHANGED <<bitmap, data>> /\ Relinked(at[p], -1)  BY DEF linkbad
<1>2. at[p] \in Slots /\ icache[at[p]].ref > 0 /\ Loaded(at[p]).d.type # "free"  BY <1>1, LockedAt DEF AtSteps
<1>3. -1 \in Int  OBVIOUS
<1> QED BY <1>1, <1>2, <1>3, RelinkedBlocks

LEMMA Unlink3Blocks == ASSUME FsInv, BlocksInv, NEW p \in Procs, unlink3(p) PROVE BlocksInv'
<1>1. pc[p] = "unlink3" /\ UNCHANGED <<bitmap, data>> /\ Relinked(at[p], -1)  BY DEF unlink3, InStep
<1>2. at[p] \in Slots /\ icache[at[p]].ref > 0 /\ Loaded(at[p]).d.type # "free"  BY <1>1, HeldAt
<1>3. -1 \in Int  OBVIOUS
<1> QED BY <1>1, <1>2, <1>3, RelinkedBlocks

LEMMA Link2Blocks == ASSUME FsInv, BlocksInv, NEW p \in Procs, link2(p) PROVE BlocksInv'
<1>1. ilock(p, "link2", at[p]) /\ UNCHANGED <<dinode, bitmap>>  BY DEF link2
<1>2. K(p) = "link2"  BY <1>1, LockedAt DEF AtSteps
<1>3. skipelem(p) \in Elems  BY <1>2, SkipElem
<1>4. icache[ip[p]].inum \in {0} \union Inums
  <2>1. ip[p] \in Slots  BY <1>2 DEF FsInv, RegsOk, RegType
  <2> QED BY <2>1, RefNat, SlotFields
<1>5. CASE UNCHANGED data  BY <1>1, <1>5, SameBlocks DEF disk
<1>6. CASE data' = SetEntry(data, Loaded(at[p]).d, skipelem(p), icache[ip[p]].inum)
  <2>1. PICK d, e, i : d = Loaded(at[p]).d /\ e = skipelem(p) /\ i = icache[ip[p]].inum  OBVIOUS
  <2>2. data' = SetEntry(data, d, e, i) /\ e \in Elems /\ i \in {0} \union Inums  BY <1>3, <1>4, <1>6, <2>1
  <2> QED BY <1>1, <2>2, EntryBlocks
<1> QED BY <1>5, <1>6 DEF link2

LEMMA Unlink2Blocks == ASSUME FsInv, BlocksInv, NEW p \in Procs, unlink2(p) PROVE BlocksInv'
<1> DEFINE up == icache[dp[p]].d
           n  == IF Loaded(at[p]).d.type = "dir" THEN up.nlink - 1 ELSE up.nlink
           u  == [up EXCEPT !.nlink = n]
<1>1. ilock(p, "unlink2", at[p])  BY DEF unlink2
<1>2. pc[p] = "unlink2" /\ K(p) = "unlink2"  BY <1>1, LockedAt DEF AtSteps
<1>3. /\ icache[dp[p]].inum \in Inums
      /\ up = dinode[icache[dp[p]].inum] /\ up.type # "free" /\ up \in Inode
  BY <1>2, HeldDp DEF DpSteps
<1>5. skipelem(p) \in Elems  BY <1>2, SkipElem DEF DpSteps
<1>6. CASE UNCHANGED disk  BY <1>6, SameBlocks
<1>7. CASE /\ data' = SetEntry(data, up, skipelem(p), 0)
           /\ dinode' = iupdate(dinode, dp[p], u)
           /\ UNCHANGED bitmap
  <2>1. n \in Int  BY <1>3, InodeFields
  <2> HIDE DEF n
  <2>2. u \in Inode /\ u.type = up.type /\ u.size = up.size /\ u.addrs = up.addrs  BY <1>3, <2>1, NlinkOnly
  <2> HIDE DEF u, up
  <2>3. data \in [Blocks -> Block] /\ 0 \in {0} \union Inums  BY DEF BlocksInv, BlocksIn
  <2>4. EntrySet(data, up, skipelem(p), 0, data')  BY <1>5, <1>7, <2>3, SetEntryIs
  <2>5. dinode' = [dinode EXCEPT ![icache[dp[p]].inum] = u]  BY <1>7 DEF iupdate
  <2>6. data' \in [Blocks -> Block] /\ \A b \in Blocks : data'[b].a = data[b].a  BY <2>4 DEF EntrySet
  <2>7. u.type # "free" /\ u.addrs = dinode[icache[dp[p]].inum].addrs /\ u.size = dinode[icache[dp[p]].inum].size
    BY <1>3, <2>2
  <2> QED BY <1>3, <1>7, <2>2, <2>5, <2>6, <2>7, BlocksRewritten
<1> QED BY <1>6, <1>7 DEF unlink2

LEMMA Create1Blocks == ASSUME FsInv, BlocksInv, NEW p \in Procs, create1(p) PROVE BlocksInv'
<1> DEFINE n == Least(FreeInodes)
<1>1. UNCHANGED <<bitmap, data>>  BY DEF create1
<1>2. CASE UNCHANGED dinode  BY <1>1, <1>2, SameBlocks DEF disk
<1>3. CASE FreeInodes # {} /\ dinode' = [dinode EXCEPT ![n] = Free(NewType(p))]
  <2>1. n \in Inums /\ dinode[n].type = "free"
    <3>1. FreeInodes \in SUBSET Nat  BY Consts DEF FreeInodes
    <3>2. n \in FreeInodes  BY <1>3, <3>1, LeastIn
    <3> HIDE DEF n
    <3> QED BY <3>2 DEF FreeInodes
  <2> HIDE DEF n
  <2>2. Free(NewType(p)) \in Inode /\ Free(NewType(p)).type # "free"
    <3>1. Free(NewType(p)) \in Inode  BY FreeIsInode DEF NewType
    <3>2. NewType(p) # "free"  BY DEF NewType
    <3> QED BY <3>1, <3>2 DEF Free
  <2>3. dinode[n] = Free("free")
    <3>1. Shape(dinode[n], data)  BY <2>1 DEF BlocksInv, BlocksIn
    <3> QED BY <2>1, <3>1 DEF Shape
  <2>4. Free(NewType(p)).addrs = dinode[n].addrs /\ Free(NewType(p)).size = dinode[n].size  BY <2>3 DEF Free
  <2>5. data' \in [Blocks -> Block] /\ \A b \in Blocks : data'[b].a = data[b].a  BY <1>1 DEF BlocksInv, BlocksIn
  <2> QED BY <1>1, <1>3, <2>1, <2>2, <2>4, <2>5, BlocksRewritten
<1> QED BY <1>2, <1>3 DEF create1

LEMMA IputFreeBlocks == ASSUME FsInv, BlocksInv, NEW p \in Procs, IputFree(p) PROVE BlocksInv'
<1> DEFINE s == put[p]
<1>1. /\ pc[p] = "free" /\ bitmap' = bfree(bitmap, itrunc(icache[s].d))
      /\ data' = [b \in Blocks |-> IF b \in itrunc(icache[s].d) THEN Zero ELSE data[b]]
      /\ dinode' = iupdate(dinode, s, Free("free"))
  BY DEF IputFree, InStep
<1>2. s \in Slots /\ icache[s].ref > 0 BY <1>1, InIput DEF Iput
<1>3. icache[s].lock = p  BY <1>1, <1>2 DEF FsInv, LockOk, Holds
<1>4. icache[s].valid = TRUE /\ icache[s].d = dinode[icache[s].inum] /\ icache[s].inum \in Inums
  <2>1. icache[s].inum \in Inums  BY <1>2, RefNat, SlotFields
  <2>2. icache[s].lock # 0  BY <1>3, Consts
  <2> QED BY <1>2, <2>1, <2>2 DEF FsInv, Good
<1>5. itrunc(icache[s].d) = OwnedIn(dinode[icache[s].inum], data)
  BY <1>4 DEF itrunc, OwnedIn, Indirect, IndirectIn
<1>6. PICK O : O = OwnedIn(dinode[icache[s].inum], data)  OBVIOUS
<1>7. PICK du : du = [b \in Blocks |-> IF b \in O THEN Zero ELSE data[b]]  OBVIOUS
<1>8. data \in [Blocks -> Block] /\ BlocksIn(dinode, data, bitmap)  BY DEF BlocksInv, BlocksIn
<1>9. du \in [Blocks -> Block] /\ \A b \in Blocks : b \notin O => du[b] = data[b]  BY <1>7, <1>8, ZeroType
<1>10. BlocksIn([dinode EXCEPT ![icache[s].inum] = Free("free")], du, bitmap \ O)
  <2>1. \A b \in Blocks : b \notin OwnedIn(dinode[icache[s].inum], data) => du[b] = data[b]  BY <1>6, <1>9
  <2>2. BlocksIn([dinode EXCEPT ![icache[s].inum] = Free("free")], du, bitmap \ OwnedIn(dinode[icache[s].inum], data))
    BY <1>4, <1>8, <1>9, <2>1, BlocksFreed
  <2> QED BY <1>6, <2>2
<1>11. BlocksIn(dinode', data', bitmap')  BY <1>1, <1>5, <1>6, <1>7, <1>10 DEF iupdate, bfree
<1> QED BY <1>11 DEF BlocksInv, BlocksIn, Shape, OwnedIn, IndirectIn

\* The block behind the last one of an inode.
LEMMA WriteBlocks ==
  ASSUME FsInv, BlocksInv, NEW i \in Inums, NEW d \in Inode, d.type # "free", d.size < MAXFILE, Room(d, Space),
         d.addrs = dinode[i].addrs, d.size = dinode[i].size, NEW w, w = writei(d, Space)
  PROVE  BlocksIn([dinode EXCEPT ![i] = w.d], w.sp.data, w.sp.used)
<1>1. /\ BlocksIn(dinode, data, bitmap) /\ data \in [Blocks -> Block] /\ Shape(dinode[i], data) /\ dinode[i] \in Inode
      /\ DiskType
  BY DEF FsInv, BlocksInv, BlocksIn
<1>2. d.size \in Nat /\ NDIRECT \in Nat  BY InodeFields, Consts
<1>3. CASE d.size < NDIRECT
  <2>1. PICK b : WroteDirect(d, w, b)  BY <1>1, <1>3, WriteDirect
  <2>2. PICK e \in Inode : e = w.d /\ e.type = d.type /\ e.size = d.size + 1 /\ e.addrs = [d.addrs EXCEPT ![d.size] = b]
    BY <2>1 DEF WroteDirect
  <2>3. PICK du \in [Blocks -> Block] : du = w.sp.data /\ \A c \in Blocks : c # b => du[c].a = data[c].a
    BY <2>1 DEF WroteDirect
  <2>4. b \in Blocks /\ b \notin bitmap /\ w.sp.used = bitmap \union {b}  BY <2>1 DEF WroteDirect
  <2>5. /\ dinode[i].size < NDIRECT /\ e.type # "free" /\ e.size = dinode[i].size + 1
        /\ e.addrs = [dinode[i].addrs EXCEPT ![dinode[i].size] = b]
    BY <1>3, <2>2
  <2>6. BlocksIn([dinode EXCEPT ![i] = e], du, bitmap \union {b})  BY <1>1, <2>3, <2>4, <2>5, GrowDirect
  <2> QED BY <2>2, <2>3, <2>4, <2>6
<1>4. CASE ~(d.size < NDIRECT)
  <2>1. d.addrs[NDIRECT] \in {0} \union bitmap
    <3>1. d.addrs[NDIRECT] \in {0} \union Blocks  BY <1>1, InodeFields, Consts
    <3>2. d.addrs[NDIRECT] # 0 => d.addrs[NDIRECT] \in OwnedIn(dinode[i], data)  BY DEF OwnedIn
    <3> QED BY <1>1, <3>1, <3>2 DEF BlocksIn
  <2>2. d.size >= NDIRECT  BY <1>2, <1>4
  <2>3. PICK x, b : WroteIndirect(d, w, x, b)  BY <1>1, <2>1, <2>2, WriteIndirect
  <2>4. PICK e \in Inode : e = w.d /\ e.type = d.type /\ e.size = d.size + 1 /\ e.addrs = [d.addrs EXCEPT ![NDIRECT] = x]
    BY <2>3 DEF WroteIndirect
  <2>5. PICK du \in [Blocks -> Block] : du = w.sp.data  BY <2>3 DEF WroteIndirect
  <2>6. \A c \in Blocks : c \notin {b, x} => du[c].a = data[c].a  BY <2>3, <2>5 DEF WroteIndirect
  <2>7. /\ x \in Blocks /\ b \in Blocks /\ b \notin bitmap /\ b # x
        /\ d.addrs[NDIRECT] # 0 => x = d.addrs[NDIRECT]
        /\ d.addrs[NDIRECT] = 0 => x \notin bitmap
        /\ w.sp.used = bitmap \union {b} \union (IF d.addrs[NDIRECT] = 0 THEN {x} ELSE {})
        /\ w.sp.data[x].a = [(IF d.addrs[NDIRECT] = 0 THEN Zero.a ELSE data[x].a) EXCEPT ![d.size - NDIRECT] = b]
    BY <2>3 DEF WroteIndirect
  <2>8. PICK a : a = IF d.addrs[NDIRECT] = 0 THEN Zero.a ELSE data[x].a  OBVIOUS
  <2>9. /\ a \in [0 .. NINDIRECT - 1 -> {0} \union Blocks]
        /\ a = IF d.addrs[NDIRECT] = 0 THEN [k \in 0 .. NINDIRECT - 1 |-> 0] ELSE data[x].a
    <3>1. data[x] \in Block  BY <1>1, <2>7
    <3>2. data[x].a \in [0 .. NINDIRECT - 1 -> {0} \union Blocks]  BY <3>1 DEF Block
    <3>3. Zero.a = [k \in 0 .. NINDIRECT - 1 |-> 0] /\ Zero.a \in [0 .. NINDIRECT - 1 -> {0} \union Blocks]  BY DEF Zero
    <3> QED BY <2>8, <3>2, <3>3
  <2>10. GrowsBehind(dinode, data, bitmap, i, x, b, e, du, a)
    <3>1. du[x].a = [a EXCEPT ![dinode[i].size - NDIRECT] = b]  BY <2>5, <2>7, <2>8
    <3>2. /\ e.type # "free" /\ e.size = dinode[i].size + 1 /\ e.addrs = [dinode[i].addrs EXCEPT ![NDIRECT] = x]
      BY <2>4
    <3>3. dinode[i].size >= NDIRECT /\ dinode[i].size < MAXFILE  BY <2>2
    <3>4. a = IF dinode[i].addrs[NDIRECT] = 0 THEN [k \in 0 .. NINDIRECT - 1 |-> 0] ELSE data[x].a  BY <2>9
    <3> QED BY <1>1, <2>6, <2>7, <2>9, <3>1, <3>2, <3>3, <3>4 DEF GrowsBehind
  <2>11. BlocksIn([dinode EXCEPT ![i] = e], du, bitmap \union {b} \union (IF dinode[i].addrs[NDIRECT] = 0 THEN {x} ELSE {}))
    BY <2>10, GrowIndirect
  <2>12. w.sp.used = bitmap \union {b} \union (IF dinode[i].addrs[NDIRECT] = 0 THEN {x} ELSE {})  BY <2>7
  <2> QED BY <2>4, <2>5, <2>11, <2>12
<1> QED BY <1>3, <1>4

LEMMA FileWriteBlocks == ASSUME FsInv, BlocksInv, NEW p \in Procs, filewrite(p) PROVE BlocksInv'
<1> DEFINE s == ofile[p]
<1>1. ilock(p, "write", s)  BY DEF filewrite
<1>2. PICK d \in Inode : d = Loaded(s).d /\ d.type # "free" /\ d = dinode[icache[s].inum] /\ icache[s].inum \in Inums
  BY <1>1, LockedFile
<1>3. PICK w : w = writei(d, Space)  OBVIOUS
<1>4. CASE UNCHANGED disk  BY <1>4, SameBlocks
<1>5. CASE /\ d.size < MAXFILE /\ Room(d, Space) /\ dinode' = iupdate(dinode, s, w.d)
           /\ bitmap' = w.sp.used /\ data' = w.sp.data
  <2>1. BlocksIn([dinode EXCEPT ![icache[s].inum] = w.d], w.sp.data, w.sp.used)  BY <1>2, <1>3, <1>5, WriteBlocks
  <2>2. BlocksIn(dinode', data', bitmap')  BY <1>5, <2>1 DEF iupdate
  <2> QED BY <2>2 DEF BlocksInv, BlocksIn, Shape, OwnedIn, IndirectIn
<1> QED BY <1>2, <1>3, <1>4, <1>5 DEF filewrite

LEMMA Create3Blocks == ASSUME FsInv, BlocksInv, NEW p \in Procs, create3(p) PROVE BlocksInv'
<1> DEFINE s   == at[p]
           n   == icache[s].inum
           m   == icache[dp[p]].inum
           up  == icache[dp[p]].d
           dir == NewType(p) = "dir"
           new == [Loaded(s).d EXCEPT !.nlink = 1]
           w   == writei(new, Space)
           d   == IF dir THEN w.d ELSE new
           l   == IF dir THEN up.nlink + 1 ELSE up.nlink
           u   == [up EXCEPT !.nlink = l]
           dt  == IF dir THEN [w.sp.data EXCEPT ![d.addrs[0]] = Dots(n, m)] ELSE data
           used == IF dir THEN w.sp.used ELSE bitmap
<1>1. ilock(p, "create3", s)  BY DEF create3
<1>2. /\ pc[p] = "create3" /\ K(p) = "create3" /\ s \in Slots /\ icache[s].ref > 0 /\ icache[s].lock = 0
      /\ Loaded(s).d.type # "free" /\ n \in Inums /\ Loaded(s).d \in Inode /\ Loaded(s).d = dinode[n]
  BY <1>1, LockedAt DEF AtSteps
<1>3. /\ dp[p] \in Slots /\ icache[dp[p]].ref > 0 /\ icache[dp[p]].lock = p /\ m \in Inums
      /\ up = dinode[m] /\ up.type # "free" /\ up \in Inode
  BY <1>2, HeldDp DEF DpSteps
<1>4. m # n
  <2>1. s # dp[p]  BY <1>2, <1>3, Consts
  <2> QED BY <1>2, <1>3, <2>1 DEF FsInv, Good, Unique
<1>5. skipelem(p) \in Elems  BY <1>2, SkipElem DEF DpSteps
<1>6. /\ dir => new.size = 0 /\ Room(new, Space)
      /\ data' = SetEntry(dt, up, skipelem(p), n)
      /\ bitmap' = used
      /\ dinode' = iupdate(iupdate(dinode, s, d), dp[p], u)
  BY DEF create3
<1>7. new \in Inode /\ new.type # "free" /\ new.addrs = dinode[n].addrs /\ new.size = dinode[n].size
  <2>1. /\ new \in Inode /\ new.type = Loaded(s).d.type /\ new.size = Loaded(s).d.size /\ new.addrs = Loaded(s).d.addrs
    BY <1>2, NlinkOnly
  <2> HIDE DEF new
  <2> QED BY <1>2, <2>1
<1> HIDE DEF new, dir
<1>8. l \in Int  BY <1>3, InodeFields
<1> HIDE DEF l
<1>9. u \in Inode /\ u.type # "free" /\ u.addrs = dinode[m].addrs /\ u.size = dinode[m].size
  <2>1. u \in Inode /\ u.type = up.type /\ u.size = up.size /\ u.addrs = up.addrs  BY <1>3, <1>8, NlinkOnly
  <2> HIDE DEF u, up
  <2> QED BY <1>3, <2>1
<1> HIDE DEF u, up
<1>10. dinode \in [Inums -> Inode] /\ data \in [Blocks -> Block] /\ DiskType /\ BlocksIn(dinode, data, bitmap)
  BY DEF FsInv, BlocksInv, BlocksIn
<1>11. BlocksIn([dinode EXCEPT ![n] = d], dt, used) /\ d.type # "free"
  <2>1. CASE ~dir
    <3>1. d = new /\ dt = data /\ used = bitmap  BY <2>1
    <3>2. PICK dj : dj = [dinode EXCEPT ![n] = new]  OBVIOUS
    <3>3. dj \in [Inums -> Inode] /\ dj[n] = new /\ \A j \in Inums : j # n => dj[j] = dinode[j]  BY <1>2, <1>7, <1>10, <3>2
    <3>4. \A j \in Inums : /\ dj[j].addrs = dinode[j].addrs /\ dj[j].size = dinode[j].size
                           /\ dj[j].type = "free" => dj[j] = dinode[j]
      BY <1>7, <3>3
    <3>5. BlocksIn(dj, data, bitmap)  BY <1>10, <3>3, <3>4, BlocksKept
    <3> HIDE DEF d, dt, used
    <3> QED BY <1>7, <3>1, <3>2, <3>5
  <2>2. CASE dir
    <3>0. d = w.d /\ used = w.sp.used /\ dt = [w.sp.data EXCEPT ![w.d.addrs[0]] = Dots(n, m)]  BY <2>2
    <3> HIDE DEF w, d, dt, used
    <3>1. new.size = 0 /\ Room(new, Space) /\ 0 < NDIRECT /\ 0 < MAXFILE  BY <1>6, <2>2, Consts DEF MAXFILE
    <3>2. BlocksIn([dinode EXCEPT ![n] = w.d], w.sp.data, w.sp.used)  BY <1>2, <1>7, <3>1, WriteBlocks DEF w
    <3>3. new.size < NDIRECT  BY <3>1
    <3>4. PICK b : WroteDirect(new, w, b)  BY <1>7, <1>10, <3>1, <3>3, WriteDirect DEF w
    <3>5. /\ b \in Blocks /\ w.d.addrs = [new.addrs EXCEPT ![0] = b] /\ w.sp.data[b] = Zero
          /\ w.sp.data \in [Blocks -> Block] /\ w.d.type = new.type
      BY <3>1, <3>4 DEF WroteDirect
    <3>6. w.d.addrs[0] = b
      <4>1. new.addrs \in [0 .. NDIRECT -> {0} \union Blocks] /\ 0 \in 0 .. NDIRECT  BY <1>7, InodeFields, Consts
      <4> QED BY <3>5, <4>1
    <3>7. Dots(n, m) \in Block /\ Dots(n, m).a = Zero.a  BY <1>2, <1>3, ZeroType
    <3>8. PICK z : z = Dots(n, m)  OBVIOUS
    <3>9. dt = [w.sp.data EXCEPT ![b] = z]  BY <3>0, <3>6, <3>8
    <3>10. dt \in [Blocks -> Block] /\ \A c \in Blocks : dt[c].a = w.sp.data[c].a  BY <3>5, <3>7, <3>8, <3>9
    <3>11. PICK dj : dj = [dinode EXCEPT ![n] = w.d]  OBVIOUS
    <3>12. BlocksIn(dj, w.sp.data, w.sp.used)  BY <3>2, <3>11
    <3>13. dj \in [Inums -> Inode]  BY <3>12 DEF BlocksIn
    <3>14. BlocksIn(dj, dt, w.sp.used)  BY <3>10, <3>12, <3>13, BlocksKept
    <3> QED BY <1>7, <3>0, <3>5, <3>11, <3>14
  <2> QED BY <2>1, <2>2
<1> HIDE DEF w, d, dt, used
<1>12. PICK dj : dj = [dinode EXCEPT ![n] = d]  OBVIOUS
<1>13. BlocksIn(dj, dt, used) /\ dj \in [Inums -> Inode] /\ dt \in [Blocks -> Block]  BY <1>11, <1>12 DEF BlocksIn
<1>14. dj[m] = dinode[m]  BY <1>3, <1>4, <1>10, <1>12
<1>15. dinode' = [dj EXCEPT ![m] = u]  BY <1>6, <1>12 DEF iupdate
<1>16. PICK dk : dk = [dj EXCEPT ![m] = u]  OBVIOUS
<1>17. dk \in [Inums -> Inode] /\ dk[m] = u /\ \A j \in Inums : j # m => dk[j] = dj[j]  BY <1>3, <1>9, <1>13, <1>16
<1>18. \A j \in Inums : /\ dk[j].addrs = dj[j].addrs /\ dk[j].size = dj[j].size
                        /\ dk[j].type = "free" => dk[j] = dj[j]
  BY <1>9, <1>14, <1>17
<1>19. PICK du : du = data'  OBVIOUS
<1>20. EntrySet(dt, up, skipelem(p), n, du)
  <2>1. n \in {0} \union Inums  BY <1>2
  <2> HIDE DEF n
  <2> QED BY <1>5, <1>6, <1>13, <1>19, <2>1, SetEntryIs
<1>21. du \in [Blocks -> Block] /\ \A b \in Blocks : du[b].a = dt[b].a  BY <1>20 DEF EntrySet
<1>22. BlocksIn(dk, du, used)  BY <1>13, <1>17, <1>18, <1>21, BlocksKept
<1>23. BlocksIn(dinode', data', bitmap')  BY <1>6, <1>15, <1>16, <1>19, <1>22
<1> QED BY <1>23 DEF BlocksInv, BlocksIn, Shape, OwnedIn, IndirectIn

LEMMA BlocksStep == FsInv /\ BlocksInv /\ [Next]_vars => BlocksInv'
<1> SUFFICES ASSUME FsInv, BlocksInv, [Next]_vars PROVE BlocksInv'  OBVIOUS
<1>1. CASE UNCHANGED vars  BY <1>1, SameBlocks DEF vars, disk
<1>2. ASSUME NEW p \in Procs, Enter(p) PROVE BlocksInv'
  BY <1>2, SameBlocks DEF Enter, UseFile, Syscall
<1>3. ASSUME NEW p \in Procs, Step(p) PROVE BlocksInv'
  <2>1. CASE \/ iput(p) \/ IputDrop(p) \/ namex(p) \/ NamexNone(p) \/ end_op(p) \/ open1(p) \/ chdir1(p) \/ fileread(p) \/ filestat(p)
             \/ begin2(p) \/ link3(p) \/ UnlockDp(p) \/ unlink1(p) \/ create2(p) \/ ialloc(p) \/ create4(p)
    <3>1. UNCHANGED disk
      BY <2>1 DEF iput, IputDrop, namex, NamexNone, end_op, open1, chdir1, fileread, filestat, Look, begin2, link3, UnlockDp,
                  unlink1, create2, ialloc, create4
    <3> QED BY <3>1, SameBlocks
  <2>2. CASE IputFree(p) \/ filewrite(p)  BY <2>2, IputFreeBlocks, FileWriteBlocks
  <2>3. CASE link1(p) \/ link2(p) \/ linkbad(p)  BY <2>3, Link1Blocks, Link2Blocks, LinkBadBlocks
  <2>4. CASE unlink2(p) \/ unlink3(p)  BY <2>4, Unlink2Blocks, Unlink3Blocks
  <2>5. CASE create1(p) \/ create3(p)  BY <2>5, Create1Blocks, Create3Blocks
  <2> QED BY <1>3, <2>1, <2>2, <2>3, <2>4, <2>5 DEF Step
<1> QED BY <1>1, <1>2, <1>3 DEF Next

\* No block is lost or shared in any behaviour: the bitmap marks exactly the
\* blocks of the inodes in use, every block belongs to one place of one inode, and
\* an inode has as many as its size says (balloc, bfree, bmap, writei, itrunc
\* and the create and unlink paths).
THEOREM BlocksCorrect == Spec => []BlocksExact
<1>1. FsInv /\ BlocksInv /\ [Next]_vars => FsInv' /\ BlocksInv'  BY NextKeeps, BlocksStep
<1>2. FsInv /\ BlocksInv => BlocksExact  BY BlocksInvExact
<1>3. Init => FsInv /\ BlocksInv  BY InitFsInv
<1> QED BY <1>1, <1>2, <1>3, PTL DEF Spec
=============================================================================
