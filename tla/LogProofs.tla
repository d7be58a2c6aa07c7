----------------------------- MODULE LogProofs -----------------------------
(***************************************************************************)
(* Proofs about the log of log.c: the reservations of begin_op keep        *)
(* log.lh within its array for any number of processes, blocks and         *)
(* operations, and the log implements AtomicDisk.                          *)
(*                                                                         *)
(* The argument for the second: between commits a block in the cache       *)
(* differs from the disk only if it is pinned (dirty) or locked, and the   *)
(* pinned blocks are the logged ones; write_head makes the copies of       *)
(* exactly those the durable ones, and installing them changes nothing     *)
(* recovery would not.                                                     *)
(***************************************************************************)
EXTENDS Log, FiniteSetTheorems, TLAPS

Distinct(s) == \A i, j \in 1 .. Len(s) : s[i] = s[j] => i = j

\* While the machine boots nobody runs and the cache is empty (the home blocks).
BootShape ==
  machine = "boot" => /\ stage \in {"read", "install"}
                      /\ \A p \in Procs : pc[p] = "idle"
                      /\ cache = home /\ dirty = {} /\ ~committing /\ outstanding = 0

\* Once it is up only the committing process writes the log.
UpShape ==
  machine = "up" => stage # "read" /\ (stage # "idle" => committing)

\* How far commit or recovery has got in log.lh.
TailShape ==
  /\ stage \in {"log", "install"} => tail <= Len(lh)
  /\ stage = "read" => lh = <<>>
  /\ stage \notin {"read", "install"} => head = <<>>
  /\ stage = "install" => head = lh

\* What an operation has logged and which buffer it has locked.
OpShape ==
  \A p \in Procs :
    /\ Cardinality(wrote[p]) <= MAXOPBLOCKS
    /\ p \notin Active => wrote[p] = {}
    /\ pc[p] \in {"logging", "panicked"} => buf[p] \in wrote[p]
    /\ pc[p] \notin {"logging", "panicked"} => buf[p] = None

OneCommit == \A p, q \in Procs : pc[p] = "commit" /\ pc[q] = "commit" => p = q

ReserveInv == LogSafe /\ BootShape /\ UpShape /\ TailShape /\ OpShape /\ OneCommit

\* The entries of the log that commit has yet to install.
Uninstalled == {i \in 1 .. Len(lh) : stage = "install" => i > tail}

\* No block is twice in the log; a cached block that differs from the disk is
\* pinned or locked; the pinned blocks are among those the log has yet to
\* install; and, if the transaction fits the log, the copies in the log are the
\* cached contents.
DataShape ==
  /\ Distinct(lh) /\ Distinct(head)
  /\ \A b \in Blocks : b \notin dirty \union InUse => cache[b] = home[b]
  /\ machine = "up" => dirty \subseteq {lh[i] : i \in Uninstalled}
  /\ Fits /\ stage = "log" => \A i \in 1 .. tail : slot[i] = cache[lh[i]]
  /\ Fits /\ machine = "up" /\ stage = "install" => \A i \in 1 .. Len(lh) : slot[i] = cache[lh[i]]
  /\ Fits /\ machine = "boot" /\ stage = "install" => \A i \in 1 .. tail : home[lh[i]] = slot[i]

LogInv == ReserveInv /\ DataShape
-----------------------------------------------------------------------------
\* The operations in progress and their reservations are finite in number.
LEMMA SpentType ==
  ASSUME TypeOK
  PROVE  /\ IsFiniteSet(Active) /\ Cardinality(Active) \in Nat
         /\ IsFiniteSet(Spent) /\ Cardinality(Spent) \in Nat
         /\ Spent \subseteq Procs \X Blocks
         /\ \A p \in Procs : IsFiniteSet(wrote[p]) /\ Cardinality(wrote[p]) \in Nat
<1>1. Active \subseteq Procs /\ Spent \subseteq Procs \X Blocks  BY DEF Active, Spent
<1>2. IsFiniteSet(Procs \X Blocks)  BY LogAssumption, FS_Product
<1>3. IsFiniteSet(Active) /\ IsFiniteSet(Spent)  BY <1>1, <1>2, LogAssumption, FS_Subset
<1>4. \A p \in Procs : IsFiniteSet(wrote[p])  BY LogAssumption, FS_Subset DEF TypeOK
<1> QED BY <1>1, <1>3, <1>4, FS_CardinalityType

\* An operation has used no more than its reservation.
LEMMA SpentByOne ==
  ASSUME TypeOK, OpShape, NEW p \in Procs
  PROVE  LET S == {x \in Spent : x[1] = p}
         IN  IsFiniteSet(S) /\ Cardinality(S) \in Nat /\ Cardinality(S) <= MAXOPBLOCKS
<1> DEFINE S == {x \in Spent : x[1] = p}
           f == [x \in S |-> x[2]]
<1>1. \A x \in S : x = <<p, x[2]>> /\ x[2] \in wrote[p]  BY DEF Spent
<1>2. f \in Injection(S, wrote[p])  BY <1>1 DEF Injection, IsInjective
<1>3. IsFiniteSet(wrote[p]) /\ Cardinality(wrote[p]) \in Nat /\ Cardinality(wrote[p]) <= MAXOPBLOCKS
  BY SpentType DEF OpShape
<1>4. IsFiniteSet(S) /\ Cardinality(S) <= Cardinality(wrote[p])  BY <1>2, <1>3, FS_Injection
<1>5. Cardinality(S) \in Nat  BY <1>4, FS_CardinalityType
<1> QED BY <1>3, <1>4, <1>5, LogAssumption

\* All operations together cannot use more than their reservations, whatever
\* blocks L are in the log: number the blocks of each, and the pairs are pairs
\* of a process and a number.
LEMMA ReservedBound ==
  ASSUME TypeOK, OpShape, NEW L
  PROVE  Cardinality({x \in Active \X Blocks : x[2] \in wrote[x[1]] \intersect L})
           <= Cardinality(Active) * MAXOPBLOCKS
<1> DEFINE Pairs == {x \in Active \X Blocks : x[2] \in wrote[x[1]] \intersect L}
           Nos == 1 .. MAXOPBLOCKS
           g == [p \in Procs |-> CHOOSE h : h \in Bijection(1 .. Cardinality(wrote[p]), wrote[p])]
           No(p, b) == CHOOSE i \in 1 .. Cardinality(wrote[p]) : g[p][i] = b
           f == [x \in Pairs |-> <<x[1], No(x[1], x[2])>>]
<1>1. ASSUME NEW p \in Procs PROVE g[p] \in Bijection(1 .. Cardinality(wrote[p]), wrote[p])
  <2>1. \E h : h \in Bijection(1 .. Cardinality(wrote[p]), wrote[p])
    BY SpentType, FS_CardinalityType DEF ExistsBijection
  <2> QED BY <2>1
<1> HIDE DEF g
<1>2. ASSUME NEW p \in Procs, NEW b \in wrote[p]
      PROVE  No(p, b) \in 1 .. Cardinality(wrote[p]) /\ g[p][No(p, b)] = b
  <2>1. \E i \in 1 .. Cardinality(wrote[p]) : g[p][i] = b
    BY <1>1 DEF Bijection, Surjection
  <2> QED BY <2>1
<1> HIDE DEF No
<1>3. ASSUME NEW x \in Pairs
      PROVE  /\ x = <<x[1], x[2]>> /\ x[1] \in Active /\ x[1] \in Procs /\ x[2] \in wrote[x[1]]
             /\ No(x[1], x[2]) \in Nos /\ g[x[1]][No(x[1], x[2])] = x[2]
  <2>1. x = <<x[1], x[2]>> /\ x[1] \in Active /\ x[1] \in Procs /\ x[2] \in wrote[x[1]]
    BY DEF Active
  <2>2. Cardinality(wrote[x[1]]) <= MAXOPBLOCKS /\ Cardinality(wrote[x[1]]) \in Nat
    BY <2>1, SpentType DEF OpShape
  <2> QED BY <1>2, <2>1, <2>2, LogAssumption
<1>4. f \in Injection(Pairs, Active \X Nos)
  <2>1. f \in [Pairs -> Active \X Nos]  BY <1>3
  <2>2. ASSUME NEW x \in Pairs, NEW y \in Pairs, f[x] = f[y] PROVE x = y
    <3>1. x[1] = y[1] /\ No(x[1], x[2]) = No(y[1], y[2])  BY <2>2
    <3>2. x[2] = y[2]  BY <3>1, <1>3
    <3> QED BY <3>1, <3>2, <1>3
  <2> QED BY <2>1, <2>2 DEF Injection, IsInjective
<1>5. IsFiniteSet(Nos) /\ Cardinality(Nos) = MAXOPBLOCKS  BY LogAssumption, FS_Interval
<1>6. /\ IsFiniteSet(Active \X Nos)
      /\ Cardinality(Active \X Nos) = Cardinality(Active) * MAXOPBLOCKS
  BY <1>5, SpentType, FS_Product
<1> QED BY <1>4, <1>6, FS_Injection
-----------------------------------------------------------------------------
LEMMA ReserveInit == Init => ReserveInv
<1> SUFFICES ASSUME Init PROVE ReserveInv  OBVIOUS
<1>1. TypeOK
  <2>1. tail \in 0 .. LOGSIZE /\ Len(<<>>) <= LOGSIZE /\ <<>> \in Seq(Blocks)
    BY LogAssumption DEF Init
  <2>2. slot \in [Slots -> Values] /\ pc \in [Procs -> Labels]  BY DEF Init, Labels
  <2> QED BY <2>1, <2>2 DEF Init, TypeOK
<1>2. Active = {} /\ Spent = {} /\ Len(lh) = 0  BY DEF Init, Active, Spent
<1>3. Cardinality(Active) = 0 /\ Cardinality(Spent) = 0  BY <1>2, FS_EmptySet
<1>4. CommitsAlone  BY <1>2, <1>3 DEF Init, CommitsAlone
<1>5. SpaceReserved  BY <1>2, <1>3, LogAssumption DEF SpaceReserved
<1>6. BootShape /\ UpShape /\ TailShape /\ OneCommit
  BY DEF Init, BootShape, UpShape, TailShape, OneCommit
<1>7. OpShape  BY FS_EmptySet, LogAssumption DEF Init, OpShape
<1> QED BY <1>1, <1>4, <1>5, <1>6, <1>7 DEF ReserveInv, LogSafe

\* A step of commit or of recovery, or a recycled buffer, touches no reservation.
LEMMA SameReservations ==
  ASSUME ReserveInv, TypeOK', UNCHANGED <<pc, wrote, buf, outstanding, committing, lh>>
  PROVE  CommitsAlone' /\ SpaceReserved' /\ OpShape' /\ OneCommit'
<1>1. Active' = Active  BY DEF Active
<1>2. Spent' = Spent  BY <1>1 DEF Spent, Logged
<1> QED BY <1>1, <1>2 DEF ReserveInv, LogSafe, CommitsAlone, SpaceReserved, OpShape, OneCommit

LEMMA CommittingReserve ==
  ASSUME ReserveInv, Committing
  PROVE  ReserveInv'
<1> USE DEF memory, disk
<1>0. /\ TypeOK /\ CommitsAlone /\ SpaceReserved /\ BootShape /\ UpShape /\ TailShape /\ OpShape /\ OneCommit
  BY DEF ReserveInv, LogSafe
<1>n. LOGSIZE \in Nat /\ Len(lh) \in Nat /\ Len(head) \in Nat /\ tail \in Nat
  BY <1>0, LogAssumption DEF TypeOK
<1>1. CASE write_log
  <2>1. tail + 1 \in 1 .. Len(lh) /\ tail + 1 <= Len(lh) /\ tail + 1 \in 0 .. LOGSIZE
    BY <1>0, <1>1, <1>n DEF write_log, TypeOK
  <2>0. cache[lh[tail + 1]] \in Values  BY <1>0, <2>1 DEF TypeOK
  <2>5. home' \in [Blocks -> Values] /\ cache' \in [Blocks -> Values] /\ slot' \in [Slots -> Values]
        /\ dirty' \subseteq Blocks
    BY <1>0, <1>1, <2>0 DEF write_log, write_behind, TypeOK
  <2>2. TypeOK'  BY <1>0, <1>1, <2>1, <2>5 DEF write_log, TypeOK
  <2>3. CommitsAlone' /\ SpaceReserved' /\ OpShape' /\ OneCommit'
    BY <1>1, <2>2, SameReservations DEF write_log
  <2>4. BootShape' /\ UpShape' /\ TailShape'
    BY <1>0, <1>1, <2>1 DEF write_log, BootShape, UpShape, TailShape, TypeOK
  <2> QED BY <2>2, <2>3, <2>4 DEF ReserveInv, LogSafe
<1>2. CASE write_head
  <2>2. TypeOK'  BY <1>0, <1>2, <1>n DEF write_head, TypeOK
  <2>3. CommitsAlone' /\ SpaceReserved' /\ OpShape' /\ OneCommit'
    BY <1>2, <2>2, SameReservations DEF write_head
  <2>4. BootShape' /\ UpShape' /\ TailShape'
    BY <1>0, <1>2, <1>n DEF write_head, BootShape, UpShape, TailShape
  <2> QED BY <2>2, <2>3, <2>4 DEF ReserveInv, LogSafe
<1>3. CASE read_head
  <2>1. TypeOK'  BY <1>0, <1>3, <1>n DEF read_head, TypeOK
  <2>2. Active = {} /\ Active' = {}  BY <1>0, <1>3 DEF read_head, Active, BootShape
  <2>3. Spent' = {} /\ Cardinality({}) = 0  BY <2>2, FS_EmptySet DEF Spent
  <2>4. SpaceReserved'  BY <2>1, <2>2, <2>3, LogAssumption DEF SpaceReserved, TypeOK
  <2>5. CommitsAlone' /\ OpShape' /\ OneCommit'
    BY <1>0, <1>3, <2>2 DEF read_head, CommitsAlone, OpShape, OneCommit
  <2>6. BootShape' /\ UpShape' /\ TailShape'
    BY <1>0, <1>3, <1>n DEF read_head, BootShape, UpShape, TailShape
  <2> QED BY <2>1, <2>4, <2>5, <2>6 DEF ReserveInv, LogSafe
<1>4. CASE install_trans
  <2>1. /\ tail + 1 \in 1 .. Len(lh) /\ tail + 1 <= Len(lh) /\ tail + 1 \in 0 .. LOGSIZE
    BY <1>0, <1>4, <1>n DEF install_trans, TypeOK
  <2>2. PICK b \in Blocks : b = lh[tail + 1]  BY <1>0, <2>1 DEF TypeOK
  <2>0. Copy(tail + 1) \in Values  BY <1>0, LogAssumption DEF Copy, TypeOK
  <2>3. TypeOK'  BY <1>0, <1>4, <2>0, <2>1, <2>2 DEF install_trans, TypeOK
  <2>4. CommitsAlone' /\ SpaceReserved' /\ OpShape' /\ OneCommit'
    BY <1>4, <2>3, SameReservations DEF install_trans
  <2>5. BootShape' /\ UpShape' /\ TailShape'
    BY <1>0, <1>4, <2>0, <2>1, <2>2 DEF install_trans, BootShape, UpShape, TailShape
  <2> QED BY <2>3, <2>4, <2>5 DEF ReserveInv, LogSafe
<1>5. CASE Erase
  <2>1. TypeOK'
    <3>1. <<>> \in Seq(Blocks) /\ Len(<<>>) <= LOGSIZE /\ 0 \in 0 .. LOGSIZE  BY <1>n
    <3> QED BY <1>0, <1>5, <3>1 DEF Erase, TypeOK
  <2>2. Active = {} /\ Active' = {}
    BY <1>0, <1>5 DEF Erase, Active, BootShape, UpShape, CommitsAlone, TypeOK
  <2>3. Spent' = {} /\ Cardinality({}) = 0  BY <2>2, FS_EmptySet DEF Spent
  <2>4. SpaceReserved'  BY <2>1, <2>2, <2>3, LogAssumption DEF SpaceReserved, TypeOK
  <2>5. CommitsAlone' /\ OpShape' /\ OneCommit'
    BY <1>0, <1>5, <2>2 DEF Erase, CommitsAlone, OpShape, OneCommit
  <2>6. BootShape' /\ UpShape' /\ TailShape'
    BY <1>0, <1>5, <1>n DEF Erase, BootShape, UpShape, TailShape
  <2> QED BY <2>1, <2>4, <2>5, <2>6 DEF ReserveInv, LogSafe
<1> QED BY <1>1, <1>2, <1>3, <1>4, <1>5 DEF Committing

LEMMA BeginReserve ==
  ASSUME ReserveInv, NEW p \in Procs, begin_op(p)
  PROVE  ReserveInv'
<1> USE DEF disk, Goto, Up
<1>0. /\ TypeOK /\ CommitsAlone /\ SpaceReserved /\ BootShape /\ UpShape /\ TailShape /\ OpShape /\ OneCommit
  BY DEF ReserveInv, LogSafe
<1>1. pc[p] \in {"idle", "begin"} /\ p \notin Active /\ pc \in [Procs -> Labels] /\ outstanding \in Nat
  BY <1>0 DEF begin_op, Active, TypeOK
<1>2. TypeOK'  BY <1>0, <1>1 DEF begin_op, TypeOK, Labels
<1>3. BootShape' /\ UpShape' /\ TailShape' /\ OneCommit'
  BY <1>0, <1>1 DEF begin_op, BootShape, UpShape, TailShape, OneCommit
<1>4. Cardinality(Active) \in Nat /\ IsFiniteSet(Active)  BY <1>0, SpentType
<1>5. CASE MustWait
  <2>1. Active' = Active /\ outstanding' = outstanding  BY <1>1, <1>5 DEF begin_op, Active
  <2>2. Spent' = Spent  BY <2>1 DEF begin_op, Spent, Logged
  <2>3. CommitsAlone' /\ SpaceReserved'
    BY <1>0, <1>1, <1>5, <2>1, <2>2 DEF begin_op, CommitsAlone, SpaceReserved
  <2>4. OpShape'  BY <1>0, <1>1, <1>5, <2>1 DEF begin_op, OpShape
  <2> QED BY <1>2, <1>3, <2>3, <2>4 DEF ReserveInv, LogSafe
<1>6. CASE ~MustWait
  <2>1. Active' = Active \union {p}  BY <1>1, <1>6 DEF begin_op, Active
  <2>2. Spent' = Spent
    <3>1. wrote[p] = {} /\ UNCHANGED <<wrote, lh>>  BY <1>0, <1>1 DEF OpShape, begin_op
    <3> QED BY <2>1, <3>1 DEF Spent, Logged
  <2>3. Cardinality(Active') = Cardinality(Active) + 1  BY <1>1, <1>4, <2>1, FS_AddElement
  <2>4. outstanding' = outstanding + 1 /\ ~committing  BY <1>6 DEF begin_op, MustWait
  <2>5. SpaceReserved'
    <3>1. Len(lh) + (outstanding + 1) * MAXOPBLOCKS <= LOGSIZE
      <4>1. Len(lh) \in Int /\ (outstanding + 1) * MAXOPBLOCKS \in Int /\ LOGSIZE \in Int
        BY <1>0, <1>1, LogAssumption DEF TypeOK
      <4> QED BY <1>6, <4>1 DEF MustWait
    <3>2. Cardinality(Active') = outstanding + 1  BY <1>0, <2>3 DEF CommitsAlone
    <3>3. Cardinality(Spent) \in Nat /\ Len(lh) \in Nat /\ (outstanding + 1) * MAXOPBLOCKS \in Nat
          /\ LOGSIZE \in Nat /\ lh' = lh
      BY <1>0, <1>1, SpentType, LogAssumption DEF TypeOK, begin_op
    <3>4. Len(lh) + ((outstanding + 1) * MAXOPBLOCKS - Cardinality(Spent)) <= LOGSIZE
      BY <3>1, <3>3
    <3> QED BY <2>2, <3>2, <3>3, <3>4 DEF SpaceReserved
  <2>6. CommitsAlone'
    BY <1>0, <1>1, <1>6, <2>3, <2>4 DEF begin_op, CommitsAlone
  <2>7. OpShape'  BY <1>0, <1>1, <1>6, <2>1 DEF begin_op, OpShape
  <2> QED BY <1>2, <1>3, <2>5, <2>6, <2>7 DEF ReserveInv, LogSafe
<1> QED BY <1>5, <1>6

LEMMA CheckReserve ==
  ASSUME ReserveInv, NEW p \in Procs, NEW b \in Blocks, NEW v \in Values, LogCheck(p, b, v)
  PROVE  ReserveInv'
<1> USE DEF disk, Goto, Up
<1>0. /\ TypeOK /\ CommitsAlone /\ SpaceReserved /\ BootShape /\ UpShape /\ TailShape /\ OpShape /\ OneCommit
  BY DEF ReserveInv, LogSafe
<1>1. PICK l \in {"logging", "panicked"} : pc' = [pc EXCEPT ![p] = l]  BY DEF LogCheck
<1>2. /\ pc[p] = "op" /\ machine = "up" /\ pc \in [Procs -> Labels] /\ p \in Active
      /\ wrote' = [wrote EXCEPT ![p] = wrote[p] \union {b}] /\ buf' = [buf EXCEPT ![p] = b]
      /\ cache' = [cache EXCEPT ![b] = v]
      /\ UNCHANGED <<lh, outstanding, committing, dirty, disk, stage, tail, machine>>
  BY <1>0 DEF LogCheck, Active, TypeOK
<1>3. TypeOK'
  <2>1. l \in Labels  BY DEF Labels
  <2> QED BY <1>0, <1>1, <1>2, <2>1 DEF TypeOK
<1>4. BootShape' /\ UpShape' /\ TailShape' /\ OneCommit'
  BY <1>0, <1>1, <1>2 DEF BootShape, UpShape, TailShape, OneCommit
<1>5. Active' = Active  BY <1>1, <1>2 DEF Active
<1>6. Spent \subseteq Spent'  BY <1>0, <1>2, <1>5 DEF Spent, Logged, TypeOK
<1>7. IsFiniteSet(Spent') /\ Cardinality(Spent') \in Nat
  <2>1. (TypeOK => IsFiniteSet(Spent) /\ Cardinality(Spent) \in Nat)'  BY SpentType, PTL
  <2> QED BY <1>3, <2>1
<1>8. Cardinality(Spent) <= Cardinality(Spent') /\ Cardinality(Spent) \in Nat
  BY <1>0, <1>6, <1>7, FS_Subset, SpentType
<1>9. SpaceReserved'
  <2>1. /\ Cardinality(Active) * MAXOPBLOCKS \in Nat /\ Len(lh) \in Nat /\ LOGSIZE \in Nat
    BY <1>0, SpentType, LogAssumption DEF TypeOK
  <2>2. Len(lh) + (Cardinality(Active) * MAXOPBLOCKS - Cardinality(Spent')) <= LOGSIZE
    BY <1>0, <1>7, <1>8, <2>1 DEF SpaceReserved
  <2> QED BY <1>2, <1>5, <2>2 DEF SpaceReserved
<1>10. CommitsAlone'  BY <1>0, <1>1, <1>2, <1>5 DEF CommitsAlone
<1>11. OpShape'
  <2>1. Cardinality(wrote[p] \union {b}) <= MAXOPBLOCKS  BY DEF LogCheck
  <2> QED BY <1>0, <1>1, <1>2, <1>5, <2>1 DEF OpShape, TypeOK
<1> QED BY <1>3, <1>4, <1>9, <1>10, <1>11 DEF ReserveInv, LogSafe

LEMMA AppendReserve ==
  ASSUME ReserveInv, NEW p \in Procs, LogAppend(p)
  PROVE  ReserveInv'
<1> USE DEF disk, Goto, Up
<1>0. /\ TypeOK /\ CommitsAlone /\ SpaceReserved /\ BootShape /\ UpShape /\ TailShape /\ OpShape /\ OneCommit
  BY DEF ReserveInv, LogSafe
<1>1. /\ pc[p] = "logging" /\ machine = "up" /\ pc \in [Procs -> Labels] /\ p \in Active
      /\ buf[p] \in wrote[p] /\ buf[p] \in Blocks
      /\ pc' = [pc EXCEPT ![p] = "op"] /\ buf' = [buf EXCEPT ![p] = None]
      /\ dirty' = dirty \union {buf[p]}
      /\ UNCHANGED <<outstanding, committing, cache, wrote, disk, stage, tail, machine>>
  BY <1>0 DEF LogAppend, Active, TypeOK, OpShape
<1>2. PICK b \in Blocks : b = buf[p] /\ b \in wrote[p]  BY <1>1
<1>3. lh \in Seq(Blocks) /\ Len(lh) \in Nat /\ LOGSIZE \in Nat /\ Cardinality(Active) * MAXOPBLOCKS \in Nat
      /\ Cardinality(Spent) \in Nat /\ IsFiniteSet(Spent)
  BY <1>0, LogAssumption, SpentType DEF TypeOK
<1>4. Active' = Active  BY <1>1 DEF Active
<1>5. OpShape' /\ OneCommit' /\ CommitsAlone'
  BY <1>0, <1>1, <1>4 DEF OpShape, OneCommit, CommitsAlone, TypeOK
<1>6. stage = "idle"  BY <1>0, <1>1 DEF UpShape, CommitsAlone, TypeOK
<1>7. BootShape' /\ UpShape' /\ TailShape'
  BY <1>0, <1>1, <1>6 DEF BootShape, UpShape, TailShape
<1>8. Len(lh') <= LOGSIZE /\ lh' \in Seq(Blocks) /\ SpaceReserved'
  <2>1. CASE b \in Logged
    <3>1. lh' = lh  BY <1>2, <2>1 DEF LogAppend
    <3>2. Spent' = Spent  BY <1>1, <1>4, <3>1 DEF Spent, Logged
    <3> QED BY <1>0, <1>4, <3>1, <3>2 DEF TypeOK, SpaceReserved
  <2>2. CASE b \notin Logged
    <3>1. lh' = Append(lh, b)  BY <1>2, <2>2 DEF LogAppend
    <3>2. lh' \in Seq(Blocks) /\ Len(lh') = Len(lh) + 1
      BY <1>3, <3>1
    <3>3. Logged' = Logged \union {b}
      <4>1. \A i \in 1 .. Len(lh) : lh'[i] = lh[i] /\ lh'[Len(lh) + 1] = b  BY <1>3, <3>1
      <4>2. lh'[Len(lh) + 1] = b  BY <1>3, <3>1
      <4> QED BY <3>2, <4>1, <4>2, <1>3 DEF Logged
    <3>4. <<p, b>> \notin Spent /\ Spent \union {<<p, b>>} \subseteq Spent'
      BY <1>1, <1>2, <1>4, <2>2, <3>3 DEF Spent
    <3>5. /\ Cardinality(Spent \union {<<p, b>>}) = Cardinality(Spent) + 1
      BY <1>3, <3>4, FS_AddElement
    <3>6. IsFiniteSet(Spent')
      <4>1. Spent' \subseteq Active \X Blocks  BY <1>4 DEF Spent
      <4> QED BY <4>1, <1>0, SpentType, LogAssumption, FS_Product, FS_Subset
    <3>7. Cardinality(Spent') \in Nat /\ Cardinality(Spent') >= Cardinality(Spent) + 1
      BY <3>4, <3>5, <3>6, FS_Subset, FS_CardinalityType, <1>3
    <3>8. Len(lh') + (Cardinality(Active) * MAXOPBLOCKS - Cardinality(Spent')) <= LOGSIZE
      BY <1>0, <1>3, <3>2, <3>7 DEF SpaceReserved
    \* Nobody has used more than its reservation after the step either.
    <3>9. Cardinality(Spent') <= Cardinality(Active) * MAXOPBLOCKS
      <4> DEFINE All == {x \in Active \X Blocks : x[2] \in wrote[x[1]] \intersect (Logged \union {b})}
      <4>1. Spent' = All  BY <1>1, <1>4, <3>3 DEF Spent
      <4> QED BY <4>1, <1>0, ReservedBound
    <3> QED BY <1>3, <1>4, <3>2, <3>7, <3>8, <3>9 DEF SpaceReserved
  <2> QED BY <2>1, <2>2
<1>9. TypeOK'  BY <1>0, <1>1, <1>2, <1>8 DEF TypeOK, Labels
<1> QED BY <1>5, <1>7, <1>8, <1>9 DEF ReserveInv, LogSafe

LEMMA EndReserve ==
  ASSUME ReserveInv, NEW p \in Procs, end_op(p)
  PROVE  ReserveInv'
<1> USE DEF disk, Goto, Up
<1>0. /\ TypeOK /\ CommitsAlone /\ SpaceReserved /\ BootShape /\ UpShape /\ TailShape /\ OpShape /\ OneCommit
  BY DEF ReserveInv, LogSafe
<1>1. /\ pc[p] = "op" /\ machine = "up" /\ pc \in [Procs -> Labels] /\ p \in Active /\ ~committing
      /\ outstanding' = outstanding - 1 /\ committing' = (outstanding' = 0)
      /\ wrote' = [wrote EXCEPT ![p] = {}] /\ tail' = 0
      /\ UNCHANGED <<lh, cache, dirty, buf, home, slot, head, machine>>
  BY <1>0 DEF end_op, Active, TypeOK, CommitsAlone
<1>2. /\ IF committing' THEN pc' = [pc EXCEPT ![p] = "commit"] ELSE wakeup(p, "idle")
      /\ stage' = IF committing' /\ lh # <<>> THEN "log" ELSE stage
  BY <1>1 DEF end_op
<1>3. stage = "idle"  BY <1>0, <1>1 DEF UpShape, TypeOK
<1>4. /\ pc' \in [Procs -> Labels] /\ pc'[p] \in {"idle", "commit"}
      /\ pc'[p] = "commit" <=> committing'
      /\ \A q \in Procs : q # p => (pc'[q] = "commit" <=> pc[q] = "commit")
      /\ \A q \in Procs : q # p => (q \in Active' <=> q \in Active)
      /\ \A q \in Procs : q # p => (pc'[q] \in {"logging", "panicked"} <=> pc[q] \in {"logging", "panicked"})
  BY <1>1, <1>2 DEF wakeup, Labels, Active
<1>5. Active' = Active \ {p} /\ p \notin Active'  BY <1>4 DEF Active
<1>6. /\ IsFiniteSet(Active) /\ Cardinality(Active) \in Nat /\ Cardinality(Active') = Cardinality(Active) - 1
      /\ IsFiniteSet(Active') /\ Cardinality(Active') \in Nat
  BY <1>0, <1>1, <1>5, SpentType, FS_RemoveElement, FS_CardinalityType
<1>7. CommitsAlone'
  <2>1. outstanding' = Cardinality(Active')  BY <1>0, <1>1, <1>6 DEF CommitsAlone
  <2>2. committing' => Active' = {}  BY <1>1, <1>6, <2>1, FS_EmptySet
  <2>3. \A q \in Procs : pc[q] # "commit"  BY <1>0, <1>1 DEF CommitsAlone
  <2> QED BY <1>4, <2>1, <2>2, <2>3 DEF CommitsAlone
<1>8. TypeOK'
  <2>1. outstanding' \in Nat  BY <1>6, <1>7 DEF CommitsAlone
  <2>2. 0 \in 0 .. LOGSIZE /\ committing' \in BOOLEAN  BY LogAssumption, <1>1
  <2>3. stage' \in {"idle", "read", "log", "install"}  BY <1>2, <1>3
  <2>4. wrote' \in [Procs -> SUBSET Blocks]  BY <1>0, <1>1 DEF TypeOK
  <2> QED BY <1>0, <1>1, <1>4, <2>1, <2>2, <2>3, <2>4 DEF TypeOK
<1>9. SpaceReserved'
  <2> DEFINE S == {x \in Spent : x[1] = p}
  <2>1. /\ Len(lh) \in Nat /\ LOGSIZE \in Nat /\ MAXOPBLOCKS \in Nat /\ Cardinality(Spent) \in Nat
        /\ IsFiniteSet(Spent)
    BY <1>0, LogAssumption, SpentType DEF TypeOK
  <2>2. Cardinality(S) \in Nat /\ Cardinality(S) <= MAXOPBLOCKS  BY <1>0, SpentByOne
  <2>3. Spent' = Spent \ S  BY <1>0, <1>1, <1>5 DEF Spent, Logged, TypeOK
  <2>4. Spent \intersect S = S  OBVIOUS
  <2>5. Cardinality(Spent') = Cardinality(Spent) - Cardinality(S)
    <3>1. Cardinality(Spent \ S) = Cardinality(Spent) - Cardinality(Spent \intersect S)
      BY <2>1, FS_Difference
    <3> QED BY <2>3, <2>4, <3>1
  <2>6. Cardinality(Active') * MAXOPBLOCKS = Cardinality(Active) * MAXOPBLOCKS - MAXOPBLOCKS
        /\ Cardinality(Active) * MAXOPBLOCKS \in Nat
    BY <1>6, <2>1
  <2> HIDE DEF S
  <2>7. Len(lh) + (Cardinality(Active) * MAXOPBLOCKS - Cardinality(Spent)) <= LOGSIZE
    BY <1>0 DEF SpaceReserved
  <2>8. Len(lh) + (Cardinality(Active') * MAXOPBLOCKS - Cardinality(Spent')) <= LOGSIZE
    BY <2>1, <2>2, <2>5, <2>6, <2>7
  <2> QED BY <1>1, <2>8 DEF SpaceReserved
<1>10. OpShape'
  <2>1. wrote'[p] = {} /\ \A q \in Procs : q # p => wrote'[q] = wrote[q]  BY <1>0, <1>1 DEF TypeOK
  <2>2. Cardinality({}) <= MAXOPBLOCKS  BY FS_EmptySet, LogAssumption
  <2>3. buf[p] = None  BY <1>0, <1>1 DEF OpShape
  <2>4. pc'[p] \notin {"logging", "panicked"}  BY <1>4
  <2> SUFFICES ASSUME NEW q \in Procs
               PROVE  /\ Cardinality(wrote'[q]) <= MAXOPBLOCKS
                      /\ q \notin Active' => wrote'[q] = {}
                      /\ pc'[q] \in {"logging", "panicked"} => buf'[q] \in wrote'[q]
                      /\ pc'[q] \notin {"logging", "panicked"} => buf'[q] = None
    BY DEF OpShape
  <2>5. CASE q = p  BY <1>1, <2>1, <2>2, <2>3, <2>4, <2>5
  <2>6. CASE q # p
    <3>1. wrote'[q] = wrote[q] /\ buf'[q] = buf[q]  BY <1>1, <2>1, <2>6
    <3> QED BY <1>0, <1>4, <2>6, <3>1 DEF OpShape
  <2> QED BY <2>5, <2>6
<1>11. OneCommit'  BY <1>0, <1>1, <1>4 DEF OneCommit, CommitsAlone
<1>12. BootShape' /\ UpShape'  BY <1>1, <1>2, <1>3 DEF BootShape, UpShape
<1>13. TailShape'
  <2>1. Len(lh) \in Nat  BY <1>0 DEF TypeOK
  <2> QED BY <1>0, <1>1, <1>2, <1>3, <2>1 DEF TailShape
<1> QED BY <1>7, <1>8, <1>9, <1>10, <1>11, <1>12, <1>13 DEF ReserveInv, LogSafe

LEMMA EndCommitReserve ==
  ASSUME ReserveInv, NEW p \in Procs, EndCommit(p)
  PROVE  ReserveInv'
<1> USE DEF disk, Up
<1>0. /\ TypeOK /\ CommitsAlone /\ SpaceReserved /\ BootShape /\ UpShape /\ TailShape /\ OpShape /\ OneCommit
  BY DEF ReserveInv, LogSafe
<1>1. /\ pc[p] = "commit" /\ machine = "up" /\ stage = "idle" /\ pc \in [Procs -> Labels]
      /\ ~committing' /\ committing' \in BOOLEAN
      /\ UNCHANGED <<lh, outstanding, cache, dirty, buf, wrote, disk, stage, tail, machine>>
  BY <1>0 DEF EndCommit, TypeOK
<1>2. /\ pc' \in [Procs -> Labels] /\ pc'[p] = "idle"
      /\ \A q \in Procs : q # p => pc'[q] # "commit"
      /\ \A q \in Procs : q \in Active' <=> q \in Active
      /\ \A q \in Procs : pc'[q] \in {"logging", "panicked"} <=> pc[q] \in {"logging", "panicked"}
  BY <1>0, <1>1 DEF EndCommit, wakeup, Labels, Active, OneCommit
<1>3. Active' = Active  BY <1>2 DEF Active
<1>4. Spent' = Spent  BY <1>1, <1>3 DEF Spent, Logged
<1>5. TypeOK'  BY <1>0, <1>1, <1>2 DEF TypeOK
<1>6. CommitsAlone' /\ SpaceReserved' /\ OneCommit'
  BY <1>0, <1>1, <1>2, <1>3, <1>4 DEF CommitsAlone, SpaceReserved, OneCommit
<1>7. OpShape'  BY <1>0, <1>1, <1>2, <1>3 DEF OpShape
<1>8. BootShape' /\ UpShape' /\ TailShape'  BY <1>0, <1>1 DEF BootShape, UpShape, TailShape
<1> QED BY <1>5, <1>6, <1>7, <1>8 DEF ReserveInv, LogSafe

LEMMA CrashReserve ==
  ASSUME ReserveInv, Crash
  PROVE  ReserveInv'
<1> USE DEF disk
<1>0. TypeOK  BY DEF ReserveInv, LogSafe
<1>1. TypeOK'
  <2>1. tail' \in 0 .. LOGSIZE /\ Len(<<>>) <= LOGSIZE /\ <<>> \in Seq(Blocks)
    BY LogAssumption DEF Crash
  <2>2. pc' \in [Procs -> Labels]  BY DEF Crash, Labels
  <2> QED BY <1>0, <2>1, <2>2 DEF Crash, TypeOK
<1>2. Active' = {} /\ Spent' = {} /\ Len(lh') = 0  BY DEF Crash, Active, Spent
<1>3. Cardinality({}) = 0  BY FS_EmptySet
<1>4. CommitsAlone'  BY <1>2, <1>3 DEF Crash, CommitsAlone
<1>5. SpaceReserved'  BY <1>2, <1>3, LogAssumption DEF SpaceReserved
<1>6. BootShape' /\ UpShape' /\ TailShape' /\ OneCommit'
  BY DEF Crash, BootShape, UpShape, TailShape, OneCommit
<1>7. OpShape'  BY <1>3, LogAssumption DEF Crash, OpShape
<1> QED BY <1>1, <1>4, <1>5, <1>6, <1>7 DEF ReserveInv, LogSafe

LEMMA ReserveStep ==
  ASSUME ReserveInv, [Next]_vars
  PROVE  ReserveInv'
<1>0. /\ TypeOK /\ CommitsAlone /\ SpaceReserved /\ BootShape /\ UpShape /\ TailShape /\ OpShape /\ OneCommit
  BY DEF ReserveInv, LogSafe
<1>1. CASE UNCHANGED vars
  <2>1. UNCHANGED <<lh, outstanding, committing, cache, dirty, buf, wrote, pc, home, slot, head, stage, tail, machine>>
    BY <1>1 DEF vars, memory, disk
  <2>2. TypeOK' /\ BootShape' /\ UpShape' /\ TailShape'
    BY <1>0, <2>1 DEF TypeOK, BootShape, UpShape, TailShape
  <2> QED BY <2>1, <2>2, SameReservations DEF ReserveInv, LogSafe
<1>2. ASSUME NEW b \in Blocks, Recycle(b) PROVE ReserveInv'
  <2>1. TypeOK'  BY <1>0, <1>2 DEF Recycle, TypeOK, disk
  <2>2. BootShape' /\ UpShape' /\ TailShape'
    BY <1>0, <1>2 DEF Recycle, BootShape, UpShape, TailShape, disk
  <2>3. UNCHANGED <<pc, wrote, buf, outstanding, committing, lh>>  BY <1>2 DEF Recycle
  <2> QED BY <2>1, <2>2, <2>3, SameReservations DEF ReserveInv, LogSafe
<1> QED BY <1>1, <1>2, CommittingReserve, CrashReserve, BeginReserve, AppendReserve, EndReserve,
           EndCommitReserve, CheckReserve DEF Next

\* For any number of processes, any MAXOPBLOCKS and any LOGSIZE: begin_op and
\* end_op keep operations and commits apart, and log.lh.block is never overrun
\* (log.c:126-215).
THEOREM LogCorrect == Spec => []LogSafe
<1>1. ReserveInv => LogSafe  BY DEF ReserveInv
<1>2. ReserveInv /\ [Next]_vars => ReserveInv'  BY ReserveStep
<1> QED BY <1>1, <1>2, ReserveInit, PTL DEF Spec
-----------------------------------------------------------------------------
LEMMA DataInit == Init => DataShape
BY DEF Init, DataShape, Distinct

LEMMA DataStep ==
  ASSUME LogInv, ReserveInv', [Next]_vars
  PROVE  DataShape'
<1> USE DEF disk, memory, Up
<1>0. /\ TypeOK /\ CommitsAlone /\ BootShape /\ UpShape /\ TailShape /\ OpShape /\ DataShape
      /\ TypeOK' /\ CommitsAlone' /\ BootShape' /\ UpShape' /\ TailShape' /\ OpShape'
  BY DEF ReserveInv, LogSafe, LogInv
<1>n. /\ LOGSIZE \in Nat /\ Len(lh) \in Nat /\ Len(head) \in Nat /\ tail \in Nat /\ lh \in Seq(Blocks)
      /\ cache \in [Blocks -> Values] /\ home \in [Blocks -> Values] /\ slot \in [Slots -> Values]
      /\ machine \in {"boot", "up"} /\ Len(lh) <= LOGSIZE
  BY <1>0, LogAssumption DEF TypeOK
<1>u. ASSUME UNCHANGED <<lh, cache, dirty, buf, disk, stage, machine>>,
             UNCHANGED tail \/ stage \notin {"log", "install"}
      PROVE  DataShape'
  <2>1. InUse' = InUse  BY <1>u DEF InUse
  <2> QED BY <1>0, <1>u, <2>1 DEF DataShape, Distinct, Uninstalled, Fits
<1>f. ASSUME Fits, NEW i \in 1 .. Len(lh) PROVE i \in Slots
  BY <1>f, <1>n, LogAssumption DEF Fits, Slots
<1>1. CASE UNCHANGED vars  BY <1>1, <1>u DEF vars
<1>2. CASE write_log
  <2>1. tail + 1 \in 1 .. Len(lh)  BY <1>2, <1>n DEF write_log
  <2>2. \A i \in 1 .. tail + 1 : i \in 1 .. tail \/ i = tail + 1  BY <1>n
  <2>3. InUse' = InUse  BY <1>2 DEF write_log, InUse
  <2>4. stage = "log" /\ stage' = "log" /\ tail' = tail + 1 /\ UNCHANGED <<lh, head, machine>>
    BY <1>2 DEF write_log
  <2>5. Uninstalled' = Uninstalled /\ Fits' = Fits /\ machine = "up"
    BY <1>0, <1>n, <2>4 DEF Uninstalled, Fits, BootShape
  <2>6. CASE tail + 1 \in Slots
    <3>1. slot' = [slot EXCEPT ![tail + 1] = cache[lh[tail + 1]]] /\ UNCHANGED <<home, cache, dirty>>
      BY <1>2, <2>6 DEF write_log
    <3>2. Fits => \A i \in 1 .. tail' : slot'[i] = cache'[lh'[i]]
      BY <1>0, <1>n, <2>1, <2>2, <2>4, <2>6, <3>1 DEF DataShape
    <3> QED BY <1>0, <2>3, <2>4, <2>5, <3>1, <3>2 DEF DataShape, Distinct
  <2>7. CASE tail + 1 \notin Slots
    <3>1. /\ home' = [home EXCEPT ![After] = cache[lh[tail + 1]]]
          /\ cache' = [cache EXCEPT ![After] = cache[lh[tail + 1]]] /\ dirty' = dirty \ {After}
      BY <1>2, <2>7 DEF write_log, write_behind
    <3>2. ~Fits  BY <1>f, <2>1, <2>7
    <3>3. \A b \in Blocks : b \notin dirty' \union InUse' => cache'[b] = home'[b]
      BY <1>0, <1>n, <2>3, <3>1, LogAssumption DEF DataShape
    <3> QED BY <1>0, <2>4, <2>5, <3>1, <3>2, <3>3 DEF DataShape, Distinct
  <2> QED BY <2>6, <2>7
<1>3. CASE write_head
  <2>1. InUse' = InUse  BY <1>3 DEF write_head, InUse
  <2>2. /\ stage = "log" /\ machine = "up" /\ head' = lh /\ stage' = "install" /\ tail' = 0 /\ tail = Len(lh)
        /\ UNCHANGED <<lh, cache, dirty, home, slot, machine>>
    BY <1>0, <1>3, <1>n DEF write_head, BootShape
  <2>3. Uninstalled' = Uninstalled /\ Fits' = Fits  BY <2>2, <1>n DEF Uninstalled, Fits
  <2>4. Fits => \A i \in 1 .. Len(lh') : slot'[i] = cache'[lh'[i]]  BY <1>0, <2>2 DEF DataShape
  <2> QED BY <1>0, <2>1, <2>2, <2>3, <2>4 DEF DataShape, Distinct
<1>4. CASE read_head
  <2>1. InUse' = InUse  BY <1>4 DEF read_head, InUse
  <2>2. /\ machine = "boot" /\ lh' = head /\ stage' = "install" /\ tail' = 0
        /\ UNCHANGED <<cache, dirty, home, slot, head, machine>>
    BY <1>4 DEF read_head
  <2>3. 1 .. tail' = {}  BY <2>2
  <2> QED BY <1>0, <2>1, <2>2, <2>3 DEF DataShape, Distinct
<1>5. CASE install_trans
  <2>1. InUse' = InUse  BY <1>5 DEF install_trans, InUse
  <2>2. tail + 1 \in 1 .. Len(lh)  BY <1>5, <1>n DEF install_trans
  <2>3. PICK b \in Blocks : b = lh[tail + 1]  BY <1>n, <2>2
  <2>0. PICK v : v = Copy(tail + 1)  OBVIOUS
  <2>11. Fits => v = slot[tail + 1]  BY <1>f, <2>0, <2>2 DEF Copy
  <2>4. /\ stage = "install" /\ stage' = "install" /\ tail' = tail + 1
        /\ home' = [home EXCEPT ![b] = v] /\ cache' = [cache EXCEPT ![b] = v]
        /\ dirty' = dirty \ {b} /\ UNCHANGED <<lh, head, slot, machine>>
    BY <1>5, <2>0, <2>3 DEF install_trans
  <2>12. Fits' = Fits  BY <2>4 DEF Fits
  <2>5. \A i \in 1 .. Len(lh) : lh[i] = b <=> i = tail + 1
    BY <1>0, <2>2, <2>3 DEF DataShape, Distinct
  <2>6. \A i \in 1 .. Len(lh) : lh[i] \in Blocks  BY <1>n
  <2>7. \A c \in Blocks : c \notin dirty' \union InUse' => cache'[c] = home'[c]
    BY <1>0, <1>n, <2>1, <2>4 DEF DataShape
  <2>8. machine' = "up" => dirty' \subseteq {lh'[i] : i \in Uninstalled'}
    <3>1. Uninstalled' = Uninstalled \ {tail + 1}  BY <1>n, <2>4 DEF Uninstalled
    <3> QED BY <1>0, <2>4, <2>5, <3>1 DEF DataShape, Uninstalled
  <2>9. Fits /\ machine' = "up" => \A i \in 1 .. Len(lh') : slot'[i] = cache'[lh'[i]]
    BY <1>0, <1>n, <2>4, <2>5, <2>6, <2>11 DEF DataShape
  <2>10. Fits /\ machine' = "boot" => \A i \in 1 .. tail' : home'[lh'[i]] = slot'[i]
    <3>1. \A i \in 1 .. tail + 1 : i \in 1 .. Len(lh) /\ (i \in 1 .. tail \/ i = tail + 1)  BY <1>n, <2>2
    <3> QED BY <1>0, <1>n, <2>4, <2>5, <2>6, <2>11, <3>1 DEF DataShape
  <2> QED BY <1>0, <2>4, <2>7, <2>8, <2>9, <2>10, <2>12 DEF DataShape, Distinct
<1>6. CASE Erase
  <2>1. InUse' = InUse  BY <1>6 DEF Erase, InUse
  <2>2. /\ stage = "install" /\ tail = Len(lh) /\ lh' = <<>> /\ head' = <<>> /\ stage' = "idle"
        /\ UNCHANGED <<cache, dirty, home, slot>>
    BY <1>6 DEF Erase
  <2>3. dirty = {}
    <3>1. Uninstalled = {}  BY <1>n, <2>2 DEF Uninstalled
    <3> QED BY <1>0, <1>n, <3>1 DEF DataShape, BootShape
  <2>4. Uninstalled' = {} /\ Distinct(<<>>)  BY <2>2 DEF Uninstalled, Distinct
  <2> QED BY <1>0, <2>1, <2>2, <2>3, <2>4 DEF DataShape
<1>7. CASE Crash
  <2>1. UNCHANGED <<head, home, slot>> /\ lh' = <<>> /\ cache' = home /\ dirty' = {}
        /\ machine' = "boot" /\ stage' = "read"
    BY <1>7 DEF Crash
  <2>2. Distinct(<<>>)  BY DEF Distinct
  <2> QED BY <1>0, <2>1, <2>2 DEF DataShape, Distinct
<1>8. ASSUME NEW b \in Blocks, Recycle(b) PROVE DataShape'
  <2>1. cache[b] = home[b]  BY <1>0, <1>8 DEF Recycle, DataShape
  <2>2. cache' = cache  BY <1>n, <1>8, <2>1 DEF Recycle
  <2> QED BY <1>8, <1>u, <2>2 DEF Recycle
<1>9. ASSUME NEW p \in Procs, begin_op(p) \/ EndCommit(p) PROVE DataShape'
  BY <1>9, <1>u DEF begin_op, EndCommit
<1>10. ASSUME NEW p \in Procs, end_op(p) PROVE DataShape'
  <2>1. /\ machine = "up" /\ pc[p] = "op" /\ UNCHANGED <<lh, cache, dirty, buf, disk, machine>>
    BY <1>10 DEF end_op
  <2>2. ~committing  BY <1>0, <2>1 DEF CommitsAlone, Active
  <2>3. stage = "idle"  BY <1>0, <2>1, <2>2 DEF UpShape
  <2>4. stage' \in {"idle", "log"} /\ tail' = 0  BY <1>10, <2>2, <2>3 DEF end_op
  <2>5. InUse' = InUse /\ Uninstalled' = Uninstalled /\ 1 .. tail' = {}
    BY <2>1, <2>3, <2>4 DEF InUse, Uninstalled
  <2> QED BY <1>0, <2>1, <2>3, <2>4, <2>5 DEF DataShape, Distinct
<1>11. ASSUME NEW p \in Procs, NEW b \in Blocks, NEW v \in Values, LogCheck(p, b, v) PROVE DataShape'
  <2>1. /\ machine = "up" /\ pc[p] = "op" /\ cache' = [cache EXCEPT ![b] = v] /\ buf' = [buf EXCEPT ![p] = b]
        /\ UNCHANGED <<lh, dirty, disk, machine, stage, tail>>
    BY <1>11 DEF LogCheck
  <2>2. stage = "idle"  BY <1>0, <2>1 DEF CommitsAlone, Active, UpShape
  <2>3. b \in InUse' /\ InUse \subseteq InUse'
    <3>1. buf[p] = None  BY <1>0, <2>1 DEF OpShape
    <3> QED BY <1>0, <2>1, <3>1, LogAssumption DEF InUse, TypeOK
  <2>4. \A c \in Blocks : c \notin dirty' \union InUse' => cache'[c] = home'[c]
    BY <1>0, <1>n, <2>1, <2>3 DEF DataShape
  <2> QED BY <1>0, <2>1, <2>2, <2>4 DEF DataShape, Distinct, Uninstalled
<1>12. ASSUME NEW p \in Procs, LogAppend(p) PROVE DataShape'
  <2>1. /\ machine = "up" /\ pc[p] = "logging" /\ buf' = [buf EXCEPT ![p] = None]
        /\ dirty' = dirty \union {buf[p]} /\ buf[p] \in Blocks
        /\ UNCHANGED <<cache, disk, machine, stage, tail>>
    BY <1>0, <1>12 DEF LogAppend, OpShape, TypeOK
  <2>2. stage = "idle"  BY <1>0, <2>1 DEF CommitsAlone, Active, UpShape
  <2>3. PICK b \in Blocks : b = buf[p]  BY <2>1
  <2>4. InUse \subseteq InUse' \union {b}  BY <1>0, <2>1, <2>3 DEF InUse, TypeOK
  <2>5. \A c \in Blocks : c \notin dirty' \union InUse' => cache'[c] = home'[c]
    BY <1>0, <1>n, <2>1, <2>3, <2>4 DEF DataShape
  <2>6. Uninstalled = 1 .. Len(lh) /\ Uninstalled' = 1 .. Len(lh')  BY <2>1, <2>2 DEF Uninstalled
  <2>7. Distinct(lh') /\ {lh'[i] : i \in 1 .. Len(lh')} = {lh[i] : i \in 1 .. Len(lh)} \union {b}
    <3>1. CASE b \in Logged  BY <1>0, <1>12, <2>3, <3>1 DEF LogAppend, Logged, DataShape
    <3>2. CASE b \notin Logged
      <4>1. lh' = Append(lh, b)  BY <1>12, <2>3, <3>2 DEF LogAppend
      <4>2. Len(lh') = Len(lh) + 1 /\ lh'[Len(lh) + 1] = b /\ \A i \in 1 .. Len(lh) : lh'[i] = lh[i]
        BY <1>n, <4>1
      <4>3. \A i \in 1 .. Len(lh) + 1 : i \in 1 .. Len(lh) \/ i = Len(lh) + 1  BY <1>n
      <4>4. \A i \in 1 .. Len(lh) : i \in 1 .. Len(lh) + 1  BY <1>n
      <4>5. Len(lh) + 1 \in 1 .. Len(lh) + 1  BY <1>n
      <4>6. \A i \in 1 .. Len(lh) : lh[i] # b  BY <3>2 DEF Logged
      <4>7. Distinct(lh')  BY <1>0, <4>2, <4>3, <4>6 DEF Distinct, DataShape
      <4> QED BY <4>2, <4>3, <4>4, <4>5, <4>7
    <3> QED BY <3>1, <3>2
  <2>8. dirty' \subseteq {lh'[i] : i \in Uninstalled'}  BY <1>0, <2>1, <2>3, <2>6, <2>7 DEF DataShape
  <2> QED BY <1>0, <2>1, <2>2, <2>5, <2>7, <2>8 DEF DataShape
<1> QED BY <1>1, <1>2, <1>3, <1>4, <1>5, <1>6, <1>7, <1>8, <1>9, <1>10, <1>11, <1>12 DEF Next, Committing
-----------------------------------------------------------------------------
\* What recovery makes of a block: its copy in the log if the header names it.
LEMMA DurableIs ==
  ASSUME Distinct(head)
  PROVE  /\ \A i \in 1 .. Len(head) : head[i] \in Blocks => Durable[head[i]] = Copy(i)
         /\ \A b \in Blocks : (\A i \in 1 .. Len(head) : head[i] # b) => Durable[b] = home[b]
<1>1. ASSUME NEW i \in 1 .. Len(head), head[i] \in Blocks PROVE Durable[head[i]] = Copy(i)
  <2> DEFINE k == CHOOSE j \in 1 .. Len(head) : head[j] = head[i]
  <2>1. k \in 1 .. Len(head) /\ head[k] = head[i]  OBVIOUS
  <2>2. k = i  BY <2>1 DEF Distinct
  <2> QED BY <1>1, <2>2 DEF Durable
<1>2. ASSUME NEW b \in Blocks, \A i \in 1 .. Len(head) : head[i] # b PROVE Durable[b] = home[b]
  BY <1>2 DEF Durable
<1> QED BY <1>1, <1>2

\* With an empty header the disk is what the home blocks hold.
LEMMA DurableHome ==
  ASSUME TypeOK, head = <<>>
  PROVE  Durable = home
<1>1. \A b \in Blocks : Durable[b] = home[b]  BY DEF Durable
<1> QED BY <1>1 DEF Durable, TypeOK

Current == IF machine = "boot" THEN Durable ELSE cache

\* One step of log.c is one step of the atomic disk, or none.
LEMMA DiskStep ==
  ASSUME LogInv, LogInv', [Next]_vars, Fits, Fits'
  PROVE  [Disk!Next]_(Disk!vars)
<1> USE DEF disk, memory, Up
<1>0. /\ TypeOK /\ CommitsAlone /\ BootShape /\ UpShape /\ TailShape /\ OpShape /\ DataShape
      /\ TypeOK' /\ CommitsAlone' /\ BootShape' /\ UpShape' /\ TailShape' /\ OpShape' /\ DataShape'
  BY DEF ReserveInv, LogSafe, LogInv
<1>n. /\ LOGSIZE \in Nat /\ Len(lh) \in Nat /\ Len(head) \in Nat /\ tail \in Nat /\ lh \in Seq(Blocks)
      /\ cache \in [Blocks -> Values] /\ home \in [Blocks -> Values] /\ slot \in [Slots -> Values]
      /\ machine \in {"boot", "up"} /\ head \in Seq(Blocks) /\ pc \in [Procs -> Labels]
  BY <1>0, LogAssumption DEF TypeOK
<1>s. ASSUME Durable' = Durable, Current' = Current, Active' = Active PROVE UNCHANGED Disk!vars
  BY <1>s DEF Disk!vars, Current
<1>d. ASSUME UNCHANGED <<head, home>>, UNCHANGED slot \/ head = <<>> PROVE Durable' = Durable
  BY <1>d DEF Durable, Copy
<1>f. ASSUME NEW i \in 1 .. Len(lh) PROVE i \in Slots /\ Copy(i) = slot[i]
  BY <1>n, LogAssumption DEF Fits, Slots, Copy
<1>1. CASE UNCHANGED vars
  BY <1>1, <1>s, <1>d DEF vars, Active, Current
<1>2. CASE write_log
  <2>0. tail + 1 \in Slots  BY <1>2, <1>n, <1>f DEF write_log
  <2>1. head = <<>> /\ UNCHANGED <<head, home, cache, machine, pc>>
    BY <1>0, <1>2, <2>0 DEF write_log, TailShape
  <2> QED BY <1>d, <1>s, <2>1 DEF Active, Current
<1>3. CASE write_head
  <2>1. /\ machine = "up" /\ UNCHANGED <<cache, machine, pc, home, slot, lh>> /\ head' = lh /\ tail = Len(lh)
        /\ stage = "log" /\ Active = {} /\ stage' = "install"
    BY <1>0, <1>3, <1>n DEF write_head, BootShape, UpShape, CommitsAlone
  <2>2. InUse = {}
    <3>1. \A p \in Procs : pc[p] \notin {"logging", "panicked"}  BY <2>1 DEF Active
    <3> QED BY <3>1, <1>0 DEF OpShape, InUse
  <2>0. (Distinct(head) =>
           /\ \A i \in 1 .. Len(head) : head[i] \in Blocks => Durable[head[i]] = Copy(i)
           /\ \A b \in Blocks : (\A i \in 1 .. Len(head) : head[i] # b) => Durable[b] = home[b])'
    BY DurableIs, PTL
  <2>3. \A b \in Blocks : Durable'[b] = cache[b]
    <3> SUFFICES ASSUME NEW b \in Blocks PROVE Durable'[b] = cache[b]  OBVIOUS
    <3>0. /\ \A i \in 1 .. Len(head') : head'[i] \in Blocks => Durable'[head'[i]] = Copy(i)'
          /\ (\A i \in 1 .. Len(head') : head'[i] # b) => Durable'[b] = home'[b]
      <4>1. Distinct(head)'  BY <1>0 DEF DataShape
      <4> QED BY <4>1, <2>0
    <3>1. CASE \E i \in 1 .. Len(lh) : lh[i] = b
      <4>1. PICK i \in 1 .. Len(lh) : lh[i] = b  BY <3>1
      <4>2. slot[i] = cache[b]  BY <1>0, <2>1, <4>1 DEF DataShape
      <4>3. Copy(i)' = slot[i]  BY <1>f, <2>1, <4>1 DEF Copy
      <4> QED BY <2>1, <3>0, <4>1, <4>2, <4>3
    <3>2. CASE \A i \in 1 .. Len(lh) : lh[i] # b
      <4>1. b \notin dirty  BY <1>0, <2>1, <3>2 DEF DataShape, Uninstalled
      <4>2. cache[b] = home[b]  BY <1>0, <2>2, <4>1 DEF DataShape
      <4> QED BY <2>1, <3>0, <3>2, <4>2
    <3> QED BY <3>1, <3>2
  <2>4. Durable' = cache  BY <2>3, <1>n DEF Durable
  <2>5. Active' = Active  BY <2>1 DEF Active
  <2>6. Disk!Commit  BY <2>1, <2>4, <2>5 DEF Disk!Commit
  <2> QED BY <2>6 DEF Disk!Next
<1>4. CASE read_head
  BY <1>4, <1>s, <1>d DEF read_head, Active, Current
<1>5. CASE install_trans
  <2>1. /\ stage = "install" /\ head = lh /\ UNCHANGED <<lh, head, slot, pc, machine>>
        /\ tail + 1 \in 1 .. Len(lh) /\ tail' = tail + 1 /\ tail < Len(lh)
    BY <1>0, <1>5, <1>n DEF install_trans, TailShape
  <2>2. PICK b \in Blocks : b = lh[tail + 1]  BY <1>n, <2>1
  <2>3. home' = [home EXCEPT ![b] = slot[tail + 1]] /\ cache' = [cache EXCEPT ![b] = slot[tail + 1]]
    BY <1>5, <1>f, <2>1, <2>2 DEF install_trans
  <2>4. Durable' = Durable
    <3>1. \A c \in Blocks : (\E i \in 1 .. Len(head) : head[i] = c) \/ home'[c] = home[c]
      BY <2>1, <2>2, <2>3, <1>n
    <3>2. \A i \in 1 .. Len(head) : Copy(i)' = Copy(i)  BY <1>f, <2>1 DEF Copy
    <3> QED BY <2>1, <3>1, <3>2 DEF Durable
  <2>5. machine = "up" => cache' = cache
    <3>1. machine = "up" => slot[tail + 1] = cache[b]  BY <1>0, <2>1, <2>2 DEF DataShape
    <3> QED BY <3>1, <2>3, <1>n
  <2>6. Active' = Active  BY <2>1 DEF Active
  <2> QED BY <1>s, <1>n, <2>1, <2>4, <2>5, <2>6 DEF Current
<1>6. CASE Erase
  <2>1. /\ stage = "install" /\ head = lh /\ tail = Len(lh) /\ head' = <<>> /\ machine' = "up"
        /\ UNCHANGED <<cache, home, slot, pc>>
    BY <1>0, <1>6 DEF Erase, TailShape
  <2>2. Durable' = home
    <3>1. (TypeOK /\ head = <<>> => Durable = home)'  BY DurableHome, PTL
    <3> QED BY <1>0, <2>1, <3>1
  <2>3. \A b \in Blocks : Durable[b] = home[b] /\ cache[b] = home[b]
    <3> SUFFICES ASSUME NEW b \in Blocks PROVE Durable[b] = home[b] /\ cache[b] = home[b]  OBVIOUS
    <3>0. /\ \A i \in 1 .. Len(head) : head[i] \in Blocks => Durable[head[i]] = Copy(i)
          /\ (\A i \in 1 .. Len(head) : head[i] # b) => Durable[b] = home[b]
      BY <1>0, DurableIs DEF DataShape
    <3>1. dirty = {} /\ InUse = {}
      <4>1. Uninstalled = {}  BY <1>n, <2>1 DEF Uninstalled
      <4>2. dirty = {}  BY <1>0, <1>n, <4>1 DEF DataShape, BootShape
      <4>3. \A p \in Procs : pc[p] \notin {"logging", "panicked"}
        BY <1>0, <1>n, <2>1 DEF BootShape, UpShape, CommitsAlone, Active
      <4> QED BY <4>2, <4>3, <1>0 DEF OpShape, InUse
    <3>2. cache[b] = home[b]  BY <1>0, <3>1 DEF DataShape
    <3>3. ASSUME NEW i \in 1 .. Len(lh), lh[i] = b PROVE home[b] = slot[i]
      <4>1. CASE machine = "up"  BY <1>0, <2>1, <3>2, <3>3, <4>1 DEF DataShape
      <4>2. CASE machine = "boot"  BY <1>0, <2>1, <3>3, <4>2 DEF DataShape
      <4> QED BY <1>n, <4>1, <4>2
    <3>4. \A i \in 1 .. Len(lh) : Copy(i) = slot[i]  BY <1>f
    <3> QED BY <2>1, <3>0, <3>2, <3>3, <3>4
  <2>4. Durable = home /\ cache = home
    <3>1. Durable = [b \in Blocks |-> Durable[b]]  BY DEF Durable
    <3>2. home = [b \in Blocks |-> home[b]] /\ cache = [b \in Blocks |-> cache[b]]  BY <1>n
    <3> QED BY <2>3, <3>1, <3>2
  <2>5. Active' = Active  BY <2>1 DEF Active
  <2>6. Current' = home /\ Current = home  BY <2>1, <2>4 DEF Current
  <2> QED BY <1>s, <2>2, <2>4, <2>5, <2>6
<1>7. CASE Crash
  <2>1. UNCHANGED <<head, home, slot>> /\ machine' = "boot" /\ pc' = [p \in Procs |-> "idle"]
    BY <1>7 DEF Crash
  <2>2. Durable' = Durable  BY <2>1, <1>d
  <2>3. Active' = {}  BY <2>1 DEF Active
  <2>4. Disk!Crash  BY <2>1, <2>2, <2>3 DEF Disk!Crash
  <2> QED BY <2>4 DEF Disk!Next
<1>8. ASSUME NEW b \in Blocks, Recycle(b) PROVE [Disk!Next]_(Disk!vars)
  <2>1. cache[b] = home[b]  BY <1>0, <1>8 DEF Recycle, DataShape
  <2>2. cache' = cache  BY <1>n, <1>8, <2>1 DEF Recycle
  <2> QED BY <1>8, <1>s, <1>d, <2>2 DEF Recycle, Active, Current
<1>9. ASSUME NEW p \in Procs, begin_op(p) PROVE [Disk!Next]_(Disk!vars)
  <2>1. UNCHANGED <<head, home, slot, cache, machine>> /\ machine = "up" /\ pc[p] \in {"idle", "begin"}
    BY <1>9 DEF begin_op
  <2>2. Durable' = Durable /\ Current' = Current  BY <2>1, <1>d DEF Current
  <2>3. CASE MustWait
    <3>1. Active' = Active  BY <1>9, <1>n, <2>1, <2>3 DEF begin_op, Goto, Active
    <3> QED BY <1>s, <2>2, <3>1
  <2>4. CASE ~MustWait
    <3>1. p \notin Active /\ Active' = Active \union {p}
      BY <1>9, <1>n, <2>1, <2>4 DEF begin_op, Goto, Active
    <3>2. Disk!Begin(p)  BY <2>2, <3>1 DEF Disk!Begin, Current
    <3> QED BY <3>2 DEF Disk!Next
  <2> QED BY <2>3, <2>4
<1>10. ASSUME NEW p \in Procs, end_op(p) PROVE [Disk!Next]_(Disk!vars)
  <2>1. /\ UNCHANGED <<head, home, slot, cache, machine>> /\ machine = "up" /\ pc[p] = "op" /\ p \in Active
    BY <1>10 DEF end_op, Active
  <2>2. ~committing  BY <1>0, <2>1 DEF CommitsAlone
  <2>3. Active' = Active \ {p}
    <3>1. CASE committing'
      BY <1>10, <1>n, <2>1, <2>2, <3>1 DEF end_op, Goto, Active
    <3>2. CASE ~committing'
      BY <1>10, <1>n, <2>1, <2>2, <3>2 DEF end_op, wakeup, Active
    <3> QED BY <3>1, <3>2
  <2>4. Durable' = Durable /\ Current' = Current  BY <2>1, <1>d DEF Current
  <2>5. Disk!End(p)  BY <2>1, <2>3, <2>4 DEF Disk!End, Current
  <2> QED BY <2>5 DEF Disk!Next
<1>11. ASSUME NEW p \in Procs, NEW b \in Blocks, NEW v \in Values, LogCheck(p, b, v)
       PROVE  [Disk!Next]_(Disk!vars)
  <2>1. /\ UNCHANGED <<head, home, slot, machine>> /\ machine = "up" /\ pc[p] = "op" /\ p \in Active
        /\ cache' = [cache EXCEPT ![b] = v]
    BY <1>11 DEF LogCheck, Active
  <2>2. Active' = Active
    <3>1. PICK l \in {"logging", "panicked"} : pc' = [pc EXCEPT ![p] = l]  BY <1>11 DEF LogCheck, Goto
    <3> QED BY <3>1, <1>n, <2>1 DEF Active
  <2>3. Durable' = Durable  BY <2>1, <1>d
  <2>4. Disk!Write(p, b, v)  BY <2>1, <2>2, <2>3 DEF Disk!Write
  <2> QED BY <2>4 DEF Disk!Next
<1>12. ASSUME NEW p \in Procs, LogAppend(p) PROVE [Disk!Next]_(Disk!vars)
  <2>1. UNCHANGED <<head, home, slot, cache, machine>> /\ pc[p] = "logging" /\ pc' = [pc EXCEPT ![p] = "op"]
    BY <1>12 DEF LogAppend, Goto
  <2>2. Active' = Active  BY <2>1, <1>n DEF Active
  <2>3. Durable' = Durable /\ Current' = Current  BY <2>1, <1>d DEF Current
  <2> QED BY <1>s, <2>2, <2>3
<1>13. ASSUME NEW p \in Procs, EndCommit(p) PROVE [Disk!Next]_(Disk!vars)
  <2>1. UNCHANGED <<head, home, slot, cache, machine>> /\ pc[p] = "commit" /\ wakeup(p, "idle")
    BY <1>13 DEF EndCommit
  <2>2. Active' = Active  BY <2>1, <1>n DEF Active, wakeup
  <2>3. Durable' = Durable /\ Current' = Current  BY <2>1, <1>d DEF Current
  <2> QED BY <1>s, <2>2, <2>3
<1> QED BY <1>1, <1>2, <1>3, <1>4, <1>5, <1>6, <1>7, <1>8, <1>9, <1>10, <1>11, <1>12, <1>13
        DEF Next, Committing

LEMMA DiskInit == Init => Disk!Init
<1> SUFFICES ASSUME Init PROVE Disk!Init  OBVIOUS
<1>1. Durable = home  BY DurableHome, ReserveInit DEF Init, ReserveInv, LogSafe
<1>2. Active = {} /\ machine = "boot" /\ home \in [Blocks -> Values]  BY DEF Init, Active
<1> QED BY <1>1, <1>2 DEF Disk!Init

\* The log of log.c implements the atomic disk for every number of processes
\* and blocks, with a crash possible at every step, recovery included, except
\* in the steps of a transaction longer than the log.
THEOREM AtomicDiskImplemented == Spec => ImplementsAtomicDisk
<1>2. Init => LogInv  BY ReserveInit, DataInit DEF LogInv
<1>3. LogInv /\ [Next]_vars => LogInv'  BY ReserveStep, DataStep DEF LogInv
<1>4. LogInv /\ LogInv' /\ [Next]_vars => [Fits /\ Fits' => Disk!Next]_(Disk!vars)  BY DiskStep
<1> QED BY DiskInit, <1>2, <1>3, <1>4, PTL DEF Spec, ImplementsAtomicDisk

\* No transaction is longer than a log with a block for each of the LOGSIZE
\* entries of log.lh: with one block more than mkfs gives it (mkfs.c:25) the
\* log would implement the atomic disk without exception.
THEOREM LongerLogSuffices ==
  ASSUME NLog > LOGSIZE
  PROVE  Spec => Disk!Spec
<1>1. LogInv => Fits
  BY LogAssumption DEF LogInv, ReserveInv, LogSafe, TypeOK, Fits
<1>2. Init => LogInv  BY ReserveInit, DataInit DEF LogInv
<1>3. LogInv /\ [Next]_vars => LogInv'  BY ReserveStep, DataStep DEF LogInv
<1>4. LogInv /\ Fits /\ LogInv' /\ Fits' /\ [Next]_vars => [Disk!Next]_(Disk!vars)  BY DiskStep
<1> QED BY DiskInit, <1>1, <1>2, <1>3, <1>4, PTL DEF Spec, Disk!Spec
=============================================================================
